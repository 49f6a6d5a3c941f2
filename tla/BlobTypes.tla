------------------------------ MODULE BlobTypes ------------------------------
(***************************************************************************)
(* What block blobs, page blobs and append blobs add to cloud_blob         *)
(* (cloud_block_blob.cpp, cloud_page_blob.cpp, cloud_append_blob.cpp), in  *)
(* the form of module CloudBlob.  The uploads that go through a stream are *)
(* in module OutputStream.                                                 *)
(***************************************************************************)
EXTENDS CloudBlob

-----------------------------------------------------------------------------
(* Block blobs.                                                            *)

BlockIds == {1, 2}

upload_block_async_impl(c, block_id, condition) ==
  Send(c, "upload_block", assert_no_snapshot(put_block(block_id, condition)),
       condition)

upload_block_response(c) == Answer(c, "upload_block", obj, OK)

upload_block(c) ==
  \E block_id \in BlockIds, condition \in
       {access_condition, generate_lease_condition(OurLease)} :
    upload_block_async_impl(c, block_id, condition)

upload_block_list_async_impl(c, blocks, condition) ==
  Send(c, "upload_block_list",
       assert_no_snapshot(put_block_list(blocks, obj.content, obj.meta,
                                         condition)), condition)

upload_block_list_response(c) ==
  Answer(c, "upload_block_list", update_etag_and_last_modified(obj, body(c)),
         OK)

upload_block_list(c) ==
  \E blocks \in {{1}, BlockIds}, condition \in Conditions :
    upload_block_list_async_impl(c, blocks, condition)

(* block_listing_filter: what the caller gets is a set of block ids.       *)
Filters == {"all", "committed", "uncommitted"}

download_block_list_async(c, filter, condition) ==
  execute_async(c, command("download_block_list",
    get_block_list(filter, obj.snapshot, condition), Both, {}, Empty,
    condition))

download_block_list_response(c) ==
  Answer(c, "download_block_list", update_etag_and_last_modified(obj, body(c)),
         OK)

download_block_list(c) ==
  \E filter \in Filters, condition \in ReadConditions :
    download_block_list_async(c, filter, condition)

(* upload_from_stream of a short stream puts the blob in one request.      *)
upload_single_async(c, condition) ==
  Send(c, "upload_from_stream",
       assert_no_snapshot(put_block_blob(obj.content, obj.meta, condition)),
       condition)

upload_single_response(c) ==
  Answer(c, "upload_from_stream", update_etag_and_last_modified(obj, body(c)),
         OK)

upload_from_stream(c) ==
  \E condition \in Conditions \cup {generate_if_not_exists_condition} :
    upload_single_async(c, condition)

(* No assert_no_snapshot, and no snapshot time in the request: on a        *)
(* snapshot's object the tier of the blob itself is set.                   *)
set_standard_blob_tier_async(c, tier, condition) ==
  execute_async(c, command("set_standard_blob_tier",
    set_blob_tier(tier, condition), PrimaryOnly, {}, tier, condition))

set_standard_blob_tier_response(c) ==
  Answer(c, "set_standard_blob_tier",
         [obj EXCEPT !.standard_tier = call[c].arg], OK)

set_standard_blob_tier(c) ==
  \E condition \in {access_condition, generate_lease_condition(OurLease)} :
    set_standard_blob_tier_async(c, Hot, condition)

-----------------------------------------------------------------------------
(* Page blobs.                                                             *)

PageConditions ==
  {access_condition, generate_if_match_condition(obj.etag),
   generate_lease_condition(OurLease)}
   \cup {generate_sequence_number_condition(op, obj.seq) :
           op \in sequence_number_operators \ {"none"}}

create_async(c, size, tier, seq, condition) ==
  Send(c, "create",
       assert_no_snapshot(put_page_blob(size, tier, seq, obj.content, obj.meta,
                                        condition)), condition)

(* The size and the tier the handler captures are those of the request.    *)
create_response(c) ==
  Answer(c, "create",
         [update_etag_and_last_modified(obj, body(c)) EXCEPT
            !.size = Get(call[c].req, "size"),
            !.premium_tier = Get(call[c].req, "tier")], OK)

create(c) ==
  \E tier \in {Empty, P4},
     condition \in Conditions \cup {generate_if_not_exists_condition} :
    create_async(c, 2, tier, 1, condition)

resize_async(c, size, condition) ==
  execute_async(c, command("resize",
    assert_no_snapshot(resize_page_blob(size, condition)), PrimaryOnly, {},
    size, condition))

resize_response(c) ==
  Answer(c, "resize",
         [update_page_blob_sequence_number(
            update_etag_and_last_modified(obj, body(c)), body(c)) EXCEPT
            !.size = call[c].arg], OK)

resize(c) ==
  \E condition \in Conditions : resize_async(c, 3, condition)

set_sequence_number_async(c, action, value, condition) ==
  Send(c, "set_sequence_number",
       assert_no_snapshot(
         set_page_blob_sequence_number(action, value, condition)), condition)

(* The handler of set_sequence_number, clear_pages and upload_pages.       *)
page_response(c, op) ==
  Answer(c, op, update_page_blob_sequence_number(
                  update_etag_and_last_modified(obj, body(c)), body(c)), OK)

set_sequence_number_response(c) == page_response(c, "set_sequence_number")

set_sequence_number(c) ==
  \E action \in {"increment", "update", "max"},
     condition \in {access_condition, generate_if_match_condition(obj.etag)} :
    set_sequence_number_async(c, action, 1, condition)

clear_pages_async(c, condition) ==
  Send(c, "clear_pages", assert_no_snapshot(put_page(1, "clear", condition)),
       condition)

clear_pages_response(c) == page_response(c, "clear_pages")

clear_pages(c) ==
  \E condition \in PageConditions : clear_pages_async(c, condition)

upload_pages_async_impl(c, condition) ==
  Send(c, "upload_pages", assert_no_snapshot(put_page(1, "update", condition)),
       condition)

upload_pages_response(c) == page_response(c, "upload_pages")

upload_pages(c) ==
  \E condition \in PageConditions : upload_pages_async_impl(c, condition)

download_page_ranges_async(c, condition) ==
  execute_async(c, command("download_page_ranges",
    get_page_ranges(obj.snapshot, condition), Both, {}, Empty, condition))

download_page_ranges_response(c) ==
  Answer(c, "download_page_ranges",
         update_size(update_etag_and_last_modified(obj, body(c)), body(c)), OK)

download_page_ranges(c) ==
  \E condition \in ReadConditions : download_page_ranges_async(c, condition)

download_page_ranges_diff_async_impl(c, previous, condition) ==
  execute_async(c, command("download_page_ranges_diff",
    get_page_ranges_diff(previous, obj.snapshot, condition), Both, {}, Empty,
    condition))

download_page_ranges_diff_response(c) ==
  Answer(c, "download_page_ranges_diff",
         update_size(update_etag_and_last_modified(obj, body(c)), body(c)), OK)

(* By the time of the earlier snapshot ...                                 *)
download_page_ranges_diff(c) ==
  \E condition \in ReadConditions :
    download_page_ranges_diff_async_impl(c, 1, condition)

(* ... or, for managed disks, by its address, which is not modelled.       *)
download_page_ranges_diff_md(c) ==
  \E condition \in ReadConditions :
    download_page_ranges_diff_async_impl(c, Empty, condition)

start_incremental_copy_async(c, condition) ==
  Send(c, "start_incremental_copy",
       assert_no_snapshot(incremental_copy_blob(Source, condition, obj.meta)),
       condition)

(* The copy gives the blob a new version; the handler takes no etag.       *)
start_incremental_copy_response(c) ==
  Answer(c, "start_incremental_copy",
         [obj EXCEPT !.copy = parse_copy_state(body(c))],
         parse_copy_state(body(c)))

start_incremental_copy(c) ==
  \E condition \in Conditions : start_incremental_copy_async(c, condition)

set_premium_blob_tier_async(c, tier, condition) ==
  execute_async(c, command("set_premium_blob_tier",
    set_blob_tier(tier, condition), PrimaryOnly, {}, tier, condition))

set_premium_blob_tier_response(c) ==
  Answer(c, "set_premium_blob_tier",
         [obj EXCEPT !.premium_tier = call[c].arg], OK)

set_premium_blob_tier(c) ==
  \E condition \in {access_condition, generate_lease_condition(OurLease)} :
    set_premium_blob_tier_async(c, P4, condition)

(* start_copy of a page blob names the tier of the copy.                   *)
page_start_copy(c) ==
  \E tier \in {Empty, P4}, condition \in Conditions :
    start_copy_async_impl(c, tier, Empty, access_condition, condition)

-----------------------------------------------------------------------------
(* Append blobs.                                                           *)

create_or_replace_async_impl(c, condition) ==
  Send(c, "create_or_replace",
       assert_no_snapshot(put_append_blob(obj.content, obj.meta, condition)),
       condition)

(* The committed block count of the blob that was replaced stays.          *)
create_or_replace_response(c) ==
  Answer(c, "create_or_replace",
         [update_etag_and_last_modified(obj, body(c)) EXCEPT !.size = 0], OK)

create_or_replace(c) ==
  \E condition \in Conditions \cup {generate_if_not_exists_condition} :
    create_or_replace_async_impl(c, condition)

append_block_async_impl(c, condition) ==
  Send(c, "append_block", assert_no_snapshot(append_block(condition)),
       condition)

(* The caller gets the offset its block was appended at.                   *)
append_block_response(c) ==
  Answer(c, "append_block",
         update_append_blob_committed_block_count(
           update_etag_and_last_modified(obj, body(c)), body(c)),
         body(c).size - 1)

append_block_call(c) ==
  \E condition \in
      {access_condition, generate_if_match_condition(obj.etag),
       generate_lease_condition(OurLease),
       [access_condition EXCEPT !.append_position = obj.size],
       [access_condition EXCEPT !.max_size = 1]} :
    append_block_async_impl(c, condition)
=============================================================================

----------------------------- MODULE BlobRequests -----------------------------
(***************************************************************************)
(* The request builders of the blob service (blob_request_factory.cpp):    *)
(* which component a request addresses, and which of the caller's          *)
(* arguments and conditions reach the service.                             *)
(***************************************************************************)
EXTENDS RequestFactory

add_snapshot_time(request, snapshot_time) ==
  add_optional_header(request, "snapshot", snapshot_time)

(* add_properties: the content headers, taken together as one value.       *)
add_properties(request, content) ==
  add_optional_header(request, "content", content)

-----------------------------------------------------------------------------
(* Containers.                                                             *)

add_blob_container_public_access_type(request, access_type) ==
  add_optional_header(request, "public_access", access_type)

create_blob_container(access_type, metadata) ==
  add_metadata(
    add_blob_container_public_access_type(base_request("PUT", "container"),
                                          access_type), metadata)

delete_blob_container(condition) ==
  add_access_condition(base_request("DEL", "container"), condition)

get_blob_container_properties(condition) ==
  add_access_condition(base_request("HEAD", "container"), condition)

get_blob_container_acl(condition) ==
  add_lease_id(base_request("GET", "acl"), condition)

set_blob_container_acl(access_type, condition) ==
  add_lease_id(
    add_blob_container_public_access_type(base_request("PUT", "acl"),
                                          access_type), condition)

-----------------------------------------------------------------------------
(* Leases.                                                                 *)

lease(action, proposed_lease_id, duration, break_period) ==
  add_optional_headers(
    add_header(base_request("PUT", "lease"), "action", action),
    [proposed |-> proposed_lease_id,
     duration |-> IF action = "acquire" THEN duration ELSE Empty,
     break_period |-> IF action = "break" THEN break_period ELSE Empty])

lease_blob_container(action, proposed, duration, break_period, condition) ==
  add_lease_id(lease(action, proposed, duration, break_period), condition)

lease_blob(action, proposed_lease_id, duration, break_period, condition) ==
  add_access_condition(
    lease(action, proposed_lease_id, duration, break_period), condition)

-----------------------------------------------------------------------------
(* Blobs of every type.                                                    *)

get_blob_properties(snapshot_time, condition) ==
  add_access_condition(
    add_snapshot_time(base_request("HEAD", "blob"), snapshot_time), condition)

(* Mutant: the condition is not sent.                                      *)
Mutant_set_blob_metadata(metadata, condition) ==
  add_metadata(base_request("PUT", "metadata"), metadata)

set_blob_metadata(metadata, condition) ==
  add_access_condition(add_metadata(base_request("PUT", "metadata"), metadata),
                       condition)

set_blob_container_metadata(metadata, condition) ==
  set_blob_metadata(metadata, condition)

set_blob_properties(content, metadata, condition) ==
  add_access_condition(
    add_metadata(add_properties(base_request("PUT", "properties"), content),
                 metadata), condition)

delete_blob(snapshots_option, snapshot_time, condition) ==
  IF snapshot_time # Empty /\ snapshots_option # Empty THEN invalid_argument
  ELSE add_access_condition(
         add_optional_header(
           add_snapshot_time(base_request("DEL", "blob"), snapshot_time),
           "delete_snapshots", snapshots_option), condition)

copy_blob(source, tier, source_condition, metadata, condition) ==
  add_metadata(
    add_access_condition(
      add_source_access_condition(
        add_optional_header(add_header(base_request("PUT", "copy"),
                                       "copy_source", source),
                            "tier", tier), source_condition), condition),
    metadata)

abort_copy_blob(copy_id, condition) ==
  add_lease_id(add_header(base_request("PUT", "abort"), "copy_id", copy_id),
               condition)

snapshot_blob(metadata, condition) ==
  add_access_condition(add_metadata(base_request("PUT", "snapshot"), metadata),
                       condition)

set_blob_tier(tier, condition) ==
  add_access_condition(add_header(base_request("PUT", "tier"), "tier", tier),
                       condition)

-----------------------------------------------------------------------------
(* Block blobs.                                                            *)

(* Mutant: the lease id is not sent.                                       *)
Mutant_put_block(block_id, condition) ==
  add_header(base_request("PUT", "block"), "block_id", block_id)

put_block(block_id, condition) ==
  add_lease_id(add_header(base_request("PUT", "block"), "block_id", block_id),
               condition)

put_block_list(blocks, content, metadata, condition) ==
  add_access_condition(
    add_metadata(
      add_properties(add_header(base_request("PUT", "blocklist"),
                                "blocks", blocks), content), metadata),
    condition)

get_block_list(listing_filter, snapshot_time, condition) ==
  add_access_condition(
    add_snapshot_time(add_header(base_request("GET", "blocklist"),
                                 "filter", listing_filter), snapshot_time),
    condition)

put_block_blob(content, metadata, condition) ==
  add_access_condition(
    add_metadata(add_properties(base_request("PUT", "block_blob"), content),
                 metadata), condition)

-----------------------------------------------------------------------------
(* Page blobs.                                                             *)

put_page_blob(size, tier, sequence_number, content, metadata, condition) ==
  add_access_condition(
    add_metadata(
      add_properties(
        add_optional_header(
          add_header(add_header(base_request("PUT", "page_blob"),
                                "size", size),
                     "seq", sequence_number), "tier", tier), content),
      metadata), condition)

resize_page_blob(size, condition) ==
  add_access_condition(
    add_header(base_request("PUT", "properties"), "size", size), condition)

set_page_blob_sequence_number(action, value, condition) ==
  LET request == add_header(base_request("PUT", "properties"),
                            "seq_action", action)
  IN add_access_condition(
       IF action = "increment" THEN request
       ELSE add_header(request, "seq", value), condition)

get_page_ranges(snapshot_time, condition) ==
  add_access_condition(
    add_snapshot_time(base_request("GET", "pagelist"), snapshot_time),
    condition)

get_page_ranges_diff(previous_snapshot_time, snapshot_time, condition) ==
  add_access_condition(
    add_optional_header(
      add_snapshot_time(base_request("GET", "pagelist"), snapshot_time),
      "prevsnapshot", previous_snapshot_time), condition)

put_page(page, write, condition) ==
  add_access_condition(
    add_sequence_number_condition(
      add_header(add_header(base_request("PUT", "page"), "range", page),
                 "page_write", write), condition), condition)

incremental_copy_blob(source, condition, metadata) ==
  add_metadata(
    add_access_condition(add_header(base_request("PUT", "incrementalcopy"),
                                    "copy_source", source), condition),
    metadata)

-----------------------------------------------------------------------------
(* Append blobs.                                                           *)

put_append_blob(content, metadata, condition) ==
  add_access_condition(
    add_metadata(add_properties(base_request("PUT", "append_blob"), content),
                 metadata), condition)

append_block(condition) ==
  add_access_condition(
    add_append_condition(base_request("PUT", "appendblock"), condition),
    condition)
=============================================================================

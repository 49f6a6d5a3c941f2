------------------------------ MODULE CloudBlob ------------------------------
(***************************************************************************)
(* The operations of cloud_blob that every type of blob has: attributes,   *)
(* leases, copies, snapshots and deletion.  Each has up to three parts,    *)
(* named after the code: the public overloads of blob.h (x), the command   *)
(* that cloud_blob.cpp builds (x_async), and its handler (x_response).     *)
(* obj is the object's shared state (m_properties, m_metadata,             *)
(* m_copy_state), svc the blob the service has.                            *)
(***************************************************************************)
EXTENDS StorageCommand, BlobRequests, BlobService

TypeMismatch == 602    \* update_all's exception

-----------------------------------------------------------------------------
(* The object and the blob.                                                *)

cloud_blob_properties ==
  [etag |-> Empty, content |-> Empty, size |-> Empty, seq |-> Empty,
   count |-> Empty, standard_tier |-> Empty, premium_tier |-> Empty,
   lease_state |-> Empty, type |-> "unspecified"]

cloud_blob(type, snapshot_time) ==
  Over([cloud_blob_properties EXCEPT !.type = type],
       [meta |-> Empty, copy |-> Empty, snapshot |-> snapshot_time])

(* One header names the tier, whichever kind it is.                        *)
parse_standard_blob_tier(value) == IF value = Hot THEN Hot ELSE Empty

parse_premium_blob_tier(value) == IF value = P4 THEN P4 ELSE Empty

parse_blob_properties(response) ==
  [etag |-> response.etag, content |-> response.content,
   size |-> response.size, seq |-> response.seq, count |-> response.count,
   standard_tier |-> parse_standard_blob_tier(response.tier),
   premium_tier |-> parse_premium_blob_tier(response.tier),
   lease_state |-> parse_lease_state(response),
   type |-> response.type]

update_size(o, response) == [o EXCEPT !.size = response.size]

update_page_blob_sequence_number(o, response) ==
  [o EXCEPT !.seq = response.seq]

update_append_blob_committed_block_count(o, response) ==
  [o EXCEPT !.count = response.count]

(* update_all: the type an object was made for never changes.              *)
type_mismatch(o, response) ==
  o.type # "unspecified" /\ o.type # response.type

update_all(o, response) == Over(parse_blob_properties(response), o)

initialization(o) == [o EXCEPT !.lease_state = Empty]

copy_from_root(snapshot, root) ==
  [snapshot EXCEPT !.size = root.size, !.etag = root.etag, !.type = root.type,
                   !.seq = root.seq, !.content = root.content]

(* assert_no_snapshot: a snapshot is never written to.                     *)
(* Mutant: a snapshot is let through.                                      *)
Mutant_assert_no_snapshot(request) == request

assert_no_snapshot(request) ==
  IF obj.snapshot # Empty THEN invalid_argument ELSE request

(* The conditions callers use: none, on the etag or the time the object    *)
(* has cached, and the lease they hold.                                    *)
Conditions ==
  {access_condition, generate_if_match_condition(obj.etag),
   generate_lease_condition(OurLease)}

TimeConditions ==
  {generate_if_not_modified_since_condition(obj.etag),
   set_lease_id(generate_if_match_condition(obj.etag), OurLease)}

ReadConditions ==
  {access_condition, generate_if_none_match_condition(obj.etag),
   generate_if_modified_since_condition(obj.etag)}

-----------------------------------------------------------------------------
(* Attributes.                                                             *)

(* The common part of the handlers that replace all the object knows.      *)
attributes(o, response) ==
  [update_all(o, response) EXCEPT !.meta = parse_metadata(response),
                                  !.copy = parse_copy_state(response)]

exists_async_impl(c, both) ==
  execute_async(c, command("exists",
    get_blob_properties(obj.snapshot, access_condition), both, {NotFound},
    Empty, access_condition))

exists_response(c) ==
  /\ Accepted(c, "exists")
  /\ IF call[c].resp.code = NotFound THEN Return(c, obj, 0)
     ELSE IF type_mismatch(obj, body(c)) THEN Return(c, obj, TypeMismatch)
     ELSE Return(c, attributes(obj, body(c)), 1)

exists(c) == exists_async_impl(c, Both)

download_attributes_async(c, condition) ==
  execute_async(c, command("download_attributes",
    get_blob_properties(obj.snapshot, condition), Both, {}, Empty, condition))

download_attributes_response(c) ==
  /\ Accepted(c, "download_attributes")
  /\ IF type_mismatch(obj, body(c)) THEN Return(c, obj, TypeMismatch)
     ELSE Return(c, attributes(obj, body(c)), OK)

download_attributes(c) ==
  \E condition \in ReadConditions : download_attributes_async(c, condition)

upload_metadata_async(c, condition) ==
  Send(c, "upload_metadata",
       assert_no_snapshot(set_blob_metadata(obj.meta, condition)), condition)

(* Mutant: the etag of the answer is not kept.                             *)
Mutant_upload_metadata_response(c) == Answer(c, "upload_metadata", obj, OK)

upload_metadata_response(c) ==
  Answer(c, "upload_metadata", update_etag_and_last_modified(obj, body(c)), OK)

upload_metadata(c) ==
  \E condition \in Conditions \cup TimeConditions : upload_metadata_async(c, condition)

upload_properties_async_impl(c, condition) ==
  Send(c, "upload_properties",
       assert_no_snapshot(set_blob_properties(obj.content, obj.meta, condition)),
       condition)

upload_properties_response(c) ==
  Answer(c, "upload_properties",
         update_page_blob_sequence_number(
           update_etag_and_last_modified(obj, body(c)), body(c)), OK)

upload_properties(c) ==
  \E condition \in Conditions : upload_properties_async_impl(c, condition)

(* metadata() and properties() give the caller the object's own maps.      *)
set_metadata == \E value \in Metadata \ (Plain \cup {obj.meta}) :
                  Local([obj EXCEPT !.meta = value])

set_content == \E value \in Values \ {obj.content} :
                 Local([obj EXCEPT !.content = value])

-----------------------------------------------------------------------------
(* Deletion.  delete_snapshots_option: Empty none, 1 include, 2 only.      *)

delete_blob_async(c, option, condition) ==
  Send(c, "delete_blob", delete_blob(option, obj.snapshot, condition),
       condition)

delete_blob_response(c) ==
  Answer(c, "delete_blob", initialization(obj), OK)

delete_blob_call(c) ==
  \E condition \in Conditions, option \in {Empty, 1, 2} :
    delete_blob_async(c, option, condition)

(* delete_blob_if_exists asks the primary whether the blob exists, and     *)
(* deletes it if so, in the time that is left.  The time it starts at is   *)
(* noted only if the call itself set a maximum execution time.             *)
(* Mutant: the secondary is asked as well.                                 *)
Mutant_delete_blob_if_exists_async(c, option, options, condition) ==
  execute_async(c,
    [command("delete_blob_if_exists",
             get_blob_properties(obj.snapshot, access_condition), Both,
             {NotFound}, option, condition) EXCEPT
       !.time = new_max_execution_time(options, first_time_point(options))])

delete_blob_if_exists_async(c, option, options, condition) ==
  execute_async(c,
    [command("delete_blob_if_exists",
             get_blob_properties(obj.snapshot, access_condition), PrimaryOnly,
             {NotFound}, option, condition) EXCEPT
       !.time = new_max_execution_time(options, first_time_point(options))])

delete_blob_if_exists_exists(c) ==
  /\ Accepted(c, "delete_blob_if_exists") /\ call[c].step = 1
  /\ IF call[c].resp.code = NotFound THEN Return(c, obj, 0)
     ELSE IF type_mismatch(obj, body(c)) THEN Return(c, obj, TypeMismatch)
     ELSE Continue(c, attributes(obj, body(c)),
                   delete_blob(call[c].arg, obj.snapshot, call[c].cond),
                   {NotFound})

delete_blob_if_exists_response(c) ==
  /\ Accepted(c, "delete_blob_if_exists") /\ call[c].step = 2
  /\ IF call[c].resp.code = NotFound THEN Return(c, obj, 0)
     ELSE Return(c, initialization(obj), 1)

delete_blob_if_exists(c) ==
  \E condition \in {access_condition, generate_lease_condition(OurLease)},
     option \in {Empty, 1}, options \in CallMaxTime :
    delete_blob_if_exists_async(c, option, options, condition)

-----------------------------------------------------------------------------
(* Leases.  The id a lease call gives back is the one the service answers. *)

acquire_lease_async(c, duration, proposed, condition) ==
  Send(c, "acquire_lease",
       assert_no_snapshot(lease_blob("acquire", proposed, duration, Empty,
                                     condition)), condition)

acquire_lease_response(c) ==
  Answer(c, "acquire_lease", update_etag_and_last_modified(obj, body(c)),
         parse_lease_id(body(c)))

acquire_lease(c) ==
  \E duration \in Durations, proposed \in {Empty, OurLease},
     condition \in Conditions :
    acquire_lease_async(c, duration, proposed, condition)

(* renew, change and release are refused without a lease id.               *)
assert_lease_id(condition, request) ==
  IF condition.lease_id = Empty THEN invalid_argument ELSE request

renew_lease_async(c, condition) ==
  Send(c, "renew_lease",
       assert_lease_id(condition, assert_no_snapshot(
         lease_blob("renew", Empty, Empty, Empty, condition))), condition)

renew_lease_response(c) ==
  Answer(c, "renew_lease", update_etag_and_last_modified(obj, body(c)), OK)

renew_lease(c) ==
  \E condition \in Conditions : renew_lease_async(c, condition)

change_lease_async(c, proposed, condition) ==
  Send(c, "change_lease",
       assert_lease_id(condition, assert_no_snapshot(
         lease_blob("change", proposed, Empty, Empty, condition))), condition)

change_lease_response(c) ==
  Answer(c, "change_lease", update_etag_and_last_modified(obj, body(c)),
         parse_lease_id(body(c)))

change_lease(c) ==
  \E condition \in {access_condition, generate_lease_condition(TheirLease)} :
    change_lease_async(c, OurLease, condition)

release_lease_async(c, condition) ==
  Send(c, "release_lease",
       assert_lease_id(condition, assert_no_snapshot(
         lease_blob("release", Empty, Empty, Empty, condition))), condition)

release_lease_response(c) ==
  Answer(c, "release_lease", update_etag_and_last_modified(obj, body(c)), OK)

release_lease(c) ==
  \E condition \in Conditions : release_lease_async(c, condition)

break_lease_async(c, break_period, condition) ==
  Send(c, "break_lease",
       assert_no_snapshot(lease_blob("break", Empty, Empty, break_period,
                                     condition)), condition)

break_lease_response(c) ==
  Answer(c, "break_lease", update_etag_and_last_modified(obj, body(c)),
         parse_lease_time(body(c)))

break_lease(c) ==
  \E break_period \in {Empty, 1}, condition \in Conditions :
    break_lease_async(c, break_period, condition)

-----------------------------------------------------------------------------
(* Copies and snapshots.                                                   *)

Source == 1

start_copy_async_impl(c, tier, metadata, source_condition, condition) ==
  execute_async(c, command("start_copy",
    assert_no_snapshot(copy_blob(Source, tier, source_condition, metadata,
                                 condition)), PrimaryOnly, {}, tier,
    condition))

start_copy_response(c) ==
  Answer(c, "start_copy",
         [update_etag_and_last_modified(obj, body(c)) EXCEPT
            !.premium_tier = call[c].arg, !.copy = parse_copy_state(body(c))],
         parse_copy_state(body(c)))

start_copy(c) ==
  \E condition \in Conditions, source_condition \in
       {access_condition, generate_lease_condition(TheirLease)} :
    start_copy_async_impl(c, Empty, Empty, source_condition, condition)

abort_copy_async(c, copy_id, condition) ==
  Send(c, "abort_copy", assert_no_snapshot(abort_copy_blob(copy_id, condition)),
       condition)

abort_copy_response(c) == Answer(c, "abort_copy", obj, OK)

(* The caller gives the id of the copy the object was told of, or one it   *)
(* has noted before.                                                       *)
NotedCopy == 2

abort_copy(c) ==
  \E copy_id \in {NotedCopy} \cup ({obj.copy} \ {Empty}),
     condition \in {access_condition, generate_lease_condition(OurLease)} :
    abort_copy_async(c, copy_id, condition)

(* The snapshot object gets the metadata given or, without any, those of   *)
(* the object it was taken from; the caller gets the metadata it holds.    *)
create_snapshot_async(c, metadata, condition) ==
  execute_async(c, command("create_snapshot",
    assert_no_snapshot(snapshot_blob(metadata, condition)), PrimaryOnly, {},
    metadata, condition))

snapshot_of(c) ==
  [copy_from_root(cloud_blob("unspecified", 1), obj) EXCEPT
     !.meta = IF call[c].arg = Empty THEN obj.meta ELSE call[c].arg,
     !.etag = body(c).etag]

create_snapshot_response(c) ==
  Answer(c, "create_snapshot", update_etag_and_last_modified(obj, body(c)),
         snapshot_of(c).meta)

create_snapshot(c) ==
  \E metadata \in {Empty, 2}, condition \in Conditions :
    create_snapshot_async(c, metadata, condition)
=============================================================================

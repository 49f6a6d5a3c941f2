------------------------------ MODULE CloudFile ------------------------------
(***************************************************************************)
(* cloud_file, in the form of module CloudBlob: obj is the file's          *)
(* m_properties, m_metadata and m_copy_state, shared by all its calls.     *)
(***************************************************************************)
EXTENDS CloudFileShare

cloud_file_properties ==
  [etag |-> Empty, length |-> Empty, content |-> Empty, md5 |-> Empty,
   attributes |-> Empty, lease_state |-> Empty]

cloud_file == Over(cloud_file_properties, [meta |-> Empty, copy |-> Empty])

parse_file_size(response) == response.length

parse_file_properties(response) ==
  [etag |-> response.etag, length |-> parse_file_size(response),
   content |-> response.content, md5 |-> response.md5,
   attributes |-> response.attributes,
   lease_state |-> parse_lease_state(response)]

update_acl_attributes_filetime_and_fileid(o, response) ==
  [o EXCEPT !.attributes = response.attributes]

update_lease(o, response) ==
  [o EXCEPT !.lease_state = parse_lease_state(response)]

FileConditions == {access_condition, generate_lease_condition(OurLease)}

file_attributes(o, response) ==
  [Over(parse_file_properties(response), o) EXCEPT
     !.meta = parse_metadata(response)]

-----------------------------------------------------------------------------
(* Creation and deletion.                                                  *)

file_create_async(c, length, condition) ==
  Send(c, "create", create_file(length, obj.meta, obj, condition), condition)

file_created(c) ==
  [update_acl_attributes_filetime_and_fileid(
     update_etag_and_last_modified(obj, body(c)), body(c)) EXCEPT
     !.length = call[c].req["length"]]

file_create_response(c) == Answer(c, "create", file_created(c), OK)

file_create(c) ==
  \E condition \in FileConditions : file_create_async(c, 2, condition)

(* The request that creates the file has no condition on its absence: a    *)
(* file somebody else has created since is replaced.                       *)
file_create_if_not_exists_async(c, length, condition) ==
  exists_first(c, "create_if_not_exists", get_file_properties(condition),
               PrimaryOnly, length, condition)

file_create_if_not_exists_exists(c) ==
  unless_exists(c, "create_if_not_exists", file_attributes(obj, body(c)),
                create_file(call[c].arg, obj.meta, obj, call[c].cond), {})

file_create_if_not_exists_response(c) ==
  acted(c, "create_if_not_exists", file_created(c))

file_create_if_not_exists(c) ==
  \E condition \in FileConditions :
    file_create_if_not_exists_async(c, 2, condition)

delete_file_async(c, condition) ==
  Send(c, "delete_file", delete_file(condition), condition)

delete_file_response(c) == Answer(c, "delete_file", obj, OK)

delete_file_call(c) ==
  \E condition \in FileConditions : delete_file_async(c, condition)

(* Asks a location that may be the secondary.                              *)
delete_file_if_exists_async(c, condition) ==
  exists_first(c, "delete_if_exists", get_file_properties(condition),
               Both, Empty, condition)

delete_file_if_exists_exists(c) ==
  if_exists(c, "delete_if_exists", file_attributes(obj, body(c)),
            delete_file(call[c].cond), {})

delete_file_if_exists_response(c) == acted(c, "delete_if_exists", obj)

delete_file_if_exists(c) ==
  \E condition \in FileConditions : delete_file_if_exists_async(c, condition)

(* The overloads of file.h ask the primary only.                           *)
file_exists_async(c, both, condition) ==
  exists_first(c, "exists", get_file_properties(condition), both, Empty,
               condition)

file_exists_response(c) == whether_exists(c, file_attributes(obj, body(c)))

file_exists(c) ==
  \E condition \in FileConditions : file_exists_async(c, PrimaryOnly, condition)

-----------------------------------------------------------------------------
(* Attributes.                                                             *)

file_download_attributes_async(c, condition) ==
  Send(c, "download_attributes", get_file_properties(condition), condition)

file_download_attributes_response(c) ==
  Answer(c, "download_attributes",
         [file_attributes(obj, body(c)) EXCEPT
            !.copy = parse_copy_state(body(c))], OK)

file_download_attributes(c) ==
  \E condition \in FileConditions : file_download_attributes_async(c, condition)

file_upload_properties_async(c, condition) ==
  Send(c, "upload_properties", set_file_properties(obj, condition), condition)

file_upload_properties_response(c) ==
  Answer(c, "upload_properties",
         update_acl_attributes_filetime_and_fileid(
           update_etag_and_last_modified(obj, body(c)), body(c)), OK)

file_upload_properties(c) ==
  \E condition \in FileConditions : file_upload_properties_async(c, condition)

file_upload_metadata_async(c, condition) ==
  Send(c, "upload_metadata", set_file_metadata(obj.meta, condition), condition)

file_upload_metadata_response(c) ==
  Answer(c, "upload_metadata", update_etag_and_last_modified(obj, body(c)), OK)

file_upload_metadata(c) ==
  \E condition \in FileConditions : file_upload_metadata_async(c, condition)

(* The length that is asked for is cached before the request is sent, and  *)
(* stays if the service refuses it.                                        *)
file_resize_async(c, length, condition) ==
  LET resized == [obj EXCEPT !.length = length]
  IN /\ ~Active(c)
     /\ left.calls > 0
     /\ left' = [left EXCEPT !.calls = @ - 1]
     /\ obj' = resized
     /\ calm' = (calm /\ Quiet)
     /\ call' = [call EXCEPT ![c] =
                   [command("resize",
                            resize_with_properties(resized, condition),
                            PrimaryOnly, {}, length, condition) EXCEPT
                      !.st = "sent", !.seen = {svc.there}]]
     /\ UNCHANGED <<kind, svc, sec>>

file_resize_response(c) ==
  Answer(c, "resize", update_etag_and_last_modified(obj, body(c)), OK)

file_resize(c) ==
  \E condition \in FileConditions : file_resize_async(c, 3, condition)

-----------------------------------------------------------------------------
(* Contents.  The MD5 of the range that is written becomes the file's in   *)
(* the object.                                                             *)

list_ranges_async(c, condition) ==
  Send(c, "list_ranges", list_file_ranges(condition), condition)

list_ranges_response(c) ==
  Answer(c, "list_ranges",
         [update_etag_and_last_modified(obj, body(c)) EXCEPT
            !.length = parse_file_size(body(c))], OK)

list_ranges(c) ==
  \E condition \in FileConditions : list_ranges_async(c, condition)

clear_range_async(c, condition) ==
  Send(c, "clear_range", put_file_range("clear", Empty, condition), condition)

clear_range_response(c) ==
  Answer(c, "clear_range",
         [update_etag_and_last_modified(obj, body(c)) EXCEPT !.md5 = Empty], OK)

clear_range(c) ==
  \E condition \in FileConditions : clear_range_async(c, condition)

write_range_async(c, content_md5, condition) ==
  Send(c, "write_range", put_file_range("update", content_md5, condition),
       condition)

write_range_response(c) ==
  Answer(c, "write_range",
         [update_etag_and_last_modified(obj, body(c)) EXCEPT !.md5 = RangeMd5],
         OK)

write_range(c) ==
  \E content_md5 \in {Empty, RangeMd5}, condition \in FileConditions :
    write_range_async(c, content_md5, condition)

-----------------------------------------------------------------------------
(* Copies: from a file, whose source condition is ignored, or from a blob. *)

FileSource == 1

file_start_copy_async(c, source_condition, condition) ==
  Send(c, "start_copy", copy_file(FileSource, obj.meta, condition), condition)

file_start_copy_from_blob_async(c, source_condition, condition) ==
  Send(c, "start_copy",
       copy_file_from_blob(FileSource, source_condition, obj.meta, condition),
       condition)

file_start_copy_response(c) ==
  Answer(c, "start_copy",
         [update_etag_and_last_modified(obj, body(c)) EXCEPT
            !.copy = parse_copy_state(body(c))], parse_copy_state(body(c)))

file_start_copy(c) ==
  \E condition \in FileConditions, source_condition \in
       {access_condition, generate_lease_condition(TheirLease)} :
    \/ file_start_copy_async(c, source_condition, condition)
    \/ file_start_copy_from_blob_async(c, source_condition, condition)

file_abort_copy_async(c, copy_id, condition) ==
  Send(c, "abort_copy", abort_copy_file(copy_id, condition), condition)

file_abort_copy_response(c) == Answer(c, "abort_copy", obj, OK)

file_abort_copy(c) ==
  /\ obj.copy # Empty
  /\ \E condition \in FileConditions :
       file_abort_copy_async(c, obj.copy, condition)

-----------------------------------------------------------------------------
(* Leases: they are infinite, and the lease id is not asserted.            *)

file_lease(o, c) ==
  update_lease(update_etag_and_last_modified(o, body(c)), body(c))

file_acquire_lease_async(c, proposed, condition) ==
  Send(c, "acquire_lease", lease_file("acquire", proposed, condition),
       condition)

file_acquire_lease_response(c) ==
  Answer(c, "acquire_lease", file_lease(obj, c), parse_lease_id(body(c)))

file_acquire_lease(c) ==
  \E proposed \in {Empty, OurLease}, condition \in FileConditions :
    file_acquire_lease_async(c, proposed, condition)

file_change_lease_async(c, proposed, condition) ==
  Send(c, "change_lease", lease_file("change", proposed, condition), condition)

file_change_lease_response(c) ==
  Answer(c, "change_lease", file_lease(obj, c), parse_lease_id(body(c)))

file_change_lease(c) ==
  \E condition \in {access_condition, generate_lease_condition(TheirLease)} :
    file_change_lease_async(c, OurLease, condition)

file_release_lease_async(c, condition) ==
  Send(c, "release_lease", lease_file("release", Empty, condition), condition)

file_release_lease_response(c) ==
  Answer(c, "release_lease", file_lease(obj, c), OK)

file_release_lease(c) ==
  \E condition \in FileConditions : file_release_lease_async(c, condition)

file_break_lease_async(c, condition) ==
  Send(c, "break_lease", lease_file("break", Empty, condition), condition)

file_break_lease_response(c) == Answer(c, "break_lease", file_lease(obj, c), OK)

file_break_lease(c) ==
  \E condition \in FileConditions : file_break_lease_async(c, condition)
=============================================================================

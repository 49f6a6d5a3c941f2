--------------------------- MODULE CloudFileShare ---------------------------
(***************************************************************************)
(* cloud_file_share and cloud_file_directory, in the form of module        *)
(* CloudBlob: the public overloads of file.h (x), the command (x_async)    *)
(* and its handler (x_response).  Also the file service itself, which is   *)
(* not code of this repository: one record stands for a share, a directory *)
(* or a file.                                                              *)
(***************************************************************************)
EXTENDS StorageCommand, FileRequests

StoredFile ==
  [there |-> TRUE, etag |-> 1, meta |-> 1, lease |-> Empty, content |-> 1,
   md5 |-> Empty, length |-> 1, attributes |-> 1, copy |-> Empty, quota |-> 1,
   policies |-> Empty, usage |-> 1]

RangeMd5 == 5      \* the MD5 of a range that is written

WrittenAttributes(r, old) ==
  CASE r["attributes"] = Defaults -> 1
    [] r["attributes"] = Preserve -> old
    [] OTHER -> r["attributes"]

(* Creating a file replaces the one that is there, but for its lease.      *)
NewFile(r, s) ==
  [StoredFile EXCEPT
     !.etag = s.etag + 1, !.meta = Get(r, "metadata"), !.lease = s.lease,
     !.content = Get(r, "content"), !.md5 = Get(r, "md5"),
     !.length = Get(r, "length"), !.quota = Get(r, "quota"),
     !.attributes = IF Has(r, "attributes") THEN WrittenAttributes(r, 1)
                    ELSE 1,
     !.copy = IF r.comp = "copy" THEN s.etag + 1 ELSE Empty]

ChangeFile(r, s) ==
  LET next == NewVersion(s)
  IN CASE r.comp = "metadata" ->
            Reply(OK, [next EXCEPT !.meta = Get(r, "metadata")])
       [] r.comp = "properties" /\ Has(r, "quota") ->
            Reply(OK, [next EXCEPT !.quota = r["quota"]])
       [] r.comp = "properties" /\ Has(r, "attributes") ->
            Reply(OK, [next EXCEPT
              !.attributes = WrittenAttributes(r, @),
              !.content = Get(r, "content"), !.md5 = Get(r, "md5"),
              !.length = IF Has(r, "length") THEN r["length"] ELSE @])
       [] r.comp = "acl" -> Reply(OK, [next EXCEPT !.policies = r["policies"]])
       [] r.comp = "filepermission" -> Reply(OK, s)
       [] r.comp = "abort" ->
            IF s.copy = r["copy_id"] THEN Reply(OK, [s EXCEPT !.copy = Empty])
            ELSE Reply(Conflict, s)
       [] r.comp = "range" -> Reply(OK, next)

FileService(r, s) ==
  IF r.method = "PUT" /\ r.comp \in {"share", "directory"}
  THEN IF s.there THEN Reply(Conflict, s) ELSE Reply(OK, NewFile(r, s))
  ELSE IF ~s.there
  THEN IF r.method = "PUT" /\ r.comp \in {"file", "copy"}
       THEN Reply(OK, [NewFile(r, s) EXCEPT !.lease = Empty])
       ELSE Reply(NotFound, s)
  ELSE IF r.comp = "lease" THEN Lease(r, s)
  ELSE IF ~LeaseAllows(r, s) THEN Reply(PreconditionFailed, s)
  ELSE IF Reads(r) THEN Reply(OK, s)
  ELSE IF r.method = "DEL" THEN Reply(OK, [s EXCEPT !.there = FALSE, !.lease = Empty])
  ELSE IF r.comp \in {"file", "copy"} THEN Reply(OK, NewFile(r, s))
  ELSE ChangeFile(r, s)

-----------------------------------------------------------------------------
(* Shares.                                                                 *)

cloud_file_share == [etag |-> Empty, quota |-> Empty, meta |-> Empty]

parse_file_share_properties(response) ==
  [etag |-> response.etag, quota |-> response.quota]

share_properties(o, response) == Over(parse_file_share_properties(response), o)

share_attributes(o, response) ==
  [share_properties(o, response) EXCEPT !.meta = parse_metadata(response)]

Quotas == {Empty, 2}      \* Empty: no quota is asked for

share_create_async(c, max_size) ==
  Send(c, "create", create_file_share(max_size, obj.meta), access_condition)

share_create_response(c) ==
  Answer(c, "create", share_properties(obj, body(c)), OK)

share_create(c) == \E max_size \in Quotas : share_create_async(c, max_size)

(* These two ask a location that may be the secondary, which may still     *)
(* have a share that was deleted, or lack one that was created.            *)
share_create_if_not_exists_async(c, max_size) ==
  exists_first(c, "create_if_not_exists", get_file_share_properties,
               Both, max_size, access_condition)

share_create_if_not_exists_exists(c) ==
  unless_exists(c, "create_if_not_exists", share_attributes(obj, body(c)),
                create_file_share(call[c].arg, obj.meta), {Conflict})

share_create_if_not_exists_response(c) ==
  acted(c, "create_if_not_exists", share_properties(obj, body(c)))

share_create_if_not_exists(c) ==
  \E max_size \in Quotas : share_create_if_not_exists_async(c, max_size)

delete_share_async(c) ==
  Send(c, "delete_share", delete_file_share, access_condition)

delete_share(c) == delete_share_async(c)

delete_share_response(c) == Answer(c, "delete_share", obj, OK)

delete_share_if_exists_async(c) ==
  exists_first(c, "delete_if_exists", get_file_share_properties, Both,
               Empty, access_condition)

delete_share_if_exists(c) == delete_share_if_exists_async(c)

delete_share_if_exists_exists(c) ==
  if_exists(c, "delete_if_exists", share_attributes(obj, body(c)),
            delete_file_share, {NotFound})

delete_share_if_exists_response(c) == acted(c, "delete_if_exists", obj)

share_exists_async(c, both) ==
  exists_first(c, "exists", get_file_share_properties, both, Empty,
               access_condition)

share_exists_response(c) == whether_exists(c, share_attributes(obj, body(c)))

share_exists(c) == share_exists_async(c, Both)

share_download_attributes_async(c) ==
  Send(c, "download_attributes", get_file_share_properties, access_condition)

share_download_attributes(c) == share_download_attributes_async(c)

share_download_attributes_response(c) ==
  Answer(c, "download_attributes", share_attributes(obj, body(c)), OK)

share_upload_metadata_async(c) ==
  Send(c, "upload_metadata", set_file_share_metadata(obj.meta),
       access_condition)

share_upload_metadata(c) == share_upload_metadata_async(c)

share_upload_metadata_response(c) ==
  Answer(c, "upload_metadata", update_etag_and_last_modified(obj, body(c)), OK)

(* The usage, in bytes or rounded up to gigabytes.                         *)
Gigabyte == 1024 * 1024 * 1024

download_share_usage_in_bytes_async(c, unit) ==
  execute_async(c, command("download_share_usage", get_file_share_stats,
                           PrimaryOnly, {}, unit, access_condition))

download_share_usage_response(c) ==
  Answer(c, "download_share_usage", obj,
         (body(c).usage + call[c].arg - 1) \div call[c].arg)

download_share_usage_in_bytes(c) == download_share_usage_in_bytes_async(c, 1)

download_share_usage(c) == download_share_usage_in_bytes_async(c, Gigabyte)

(* The new quota is sent; the cached one stays.                            *)
share_resize_async(c, quota) ==
  Send(c, "resize", set_file_share_properties(quota), access_condition)

share_resize_response(c) ==
  Answer(c, "resize", update_etag_and_last_modified(obj, body(c)), OK)

share_resize(c) == \E quota \in Values : share_resize_async(c, quota)

share_download_permissions_async(c) ==
  Send(c, "download_permissions", get_file_share_acl, access_condition)

share_download_permissions(c) == share_download_permissions_async(c)

share_download_permissions_response(c) ==
  Answer(c, "download_permissions",
         update_etag_and_last_modified(obj, body(c)), body(c).policies)

share_upload_permissions_async(c, policies) ==
  Send(c, "upload_permissions", set_file_share_acl(policies), access_condition)

share_upload_permissions_response(c) ==
  Answer(c, "upload_permissions", update_etag_and_last_modified(obj, body(c)),
         OK)

share_upload_permissions(c) ==
  \E policies \in Values : share_upload_permissions_async(c, policies)

download_file_permission_async(c, permission_key) ==
  Send(c, "download_file_permission", get_file_share_permission(permission_key),
       access_condition)

download_file_permission(c) ==
  \E permission_key \in Values : download_file_permission_async(c, permission_key)

download_file_permission_response(c) ==
  Answer(c, "download_file_permission", obj, OK)

upload_file_permission_async(c, permission) ==
  Send(c, "upload_file_permission", set_file_share_permission(permission),
       access_condition)

upload_file_permission(c) ==
  \E permission \in Values : upload_file_permission_async(c, permission)

upload_file_permission_response(c) ==
  Answer(c, "upload_file_permission", obj, OK)

-----------------------------------------------------------------------------
(* Directories.                                                            *)

cloud_file_directory == [etag |-> Empty, attributes |-> Empty, meta |-> Empty]

parse_file_directory_properties(response) ==
  [etag |-> response.etag, attributes |-> response.attributes]

directory_properties(o, response) ==
  Over(parse_file_directory_properties(response), o)

directory_attributes(o, response) ==
  [directory_properties(o, response) EXCEPT !.meta = parse_metadata(response)]

directory_create_async(c) ==
  Send(c, "create", create_file_directory(obj.meta, obj.attributes),
       access_condition)

directory_create(c) == directory_create_async(c)

directory_create_response(c) ==
  Answer(c, "create", directory_properties(obj, body(c)), OK)

(* A directory somebody else created or deleted since is an error here.    *)
directory_create_if_not_exists_async(c) ==
  exists_first(c, "create_if_not_exists", get_file_directory_properties,
               PrimaryOnly, Empty, access_condition)

directory_create_if_not_exists(c) == directory_create_if_not_exists_async(c)

directory_create_if_not_exists_exists(c) ==
  unless_exists(c, "create_if_not_exists", directory_attributes(obj, body(c)),
                create_file_directory(obj.meta, obj.attributes), {})

directory_create_if_not_exists_response(c) ==
  acted(c, "create_if_not_exists", directory_properties(obj, body(c)))

delete_directory_async(c) ==
  Send(c, "delete_directory", delete_file_directory, access_condition)

delete_directory(c) == delete_directory_async(c)

delete_directory_response(c) == Answer(c, "delete_directory", obj, OK)

delete_directory_if_exists_async(c) ==
  exists_first(c, "delete_if_exists", get_file_directory_properties,
               PrimaryOnly, Empty, access_condition)

delete_directory_if_exists(c) == delete_directory_if_exists_async(c)

delete_directory_if_exists_exists(c) ==
  if_exists(c, "delete_if_exists", directory_attributes(obj, body(c)),
            delete_file_directory, {})

delete_directory_if_exists_response(c) == acted(c, "delete_if_exists", obj)

directory_exists_async(c, both) ==
  exists_first(c, "exists", get_file_directory_properties, both, Empty,
               access_condition)

directory_exists_response(c) ==
  whether_exists(c, directory_attributes(obj, body(c)))

directory_exists(c) == directory_exists_async(c, Both)

directory_download_attributes_async(c) ==
  Send(c, "download_attributes", get_file_directory_properties,
       access_condition)

directory_download_attributes(c) == directory_download_attributes_async(c)

directory_download_attributes_response(c) ==
  Answer(c, "download_attributes", directory_attributes(obj, body(c)), OK)

directory_upload_properties_async(c) ==
  Send(c, "upload_properties", set_file_directory_properties(obj.attributes),
       access_condition)

directory_upload_properties(c) == directory_upload_properties_async(c)

directory_upload_properties_response(c) ==
  Answer(c, "upload_properties", directory_properties(obj, body(c)), OK)

directory_upload_metadata_async(c) ==
  Send(c, "upload_metadata", set_file_directory_metadata(obj.meta),
       access_condition)

directory_upload_metadata(c) == directory_upload_metadata_async(c)

directory_upload_metadata_response(c) ==
  Answer(c, "upload_metadata", update_etag_and_last_modified(obj, body(c)), OK)

(* A method of the object's properties: Empty forgets the attributes.      *)
set_attributes == \E value \in Values \cup {Empty} :
                    /\ value # obj.attributes
                    /\ Local([obj EXCEPT !.attributes = value])

change_metadata == \E value \in {Empty, 2, Padded, Blank} \ {obj.meta} :
                     Local([obj EXCEPT !.meta = value])
=============================================================================

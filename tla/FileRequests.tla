---------------------------- MODULE FileRequests ----------------------------
(***************************************************************************)
(* The request builders of the file service (file_request_factory.cpp).    *)
(* The access condition of a file is a lease id; the requests on shares    *)
(* and directories carry none.                                             *)
(***************************************************************************)
EXTENDS RequestFactory

add_file_access_condition(request, condition) == add_lease_id(request, condition)

(* add_file_properties: the content headers as one value, and the MD5.     *)
add_file_properties(request, properties) ==
  add_optional_headers(request,
    [content |-> properties.content, md5 |-> properties.md5])

(* add_additional_properties: the attributes, times and permission of the  *)
(* file system, as one value.  Without one, a new file gets the defaults,  *)
(* and an old one keeps what it has.                                       *)
Defaults == 7
Preserve == 8

add_additional_properties(request, attributes, op_type) ==
  add_header(request, "attributes",
             CASE attributes # Empty -> attributes
               [] op_type = "create" -> Defaults
               [] op_type = "update" -> Preserve)

-----------------------------------------------------------------------------
(* Shares.  A quota that is not given is left to the service.              *)

create_file_share(max_size, metadata) ==
  add_metadata(add_optional_header(base_request("PUT", "share"),
                                   "quota", max_size), metadata)

delete_file_share == base_request("DEL", "share")

get_file_share_properties == base_request("GET", "share")

set_file_share_properties(quota) ==
  add_header(base_request("PUT", "properties"), "quota", quota)

set_file_share_metadata(metadata) ==
  add_metadata(base_request("PUT", "metadata"), metadata)

get_file_share_stats == base_request("GET", "stats")

get_file_share_acl == base_request("GET", "acl")

set_file_share_acl(policies) ==
  add_header(base_request("PUT", "acl"), "policies", policies)

get_file_share_permission(permission_key) ==
  add_header(base_request("GET", "filepermission"), "key", permission_key)

set_file_share_permission(permission) ==
  add_header(base_request("PUT", "filepermission"), "permission", permission)

-----------------------------------------------------------------------------
(* Directories.                                                            *)

create_file_directory(metadata, attributes) ==
  add_additional_properties(
    add_metadata(base_request("PUT", "directory"), metadata), attributes,
    "create")

delete_file_directory == base_request("DEL", "directory")

get_file_directory_properties == base_request("HEAD", "directory")

set_file_directory_properties(attributes) ==
  add_additional_properties(base_request("PUT", "properties"), attributes,
                            "update")

set_file_directory_metadata(metadata) ==
  add_metadata(base_request("PUT", "metadata"), metadata)

-----------------------------------------------------------------------------
(* Files.                                                                  *)

create_file(length, metadata, properties, condition) ==
  add_file_access_condition(
    add_header(
      add_additional_properties(
        add_file_properties(add_metadata(base_request("PUT", "file"),
                                         metadata), properties),
        properties.attributes, "create"), "length", length), condition)

delete_file(condition) ==
  add_file_access_condition(base_request("DEL", "file"), condition)

get_file_properties(condition) ==
  add_file_access_condition(base_request("HEAD", "file"), condition)

set_file_properties(properties, condition) ==
  add_file_access_condition(
    add_additional_properties(
      add_file_properties(base_request("PUT", "properties"), properties),
      properties.attributes, "update"), condition)

resize_with_properties(properties, condition) ==
  add_header(set_file_properties(properties, condition), "length",
             properties.length)

set_file_metadata(metadata, condition) ==
  add_file_access_condition(
    add_metadata(base_request("PUT", "metadata"), metadata), condition)

copy_file(source, metadata, condition) ==
  add_file_access_condition(
    add_metadata(add_header(base_request("PUT", "copy"), "copy_source", source),
                 metadata), condition)

copy_file_from_blob(source, source_condition, metadata, condition) ==
  add_file_access_condition(
    add_metadata(
      add_source_access_condition(
        add_header(base_request("PUT", "copy"), "copy_source", source),
        source_condition), metadata), condition)

abort_copy_file(copy_id, condition) ==
  add_file_access_condition(
    add_header(base_request("PUT", "abort"), "copy_id", copy_id), condition)

list_file_ranges(condition) ==
  add_file_access_condition(base_request("GET", "rangelist"), condition)

put_file_range(write, content_md5, condition) ==
  add_file_access_condition(
    add_optional_header(
      add_header(base_request("PUT", "range"), "write", write),
      "md5", IF write = "update" THEN content_md5 ELSE Empty), condition)

lease_file(action, proposed_lease_id, condition) ==
  add_file_access_condition(
    add_optional_header(
      add_header(base_request("PUT", "lease"), "action", action), "proposed",
      IF action \in {"acquire", "change"} THEN proposed_lease_id ELSE Empty),
    condition)
=============================================================================

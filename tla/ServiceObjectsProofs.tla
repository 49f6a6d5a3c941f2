------------------------ MODULE ServiceObjectsProofs ------------------------
(***************************************************************************)
(* What the objects of the table, queue and file services, the service     *)
(* clients and the iterators over a listing promise, for any number of     *)
(* callers, calls, lost answers, names and changes by other clients: an    *)
(* inductive invariant per kind of object, and what each says of a step.   *)
(***************************************************************************)
EXTENDS ServiceObjects, StorageCommandProofs, WellFoundedInduction

-----------------------------------------------------------------------------
(* What every step of an application keeps: the kind of the object, and    *)
(* that the calls did not run one at a time, if they did not.              *)

KindAndCalm == kind' = kind /\ (calm' => calm)

(* The forms of their steps.                                               *)
LEMMA StepForms ==
  ASSUME NEW c
  PROVE  /\ (kind' = kind /\ (calm' = calm \/ calm' = (calm /\ Quiet))) => KindAndCalm
         /\ \A cmd : execute_async(c, cmd) => KindAndCalm
         /\ \A op, req, cond : Send(c, op, req, cond) => KindAndCalm
         /\ \A op, req, both, arg, cond :
              exists_first(c, op, req, both, arg, cond) => KindAndCalm
         /\ \A o, out : Return(c, o, out) => KindAndCalm
         /\ \A op, o, out : Answer(c, op, o, out) => KindAndCalm
         /\ \A op, o, req, accepts :
              unless_exists(c, op, o, req, accepts) => KindAndCalm
         /\ \A op, o, req, accepts :
              if_exists(c, op, o, req, accepts) => KindAndCalm
         /\ \A op, o : acted(c, op, o) => KindAndCalm
         /\ \A o : whether_exists(c, o) => KindAndCalm
         /\ \A o : Local(o) => KindAndCalm
<1>1. (kind' = kind /\ (calm' = calm \/ calm' = (calm /\ Quiet))) => KindAndCalm
  <2>1. ASSUME calm' = calm PROVE calm' => calm
    BY <2>1, Zenon
  <2>2. ASSUME calm' = (calm /\ Quiet) PROVE calm' => calm
    BY <2>2, Zenon
  <2> QED
    BY <2>1, <2>2, Zenon DEF KindAndCalm
<1>2. \A cmd : execute_async(c, cmd) => KindAndCalm
  BY <1>1 DEF execute_async
<1>3. /\ \A o, out : Return(c, o, out) => KindAndCalm
      /\ \A o, req, accepts : Continue(c, o, req, accepts) => KindAndCalm
      /\ \A o : Local(o) => KindAndCalm
  BY <1>1 DEF Return, Continue, Local
<1> QED
  BY <1>1, <1>2, <1>3 DEF Send, exists_first, Answer, unless_exists, if_exists, acted,
                         whether_exists

(* The calls on shares.                                                    *)
LEMMA KindShareCalls ==
  ASSUME NEW c \in Callers, ShareCalls(c)
  PROVE  KindAndCalm
  BY StepForms
  DEF ShareCalls, share_create, share_create_async, share_create_response,
      share_create_if_not_exists, share_create_if_not_exists_async,
      share_create_if_not_exists_exists, share_create_if_not_exists_response,
      delete_share, delete_share_async, delete_share_response,
      delete_share_if_exists, delete_share_if_exists_async,
      delete_share_if_exists_exists, delete_share_if_exists_response,
      share_exists, share_exists_async, share_exists_response,
      share_download_attributes, share_download_attributes_async,
      share_download_attributes_response, share_upload_metadata,
      share_upload_metadata_async, share_upload_metadata_response,
      download_share_usage, download_share_usage_in_bytes,
      download_share_usage_in_bytes_async, download_share_usage_response,
      share_resize, share_resize_async, share_resize_response,
      share_download_permissions, share_download_permissions_async,
      share_download_permissions_response, share_upload_permissions,
      share_upload_permissions_async, share_upload_permissions_response,
      download_file_permission, download_file_permission_async,
      download_file_permission_response, upload_file_permission,
      upload_file_permission_async, upload_file_permission_response,
      change_metadata

(* The calls on directories.                                               *)
LEMMA KindDirectoryCalls ==
  ASSUME NEW c \in Callers, DirectoryCalls(c)
  PROVE  KindAndCalm
  BY StepForms
  DEF DirectoryCalls, directory_create, directory_create_async,
      directory_create_response, directory_create_if_not_exists,
      directory_create_if_not_exists_async,
      directory_create_if_not_exists_exists,
      directory_create_if_not_exists_response, delete_directory,
      delete_directory_async, delete_directory_response,
      delete_directory_if_exists, delete_directory_if_exists_async,
      delete_directory_if_exists_exists, delete_directory_if_exists_response,
      directory_exists, directory_exists_async, directory_exists_response,
      directory_download_attributes, directory_download_attributes_async,
      directory_download_attributes_response, directory_upload_properties,
      directory_upload_properties_async,
      directory_upload_properties_response, directory_upload_metadata,
      directory_upload_metadata_async, directory_upload_metadata_response,
      set_attributes, change_metadata

(* The calls on files.                                                     *)
LEMMA KindFileCalls ==
  ASSUME NEW c \in Callers, FileCalls(c)
  PROVE  KindAndCalm
  BY StepForms
  DEF FileCalls, file_create, file_create_async, file_create_response,
      file_create_if_not_exists, file_create_if_not_exists_async,
      file_create_if_not_exists_exists, file_create_if_not_exists_response,
      delete_file_call, delete_file_response, delete_file_if_exists,
      delete_file_if_exists_async, delete_file_if_exists_exists,
      delete_file_if_exists_response, file_exists, file_exists_async,
      file_exists_response, file_download_attributes,
      file_download_attributes_async, file_download_attributes_response,
      file_upload_properties, file_upload_properties_async,
      file_upload_properties_response, file_upload_metadata,
      file_upload_metadata_async, file_upload_metadata_response, file_resize,
      file_resize_async, file_resize_response, list_ranges,
      list_ranges_async, list_ranges_response, clear_range,
      clear_range_async, clear_range_response, write_range,
      write_range_async, write_range_response, delete_file_async

(* The calls on file copies.                                               *)
LEMMA KindFileCopyCalls ==
  ASSUME NEW c \in Callers, FileCopyCalls(c)
  PROVE  KindAndCalm
  BY StepForms
  DEF FileCopyCalls, file_start_copy, file_start_copy_async,
      file_start_copy_response, file_abort_copy, file_abort_copy_async,
      file_abort_copy_response, file_download_attributes,
      file_download_attributes_async, file_download_attributes_response,
      file_start_copy_from_blob_async

(* The calls on file leases.                                               *)
LEMMA KindFileLeaseCalls ==
  ASSUME NEW c \in Callers, FileLeaseCalls(c)
  PROVE  KindAndCalm
  BY StepForms
  DEF FileLeaseCalls, file_acquire_lease, file_acquire_lease_async,
      file_acquire_lease_response, file_change_lease,
      file_change_lease_async, file_change_lease_response,
      file_release_lease, file_release_lease_async,
      file_release_lease_response, file_break_lease, file_break_lease_async,
      file_break_lease_response

(* The calls on queues.                                                    *)
LEMMA KindQueueCalls ==
  ASSUME NEW c \in Callers, QueueCalls(c)
  PROVE  KindAndCalm
  BY StepForms
  DEF QueueCalls, queue_create, queue_create_async, queue_create_response,
      queue_create_if_not_exists, queue_create_if_not_exists_async,
      queue_create_if_not_exists_exists, queue_create_if_not_exists_response,
      queue_delete, queue_delete_async, queue_delete_response,
      queue_delete_if_exists, queue_delete_if_exists_async,
      queue_delete_if_exists_exists, queue_delete_if_exists_response,
      queue_exists, queue_exists_async, queue_exists_response,
      queue_download_attributes, queue_download_attributes_async,
      queue_download_attributes_response, queue_upload_metadata,
      queue_upload_metadata_async, queue_upload_metadata_response,
      queue_download_permissions, queue_download_permissions_async,
      queue_download_permissions_response, queue_upload_permissions,
      queue_upload_permissions_async, queue_upload_permissions_response,
      change_metadata

(* The calls on messages.                                                  *)
LEMMA KindMessageCalls ==
  ASSUME NEW c \in Callers, MessageCalls(c)
  PROVE  KindAndCalm
  BY StepForms
  DEF MessageCalls, queue_add_message, queue_add_message_async,
      queue_add_message_response, queue_get_message, queue_get_message_async,
      queue_get_message_response, queue_get_messages,
      queue_get_messages_async, queue_get_messages_response,
      queue_peek_message, queue_peek_message_async,
      queue_peek_message_response, queue_peek_messages,
      queue_peek_messages_async, queue_peek_messages_response,
      queue_update_message, queue_update_message_async,
      queue_update_message_response, queue_delete_message,
      queue_delete_message_async, queue_delete_message_response, queue_clear,
      queue_clear_async, queue_clear_response, Take

(* The calls on tables.                                                    *)
LEMMA KindTableCalls ==
  ASSUME NEW c \in Callers, TableCalls(c)
  PROVE  KindAndCalm
  BY StepForms
  DEF TableCalls, table_create, table_create_async, table_create_response,
      table_create_if_not_exists, table_create_if_not_exists_async,
      table_create_if_not_exists_exists, table_create_if_not_exists_response,
      table_delete, table_delete_async, table_delete_response,
      table_delete_if_exists, table_delete_if_exists_async,
      table_delete_if_exists_exists, table_delete_if_exists_response,
      table_exists, table_exists_async, table_exists_response,
      table_download_permissions, table_download_permissions_async,
      table_download_permissions_response, table_upload_permissions,
      table_upload_permissions_async, table_upload_permissions_response

(* The calls on entities.                                                  *)
LEMMA KindEntityCalls ==
  ASSUME NEW c \in Callers, EntityCalls(c)
  PROVE  KindAndCalm
  BY StepForms
  DEF EntityCalls, execute, execute_response, execute_batch,
      execute_batch_async, execute_batch_response, execute_operation_async

(* The calls on service clients.                                           *)
LEMMA KindClientCalls ==
  ASSUME NEW c \in Callers, ClientCalls(c)
  PROVE  KindAndCalm
  BY StepForms
  DEF ClientCalls, blob_download_service_properties,
      blob_upload_service_properties, blob_download_service_stats,
      download_account_properties, download_account_properties_base_async,
      download_account_properties_response, file_download_service_properties,
      file_upload_service_properties, queue_download_service_properties,
      queue_upload_service_properties, queue_download_service_stats,
      table_download_service_properties, table_upload_service_properties,
      table_download_service_stats, download_service_properties_response,
      upload_service_properties_response, download_service_stats_response,
      read_async, download_service_properties_base_async,
      upload_service_properties_base_async, download_service_stats_base_async

(* The calls on listings.                                                  *)
LEMMA KindListingCalls ==
  ASSUME NEW c \in Callers, ListingCalls(c)
  PROVE  KindAndCalm
  BY StepForms
  DEF ListingCalls, fetch_first_segment, increment, segment_response,
      fetch_next_segment

-----------------------------------------------------------------------------
(* Listings.  The marker a token stands for: a query parameter is decoded. *)

Queries == {"queues", "tables", "entities"}

Marker(what, token) == IF what \in Queries THEN append_query(token) ELSE token.marker

IsToken(what, token) ==
  /\ token.marker \in Nat
  /\ what \in Queries /\ ~token_empty(token) => token.marker > QueryText

(* The builders of listings: the request reads, and carries the marker.    *)
LEMMA ListRequest ==
  ASSUME NEW marker, NEW max_results
  PROVE  LET r == list_request(marker, max_results)
         IN ~Thrown(r) /\ Reads(r) /\ Get(r, "marker") = marker
<1> DEFINE base == base_request("GET", "list")
           values == [marker |-> marker, max_results |-> max_results]
           r == list_request(marker, max_results)
<1>1. /\ ~Thrown(base) /\ DOMAIN base = {"method", "comp"} /\ base.method = "GET"
      /\ base.comp = "list"
  BY DEF base_request, Thrown
<1>2. DOMAIN values = {"marker", "max_results"} /\ values["marker"] = marker
  OBVIOUS
<1>3. r = add_optional_headers(base, values)
  BY DEF list_request
<1> HIDE DEF base, values, r
<1>4. ~Thrown(r) /\ Has(r, "method") /\ r["method"] = "GET" /\ r["comp"] = "list"
  BY <1>1, <1>3, OptionalHeaders
<1>5. Has(r, "marker") <=> marker # Empty
  BY <1>1, <1>2, <1>3, OptionalHeaders
<1>6. Has(r, "marker") => r["marker"] = marker
  BY <1>1, <1>2, <1>3, OptionalHeaders
<1>7. Get(r, "marker") = marker
  BY <1>5, <1>6 DEF Get
<1>8. Reads(r)
  BY <1>4 DEF Reads
<1> QED
  BY <1>4, <1>7, <1>8 DEF r

(* The command for the next segment, as every listing builds it.           *)
IsListing(cmd, marker, location) ==
  /\ DOMAIN cmd = CallFields /\ cmd.op = "list"
  /\ ~Thrown(cmd.req) =>
       /\ cmd.accepts = {}
       /\ Reads(cmd.req) /\ Get(cmd.req, "marker") = marker
       /\ cmd.both = (location = "unspecified")
       /\ location # "unspecified" => cmd.at = location

(* A segmented command goes to the token's location.                       *)
LEMMA SegmentCommand ==
  ASSUME NEW request, NEW marker, NEW token,
         Thrown(request) \/ (Reads(request) /\ Get(request, "marker") = marker)
  PROVE  IsListing(segment_command(request, token), marker, token.location)
<1> DEFINE cmd == command("list", request, Both, {}, token, access_condition)
<1>1. /\ DOMAIN cmd = CallFields /\ cmd.req = request /\ cmd.op = "list"
      /\ cmd.accepts = {} /\ cmd.both = TRUE
  BY DEF command, Idle, CallFields, Both
<1>2. segment_command(request, token) =
        IF token.location = "unspecified" THEN cmd
        ELSE [cmd EXCEPT !.both = FALSE, !.at = token.location]
  BY DEF segment_command, set_location_mode
<1> HIDE DEF cmd
<1>3. CASE token.location = "unspecified"
  BY <1>1, <1>2, <1>3 DEF IsListing
<1>4. CASE token.location # "unspecified"
  BY <1>1, <1>2, <1>4 DEF IsListing, CallFields
<1> QED
  BY <1>3, <1>4

(* So does the one of every listing's generator, with the token's marker.  *)
LEMMA Generator ==
  ASSUME NEW o, NEW token, o.what \in Listings
  PROVE  IsListing(result_generator(o, token), Marker(o.what, token), token.location)
<1> DEFINE n == get_remaining_results_num(o)
           IsRead(request, marker) ==
             Thrown(request) \/ (Reads(request) /\ Get(request, "marker") = marker)
<1>1. ASSUME NEW marker, NEW max_results
      PROVE  IsRead(list_request(marker, max_results), marker)
  BY ListRequest
<1>2. Thrown(invalid_argument)
  BY DEF Thrown, invalid_argument, base_request
<1>3. /\ IsRead(list_containers_request(n, token), token.marker)
      /\ IsRead(list_blobs_request(o.what = "blobs", o.what # "blob_tree", n, token),
                token.marker)
      /\ IsRead(list_shares_request(n, token), token.marker)
      /\ IsRead(list_files_request(n, token), token.marker)
      /\ IsRead(list_queues_request(n, token), append_query(token))
      /\ IsRead(list_entities_request(n, token), append_query(token))
  BY <1>1, <1>2
  DEF list_containers_request, list_blobs_request, list_shares_request,
      list_files_request, list_queues_request, list_entities_request
<1> DEFINE Builds(cmd, marker) == IsListing(cmd, marker, token.location)
<1>4. /\ Builds(list_containers(o, token), token.marker)
      /\ Builds(list_blobs(o, token), token.marker)
      /\ Builds(list_shares(o, token), token.marker)
      /\ Builds(list_files_and_directories(o, token), token.marker)
      /\ Builds(list_queues(o, token), append_query(token))
      /\ Builds(list_tables(o, token), append_query(token))
      /\ Builds(execute_query(o, token), append_query(token))
  BY <1>3, SegmentCommand
  DEF list_containers, list_blobs, list_shares, list_files_and_directories,
      list_queues, list_tables, execute_query, list_containers_segmented,
      list_blobs_segmented, list_shares_segmented,
      list_files_and_directories_segmented, list_queues_segmented,
      list_tables_segmented, execute_query_segmented
<1> HIDE DEF Builds
<1>5. Builds(result_generator(o, token), Marker(o.what, token))
  BY <1>4 DEF result_generator, Marker, Queries, Listings
<1> QED
  BY <1>5 DEF Builds

(* The builder throws when the snapshots of a tree are asked for, and then *)
(* for every segment.                                                      *)
LEMMA GeneratorThrows ==
  ASSUME NEW o, NEW token, o.what \in Listings
  PROVE  Thrown(result_generator(o, token).req) <=> o.what = "snapshot_tree"
<1> DEFINE n == get_remaining_results_num(o)
<1>1. \A marker, max_results : ~Thrown(list_request(marker, max_results))
  BY ListRequest
<1>2. Thrown(invalid_argument)
  BY DEF Thrown, invalid_argument, base_request
<1>3. \A request : segment_command(request, token).req = request
  BY DEF segment_command, set_location_mode, command, Idle
<1>4. CASE o.what \in {"blobs", "blob_tree", "snapshot_tree"}
  <2>1. result_generator(o, token).req =
          list_blobs_request(o.what = "blobs", o.what # "blob_tree", n, token)
    BY <1>3, <1>4 DEF result_generator, list_blobs, list_blobs_segmented
  <2> QED
    BY <1>1, <1>2, <1>4, <2>1 DEF list_blobs_request
<1>5. CASE o.what \notin {"blobs", "blob_tree", "snapshot_tree"}
  <2>1. \E marker : result_generator(o, token).req = list_request(marker, n)
    BY <1>3, <1>5
    DEF result_generator, Listings,
        list_containers, list_shares, list_files_and_directories, list_queues,
        list_tables, execute_query, list_containers_segmented,
        list_shares_segmented, list_files_and_directories_segmented,
        list_queues_segmented, list_tables_segmented, execute_query_segmented,
        list_containers_request, list_shares_request, list_files_request,
        list_queues_request, list_entities_request
  <2> QED
    BY <1>1, <1>5, <2>1
<1> QED
  BY <1>4, <1>5

-----------------------------------------------------------------------------
(* The invariant of a listing.                                             *)

Stock == [there : BOOLEAN, etag : Nat, names : SUBSET Names, always : SUBSET Names]

IsStock(s) == s \in Stock /\ s.always \subseteq s.names

Tokens == [marker : Nat, location : {"unspecified", "primary", "secondary"}]

Iterators ==
  [what : Listings, max : Nat, made : BOOLEAN, segment : Seq(Names), index : Nat,
   returned : Nat, token : Tokens, listed : Seq(Names)]

Reached(o) == Marker(o.what, o.token)

(* A tree gives every name once, the other listings give them in order.    *)
Precedes(what, a, b) == a # b /\ (what # "blob_tree" => a < b)

Ordered(what, s) == \A i, j \in DOMAIN s : i < j => Precedes(what, s[i], s[j])

(* Of the names that were always there, the application has read some; the *)
(* others are in the rest of the segment at hand or in segments to come.   *)
Iterating(o, there) ==
  /\ o.index < Len(o.segment)
  /\ Len(o.listed) = o.returned + 1
  /\ \A i \in DOMAIN o.listed, j \in o.index + 2 .. Len(o.segment) :
       Precedes(o.what, o.listed[i], o.segment[j])
  /\ Reached(o) # Empty => \A i \in DOMAIN o.listed : o.listed[i] < Reached(o)
  /\ \A name \in there :
       \/ name \in Range(o.listed)
       \/ \E i \in o.index + 2 .. Len(o.segment) : o.segment[i] = name
       \/ Reached(o) # Empty /\ name >= Reached(o)

Passed(o, there) ==
  /\ Len(o.listed) = o.returned
  /\ o.max > 0 => o.returned <= o.max
  /\ o.index = Len(o.segment) /\ token_empty(o.token) => there \subseteq Range(o.listed)

IteratorInv(o, there) ==
  /\ o \in Iterators
  /\ IsToken(o.what, o.token)
  /\ ~o.made => o.listed = <<>>
  /\ o.made =>
       /\ o.token.location \in {"primary", "secondary"}
       /\ Ordered(o.what, o.segment) /\ Ordered(o.what, o.listed)
       /\ Reached(o) # Empty => \A i \in DOMAIN o.segment : o.segment[i] < Reached(o)
       /\ ~passed_the_end(o) => Iterating(o, there)
       /\ passed_the_end(o) => Passed(o, there)

(* The request for a segment: it asks from a marker on, beyond which is    *)
(* everything that has not been read.                                      *)
Asked(r) == Get(r.req, "marker")

SegmentAsked(r, o, there) ==
  /\ r.op = "list" /\ r.accepts = {} /\ o.what # "snapshot_tree"
  /\ Reads(r.req) /\ Asked(r) \in Nat
  /\ r.at \in {"primary", "secondary"}
  /\ r.both \in BOOLEAN
  /\ r.both => Asked(r) = Empty /\ ~o.made
  /\ \A name \in there : name \in Range(o.listed) \/ name >= Asked(r)
  /\ o.made => /\ r.at = o.token.location
               /\ ~passed_the_end(o)
               /\ \A i \in DOMAIN o.listed : o.listed[i] < Asked(r)

(* The answer to it: a page, and a marker for the rest.                    *)
SegmentAnswered(r, there) ==
  /\ r.resp.code = OK
  /\ r.resp.items \in Seq(Names) /\ Increasing(r.resp.items)
  /\ \A i \in DOMAIN r.resp.items : r.resp.items[i] >= Asked(r)
  /\ r.resp.marker \in Nat
  /\ r.resp.marker # Empty =>
       /\ r.resp.marker >= Asked(r)
       /\ \A i \in DOMAIN r.resp.items : r.resp.items[i] < r.resp.marker
  /\ \A name \in there :
       name >= Asked(r) => \/ name \in Range(r.resp.items)
                           \/ r.resp.marker # Empty /\ name >= r.resp.marker

At(location) == IF location = "primary" THEN svc.always ELSE sec.always

Listed ==
  /\ CallsTyped
  /\ IsStock(svc) /\ IsStock(sec)
  /\ IteratorInv(obj, At(obj.token.location))
  /\ \A c \in Callers : Active(c) => SegmentAsked(call[c], obj, At(call[c].at))
  /\ \A c \in Callers :
       call[c].st = "answered" => SegmentAnswered(call[c], At(call[c].at))
  /\ \A c, d \in Callers : Active(c) /\ Active(d) => c = d

ListingInv == kind = "listing" => Listed

-----------------------------------------------------------------------------
(* A name that another client removes is not missed.                       *)
LEMMA Shrinks ==
  ASSUME NEW there, NEW smaller, smaller \subseteq there
  PROVE  /\ \A o : IteratorInv(o, there) => IteratorInv(o, smaller)
         /\ \A r, o : SegmentAsked(r, o, there) => SegmentAsked(r, o, smaller)
         /\ \A r : SegmentAnswered(r, there) => SegmentAnswered(r, smaller)
<1>1. \A o : IteratorInv(o, there) => IteratorInv(o, smaller)
  BY DEF IteratorInv, Iterating, Passed
<1>2. \A r, o : SegmentAsked(r, o, there) => SegmentAsked(r, o, smaller)
  BY DEF SegmentAsked
<1>3. \A r : SegmentAnswered(r, there) => SegmentAnswered(r, smaller)
  BY DEF SegmentAnswered
<1> QED
  BY <1>1, <1>2, <1>3

(* What a segment's request and answer say does not depend on the rest of  *)
(* the call.                                                               *)
LEMMA SameSegment ==
  ASSUME NEW r, NEW q, NEW o, NEW there
  PROVE  /\ Agree(r, q, {"st", "resp", "did", "pre", "seen"})
              /\ SegmentAsked(q, o, there) => SegmentAsked(r, o, there)
         /\ Agree(r, q, {"seen"}) /\ SegmentAnswered(q, there) => SegmentAnswered(r, there)
  BY DEF Agree, SegmentAsked, SegmentAnswered, Asked, CallFields

(* A set of natural numbers has a least one.                               *)
LEMMA LeastName ==
  ASSUME NEW S, S \subseteq Nat, S # {}
  PROVE  \E name \in S : \A e \in S : name <= e
<1>1. PICK name \in S : \A e \in S : ~(<<e, name>> \in OpToRel(<, Nat))
  BY NatLessThanWellFounded, WFMin
<1>2. \A e \in S : ~(e < name)
  BY <1>1 DEF OpToRel
<1> QED
  BY <1>2

(* The service's answer is a page of what is there from the marker on.     *)
LEMMA PageAnswered ==
  ASSUME NEW r, NEW s, NEW items \in Seq(Names), IsStock(s), Asked(r) \in Nat,
         IsPage(r.req, s, items), r.resp = ListService(r.req, s, items)
  PROVE  SegmentAnswered(r, s.always)
<1> DEFINE names == NamesFrom(r.req, s)
           rest == names \ Range(items)
<1>1. names = {name \in s.names : name >= Asked(r)} /\ s.names \subseteq Nat
  BY NamesAssumption DEF NamesFrom, Asked, IsStock, Stock
<1>2. /\ r.resp.code = OK /\ r.resp.items = items
      /\ r.resp.marker = IF rest = {} THEN Empty
                         ELSE CHOOSE name \in rest : \A e \in rest : name <= e
  BY DEF ListService
<1>3. /\ Increasing(items) /\ Range(items) \subseteq names
      /\ \A name \in rest, e \in Range(items) : e < name
  BY DEF IsPage
<1>4. \A i \in DOMAIN items : items[i] \in Range(items)
  BY DEF Range
<1> HIDE DEF names, rest
<1>5. CASE rest = {}
  <2>1. s.always \cap names \subseteq Range(items)
    BY <1>5 DEF rest
  <2>2. r.resp.marker = Empty
    BY <1>2, <1>5
  <2> QED
    BY <2>1, <2>2, <1>1, <1>2, <1>3, <1>4 DEF SegmentAnswered, IsStock, Empty
<1>6. CASE rest # {}
  <2>1. rest \subseteq names /\ rest \subseteq Nat
    BY <1>1 DEF rest
  <2>2. r.resp.marker \in rest /\ \A e \in rest : r.resp.marker <= e
    BY <2>1, <1>2, <1>6, LeastName
  <2>3. \A name \in s.always : name >= Asked(r) =>
          name \in Range(items) \/ name \in rest
    BY <1>1 DEF rest, IsStock
  <2>4. r.resp.marker >= Asked(r) /\ r.resp.marker # Empty
    BY <2>1, <2>2, <1>1, NamesAssumption DEF IsStock, Stock
  <2> QED
    BY <2>1, <2>2, <2>3, <2>4, <1>1, <1>2, <1>3, <1>4 DEF SegmentAnswered
<1> QED
  BY <1>5, <1>6

(* Names are positive numbers.                                             *)
LEMMA NamesAreNatural == \A name \in Names : name \in Nat /\ name # Empty
  BY NamesAssumption

(* A token that is made of a marker stands for it.                         *)
LEMMA NextToken ==
  ASSUME NEW c, NEW marker \in Nat, call[c].resp.marker = marker,
         call[c].at \in {"primary", "secondary"}
  PROVE  LET token == next_token(c)
         IN /\ token \in Tokens
            /\ IsToken(obj.what, token)
            /\ Marker(obj.what, token) = marker
            /\ token_empty(token) <=> marker = Empty
            /\ token.location = call[c].at
<1> DEFINE token == next_token(c)
           encoded == IF obj.what \in Queries THEN make_query_parameter(marker)
                      ELSE marker
<1>1. token = [marker |-> encoded, location |-> call[c].at]
  BY DEF next_token, Queries
<1>2. /\ encoded \in Nat /\ (encoded = Empty <=> marker = Empty)
      /\ obj.what \in Queries /\ encoded # Empty =>
           encoded > QueryText /\ encoded - QueryText = marker
      /\ obj.what \notin Queries => encoded = marker
  BY DEF make_query_parameter, QueryText, Empty
<1> HIDE DEF encoded
<1>3. /\ token \in Tokens
      /\ token.marker = encoded /\ token.location = call[c].at
  BY <1>1, <1>2 DEF Tokens
<1> HIDE DEF token
<1>4. token_empty(token) <=> marker = Empty
  BY <1>2, <1>3 DEF token_empty
<1>5. IsToken(obj.what, token)
  BY <1>2, <1>3 DEF token_empty, IsToken
<1>6. Marker(obj.what, token) = marker
  BY <1>2, <1>3 DEF token_empty, Marker, append_query
<1> QED
  BY <1>3, <1>4, <1>5, <1>6 DEF token

(* A name that all of an ordered sequence precede may be added to it.      *)
LEMMA AddedLast ==
  ASSUME NEW what, NEW s \in Seq(Names), NEW name \in Names, Ordered(what, s),
         \A i \in DOMAIN s : Precedes(what, s[i], name)
  PROVE  LET t == Append(s, name)
         IN /\ t \in Seq(Names) /\ Len(t) = Len(s) + 1 /\ Ordered(what, t)
            /\ Range(t) = Range(s) \cup {name}
            /\ \A i \in DOMAIN t : (\E j \in DOMAIN s : t[i] = s[j]) \/ t[i] = name
<1> DEFINE t == Append(s, name)
<1>1. /\ t \in Seq(Names) /\ Len(t) = Len(s) + 1 /\ DOMAIN t = 1 .. Len(s) + 1
      /\ \A i \in 1 .. Len(s) : t[i] = s[i]
      /\ t[Len(s) + 1] = name
  OBVIOUS
<1>2. DOMAIN s = 1 .. Len(s) /\ Len(s) \in Nat
  OBVIOUS
<1> HIDE DEF t
<1>3. Range(t) = Range(s) \cup {name}
  BY <1>1, <1>2 DEF Range
<1>4. \A i \in DOMAIN t : i \in DOMAIN s \/ i = Len(s) + 1
  BY <1>1, <1>2
<1>5. ASSUME NEW i \in DOMAIN t, NEW j \in DOMAIN t, i < j
      PROVE  Precedes(what, t[i], t[j])
  <2>1. i \in DOMAIN s
    BY <1>1, <1>2, <1>5
  <2> QED
    BY <1>1, <1>2, <1>4, <1>5, <2>1 DEF Ordered
<1>6. Ordered(what, t)
  BY <1>5 DEF Ordered
<1>7. \A i \in DOMAIN t : (\E j \in DOMAIN s : t[i] = s[j]) \/ t[i] = name
  BY <1>1, <1>2, <1>4
<1> QED
  BY <1>1, <1>3, <1>6, <1>7 DEF t

(* The application takes the item at a position the iterator o has just    *)
(* come to, and all that is left lies at that position or behind it.       *)
LEMMA ItemRead ==
  ASSUME NEW o \in Iterators, NEW there, o.made, IsToken(o.what, o.token),
         o.token.location \in {"primary", "secondary"},
         Ordered(o.what, o.segment), Ordered(o.what, o.listed),
         Reached(o) # Empty => \A i \in DOMAIN o.segment : o.segment[i] < Reached(o),
         Len(o.listed) = o.returned,
         o.max > 0 => o.returned <= o.max,
         ~passed_the_end(o) => o.index < Len(o.segment),
         \A i \in DOMAIN o.listed, j \in o.index + 1 .. Len(o.segment) :
           Precedes(o.what, o.listed[i], o.segment[j]),
         Reached(o) # Empty => \A i \in DOMAIN o.listed : o.listed[i] < Reached(o),
         \A name \in there :
           \/ name \in Range(o.listed)
           \/ \E i \in o.index + 1 .. Len(o.segment) : o.segment[i] = name
           \/ Reached(o) # Empty /\ name >= Reached(o)
  PROVE  LET p == read_item(o)
         IN /\ IteratorInv(p, there)
            /\ p.made /\ p.token = o.token
<1> DEFINE item == o.segment[o.index + 1]
           listed == Append(o.listed, item)
           p == [o EXCEPT !.listed = listed]
<1>1. /\ o.token \in Tokens /\ o.index \in Nat
      /\ o.segment \in Seq(Names) /\ o.listed \in Seq(Names)
      /\ o.returned \in Nat /\ o.max \in Nat
  BY DEF Iterators
<1>2. CASE passed_the_end(o)
  <2>1. o.index = Len(o.segment) /\ token_empty(o.token) =>
          there \subseteq Range(o.listed)
    <3> SUFFICES ASSUME o.index = Len(o.segment), token_empty(o.token)
                 PROVE  there \subseteq Range(o.listed)
      OBVIOUS
    <3>1. Reached(o) = Empty
      BY DEF Reached, Marker, append_query, token_empty
    <3>2. o.index + 1 .. Len(o.segment) = {}
      BY <1>1
    <3> QED
      BY <3>1, <3>2
  <2>2. read_item(o) = o
    BY <1>2 DEF read_item
  <2> QED
    BY <2>1, <2>2, <1>2 DEF IteratorInv, Passed
<1>3. CASE ~passed_the_end(o)
  <2>1. /\ o.index < Len(o.segment) /\ o.index + 1 \in DOMAIN o.segment /\ item \in Names
        /\ o.index + 1 \in o.index + 1 .. Len(o.segment)
    BY <1>1, <1>3
  <2>2. read_item(o) = p
    BY <1>3 DEF read_item, operator_deref
  <2>3. /\ listed \in Seq(Names) /\ Len(listed) = o.returned + 1 /\ Ordered(o.what, listed)
        /\ Range(listed) = Range(o.listed) \cup {item}
        /\ \A i \in DOMAIN listed :
             (\E j \in DOMAIN o.listed : listed[i] = o.listed[j]) \/ listed[i] = item
    <3>1. \A i \in DOMAIN o.listed : Precedes(o.what, o.listed[i], item)
      BY <2>1
    <3>2. o.listed \in Seq(Names) /\ item \in Names /\ Ordered(o.what, o.listed)
      BY <1>1, <2>1
    <3> HIDE DEF item
    <3> QED
      BY <3>1, <3>2, AddedLast
  <2>4. \A j \in o.index + 2 .. Len(o.segment) :
          j \in o.index + 1 .. Len(o.segment) /\ Precedes(o.what, item, o.segment[j])
    BY <1>1, <2>1 DEF Ordered
  <2>5. Reached(o) # Empty => item < Reached(o)
    BY <2>1
  <2>6. \A i \in o.index + 1 .. Len(o.segment) :
          i \in o.index + 2 .. Len(o.segment) \/ o.segment[i] = item
    BY <1>1
  <2> HIDE DEF item, listed
  <2>7. /\ p \in Iterators /\ p.what = o.what /\ p.max = o.max /\ p.made
        /\ p.segment = o.segment /\ p.index = o.index /\ p.returned = o.returned
        /\ p.token = o.token /\ p.listed = listed
    BY <2>3 DEF Iterators
  <2> HIDE DEF p
  <2>8. Reached(p) = Reached(o) /\ ~passed_the_end(p)
    BY <2>7, <1>3 DEF Reached, passed_the_end
  <2>9. \A i \in DOMAIN listed, j \in o.index + 2 .. Len(o.segment) :
          Precedes(o.what, listed[i], o.segment[j])
    BY <2>3, <2>4
  <2>10. Reached(o) # Empty => \A i \in DOMAIN listed : listed[i] < Reached(o)
    BY <2>3, <2>5
  <2>11. Iterating(p, there)
    BY <2>1, <2>3, <2>6, <2>7, <2>8, <2>9, <2>10 DEF Iterating
  <2> QED
    BY <2>2, <2>3, <2>7, <2>8, <2>11 DEF IteratorInv
<1> QED
  BY <1>2, <1>3

(* What the handler makes of a page, in its own order, is a segment of the *)
(* same names.                                                             *)
LEMMA SegmentArranged ==
  ASSUME NEW what, NEW items \in Seq(Names), Increasing(items),
         NEW segment \in results(what, items)
  PROVE  /\ segment \in Seq(Names) /\ Len(segment) = Len(items)
         /\ Range(segment) = Range(items) /\ Ordered(what, segment)
<1>1. /\ DOMAIN items = 1 .. Len(items) /\ Len(items) \in Nat
      /\ \A i \in DOMAIN items : items[i] \in Nat
  <2>1. DOMAIN items = 1 .. Len(items) /\ Len(items) \in Nat
        /\ \A i \in DOMAIN items : items[i] \in Names
    OBVIOUS
  <2> QED
    BY <2>1, NamesAreNatural
<1>2. CASE what = "blob_tree"
  <2>1. /\ segment \in [DOMAIN items -> Range(items)] /\ Range(segment) = Range(items)
        /\ \A i, j \in DOMAIN segment : i < j => Before(segment[i], segment[j])
    BY <1>2 DEF results, BlobsFirst
  <2>2. Range(items) \subseteq Names
    BY DEF Range
  <2>3. segment \in [1 .. Len(items) -> Names]
    BY <1>1, <2>1, <2>2
  <2>4. segment \in Seq(Names) /\ Len(segment) = Len(items)
    BY <1>1, <2>3
  <2>5. \A a \in Names : ~Before(a, a)
    BY NamesAreNatural DEF Before
  <2>6. \A i \in DOMAIN segment : segment[i] \in Names
    BY <2>1, <2>2
  <2>7. Ordered(what, segment)
    BY <1>2, <2>1, <2>5, <2>6 DEF Ordered, Precedes
  <2> QED
    BY <2>1, <2>4, <2>7
<1>3. CASE what # "blob_tree"
  <2>1. segment = items
    BY <1>3 DEF results
  <2>2. \A i, j \in DOMAIN items : i < j => items[i] # items[j]
    BY <1>1 DEF Increasing
  <2> QED
    BY <2>1, <2>2 DEF Ordered, Precedes, Increasing
<1> QED
  BY <1>2, <1>3

(* A segment arrives, and the iterator takes it.                           *)
Arrived(o, segment, token) ==
  [o EXCEPT !.segment = segment, !.index = 0, !.token = token,
            !.returned = IF o.made THEN @ + 1 ELSE 0, !.made = TRUE]

(* The first item of it is read, if it has one and is wanted.              *)
LEMMA SegmentTaken ==
  ASSUME NEW o, NEW before, NEW r, NEW there, NEW token \in Tokens,
         IteratorInv(o, before), SegmentAsked(r, o, there), SegmentAnswered(r, there),
         IsToken(o.what, token), Marker(o.what, token) = r.resp.marker,
         token_empty(token) <=> r.resp.marker = Empty, token.location = r.at,
         r.resp.items # <<>> \/ token_empty(token),
         NEW segment \in results(o.what, r.resp.items)
  PROVE  LET p == read_item(Arrived(o, segment, token))
         IN IteratorInv(p, there) /\ p.made /\ p.token = token
<1> DEFINE p == Arrived(o, segment, token)
           items == r.resp.items
<1>1. /\ o \in Iterators /\ o.listed \in Seq(Names) /\ o.returned \in Nat
      /\ o.max \in Nat /\ o.made \in BOOLEAN
      /\ items \in Seq(Names) /\ Increasing(items)
  BY DEF IteratorInv, Iterators, SegmentAnswered
<1>2. /\ segment \in Seq(Names) /\ Len(segment) = Len(items)
      /\ Range(segment) = Range(items) /\ Ordered(o.what, segment)
  BY <1>1, SegmentArranged
<1>3. \A i \in DOMAIN segment :
        /\ segment[i] \in Names /\ segment[i] >= Asked(r)
        /\ r.resp.marker # Empty => segment[i] < r.resp.marker
  <2> SUFFICES ASSUME NEW i \in DOMAIN segment
               PROVE  /\ segment[i] \in Names /\ segment[i] >= Asked(r)
                      /\ r.resp.marker # Empty => segment[i] < r.resp.marker
    OBVIOUS
  <2>1. segment[i] \in Range(items)
    BY <1>2 DEF Range
  <2>2. PICK j \in DOMAIN items : segment[i] = items[j]
    BY <2>1 DEF Range
  <2> QED
    BY <1>1, <2>2 DEF SegmentAnswered
<1> HIDE DEF items
<1>4. /\ p \in Iterators /\ p.made /\ p.what = o.what /\ p.max = o.max
      /\ p.segment = segment /\ p.index = 0 /\ p.token = token /\ p.listed = o.listed
      /\ p.returned = IF o.made THEN o.returned + 1 ELSE 0
  <2> DEFINE n == IF o.made THEN o.returned + 1 ELSE 0
  <2>1. n \in Nat
    BY <1>1
  <2>2. p = [o EXCEPT !.segment = segment, !.index = 0, !.token = token,
                      !.returned = n, !.made = TRUE]
    BY <1>1 DEF Iterators, Arrived
  <2> HIDE DEF n, p
  <2>3. p \in Iterators
    BY <1>1, <1>2, <2>1, <2>2 DEF Iterators
  <2>4. /\ p.made /\ p.what = o.what /\ p.max = o.max
        /\ p.segment = segment /\ p.index = 0 /\ p.token = token /\ p.listed = o.listed
        /\ p.returned = n
    BY <1>1, <2>2 DEF Iterators
  <2> QED
    BY <2>3, <2>4 DEF n
<1> HIDE DEF p
<1>5. Reached(p) = r.resp.marker
  BY <1>4 DEF Reached
<1>6. /\ Len(o.listed) = p.returned /\ Ordered(o.what, o.listed)
      /\ o.max > 0 => p.returned <= o.max
  <2>1. CASE o.made
    <3>1. ~passed_the_end(o) /\ Iterating(o, before) /\ Ordered(o.what, o.listed)
      BY <2>1 DEF SegmentAsked, IteratorInv
    <3> QED
      BY <1>1, <1>4, <2>1, <3>1 DEF passed_the_end, Iterating
  <2>2. CASE ~o.made
    BY <1>1, <1>4, <2>2 DEF IteratorInv, Ordered
  <2> QED
    BY <2>1, <2>2
<1>7. \A i \in DOMAIN o.listed :
        /\ \A j \in 0 + 1 .. Len(segment) : Precedes(o.what, o.listed[i], segment[j])
        /\ r.resp.marker # Empty => o.listed[i] < r.resp.marker
  <2> SUFFICES ASSUME NEW i \in DOMAIN o.listed
               PROVE  /\ \A j \in 0 + 1 .. Len(segment) :
                           Precedes(o.what, o.listed[i], segment[j])
                      /\ r.resp.marker # Empty => o.listed[i] < r.resp.marker
    OBVIOUS
  <2>1. o.made
    BY DEF IteratorInv
  <2>2. o.listed[i] < Asked(r) /\ o.listed[i] \in Nat /\ Asked(r) \in Nat
    BY <1>1, <2>1, NamesAreNatural DEF SegmentAsked
  <2>3. r.resp.marker # Empty => o.listed[i] < r.resp.marker
    BY <2>2 DEF SegmentAnswered
  <2>4. ASSUME NEW j \in 0 + 1 .. Len(segment)
        PROVE  Precedes(o.what, o.listed[i], segment[j])
    <3>1. j \in DOMAIN segment
      BY <1>2
    <3>2. segment[j] \in Nat /\ segment[j] >= Asked(r)
      BY <1>3, <3>1, NamesAreNatural
    <3> QED
      BY <2>2, <3>2 DEF Precedes
  <2> QED
    BY <2>3, <2>4
<1>8. \A name \in there :
        \/ name \in Range(o.listed)
        \/ \E i \in 0 + 1 .. Len(segment) : segment[i] = name
        \/ r.resp.marker # Empty /\ name >= r.resp.marker
  <2>1. \A name \in Range(segment) : \E i \in 0 + 1 .. Len(segment) : segment[i] = name
    BY <1>2 DEF Range
  <2> QED
    BY <1>2, <2>1 DEF SegmentAsked, SegmentAnswered, items
<1>9. ~passed_the_end(p) => 0 < Len(segment)
  <2>1. items # <<>> => 0 < Len(items)
    BY <1>1
  <2> QED
    BY <1>1, <1>2, <1>4, <2>1 DEF passed_the_end, items
<1>10. token.location \in {"primary", "secondary"}
  BY DEF SegmentAsked
<1>11. IteratorInv(read_item(p), there) /\ read_item(p).made /\ read_item(p).token = p.token
  BY <1>2, <1>3, <1>4, <1>5, <1>6, <1>7, <1>8, <1>9, <1>10, ItemRead
<1> QED
  BY <1>4, <1>11 DEF p

(* operator++ within a segment, or off the end of the last one.            *)
LEMMA Incremented ==
  ASSUME NEW o, NEW there, IteratorInv(o, there), o.made, ~passed_the_end(o),
         ~last_of_segment(o)
  PROVE  LET p == read_item([o EXCEPT !.index = @ + 1, !.returned = @ + 1])
         IN IteratorInv(p, there) /\ p.made /\ p.token = o.token
<1> DEFINE p == [o EXCEPT !.index = @ + 1, !.returned = @ + 1]
<1>1. /\ o \in Iterators /\ o.listed \in Seq(Names) /\ o.segment \in Seq(Names)
      /\ o.returned \in Nat /\ o.index \in Nat /\ o.max \in Nat
  BY DEF IteratorInv, Iterators
<1>2. /\ p \in Iterators /\ p.made /\ p.what = o.what /\ p.max = o.max
      /\ p.segment = o.segment /\ p.index = o.index + 1 /\ p.token = o.token
      /\ p.listed = o.listed /\ p.returned = o.returned + 1
  <2>1. p = [o EXCEPT !.index = o.index + 1, !.returned = o.returned + 1]
    BY <1>1 DEF Iterators
  <2>2. o.index + 1 \in Nat /\ o.returned + 1 \in Nat
    BY <1>1
  <2> HIDE DEF p
  <2>3. p \in Iterators
    BY <1>1, <2>1, <2>2 DEF Iterators
  <2>4. /\ p.made = o.made /\ p.what = o.what /\ p.max = o.max
        /\ p.segment = o.segment /\ p.index = o.index + 1 /\ p.token = o.token
        /\ p.listed = o.listed /\ p.returned = o.returned + 1
    BY <1>1, <2>1 DEF Iterators
  <2> QED
    BY <2>3, <2>4
<1> HIDE DEF p
<1>3. Reached(p) = Reached(o) /\ Iterating(o, there)
  BY <1>2 DEF Reached, IteratorInv
<1>4. Len(p.listed) = p.returned /\ (p.max > 0 => p.returned <= p.max)
  BY <1>1, <1>2, <1>3 DEF Iterating, passed_the_end
<1>5. ~passed_the_end(p) => p.index < Len(p.segment)
  BY <1>1, <1>2, <1>3 DEF Iterating, passed_the_end, last_of_segment
<1>6. /\ \A i \in DOMAIN p.listed, j \in p.index + 1 .. Len(p.segment) :
              Precedes(p.what, p.listed[i], p.segment[j])
      /\ Reached(p) # Empty => \A i \in DOMAIN p.listed : p.listed[i] < Reached(p)
  <2>1. p.index + 1 = o.index + 2
    BY <1>1, <1>2
  <2> QED
    BY <2>1, <1>2, <1>3 DEF Iterating
<1>7. \A name \in there :
        \/ name \in Range(p.listed)
        \/ \E i \in p.index + 1 .. Len(p.segment) : p.segment[i] = name
        \/ Reached(p) # Empty /\ name >= Reached(p)
  <2>1. p.index + 1 = o.index + 2
    BY <1>1, <1>2
  <2> QED
    BY <2>1, <1>2, <1>3 DEF Iterating
<1>8. /\ p.token.location \in {"primary", "secondary"} /\ IsToken(p.what, p.token)
      /\ Ordered(p.what, p.segment) /\ Ordered(p.what, p.listed)
      /\ Reached(p) # Empty => \A i \in DOMAIN p.segment : p.segment[i] < Reached(p)
  BY <1>2, <1>3 DEF IteratorInv
<1> QED
  BY <1>2, <1>4, <1>5, <1>6, <1>7, <1>8, ItemRead DEF p

(* The request for the segment after the last item of this one.            *)
LEMMA NextAsked ==
  ASSUME NEW o, NEW there, NEW r, IteratorInv(o, there), o.made, ~passed_the_end(o),
         last_of_segment(o), o.what # "snapshot_tree", r.op = "list", r.accepts = {}, Reads(r.req),
         Asked(r) = Reached(o), r.both = FALSE, r.at = o.token.location
  PROVE  SegmentAsked(r, o, there)
<1>1. /\ o.listed \in Seq(Names) /\ o.segment \in Seq(Names) /\ o.index \in Nat
      /\ o.token.marker \in Nat
  BY DEF IteratorInv, Iterators, Tokens
<1>2. Reached(o) \in Nat /\ Reached(o) # Empty
  BY <1>1 DEF last_of_segment, IteratorInv, IsToken, Reached, Marker, append_query,
              token_empty, QueryText, Empty
<1>3. Iterating(o, there) /\ o.index + 2 .. Len(o.segment) = {}
  BY <1>1 DEF IteratorInv, last_of_segment
<1>4. \A name \in there : name \in Range(o.listed) \/ name >= Asked(r)
  BY <1>3 DEF Iterating
<1>5. \A i \in DOMAIN o.listed : o.listed[i] < Asked(r)
  BY <1>2, <1>3 DEF Iterating
<1>6. o.token.location \in {"primary", "secondary"}
  BY DEF IteratorInv
<1> QED
  BY <1>2, <1>4, <1>5, <1>6 DEF SegmentAsked

-----------------------------------------------------------------------------
(* Every step of a listing keeps the invariant.                            *)

(* A call that returns, while the iterator stays.                          *)
LEMMA ListingReturns ==
  ASSUME Listed, NEW c \in Callers, NEW out, Returns(c, out), obj' = obj
  PROVE  Listed'
<1>1. /\ CallsTyped' /\ \A d \in Callers \ {c} : call'[d] = call[d]
      /\ call'[c].st = "returned" /\ UNCHANGED <<kind, svc, sec>>
  BY ReturnCalls, DoneFields DEF Listed
<1> QED
  BY <1>1 DEF Listed, Active, At

(* The constructor's first segment.                                        *)
LEMMA FirstSegment ==
  ASSUME Listed, NEW c \in Callers, Quiet, fetch_first_segment(c)
  PROVE  Listed'
<1> DEFINE cmd == result_generator(obj, continuation_token)
<1>1. obj.what \in Listings
  BY DEF Listed, IteratorInv, Iterators
<1>2. IsListing(cmd, Empty, "unspecified")
  <2>1. continuation_token.location = "unspecified"
    BY DEF continuation_token
  <2>2. Marker(obj.what, continuation_token) = Empty
    BY DEF continuation_token, Marker, append_query, token_empty
  <2> QED
    BY <1>1, <2>1, <2>2, Generator
<1>3. ~obj.made /\ execute_async(c, cmd)
  BY DEF fetch_first_segment
<1>4. Thrown(cmd.req) <=> obj.what = "snapshot_tree"
  BY <1>1, GeneratorThrows
<1> HIDE DEF cmd
<1>5. /\ CallsTyped' /\ \A d \in Callers \ {c} : call'[d] = call[d]
      /\ Thrown(cmd.req) => call'[c] = Done(cmd, Threw)
      /\ ~Thrown(cmd.req) => /\ Agree(call'[c], cmd, {"st", "at", "seen"})
                             /\ call'[c].st = "sent"
                             /\ call'[c].at \in locations(cmd)
      /\ UNCHANGED <<kind, obj, svc, sec>>
  BY <1>2, <1>3, ExecuteCalls DEF IsListing, Listed
<1>6. CASE Thrown(cmd.req)
  BY <1>5, <1>6, DoneFields DEF Listed, Active, At, Quiet
<1>7. CASE ~Thrown(cmd.req)
  <2> DEFINE r == call'[c]
  <2>1. /\ r.op = "list" /\ r.accepts = {} /\ Reads(r.req) /\ Asked(r) = Empty
        /\ r.both = TRUE
    BY <1>2, <1>5, <1>7 DEF IsListing, Agree, CallFields, Asked
  <2>2. r.at \in {"primary", "secondary"}
    BY <1>2, <1>5, <1>7 DEF locations, IsListing
  <2>3. \A name \in At(r.at) : name >= Empty
    <3>1. At(r.at) \subseteq Names
      BY DEF At, Listed, IsStock, Stock
    <3> QED
      BY <3>1, NamesAreNatural DEF Empty
  <2>4. SegmentAsked(r, obj, At(r.at))
    <3>1. r.both \in BOOLEAN /\ Empty \in Nat
      BY <2>1 DEF Empty
    <3> HIDE DEF r
    <3> QED
      BY <3>1, <1>3, <1>7, <1>4, <2>1, <2>2, <2>3 DEF SegmentAsked
  <2>5. IteratorInv(obj, At(obj.token.location))'
    BY <1>5 DEF Listed, At
  <2> QED
    BY <1>5, <1>7, <2>4, <2>5 DEF Listed, Active, Quiet, At
<1> QED
  BY <1>6, <1>7

(* operator++, within the segment or with a request for the next one.      *)
LEMMA IncrementStep ==
  ASSUME Listed, NEW c \in Callers, increment(c)
  PROVE  Listed'
<1>1. obj.made /\ ~passed_the_end(obj) /\ Quiet
  BY DEF increment
<1>2. CASE ~last_of_segment(obj)
  <2> DEFINE p == read_item([obj EXCEPT !.index = @ + 1, !.returned = @ + 1])
  <2>1. obj' = p /\ UNCHANGED <<kind, svc, sec, call>>
    BY <1>2 DEF increment
  <2>2. IteratorInv(p, At(obj.token.location)) /\ p.token = obj.token
    BY <1>1, <1>2, Incremented DEF Listed
  <2> HIDE DEF p
  <2>3. IteratorInv(obj', At(obj'.token.location)) /\ UNCHANGED <<svc, sec, call>>
    BY <2>1, <2>2
  <2> QED
    BY <1>1, <2>3 DEF Listed, Quiet, Active, At, CallsTyped
<1>3. CASE last_of_segment(obj)
  <2> DEFINE cmd == result_generator(obj, obj.token)
  <2>1. obj.what \in Listings /\ obj.token.location \in {"primary", "secondary"}
    BY <1>1 DEF Listed, IteratorInv, Iterators
  <2>2. IsListing(cmd, Reached(obj), obj.token.location)
    BY <2>1, Generator DEF Reached
  <2>3. Thrown(cmd.req) <=> obj.what = "snapshot_tree"
    BY <2>1, GeneratorThrows
  <2>4. execute_async(c, cmd)
    BY <1>3 DEF increment, fetch_next_segment
  <2> HIDE DEF cmd
  <2>5. /\ CallsTyped' /\ \A d \in Callers \ {c} : call'[d] = call[d]
        /\ Thrown(cmd.req) => call'[c] = Done(cmd, Threw)
        /\ ~Thrown(cmd.req) => /\ Agree(call'[c], cmd, {"st", "at", "seen"})
                               /\ call'[c].st = "sent"
                               /\ call'[c].at \in locations(cmd)
        /\ UNCHANGED <<kind, obj, svc, sec>>
    BY <2>2, <2>4, ExecuteCalls DEF IsListing, Listed
  <2>6. CASE Thrown(cmd.req)
    BY <1>1, <2>5, <2>6, DoneFields DEF Listed, Active, At, Quiet
  <2>7. CASE ~Thrown(cmd.req)
    <3> DEFINE r == call'[c]
    <3>1. /\ r.op = "list" /\ r.accepts = {} /\ Reads(r.req)
          /\ Asked(r) = Reached(obj)
      BY <2>2, <2>5, <2>7 DEF IsListing, Agree, CallFields, Asked
    <3>2. cmd.both = FALSE /\ cmd.at = obj.token.location
      BY <2>1, <2>2, <2>7 DEF IsListing
    <3>3. r.both = FALSE /\ r.at = obj.token.location
      BY <3>2, <2>5, <2>7 DEF locations, Agree, CallFields
    <3> HIDE DEF r
    <3>4. SegmentAsked(r, obj, At(r.at))
      BY <1>1, <1>3, <2>7, <2>3, <3>1, <3>3, NextAsked DEF Listed
    <3> QED
      BY <1>1, <2>5, <2>7, <3>4 DEF Listed, Active, Quiet, At, r
  <2> QED
    BY <2>6, <2>7
<1> QED
  BY <1>2, <1>3

(* A segment arrives: an empty one with a token is passed over, any other  *)
(* is taken.                                                               *)
LEMMA SegmentStep ==
  ASSUME Listed, NEW c \in Callers, segment_response(c)
  PROVE  Listed'
<1> DEFINE token == next_token(c)
           cmd == result_generator(obj, token)
           r == call[c]
           again == r.resp.items = <<>> /\ ~token_empty(token)
<1>1. r.st = "answered" /\ Active(c)
  BY DEF segment_response, Accepted, Active
<1>2. /\ SegmentAsked(r, obj, At(r.at)) /\ SegmentAnswered(r, At(r.at))
      /\ obj.what \in Listings
  BY <1>1 DEF Listed, IteratorInv, Iterators
<1>3. /\ token \in Tokens /\ IsToken(obj.what, token)
      /\ Marker(obj.what, token) = r.resp.marker
      /\ token_empty(token) <=> r.resp.marker = Empty
      /\ token.location = r.at
  BY <1>2, NextToken DEF SegmentAsked, SegmentAnswered
<1>4. \A d \in Callers \ {c} : ~Active(d)
  BY <1>1 DEF Listed
<1>5. CASE ~again
  <2>1. PICK segment \in results(obj.what, r.resp.items) :
          Return(c, read_item(Arrived(obj, segment, token)), OK)
    BY <1>5 DEF segment_response, Arrived
  <2> DEFINE p == read_item(Arrived(obj, segment, token))
  <2>2. IteratorInv(p, At(r.at)) /\ p.token = token
    BY <1>2, <1>3, <1>5, SegmentTaken DEF Listed
  <2> HIDE DEF p
  <2>3. Returns(c, OK) /\ obj' = p
    <3>1. Return(c, p, OK)
      BY <2>1 DEF p
    <3> QED
      BY <3>1, <1>1 DEF Return, Returns
  <2>4. /\ CallsTyped' /\ \A d \in Callers \ {c} : call'[d] = call[d]
        /\ call'[c].st = "returned" /\ UNCHANGED <<kind, svc, sec>>
    BY <2>3, ReturnCalls, DoneFields DEF Listed
  <2>5. IteratorInv(obj', At(obj'.token.location))
    BY <1>3, <2>2, <2>3
  <2>6. \A d \in Callers : ~Active(d)'
    BY <1>4, <2>4 DEF Active
  <2>7. IteratorInv(obj, At(obj.token.location))'
    BY <2>4, <2>5 DEF At
  <2>8. \A d \in Callers : call'[d].st # "answered"
    BY <2>6 DEF Active
  <2> QED
    BY <2>4, <2>6, <2>7, <2>8 DEF Listed
<1>6. CASE again
  <2>1. PICK loc \in locations(cmd) :
          call' = [call EXCEPT ![c] = [cmd EXCEPT !.st = "sent", !.at = loc]]
    BY <1>6 DEF segment_response
  <2>2. UNCHANGED <<kind, obj, svc, sec>>
    BY <1>6 DEF segment_response
  <2>3. IsListing(cmd, r.resp.marker, r.at)
    BY <1>2, <1>3, Generator
  <2>4. r.resp.items = <<>> /\ r.resp.marker # Empty
    BY <1>3, <1>6
  <2> HIDE DEF cmd, token, again
  <2> DEFINE q == [cmd EXCEPT !.st = "sent", !.at = loc]
  <2>5. /\ DOMAIN q = CallFields /\ q.st = "sent" /\ q.at = loc
        /\ Agree(q, cmd, {"st", "at"})
    BY <2>3 DEF IsListing, Agree, CallFields
  <2>6. call'[c] = q /\ \A d \in Callers \ {c} : call'[d] = call[d]
    BY <2>1 DEF Listed, CallsTyped
  <2>7. CallsTyped'
    BY <2>1, <2>5, <2>6 DEF Listed, CallsTyped
  <2> HIDE DEF q
  <2>8. ~Thrown(cmd.req)
    BY <1>2, GeneratorThrows DEF SegmentAsked, cmd
  <2>9. /\ q.op = "list" /\ q.accepts = {} /\ Reads(q.req)
        /\ Asked(q) = r.resp.marker
    BY <2>3, <2>5, <2>8 DEF IsListing, Agree, CallFields, Asked
  <2>10. cmd.both = FALSE /\ cmd.at = r.at
    BY <1>2, <2>3, <2>8 DEF IsListing, SegmentAsked
  <2>11. q.both = FALSE /\ q.at = r.at
    BY <2>5, <2>10 DEF Agree, CallFields, locations
  <2>12. \A name \in At(r.at) : name \in Range(obj.listed) \/ name >= r.resp.marker
    BY <1>2, <2>4 DEF SegmentAsked, SegmentAnswered, Range
  <2>13. obj.made => \A i \in DOMAIN obj.listed : obj.listed[i] < r.resp.marker
    <3> SUFFICES ASSUME obj.made, NEW i \in DOMAIN obj.listed
                 PROVE  obj.listed[i] < r.resp.marker
      OBVIOUS
    <3>1. obj.listed[i] < Asked(r) /\ Asked(r) <= r.resp.marker
      BY <1>2, <2>4 DEF SegmentAsked, SegmentAnswered
    <3>2. obj.listed[i] \in Nat
      BY NamesAreNatural DEF Listed, IteratorInv, Iterators
    <3> QED
      BY <1>2, <3>1, <3>2 DEF SegmentAsked, SegmentAnswered
  <2>14. SegmentAsked(q, obj, At(q.at))
    BY <1>2, <2>9, <2>11, <2>12, <2>13 DEF SegmentAsked, SegmentAnswered
  <2> QED
    BY <1>4, <2>2, <2>5, <2>6, <2>7, <2>14 DEF Listed, Active, At
<1> QED
  BY <1>5, <1>6

(* The service answers.                                                    *)
LEMMA ServeListingStep ==
  ASSUME Listed, NEW c \in Callers, ServeListing(c)
  PROVE  Listed'
<1>1. PICK items \in BoundedSeq(Names, MaxPage) :
        /\ IsPage(call[c].req, located(c), items)
        /\ Serve(c, ListService(call[c].req, located(c), items))
  BY DEF ServeListing
<1> DEFINE answer == ListService(call[c].req, located(c), items)
           r == call'[c]
<1>2. items \in Seq(Names)
  BY LimitsAssumption DEF BoundedSeq, SeqOf
<1>3. /\ CallsTyped' /\ call[c].st = "sent"
      /\ \A d \in Callers \ {c} : Watched(call'[d], call[d], svc'.there)
      /\ Agree(r, call[c], {"st", "resp", "did", "pre", "seen"})
      /\ r.st = "answered" /\ r.resp = answer
      /\ svc' = IF call[c].at = "primary" /\ ~Reads(call[c].req)
                THEN answer.state ELSE svc
      /\ UNCHANGED <<kind, obj, sec>>
  BY <1>1, ServeCalls DEF Listed
<1>4. Active(c) /\ SegmentAsked(call[c], obj, At(call[c].at))
  BY <1>3 DEF Active, Listed
<1>5. UNCHANGED <<svc, sec, obj>>
  BY <1>3, <1>4 DEF SegmentAsked
<1> HIDE DEF answer
<1>6. r.at = call[c].at /\ r.req = call[c].req
  BY <1>3 DEF Agree, CallFields
<1>7. SegmentAsked(r, obj, At(r.at))
  BY <1>3, <1>4, <1>6, SameSegment
<1>8. located(c).always = At(r.at) /\ IsStock(located(c))
  BY <1>4, <1>6 DEF located, At, SegmentAsked, Listed
<1>9. SegmentAnswered(r, At(r.at))
  BY <1>1, <1>2, <1>3, <1>6, <1>7, <1>8, PageAnswered DEF SegmentAsked, answer
<1>10. \A d \in Callers \ {c} : ~Active(d) /\ call'[d].st = call[d].st
  BY <1>3, <1>4 DEF Listed, Watched, Agree, CallFields
<1>11. \A d \in Callers \ {c} : call'[d].st \notin {"sent", "answered"}
  BY <1>10 DEF Active
<1> HIDE DEF r
<1>12. /\ \A d \in Callers : Active(d)' => d = c
       /\ \A d \in Callers : call'[d].st = "answered" => d = c
  BY <1>11 DEF Active
<1>13. /\ SegmentAsked(call[c], obj, At(call[c].at))'
       /\ SegmentAnswered(call[c], At(call[c].at))'
  BY <1>5, <1>7, <1>9 DEF At, r
<1> QED
  BY <1>3, <1>5, <1>12, <1>13 DEF Listed, At

(* A request or an answer is lost: only the first request of a listing may *)
(* change its location.                                                    *)
LEMMA ResendListing ==
  ASSUME Listed, NEW c \in Callers, Resend(c)
  PROVE  Listed'
<1> DEFINE r == call'[c]
<1>1. /\ CallsTyped' /\ \A d \in Callers \ {c} : call'[d] = call[d]
      /\ Active(c) /\ Agree(r, call[c], {"st", "resp", "at"}) /\ r.st = "sent"
      /\ r.at = IF call[c].both THEN other(call[c].at) ELSE call[c].at
      /\ UNCHANGED <<kind, obj, svc, sec>>
  BY ResendCalls DEF Listed
<1>2. SegmentAsked(call[c], obj, At(call[c].at))
  BY <1>1 DEF Listed
<1>3. /\ r.op = call[c].op /\ r.accepts = call[c].accepts /\ r.req = call[c].req
      /\ r.both = call[c].both
  BY <1>1 DEF Agree, CallFields
<1>4. SegmentAsked(r, obj, At(r.at))
  <2>1. CASE ~call[c].both
    BY <1>1, <1>2, <1>3, <2>1 DEF SegmentAsked, Asked
  <2>2. CASE call[c].both
    <3>1. r.at \in {"primary", "secondary"}
      BY <1>1, <2>2 DEF other
    <3>2. \A name \in At(r.at) : name >= Asked(r)
      <4>1. At(r.at) \subseteq Names
        BY DEF At, Listed, IsStock, Stock
      <4>2. Asked(r) = 0
        BY <1>2, <1>3, <2>2 DEF SegmentAsked, Asked, Empty
      <4> QED
        BY <4>1, <4>2, NamesAreNatural
    <3> QED
      BY <1>2, <1>3, <2>2, <3>1, <3>2 DEF SegmentAsked, Asked
  <2> QED
    BY <2>1, <2>2
<1>5. \A d \in Callers \ {c} : ~Active(d) /\ ~Active(d)'
  BY <1>1 DEF Listed, Active
<1>6. SegmentAsked(call[c], obj, At(call[c].at))'
  BY <1>1, <1>4 DEF At
<1> HIDE DEF r
<1>7. /\ \A d \in Callers : Active(d)' => d = c
      /\ \A d \in Callers : call'[d].st # "answered"
  BY <1>1, <1>5 DEF Active, r
<1> QED
  BY <1>1, <1>6, <1>7 DEF Listed, At

(* No answer to a listing is refused.                                      *)
LEMMA ListingNotRefused ==
  ASSUME Listed, NEW c \in Callers
  PROVE  ~Refused(c)
<1>1. call[c].st = "answered" => call[c].resp.code = OK
  BY DEF Listed, SegmentAnswered
<1> QED
  BY <1>1 DEF Refused, Success, OK

(* Another client adds or removes a name.                                  *)
LEMMA ForeignNamesStep ==
  ASSUME Listed, ForeignNames
  PROVE  Listed'
<1>1. PICK names \in SUBSET Names :
        Foreign([svc EXCEPT !.names = names, !.always = @ \cap names])
  <2>1. svc.names \in SUBSET Names
    BY DEF Listed, IsStock, Stock
  <2> QED
    BY <2>1 DEF ForeignNames
<1>2. /\ CallsTyped' /\ UNCHANGED <<kind, obj, sec>>
      /\ svc' = [svc EXCEPT !.names = names, !.always = @ \cap names]
      /\ \A d \in Callers : Watched(call'[d], call[d], svc'.there)
  BY <1>1, ForeignCalls DEF Listed
<1>3. IsStock(svc') /\ svc'.always \subseteq svc.always
  BY <1>2 DEF Listed, IsStock, Stock
<1>4. IteratorInv(obj, At(obj.token.location))'
  <2>1. IteratorInv(obj, At(obj.token.location)) /\ obj' = obj
    BY <1>2 DEF Listed
  <2>2. At(obj.token.location)' \subseteq At(obj.token.location)
    BY <1>2, <1>3 DEF At
  <2> QED
    BY <2>1, <2>2, Shrinks
<1>5. \A d \in Callers : /\ Agree(call'[d], call[d], {"seen"})
                         /\ Agree(call'[d], call[d], {"st", "resp", "did", "pre", "seen"})
                         /\ call'[d].st = call[d].st /\ call'[d].at = call[d].at
  BY <1>2 DEF Watched, Agree, CallFields
<1>6. \A d \in Callers : At(call[d].at)' \subseteq At(call[d].at)
  BY <1>2, <1>3, <1>5 DEF At
<1>7. ASSUME NEW d \in Callers, Active(d)'
      PROVE  Active(d) /\ SegmentAsked(call[d], obj, At(call[d].at))'
  <2>1. Active(d)
    BY <1>5, <1>7 DEF Active
  <2>2. SegmentAsked(call[d], obj, At(call[d].at)')
    BY <2>1, <1>6, Shrinks DEF Listed
  <2>3. SegmentAsked(call'[d], obj, At(call[d].at)')
    BY <2>2, <1>5, SameSegment
  <2> QED
    BY <1>2, <2>1, <2>3
<1>8. ASSUME NEW d \in Callers, call'[d].st = "answered"
      PROVE  SegmentAnswered(call[d], At(call[d].at))'
  <2>1. SegmentAnswered(call[d], At(call[d].at))
    BY <1>5, <1>8 DEF Listed
  <2>2. SegmentAnswered(call[d], At(call[d].at)')
    BY <1>6, <2>1, Shrinks
  <2>3. SegmentAnswered(call'[d], At(call[d].at)')
    BY <1>5, <2>2, SameSegment
  <2> QED
    BY <2>3
<1>9. IsStock(svc)' /\ IsStock(sec)'
  BY <1>2, <1>3 DEF Listed
<1> QED
  BY <1>2, <1>4, <1>7, <1>8, <1>9 DEF Listed

(* The listing begins with an iterator that has no segment yet.            *)
LEMMA ListingBegins == Init => ListingInv
<1> SUFFICES ASSUME Init, kind = "listing" PROVE Listed
  BY DEF ListingInv
<1>1. ListingInit
  BY DEF Init, FileInit, QueueInit, TableInit, ClientInit, CommandInit, ClientKinds
<1>2. PICK what \in Listings, max_results \in Limits : obj = result_iterator(what, max_results)
  BY <1>1 DEF ListingInit
<1>3. /\ svc = Stocked(Names) /\ sec = Stocked(ReplicatedNames)
      /\ call = [c \in Callers |-> Idle]
  BY <1>1 DEF ListingInit
<1>4. IsStock(svc) /\ IsStock(sec)
  BY <1>3, NamesAssumption DEF Stocked, IsStock, Stock
<1>5. CallsTyped /\ \A c \in Callers : call[c].st = "idle"
  BY <1>3 DEF CallsTyped, Idle, CallFields
<1>6. /\ obj \in Iterators /\ IsToken(obj.what, obj.token) /\ obj.listed = <<>>
      /\ obj.made = FALSE
  BY <1>2, LimitsAssumption
  DEF result_iterator, Iterators, Tokens, continuation_token, IsToken, token_empty, Empty
<1> QED
  BY <1>4, <1>5, <1>6 DEF Listed, IteratorInv, Active

-----------------------------------------------------------------------------
(* Every step leaves the kind of the object as it is.                      *)
LEMMA KindKept == [Next]_cvars => kind' = kind
<1> SUFFICES ASSUME [Next]_cvars PROVE kind' = kind
  OBVIOUS
<1>1. ASSUME NEW c \in Callers, ServeCall(c) PROVE kind' = kind
  BY <1>1 DEF ServeCall, ServeListing, Serve
<1>2. ASSUME NEW c \in Callers, Resend(c) \/ GiveUp(c) \/ Refused(c)
      PROVE  kind' = kind
  BY <1>2 DEF Resend, GiveUp, Refused
<1>3. ASSUME ForeignStep PROVE kind' = kind
  BY <1>3 DEF ForeignStep, ForeignFile, ForeignQueue, ForeignConsumer, ForeignTable,
              ForeignEntity, ForeignProperties, ForeignNames, Foreign
<1>4. CASE UNCHANGED cvars
  BY <1>4 DEF cvars
<1>5. CASE Next
  BY <1>1, <1>2, <1>3, <1>5, KindShareCalls, KindDirectoryCalls, KindFileCalls,
     KindFileCopyCalls, KindFileLeaseCalls, KindQueueCalls, KindMessageCalls,
     KindTableCalls, KindEntityCalls, KindClientCalls, KindListingCalls
  DEF Next, KindAndCalm
<1> QED
  BY <1>4, <1>5

(* The steps of a listing, among those of all the objects.                 *)
LEMMA ListingNext ==
  ASSUME kind = "listing", Next
  PROVE  \/ ForeignNames
         \/ \E c \in Callers : \/ ListingCalls(c) \/ ServeListing(c)
                               \/ Resend(c) \/ GiveUp(c) \/ Refused(c)
  BY DEF Next, ShareCalls, DirectoryCalls, FileCalls, FileCopyCalls, FileLeaseCalls,
         QueueCalls, MessageCalls, TableCalls, EntityCalls, ClientCalls, ClientKinds,
         ServeCall, ForeignStep

(* The invariant of listings is kept by every step.                        *)
LEMMA ListingKept == ListingInv /\ [Next]_cvars => ListingInv'
<1> SUFFICES ASSUME ListingInv, [Next]_cvars, kind = "listing" PROVE Listed'
  BY KindKept DEF ListingInv
<1>1. Listed
  BY DEF ListingInv
<1>2. CASE UNCHANGED cvars
  BY <1>1, <1>2 DEF cvars, Listed, CallsTyped, Active, At
<1>3. CASE Next
  <2>1. CASE ForeignNames
    BY <1>1, <2>1, ForeignNamesStep
  <2>2. ASSUME NEW c \in Callers, ListingCalls(c)
        PROVE  Listed'
    BY <1>1, <2>2, FirstSegment, IncrementStep, SegmentStep DEF ListingCalls
  <2>3. ASSUME NEW c \in Callers, GiveUp(c)
        PROVE  Listed'
    BY <1>1, <2>3, ReturningSteps, ListingReturns
  <2>4. ASSUME NEW c \in Callers, ServeListing(c) \/ Resend(c) \/ Refused(c)
        PROVE  Listed'
    BY <1>1, <2>4, ServeListingStep, ResendListing, ListingNotRefused
  <2> QED
    BY <1>3, <2>1, <2>2, <2>3, <2>4, ListingNext
<1> QED
  BY <1>2, <1>3

(* A listing is complete when it has come to its end.                      *)
LEMMA CompleteAtEnd == ListingInv => ListingComplete
<1> SUFFICES ASSUME Listed, kind = "listing", obj.made, passed_the_end(obj)
             PROVE  LET there == IF obj.token.location = "primary" THEN svc.always
                                 ELSE sec.always
                        read == Range(obj.listed)
                    IN /\ Ordered(obj.what, obj.listed)
                       /\ obj.max = 0 => there \subseteq read
                       /\ obj.max > 0 => \/ Len(obj.listed) <= obj.max /\ there \subseteq read
                                         \/ Len(obj.listed) = obj.max
  <2>1. ListingInv /\ kind = "listing" => Listed
    BY DEF ListingInv
  <2>2. Listed => /\ obj.max \in Nat /\ Len(obj.listed) \in Nat
                  /\ DOMAIN obj.listed \subseteq Nat
    BY DEF Listed, IteratorInv, Iterators
  <2>3. Ordered(obj.what, obj.listed) =>
          (obj.what # "blob_tree" => Increasing(obj.listed))
    BY DEF Ordered, Precedes, Increasing
  <2>4. Listed /\ Ordered(obj.what, obj.listed) => IsInjective(obj.listed)
    <3> SUFFICES ASSUME Listed, Ordered(obj.what, obj.listed),
                        NEW i \in DOMAIN obj.listed, NEW j \in DOMAIN obj.listed,
                        obj.listed[i] = obj.listed[j]
                 PROVE  i = j
      BY DEF IsInjective
    <3>1. i \in Nat /\ j \in Nat /\ ~(i < j) /\ ~(j < i)
      BY <2>2 DEF Ordered, Precedes
    <3> QED
      BY <3>1
  <2> QED
    BY <2>1, <2>2, <2>3, <2>4 DEF ListingComplete
<1>1. /\ Ordered(obj.what, obj.listed) /\ Passed(obj, At(obj.token.location))
      /\ obj.max \in Nat /\ obj.returned \in Nat
  BY DEF Listed, IteratorInv, Iterators
<1>2. CASE obj.index = Len(obj.segment) /\ token_empty(obj.token)
  BY <1>1, <1>2 DEF Passed, At
<1>3. CASE obj.max > 0 /\ obj.returned >= obj.max
  BY <1>1, <1>3 DEF Passed
<1> QED
  BY <1>2, <1>3 DEF passed_the_end

(* ListingComplete: for any number of names and segments, with empty ones  *)
(* among them, any limit, lost answers and names that come and go, a       *)
(* result_iterator that has come to its end has given the application      *)
(* every name that was there throughout, each once and, but for a tree of  *)
(* blobs, in order.                                                        *)
THEOREM ListingIsComplete == Spec => []ListingComplete
<1>1. Spec => []ListingInv
  BY ListingBegins, ListingKept, PTL DEF Spec
<1> QED
  BY <1>1, CompleteAtEnd, PTL

-----------------------------------------------------------------------------
(* Service properties.                                                     *)

Logging == [flags : Nat, retention : BOOLEAN, days : Nat]

Metrics == [enabled : BOOLEAN, apis : BOOLEAN, retention : BOOLEAN, days : Nat]

Properties ==
  [logging : Logging, hour_metrics : Metrics, minute_metrics : Metrics,
   cors : Seq(Nat), version : Nat]

Sections == {"logging", "hour_metrics", "minute_metrics", "cors"}

(* What the writer makes of a section.                                     *)
LEMMA LoggingWritten ==
  ASSUME NEW logging \in Logging
  PROVE  LET e == write_logging(logging)
         IN /\ e.flags = logging.flags /\ e.retention = logging.retention
            /\ Has(e, "days") <=> logging.retention
            /\ logging.retention => e.days = logging.days
<1>1. CASE logging.retention
  BY <1>1 DEF Logging, write_logging, write_retention_policy, Over, Has
<1>2. CASE ~logging.retention
  BY <1>2 DEF Logging, write_logging, write_retention_policy, Over, Has
<1> QED
  BY <1>1, <1>2

(* The same of metrics, whose scope is only written when they are enabled. *)
LEMMA MetricsWritten ==
  ASSUME NEW metrics \in Metrics
  PROVE  LET e == write_metrics(metrics)
         IN /\ e.enabled = metrics.enabled /\ e.retention = metrics.retention
            /\ Has(e, "days") <=> metrics.retention
            /\ metrics.retention => e.days = metrics.days
            /\ Has(e, "apis") <=> metrics.enabled
            /\ metrics.enabled => e.apis = metrics.apis
<1> DEFINE head == IF metrics.enabled THEN [enabled |-> TRUE, apis |-> metrics.apis]
                   ELSE [enabled |-> FALSE]
           tail == write_retention_policy(metrics)
<1>1. /\ metrics.enabled \in BOOLEAN /\ head.enabled = metrics.enabled
      /\ DOMAIN head = IF metrics.enabled THEN {"enabled", "apis"} ELSE {"enabled"}
      /\ metrics.enabled => head.apis = metrics.apis
  BY DEF Metrics
<1>2. /\ metrics.retention \in BOOLEAN /\ tail.retention = metrics.retention
      /\ DOMAIN tail = IF metrics.retention THEN {"retention", "days"} ELSE {"retention"}
      /\ metrics.retention => tail.days = metrics.days
  BY DEF Metrics, write_retention_policy
<1>3. write_metrics(metrics) = Over(head, tail)
  BY DEF write_metrics
<1> HIDE DEF head, tail
<1> QED
  BY <1>1, <1>2, <1>3 DEF Over, Has

(* A document with every section.                                          *)
IsDocument(d) ==
  /\ Sections \cup {"version"} \subseteq DOMAIN d
  /\ \E logging \in Logging : d["logging"] = write_logging(logging)
  /\ \E metrics \in Metrics : d["hour_metrics"] = write_metrics(metrics)
  /\ \E metrics \in Metrics : d["minute_metrics"] = write_metrics(metrics)
  /\ \E rules \in Seq(Nat) : d["cors"] = [rules |-> rules]
  /\ \E number \in Nat : d["version"] = [number |-> number]

(* What the reader makes of a section.                                     *)
Days(e) == IF Has(e, "days") THEN e.days ELSE 0

ReadLogging(e) == [flags |-> e.flags, retention |-> e.retention, days |-> Days(e)]

ReadMetrics(e) ==
  [enabled |-> e.enabled, apis |-> IF Has(e, "apis") THEN e.apis ELSE FALSE,
   retention |-> e.retention, days |-> Days(e)]

(* Reading what was written gives the canonical form.                      *)
LEMMA LoggingRead ==
  ASSUME NEW logging \in Logging
  PROVE  LET l == ReadLogging(write_logging(logging))
         IN /\ l \in Logging
            /\ l = IF logging.retention THEN logging ELSE [logging EXCEPT !.days = 0]
<1> DEFINE e == write_logging(logging)
           l == ReadLogging(e)
<1>1. /\ e.flags = logging.flags /\ e.retention = logging.retention
      /\ Days(e) = IF logging.retention THEN logging.days ELSE 0
  BY LoggingWritten DEF Days
<1> HIDE DEF e
<1>2. l = [flags |-> logging.flags, retention |-> logging.retention,
           days |-> IF logging.retention THEN logging.days ELSE 0]
  BY <1>1 DEF ReadLogging
<1>3. l \in Logging
  BY <1>2 DEF Logging
<1>4. logging.retention => l = logging
  BY <1>2 DEF Logging
<1>5. ~logging.retention => l = [logging EXCEPT !.days = 0]
  BY <1>2 DEF Logging
<1> QED
  BY <1>3, <1>4, <1>5 DEF e

(* So it does with metrics.                                                *)
LEMMA MetricsRead ==
  ASSUME NEW metrics \in Metrics
  PROVE  LET m == ReadMetrics(write_metrics(metrics))
             r == IF metrics.retention THEN metrics ELSE [metrics EXCEPT !.days = 0]
         IN /\ m \in Metrics
            /\ m = [r EXCEPT !.apis = @ /\ metrics.enabled]
<1> DEFINE e == write_metrics(metrics)
           m == ReadMetrics(e)
           r == IF metrics.retention THEN metrics ELSE [metrics EXCEPT !.days = 0]
<1>1. /\ e.enabled = metrics.enabled /\ e.retention = metrics.retention
      /\ Days(e) = IF metrics.retention THEN metrics.days ELSE 0
  BY MetricsWritten DEF Days
<1>2. (IF Has(e, "apis") THEN e.apis ELSE FALSE) = (metrics.apis /\ metrics.enabled)
  BY MetricsWritten DEF Metrics
<1> HIDE DEF e
<1>3. m = [enabled |-> metrics.enabled, apis |-> metrics.apis /\ metrics.enabled,
           retention |-> metrics.retention,
           days |-> IF metrics.retention THEN metrics.days ELSE 0]
  BY <1>1, <1>2 DEF ReadMetrics
<1>4. m \in Metrics
  BY <1>3 DEF Metrics
<1>5. r \in Metrics /\ r.enabled = metrics.enabled /\ r.apis = metrics.apis
      /\ r.retention = metrics.retention
      /\ r.days = IF metrics.retention THEN metrics.days ELSE 0
  BY DEF Metrics
<1> HIDE DEF r, m
<1>6. m = [r EXCEPT !.apis = r.apis /\ metrics.enabled]
  BY <1>3, <1>5 DEF Metrics
<1> QED
  BY <1>4, <1>6 DEF r, m, e

(* The reader at the end of the logging element.                           *)
LEMMA LoggingElement ==
  ASSUME NEW reader, reader.properties \in Properties, reader.days = 0,
         NEW e, ReadLogging(e) \in Logging
  PROVE  LET next == handle_end_element(reader, "logging", e)
         IN /\ next.days = 0 /\ next.properties \in Properties
            /\ next.properties = [reader.properties EXCEPT !.logging = ReadLogging(e)]
<1> DEFINE p == reader.properties
           read == [p EXCEPT !.logging = [p.logging EXCEPT !.flags = e.flags]]
           l == ReadLogging(e)
           q == [p EXCEPT !.logging = l]
<1>1. p \in Properties /\ p.logging \in Logging
  BY DEF Properties
<1>2. handle_element(p, "logging", e) = read
  BY <1>1 DEF handle_element, handle_logging, Properties
<1>3. handle_end_element(reader, "logging", e) =
        [properties |-> [read EXCEPT !["logging"].retention = e.retention,
                                     !["logging"].days = Days(e)], days |-> 0]
  BY <1>2 DEF handle_end_element, Days
<1>4. [read EXCEPT !["logging"].retention = e.retention, !["logging"].days = Days(e)]
        = [p EXCEPT !.logging =
             [[p.logging EXCEPT !.flags = e.flags] EXCEPT
                !.retention = e.retention, !.days = Days(e)]]
  BY <1>1 DEF Properties
<1>5. [[p.logging EXCEPT !.flags = e.flags] EXCEPT !.retention = e.retention, !.days = Days(e)]
        = l
  <2> DEFINE k == [[p.logging EXCEPT !.flags = e.flags] EXCEPT
                     !.retention = e.retention, !.days = Days(e)]
  <2>1. /\ l \in Logging /\ l.flags = e.flags /\ l.retention = e.retention
        /\ l.days = Days(e)
    BY DEF ReadLogging
  <2>2. e.flags \in Nat /\ e.retention \in BOOLEAN /\ Days(e) \in Nat
    BY <2>1 DEF Logging
  <2>3. /\ k \in Logging /\ k.flags = e.flags /\ k.retention = e.retention
        /\ k.days = Days(e)
    BY <1>1, <2>2 DEF Logging
  <2> HIDE DEF k, l
  <2>4. k = l
    BY <2>1, <2>3 DEF Logging
  <2> QED
    BY <2>4 DEF k
<1>6. q \in Properties
  BY <1>1 DEF Properties
<1> QED
  BY <1>3, <1>4, <1>5, <1>6

(* The same at the end of a metrics element.                               *)
LEMMA MetricsElement ==
  ASSUME NEW reader, reader.properties \in Properties, reader.days = 0,
         NEW section \in {"hour_metrics", "minute_metrics"},
         reader.properties[section].apis = FALSE,
         NEW e, ReadMetrics(e) \in Metrics
  PROVE  LET next == handle_end_element(reader, section, e)
         IN /\ next.days = 0 /\ next.properties \in Properties
            /\ next.properties = [reader.properties EXCEPT ![section] = ReadMetrics(e)]
<1> DEFINE p == reader.properties
           apis == IF Has(e, "apis") THEN e.apis ELSE FALSE
           read == [p EXCEPT ![section] = [p[section] EXCEPT !.enabled = e.enabled,
                                                             !.apis = apis]]
           m == ReadMetrics(e)
           q == [p EXCEPT ![section] = m]
<1>1. p \in Properties /\ p[section] \in Metrics
  BY DEF Properties
<1>2. handle_element(p, section, e) = read
  BY <1>1 DEF handle_element, handle_metrics, Properties, Metrics
<1> HIDE DEF apis
<1>3. handle_end_element(reader, section, e) =
        [properties |-> [read EXCEPT ![section].retention = e.retention,
                                     ![section].days = Days(e)], days |-> 0]
  BY <1>2 DEF handle_end_element, Days
<1>4. [read EXCEPT ![section].retention = e.retention, ![section].days = Days(e)]
        = [p EXCEPT ![section] =
             [[p[section] EXCEPT !.enabled = e.enabled, !.apis = apis] EXCEPT
                !.retention = e.retention, !.days = Days(e)]]
  BY <1>1 DEF Properties
<1>5. [[p[section] EXCEPT !.enabled = e.enabled, !.apis = apis] EXCEPT
         !.retention = e.retention, !.days = Days(e)] = m
  <2> DEFINE k == [[p[section] EXCEPT !.enabled = e.enabled, !.apis = apis] EXCEPT
                     !.retention = e.retention, !.days = Days(e)]
  <2>1. /\ m \in Metrics /\ m.enabled = e.enabled /\ m.apis = apis
        /\ m.retention = e.retention /\ m.days = Days(e)
    BY DEF ReadMetrics, apis
  <2>2. /\ e.enabled \in BOOLEAN /\ apis \in BOOLEAN /\ e.retention \in BOOLEAN
        /\ Days(e) \in Nat
    BY <2>1 DEF Metrics
  <2>3. /\ k \in Metrics /\ k.enabled = e.enabled /\ k.apis = apis
        /\ k.retention = e.retention /\ k.days = Days(e)
    BY <1>1, <2>2 DEF Metrics
  <2> HIDE DEF k, m
  <2>4. k = m
    BY <2>1, <2>3 DEF Metrics
  <2> QED
    BY <2>4 DEF k
<1>6. q \in Properties
  BY <1>1 DEF Properties
<1> QED
  BY <1>3, <1>4, <1>5, <1>6

(* The reader gives every section by itself, whatever the others are.      *)
LEMMA DocumentRead ==
  ASSUME NEW d, IsDocument(d)
  PROVE  LET p == move_properties(d)
         IN /\ p \in Properties
            /\ p.logging = ReadLogging(d["logging"])
            /\ p.hour_metrics = ReadMetrics(d["hour_metrics"])
            /\ p.minute_metrics = ReadMetrics(d["minute_metrics"])
            /\ p.cors = d["cors"].rules
            /\ p.version = d["version"].number
<1> DEFINE start == [properties |-> service_properties, days |-> 0]
           one == handle_end_element(start, "logging", d["logging"])
           two == handle_end_element(one, "hour_metrics", d["hour_metrics"])
           three == handle_end_element(two, "minute_metrics", d["minute_metrics"])
           p == [three.properties EXCEPT !.cors = d["cors"].rules,
                                         !.version = d["version"].number]
<1>1. move_properties(d) = p
  BY DEF move_properties
<1>2. /\ ReadLogging(d["logging"]) \in Logging
      /\ ReadMetrics(d["hour_metrics"]) \in Metrics
      /\ ReadMetrics(d["minute_metrics"]) \in Metrics
      /\ d["cors"].rules \in Seq(Nat) /\ d["version"].number \in Nat
  <2>1. ReadLogging(d["logging"]) \in Logging
    BY LoggingRead DEF IsDocument
  <2>2. /\ ReadMetrics(d["hour_metrics"]) \in Metrics
        /\ ReadMetrics(d["minute_metrics"]) \in Metrics
    BY MetricsRead DEF IsDocument
  <2>3. d["cors"].rules \in Seq(Nat) /\ d["version"].number \in Nat
    BY DEF IsDocument
  <2> QED
    BY <2>1, <2>2, <2>3
<1>3. /\ start.properties \in Properties /\ start.days = 0
      /\ start.properties["hour_metrics"].apis = FALSE
      /\ start.properties["minute_metrics"].apis = FALSE
  BY DEF service_properties, logging_properties, metrics_properties, Properties, Logging,
         Metrics, Empty
<1> HIDE DEF start, one, two, three
<1>4. /\ one.days = 0 /\ one.properties \in Properties
      /\ one.properties = [start.properties EXCEPT !.logging = ReadLogging(d["logging"])]
  BY <1>2, <1>3, LoggingElement DEF one
<1>5. /\ one.properties.logging = ReadLogging(d["logging"])
      /\ one.properties["hour_metrics"].apis = FALSE
      /\ one.properties["minute_metrics"].apis = FALSE
  BY <1>3, <1>4 DEF Properties
<1>6. /\ two.days = 0 /\ two.properties \in Properties
      /\ two.properties = [one.properties EXCEPT
                             !["hour_metrics"] = ReadMetrics(d["hour_metrics"])]
  <2>1. one.days = 0 /\ one.properties \in Properties
    BY <1>4
  <2>2. ReadMetrics(d["hour_metrics"]) \in Metrics
    BY <1>2
  <2> QED
    BY <2>1, <2>2, <1>5, MetricsElement DEF two
<1>7. /\ two.properties.logging = ReadLogging(d["logging"])
      /\ two.properties.hour_metrics = ReadMetrics(d["hour_metrics"])
      /\ two.properties["minute_metrics"].apis = FALSE
  BY <1>4, <1>5, <1>6 DEF Properties
<1>8. /\ three.days = 0 /\ three.properties \in Properties
      /\ three.properties = [two.properties EXCEPT
                               !["minute_metrics"] = ReadMetrics(d["minute_metrics"])]
  BY <1>2, <1>6, <1>7, MetricsElement DEF three
<1>9. /\ three.properties.logging = ReadLogging(d["logging"])
      /\ three.properties.hour_metrics = ReadMetrics(d["hour_metrics"])
      /\ three.properties.minute_metrics = ReadMetrics(d["minute_metrics"])
  BY <1>6, <1>7, <1>8 DEF Properties
<1>10. p \in Properties
  BY <1>2, <1>8 DEF Properties
<1>11. /\ p.logging = three.properties.logging
       /\ p.hour_metrics = three.properties.hour_metrics
       /\ p.minute_metrics = three.properties.minute_metrics
       /\ p.cors = d["cors"].rules /\ p.version = d["version"].number
  BY <1>8 DEF Properties
<1> QED
  BY <1>1, <1>9, <1>10, <1>11

(* A document that is written over another one: the sections it includes   *)
(* are its own, the others and the missing version the other's.            *)
LEMMA DocumentWritten ==
  ASSUME NEW p \in Properties, NEW includes \in SUBSET Sections, NEW d, IsDocument(d)
  PROVE  LET w == Over(write(p, includes), d)
         IN /\ IsDocument(w)
            /\ \A section \in Sections :
                 w[section] = IF section \in includes THEN write_section(p, section)
                              ELSE d[section]
            /\ w["version"] = IF p.version = Empty THEN d["version"]
                              ELSE [number |-> p.version]
<1> DEFINE main == [section \in includes |-> write_section(p, section)]
           number == IF p.version = Empty THEN <<>> ELSE [version |-> [number |-> p.version]]
           w == Over(write(p, includes), d)
<1>1. write(p, includes) = Over(main, number)
  BY DEF write
<1>2. DOMAIN main = includes /\ \A section \in includes : main[section] = write_section(p, section)
  OBVIOUS
<1>3. DOMAIN number = IF p.version = Empty THEN {} ELSE {"version"}
  OBVIOUS
<1>4. p.version # Empty => number["version"] = [number |-> p.version]
  OBVIOUS
<1> HIDE DEF main, number
<1>5. /\ \A section \in Sections :
           w[section] = IF section \in includes THEN write_section(p, section)
                        ELSE d[section]
      /\ w["version"] = IF p.version = Empty THEN d["version"]
                        ELSE [number |-> p.version]
      /\ DOMAIN d \subseteq DOMAIN w
  BY <1>1, <1>2, <1>3, <1>4 DEF Over, Sections, IsDocument
<1>6. /\ p.logging \in Logging /\ p.hour_metrics \in Metrics /\ p.minute_metrics \in Metrics
      /\ p.cors \in Seq(Nat) /\ p.version \in Nat
  BY DEF Properties
<1>7. /\ write_section(p, "logging") = write_logging(p.logging)
      /\ write_section(p, "hour_metrics") = write_metrics(p.hour_metrics)
      /\ write_section(p, "minute_metrics") = write_metrics(p.minute_metrics)
      /\ write_section(p, "cors") = [rules |-> p.cors]
  BY DEF write_section, write_cors_rule
<1> HIDE DEF w
<1>8. IsDocument(w)
  BY <1>5, <1>6, <1>7 DEF IsDocument, Sections
<1> QED
  BY <1>5, <1>8 DEF w

-----------------------------------------------------------------------------
(* The invariant of a service client: the service always has a document    *)
(* with every section, and an upload carries what its arguments say.       *)

IsServed(s) ==
  /\ DOMAIN s = {"there", "etag", "stats", "account", "document"}
  /\ IsDocument(s.document)

Upload == "upload_service_properties"

Uploads(r) ==
  /\ r.at = "primary" /\ r.both = FALSE
  /\ r.arg.properties \in Properties /\ r.arg.includes \in SUBSET Sections
  /\ r.req = set_service_properties(write(r.arg.properties, r.arg.includes))

ClientCall(r) ==
  /\ r.op = Upload => Uploads(r)
  /\ r.op # Upload => Reads(r.req)
  /\ r.st = "answered" => r.resp.code = OK /\ IsServed(r.resp.state)

Client ==
  /\ CallsTyped
  /\ IsServed(svc) /\ IsServed(sec)
  /\ DOMAIN obj = {"default", "properties"} /\ obj.properties \in Properties
  /\ \A c \in Callers : Active(c) => ClientCall(call[c])

ClientInv == kind \in ClientKinds => Client

(* The request of an upload: the document is its header.                   *)
LEMMA UploadRequest ==
  ASSUME NEW document
  PROVE  LET r == set_service_properties(document)
         IN ~Thrown(r) /\ ~Reads(r) /\ r["document"] = document
  BY DEF set_service_properties, add_header, base_request, Thrown, Over, Reads

(* PropertiesService answers an upload with the new document.              *)
LEMMA ClientServed ==
  ASSUME NEW r, NEW s, IsServed(s), ClientCall(r)
  PROVE  LET answer == PropertiesService(r.req, s)
         IN /\ answer.code = OK /\ IsServed(answer.state)
            /\ r.op = Upload =>
                 answer.state.document = Over(write(r.arg.properties, r.arg.includes),
                                              s.document)
<1> DEFINE answer == PropertiesService(r.req, s)
<1>1. CASE r.op # Upload
  <2>1. answer = Reply(OK, s)
    BY <1>1 DEF ClientCall, PropertiesService
  <2> QED
    BY <1>1, <2>1 DEF Reply
<1>2. CASE r.op = Upload
  <2> DEFINE document == write(r.arg.properties, r.arg.includes)
             t == [NewVersion(s) EXCEPT !.document = Over(document, @)]
  <2>1. r.req = set_service_properties(document) /\ Uploads(r)
    BY <1>2 DEF ClientCall, Uploads
  <2> HIDE DEF document
  <2>2. ~Reads(r.req) /\ r.req["document"] = document
    BY <2>1, UploadRequest
  <2>3. answer = Reply(OK, t)
    BY <2>2 DEF PropertiesService
  <2>4. DOMAIN t = DOMAIN s /\ t.document = Over(document, s.document)
    BY DEF IsServed, NewVersion
  <2>5. IsDocument(t.document)
    <3>1. /\ r.arg.properties \in Properties /\ r.arg.includes \in SUBSET Sections
          /\ IsDocument(s.document)
      BY <2>1 DEF IsServed, Uploads
    <3>2. ASSUME NEW p \in Properties, NEW includes \in SUBSET Sections, NEW d, IsDocument(d)
          PROVE  IsDocument(Over(write(p, includes), d))
      BY <3>2, DocumentWritten
    <3>3. IsDocument(Over(write(r.arg.properties, r.arg.includes), s.document))
      BY <3>1, <3>2
    <3> QED
      BY <2>4, <3>3 DEF document
  <2> QED
    BY <2>3, <2>4, <2>5 DEF Reply, IsServed, document
<1> QED
  BY <1>1, <1>2

(* A call that another step leaves alone, but for what it sees.            *)
LEMMA SameClientCall ==
  ASSUME NEW r, NEW q, ClientCall(q), Agree(r, q, {"seen"})
  PROVE  ClientCall(r)
  BY DEF Agree, CallFields, ClientCall, Uploads

(* A call begins.                                                          *)
LEMMA ClientStarts ==
  ASSUME Client, NEW c \in Callers, NEW cmd, DOMAIN cmd = CallFields,
         execute_async(c, cmd),
         ~Thrown(cmd.req) => \A loc \in locations(cmd) :
           ClientCall([cmd EXCEPT !.st = "sent", !.at = loc, !.seen = {svc.there}])
  PROVE  Client'
<1>1. PICK loc \in locations(cmd) :
        call' = [call EXCEPT ![c] =
                   IF Thrown(cmd.req) THEN Done(cmd, Threw)
                   ELSE [cmd EXCEPT !.st = "sent", !.at = loc, !.seen = {svc.there}]]
  BY DEF execute_async
<1>2. CallsTyped' /\ UNCHANGED <<obj, svc, sec>>
  BY ExecuteCalls DEF Client
<1>3. \A d \in Callers : Active(d)' => ClientCall(call'[d])
  BY <1>1, DoneFields DEF Client, CallsTyped, Active
<1> QED
  BY <1>2, <1>3 DEF Client

(* A call returns, and leaves properties in the object.                    *)
LEMMA ClientReturns ==
  ASSUME Client, NEW c \in Callers, NEW out, Returns(c, out),
         DOMAIN obj' = DOMAIN obj, obj'.properties \in Properties
  PROVE  Client'
<1>1. /\ CallsTyped' /\ \A d \in Callers \ {c} : call'[d] = call[d]
      /\ call'[c].st = "returned" /\ UNCHANGED <<svc, sec>>
  BY ReturnCalls, DoneFields DEF Client
<1> QED
  BY <1>1 DEF Client, Active

(* The calls of the four clients.                                          *)
LEMMA ClientReads ==
  ASSUME Client, NEW c \in Callers, NEW op, NEW request, NEW mode, op # Upload,
         Thrown(request) \/ Reads(request), read_async(c, op, request, mode)
  PROVE  Client'
<1> DEFINE cmd == command(op, request, may_use_secondary(mode), {},
                          arguments(service_properties, {}), access_condition)
<1>1. DOMAIN cmd = CallFields /\ cmd.op = op /\ cmd.req = request
  BY DEF command, Idle, CallFields
<1>2. execute_async(c, cmd)
  BY DEF read_async
<1> HIDE DEF cmd
<1>3. ASSUME ~Thrown(cmd.req), NEW loc
      PROVE  ClientCall([cmd EXCEPT !.st = "sent", !.at = loc, !.seen = {svc.there}])
  BY <1>1, <1>3 DEF ClientCall, CallFields
<1> QED
  BY <1>1, <1>2, <1>3, ClientStarts

(* An upload of properties the application has made, or has downloaded.    *)
LEMMA ClientUploads ==
  ASSUME Client, NEW c \in Callers, NEW properties \in Uploaded,
         NEW includes \in Included,
         upload_service_properties_base_async(c, properties, includes)
  PROVE  Client'
<1> DEFINE request == set_service_properties(write(properties, includes))
           arg == arguments(properties, includes)
           cmd == command(Upload, request, PrimaryOnly, {}, arg, access_condition)
<1>1. /\ DOMAIN cmd = CallFields /\ cmd.op = Upload /\ cmd.req = request
      /\ cmd.both = FALSE /\ cmd.arg = arg /\ cmd.at = "primary"
  BY DEF command, Idle, CallFields, PrimaryOnly
<1>2. execute_async(c, cmd)
  BY DEF upload_service_properties_base_async, Upload
<1>3. properties \in Properties
  <2>1. Chosen \in Properties
    BY DEF Chosen, Properties, Logging, Metrics
  <2> QED
    BY <2>1 DEF Uploaded, Client
<1>4. includes \in SUBSET Sections
  BY DEF Included, includes_all, includes_file, service_properties_includes, Sections
<1>5. arg.properties = properties /\ arg.includes = includes
  BY DEF arguments
<1>6. request = set_service_properties(write(arg.properties, arg.includes))
  BY <1>5
<1>7. locations(cmd) = {"primary"}
  BY <1>1 DEF locations
<1> HIDE DEF request, arg, cmd
<1>8. ASSUME NEW loc \in locations(cmd)
      PROVE  ClientCall([cmd EXCEPT !.st = "sent", !.at = loc, !.seen = {svc.there}])
  BY <1>1, <1>3, <1>4, <1>5, <1>6, <1>7, <1>8 DEF ClientCall, Uploads, CallFields
<1> QED
  BY <1>1, <1>2, <1>8, ClientStarts

(* A handler of the client.                                                *)
LEMMA ClientAnswers ==
  ASSUME Client, NEW c \in Callers, NEW op, NEW o, NEW out, Answer(c, op, o, out),
         \/ o = obj
         \/ o = [obj EXCEPT !.properties = move_properties(body(c).document)]
  PROVE  Client'
<1>1. call[c].st = "answered" /\ Active(c) /\ Return(c, o, out)
  BY DEF Answer, Accepted, Active
<1>2. Returns(c, out) /\ obj' = o
  BY <1>1 DEF Return, Returns
<1>3. move_properties(body(c).document) \in Properties
  BY <1>1, DocumentRead DEF Client, ClientCall, IsServed, body
<1>4. DOMAIN obj' = DOMAIN obj /\ obj'.properties \in Properties
  BY <1>2, <1>3 DEF Client
<1> QED
  BY <1>2, <1>4, ClientReturns

(* The service performs the request of a client.                           *)
LEMMA ServeClient ==
  ASSUME Client, NEW c \in Callers,
         Serve(c, PropertiesService(call[c].req, located(c)))
  PROVE  Client'
<1> DEFINE answer == PropertiesService(call[c].req, located(c))
           r == call'[c]
<1>1. /\ CallsTyped' /\ call[c].st = "sent"
      /\ \A d \in Callers \ {c} : Watched(call'[d], call[d], svc'.there)
      /\ Agree(r, call[c], {"st", "resp", "did", "pre", "seen"})
      /\ r.st = "answered" /\ r.resp = answer
      /\ svc' = IF call[c].at = "primary" /\ ~Reads(call[c].req)
                THEN answer.state ELSE svc
      /\ UNCHANGED <<kind, obj, sec>>
  BY ServeCalls DEF Client
<1>2. ClientCall(call[c]) /\ IsServed(located(c))
  BY <1>1 DEF Client, Active, located
<1>3. answer.code = OK /\ IsServed(answer.state)
  BY <1>2, ClientServed
<1> HIDE DEF answer
<1>4. IsServed(svc')
  BY <1>1, <1>3 DEF Client
<1>5. ClientCall(r)
  BY <1>1, <1>2, <1>3 DEF ClientCall, Uploads, Agree, CallFields
<1> HIDE DEF r
<1>6. ASSUME NEW d \in Callers \ {c}, Active(d)'
      PROVE  ClientCall(call'[d])
  <2>1. Agree(call'[d], call[d], {"seen"}) /\ call'[d].st = call[d].st
    BY <1>1 DEF Watched, Agree, CallFields
  <2>2. ClientCall(call[d])
    BY <1>6, <2>1 DEF Client, Active
  <2> QED
    BY <2>1, <2>2, SameClientCall
<1> QED
  BY <1>1, <1>4, <1>5, <1>6 DEF Client, r

(* A request or an answer of a client is lost.                             *)
LEMMA ResendClient ==
  ASSUME Client, NEW c \in Callers, Resend(c)
  PROVE  Client'
<1> DEFINE r == call'[c]
<1>1. /\ CallsTyped' /\ \A d \in Callers \ {c} : call'[d] = call[d]
      /\ Active(c) /\ Agree(r, call[c], {"st", "resp", "at"}) /\ r.st = "sent"
      /\ r.at = IF call[c].both THEN other(call[c].at) ELSE call[c].at
      /\ UNCHANGED <<kind, obj, svc, sec>>
  BY ResendCalls DEF Client
<1>2. ClientCall(call[c])
  BY <1>1 DEF Client
<1>3. ClientCall(r)
  BY <1>1, <1>2 DEF ClientCall, Uploads, Agree, CallFields
<1> HIDE DEF r
<1> QED
  BY <1>1, <1>3 DEF Client, Active, r

(* No answer to a client is refused.                                       *)
LEMMA ClientNotRefused ==
  ASSUME Client, NEW c \in Callers
  PROVE  ~Refused(c)
<1>1. call[c].st = "answered" => call[c].resp.code = OK
  BY DEF Client, ClientCall, Active
<1> QED
  BY <1>1 DEF Refused, Success, OK

(* Another client sets properties.                                         *)
LEMMA ForeignPropertiesStep ==
  ASSUME Client, ForeignProperties
  PROVE  Client'
<1> DEFINE state == [NewVersion(svc) EXCEPT
                       !.document = Over(write(Chosen, includes_file), @)]
<1>1. /\ CallsTyped' /\ UNCHANGED <<kind, obj, sec>> /\ svc' = state
      /\ \A d \in Callers : Watched(call'[d], call[d], svc'.there)
  BY ForeignCalls DEF Client, ForeignProperties
<1>2. Chosen \in Properties /\ includes_file \in SUBSET Sections
  BY DEF Chosen, Properties, Logging, Metrics, includes_file,
         service_properties_includes, Sections
<1>3. IsDocument(Over(write(Chosen, includes_file), svc.document))
  <2>1. ASSUME NEW p \in Properties, NEW includes \in SUBSET Sections
        PROVE  IsDocument(Over(write(p, includes), svc.document))
    BY <2>1, DocumentWritten DEF Client, IsServed
  <2> QED
    BY <1>2, <2>1
<1>4. DOMAIN state = DOMAIN svc /\ state.document = Over(write(Chosen, includes_file), svc.document)
  BY DEF Client, IsServed, NewVersion
<1> HIDE DEF state
<1>5. IsServed(svc')
  BY <1>1, <1>3, <1>4 DEF IsServed, Client
<1>6. ASSUME NEW d \in Callers, Active(d)'
      PROVE  ClientCall(call'[d])
  <2>1. Agree(call'[d], call[d], {"seen"}) /\ call'[d].st = call[d].st
    BY <1>1 DEF Watched, Agree, CallFields
  <2>2. ClientCall(call[d])
    BY <1>6, <2>1 DEF Client, Active
  <2> QED
    BY <2>1, <2>2, SameClientCall
<1> QED
  BY <1>1, <1>5, <1>6 DEF Client

(* The service begins with every section in its document.                  *)
LEMMA ClientBegins == Init => ClientInv
<1> SUFFICES ASSUME Init, kind \in ClientKinds PROVE Client
  BY DEF ClientInv
<1>1. ClientInit
  BY DEF Init, FileInit, QueueInit, TableInit, ListingInit, CommandInit, ClientKinds
<1>2. PICK default \in location_modes, status \in {Live, Bootstrap, 3} :
        /\ obj = client(default) /\ svc = StoredProperties(status) /\ sec = svc
        /\ call = [c \in Callers |-> Idle]
  BY <1>1 DEF ClientInit, CommandInit
<1>3. CallsTyped /\ \A c \in Callers : call[c].st = "idle"
  BY <1>2 DEF CallsTyped, Idle, CallFields
<1>4. service_properties \in Properties /\ includes_all = Sections
  BY DEF service_properties, logging_properties, metrics_properties, Properties, Logging,
         Metrics, Empty, includes_all, service_properties_includes, Sections
<1>5. DOMAIN obj = {"default", "properties"} /\ obj.properties \in Properties
  BY <1>2, <1>4 DEF client
<1> DEFINE w == write(service_properties, includes_all)
           e == [w EXCEPT !["cors"].rules = <<3>>]
           d == Over(e, [version |-> [number |-> 2]])
<1>6. IsServed(svc)
  <2>1. /\ DOMAIN w = Sections
        /\ w["logging"] = write_logging(service_properties.logging)
        /\ w["hour_metrics"] = write_metrics(service_properties.hour_metrics)
        /\ w["minute_metrics"] = write_metrics(service_properties.minute_metrics)
        /\ w["cors"] = [rules |-> service_properties.cors]
    <3>1. w = Over([section \in Sections |-> write_section(service_properties, section)], <<>>)
      BY <1>4 DEF write, service_properties
    <3>2. w = [section \in Sections |-> write_section(service_properties, section)]
      BY <3>1 DEF Over
    <3> QED
      BY <3>2 DEF write_section, write_cors_rule, Sections
  <2> HIDE DEF w
  <2>2. /\ DOMAIN e = Sections /\ e["logging"] = w["logging"]
        /\ e["hour_metrics"] = w["hour_metrics"]
        /\ e["minute_metrics"] = w["minute_metrics"] /\ e["cors"] = [rules |-> <<3>>]
    BY <2>1 DEF Sections
  <2> HIDE DEF e
  <2>3. /\ DOMAIN d = Sections \cup {"version"} /\ d["logging"] = w["logging"]
        /\ d["hour_metrics"] = w["hour_metrics"]
        /\ d["minute_metrics"] = w["minute_metrics"] /\ d["cors"] = [rules |-> <<3>>]
        /\ d["version"] = [number |-> 2]
    BY <2>2 DEF Sections, Over
  <2> HIDE DEF d
  <2>4. IsDocument(d)
    <3>1. /\ service_properties.logging \in Logging
          /\ service_properties.hour_metrics \in Metrics
          /\ service_properties.minute_metrics \in Metrics
          /\ <<3>> \in Seq(Nat) /\ 2 \in Nat
      BY <1>4 DEF Properties
    <3> HIDE DEF Logging, Metrics
    <3> QED
      BY <3>1, <2>1, <2>3 DEF IsDocument
  <2>5. svc.document = d /\ DOMAIN svc = {"there", "etag", "stats", "account", "document"}
    BY <1>2 DEF StoredProperties, d, e, w
  <2> QED
    BY <2>4, <2>5 DEF IsServed
<1> QED
  BY <1>2, <1>3, <1>5, <1>6 DEF Client, Active

(* The steps of a service client, among those of all the objects.          *)
LEMMA ClientNext ==
  ASSUME kind \in ClientKinds, Next
  PROVE  \/ ForeignProperties
         \/ \E c \in Callers : \/ ClientCalls(c)
                               \/ Serve(c, PropertiesService(call[c].req, located(c)))
                               \/ Resend(c) \/ GiveUp(c) \/ Refused(c)
<1>1. /\ kind \notin {"share", "directory", "file", "file_copy", "file_lease", "queue",
                      "message", "table", "entity", "listing"}
  BY DEF ClientKinds
<1>2. ASSUME NEW c \in Callers, ServeCall(c)
      PROVE  Serve(c, PropertiesService(call[c].req, located(c)))
  BY <1>1, <1>2 DEF ServeCall
<1>3. ForeignStep => ForeignProperties
  BY <1>1 DEF ForeignStep, ForeignNames
<1> QED
  BY <1>1, <1>2, <1>3
  DEF Next, ShareCalls, DirectoryCalls, FileCalls, FileCopyCalls, FileLeaseCalls,
      QueueCalls, MessageCalls, TableCalls, EntityCalls, ListingCalls

(* The calls of the clients keep the invariant.                            *)
LEMMA ClientCallsStep ==
  ASSUME Client, NEW c \in Callers, ClientCalls(c)
  PROVE  Client'
<1>1. /\ Reads(get_service_properties) /\ Reads(get_service_stats)
      /\ Reads(get_account_properties) /\ Thrown(invalid_argument)
  BY DEF get_service_properties, get_service_stats, get_account_properties,
         base_request, Reads, Thrown, invalid_argument
<1>2. ASSUME NEW mode, download_service_properties_base_async(c, mode)
      PROVE  Client'
  BY <1>1, <1>2, ClientReads DEF download_service_properties_base_async, Upload
<1>3. ASSUME NEW mode, download_service_stats_base_async(c, mode)
      PROVE  Client'
  BY <1>1, <1>3, ClientReads DEF download_service_stats_base_async, Upload
<1>4. ASSUME NEW mode, download_account_properties_base_async(c, mode)
      PROVE  Client'
  BY <1>1, <1>4, ClientReads DEF download_account_properties_base_async, Upload
<1>5. ASSUME NEW properties \in Uploaded, NEW includes \in Included,
             upload_service_properties_base_async(c, properties, includes)
      PROVE  Client'
  BY <1>5, ClientUploads
<1>6. ASSUME \/ download_service_properties_response(c)
             \/ upload_service_properties_response(c)
             \/ download_service_stats_response(c)
             \/ download_account_properties_response(c)
      PROVE  Client'
  BY <1>6, ClientAnswers
  DEF download_service_properties_response, upload_service_properties_response,
      download_service_stats_response, download_account_properties_response
<1> QED
  BY <1>2, <1>3, <1>4, <1>5, <1>6
  DEF ClientCalls, blob_download_service_properties, file_download_service_properties,
      queue_download_service_properties, table_download_service_properties,
      blob_upload_service_properties, file_upload_service_properties,
      queue_upload_service_properties, table_upload_service_properties,
      blob_download_service_stats, queue_download_service_stats,
      table_download_service_stats, download_account_properties

(* The invariant of service clients is kept by every step.                 *)
LEMMA ClientKept == ClientInv /\ [Next]_cvars => ClientInv'
<1> SUFFICES ASSUME ClientInv, [Next]_cvars, kind \in ClientKinds PROVE Client'
  BY KindKept DEF ClientInv
<1>1. Client
  BY DEF ClientInv
<1>2. CASE UNCHANGED cvars
  BY <1>1, <1>2 DEF cvars, Client, CallsTyped, Active
<1>3. CASE Next
  <2>1. CASE ForeignProperties
    BY <1>1, <2>1, ForeignPropertiesStep
  <2>2. ASSUME NEW c \in Callers, GiveUp(c)
        PROVE  Client'
    <3>1. Returns(c, Failed) /\ obj' = obj
      BY <2>2, ReturningSteps
    <3>2. DOMAIN obj' = DOMAIN obj /\ obj'.properties \in Properties
      BY <1>1, <3>1 DEF Client
    <3> QED
      BY <1>1, <3>1, <3>2, ClientReturns
  <2>3. ASSUME NEW c \in Callers,
               \/ ClientCalls(c) \/ Resend(c) \/ Refused(c)
               \/ Serve(c, PropertiesService(call[c].req, located(c)))
        PROVE  Client'
    BY <1>1, <2>3, ClientCallsStep, ServeClient, ResendClient, ClientNotRefused
  <2> QED
    BY <1>3, <2>1, <2>2, <2>3, ClientNext
<1> QED
  BY <1>2, <1>3

-----------------------------------------------------------------------------
(* Only the service answers a call.                                        *)

Silent == \A c \in Callers : call'[c].st = "answered" => call[c].st = "answered"

(* A call that begins is not answered at once, one that returns no more.   *)
LEMMA SilentSteps ==
  ASSUME CallsTyped, NEW d \in Callers
  PROVE  /\ \A op, req, both, accepts, arg, cond :
              execute_async(d, command(op, req, both, accepts, arg, cond)) => Silent
         /\ \A o, out : Return(d, o, out) => Silent
         /\ Resend(d) \/ GiveUp(d) \/ Refused(d) => Silent
         /\ \A state : Foreign(state) => Silent
<1>1. ASSUME NEW op, NEW req, NEW both, NEW accepts, NEW arg, NEW cond,
             execute_async(d, command(op, req, both, accepts, arg, cond))
      PROVE  Silent
  <2> DEFINE cmd == command(op, req, both, accepts, arg, cond)
  <2>1. DOMAIN cmd = CallFields
    BY DEF command, Idle, CallFields
  <2> HIDE DEF cmd
  <2>2. execute_async(d, cmd)
    BY <1>1 DEF cmd
  <2>3. /\ \A c \in Callers \ {d} : call'[c] = call[c]
        /\ call'[d].st \in {"sent", "returned"}
    BY <2>1, <2>2, ExecuteCalls, DoneFields
  <2> QED
    BY <2>3 DEF Silent
<1>2. ASSUME NEW o, NEW out, Return(d, o, out)
      PROVE  Silent
  BY <1>2, DoneFields DEF Return, CallsTyped, Silent
<1>3. ASSUME Resend(d) \/ GiveUp(d) \/ Refused(d)
      PROVE  Silent
  <2>1. CASE Resend(d)
    BY <2>1, ResendCalls DEF Silent
  <2>2. CASE GiveUp(d)
    BY <2>2, DoneFields DEF GiveUp, CallsTyped, Silent
  <2>3. CASE Refused(d)
    <3>1. \/ Returns(d, call[d].resp.code)
          \/ /\ call'[d].st = "sent"
             /\ \A c \in Callers \ {d} : call'[c] = call[c]
      BY <2>3, RefusedCalls
    <3>2. CASE Returns(d, call[d].resp.code)
      BY <3>2, ReturnCalls, DoneFields DEF Silent
    <3> QED
      BY <3>1, <3>2 DEF Silent
  <2> QED
    BY <1>3, <2>1, <2>2, <2>3
<1>4. ASSUME NEW state, Foreign(state)
      PROVE  Silent
  BY <1>4, ForeignCalls DEF Silent, Watched, Agree, CallFields
<1> QED
  BY <1>1, <1>2, <1>3, <1>4

(* The service answers one call at a time.                                 *)
LEMMA OneAnswered ==
  ASSUME CallsTyped, NEW c \in Callers, NEW d \in Callers, NEW answer, Serve(d, answer),
         call[c].st = "sent", call'[c].st = "answered"
  PROVE  c = d
<1>1. \A b \in Callers \ {d} : Watched(call'[b], call[b], svc'.there)
  BY ServeCalls
<1>2. \A b \in Callers \ {d} : call'[b].st = call[b].st
  BY <1>1 DEF Watched, Agree, CallFields
<1> QED
  BY <1>2

(* The calls and handlers of the clients answer nothing.                   *)
LEMMA ClientCallsSilent ==
  ASSUME CallsTyped, NEW d \in Callers, ClientCalls(d)
  PROVE  Silent
<1>1. ASSUME NEW op, NEW request, NEW mode, read_async(d, op, request, mode)
      PROVE  Silent
  BY <1>1, SilentSteps DEF read_async
<1>2. ASSUME NEW properties, NEW includes,
             upload_service_properties_base_async(d, properties, includes)
      PROVE  Silent
  BY <1>2, SilentSteps DEF upload_service_properties_base_async
<1>3. ASSUME NEW op, NEW o, NEW out, Answer(d, op, o, out)
      PROVE  Silent
  BY <1>3, SilentSteps DEF Answer
<1> QED
  BY <1>1, <1>2, <1>3
  DEF ClientCalls, blob_download_service_properties, file_download_service_properties,
      queue_download_service_properties, table_download_service_properties,
      blob_upload_service_properties, file_upload_service_properties,
      queue_upload_service_properties, table_upload_service_properties,
      blob_download_service_stats, queue_download_service_stats,
      table_download_service_stats, download_account_properties,
      download_service_properties_base_async, download_service_stats_base_async,
      download_account_properties_base_async,
      download_service_properties_response, upload_service_properties_response,
      download_service_stats_response, download_account_properties_response

(* What a download gives after an upload, and what it gave before.         *)
LEMMA UploadRead ==
  ASSUME NEW p \in Properties, NEW includes \in SUBSET Sections, NEW d, IsDocument(d)
  PROVE  LET before == move_properties(d)
             after == move_properties(Over(write(p, includes), d))
             given == Canonical(p)
         IN /\ \A section \in DOMAIN after \ {"version"} :
                 after[section] = IF section \in includes THEN given[section]
                                  ELSE before[section]
            /\ after.version = IF given.version = Empty THEN before.version
                               ELSE given.version
<1> DEFINE w == Over(write(p, includes), d)
           before == move_properties(d)
           after == move_properties(w)
           given == Canonical(p)
<1>1. /\ IsDocument(w)
      /\ \A section \in Sections :
           w[section] = IF section \in includes THEN write_section(p, section) ELSE d[section]
      /\ w["version"] = IF p.version = Empty THEN d["version"] ELSE [number |-> p.version]
  BY DocumentWritten
<1> HIDE DEF w
<1>2. /\ after \in Properties
      /\ after.logging = ReadLogging(w["logging"])
      /\ after.hour_metrics = ReadMetrics(w["hour_metrics"])
      /\ after.minute_metrics = ReadMetrics(w["minute_metrics"])
      /\ after.cors = w["cors"].rules /\ after.version = w["version"].number
  BY <1>1, DocumentRead
<1>3. /\ before.logging = ReadLogging(d["logging"])
      /\ before.hour_metrics = ReadMetrics(d["hour_metrics"])
      /\ before.minute_metrics = ReadMetrics(d["minute_metrics"])
      /\ before.cors = d["cors"].rules /\ before.version = d["version"].number
  BY DocumentRead
<1>4. /\ p.logging \in Logging /\ p.hour_metrics \in Metrics /\ p.minute_metrics \in Metrics
  BY DEF Properties
<1>5. /\ given.logging = ReadLogging(write_logging(p.logging))
      /\ given.hour_metrics = ReadMetrics(write_metrics(p.hour_metrics))
      /\ given.minute_metrics = ReadMetrics(write_metrics(p.minute_metrics))
      /\ given.cors = p.cors /\ given.version = p.version
  <2>1. ASSUME NEW m \in Metrics
        PROVE  ReadMetrics(write_metrics(m)) =
                 [IF m.retention THEN m ELSE [m EXCEPT !.days = 0]
                    EXCEPT !.apis = @ /\ m.enabled]
    BY <2>1, MetricsRead
  <2>2. ReadLogging(write_logging(p.logging)) =
          IF p.logging.retention THEN p.logging ELSE [p.logging EXCEPT !.days = 0]
    BY <1>4, LoggingRead
  <2> QED
    BY <1>4, <2>1, <2>2 DEF Canonical, Properties
<1>6. /\ write_section(p, "logging") = write_logging(p.logging)
      /\ write_section(p, "hour_metrics") = write_metrics(p.hour_metrics)
      /\ write_section(p, "minute_metrics") = write_metrics(p.minute_metrics)
      /\ write_section(p, "cors") = [rules |-> p.cors]
  BY DEF write_section, write_cors_rule
<1> HIDE DEF before, after, given
<1>7. DOMAIN after = Sections \cup {"version"}
  BY <1>2 DEF Properties, Sections
<1>8. \A section \in Sections :
        after[section] = IF section \in includes THEN given[section] ELSE before[section]
  BY <1>1, <1>2, <1>3, <1>5, <1>6 DEF Sections
<1>9. after.version = IF given.version = Empty THEN before.version ELSE given.version
  BY <1>1, <1>2, <1>3, <1>5
<1> QED
  BY <1>7, <1>8, <1>9 DEF w, before, after, given, Sections

(* The answer to an upload follows the new document.                       *)
LEMMA UploadAnswered ==
  ASSUME Client, kind \in ClientKinds, Next, NEW c \in Callers, call[c].op = Upload,
         call[c].st = "sent", call'[c].st = "answered"
  PROVE  /\ Uploads(call[c]) /\ IsDocument(svc.document)
         /\ svc'.document = Over(write(call[c].arg.properties, call[c].arg.includes),
                                 svc.document)
<1>1. CallsTyped
  BY DEF Client
<1>2. PICK d \in Callers : Serve(d, PropertiesService(call[d].req, located(d)))
  <2>1. ~Silent
    BY DEF Silent
  <2> QED
    BY <1>1, <2>1, ClientNext, SilentSteps, ClientCallsSilent DEF ForeignProperties
<1>3. c = d
  BY <1>1, <1>2, OneAnswered
<1> DEFINE answer == PropertiesService(call[c].req, svc)
<1>4. ClientCall(call[c]) /\ Uploads(call[c]) /\ IsServed(svc)
  BY DEF Client, Active, ClientCall
<1>5. located(c) = svc /\ ~Reads(call[c].req)
  BY <1>4, UploadRequest DEF Uploads, located
<1>6. answer.state.document = Over(write(call[c].arg.properties, call[c].arg.includes),
                                   svc.document)
  BY <1>4, ClientServed
<1> HIDE DEF answer
<1>7. Serve(c, answer)
  BY <1>2, <1>3, <1>5 DEF answer
<1>8. svc' = answer.state
  BY <1>4, <1>5, <1>7 DEF Serve, Uploads
<1> QED
  BY <1>4, <1>6, <1>8 DEF IsServed

(* PropertiesKept: whatever sections an upload of service properties       *)
(* includes, and whatever is on or off in them, a later download gives     *)
(* them as they were uploaded and the other sections as they were, with    *)
(* other clients' uploads in between and answers lost.                     *)
THEOREM UploadsKeepProperties == Spec => PropertiesKept
<1>1. Spec => []ClientInv
  BY ClientBegins, ClientKept, PTL DEF Spec
<1>2. ASSUME ClientInv, [Next]_cvars, NEW c \in Callers, kind \in ClientKinds,
             call[c].op = Upload, call[c].st = "sent", call'[c].st = "answered"
      PROVE  LET before == move_properties(svc.document)
                 after == move_properties(svc'.document)
                 given == Canonical(call[c].arg.properties)
             IN /\ \A section \in DOMAIN after \ {"version"} :
                     after[section] = IF section \in call[c].arg.includes
                                      THEN given[section] ELSE before[section]
                /\ after.version = IF given.version = Empty THEN before.version
                                   ELSE given.version
  <2>1. Client
    BY <1>2 DEF ClientInv
  <2>2. Next
    BY <1>2 DEF cvars
  <2>3. /\ Uploads(call[c]) /\ IsDocument(svc.document)
        /\ svc'.document = Over(write(call[c].arg.properties, call[c].arg.includes),
                                svc.document)
    BY <1>2, <2>1, <2>2, UploadAnswered
  <2>4. /\ call[c].arg.properties \in Properties
        /\ call[c].arg.includes \in SUBSET Sections
    BY <2>3 DEF Uploads
  <2>5. ASSUME NEW p \in Properties, NEW includes \in SUBSET Sections,
               svc'.document = Over(write(p, includes), svc.document)
        PROVE  LET before == move_properties(svc.document)
                   after == move_properties(svc'.document)
                   given == Canonical(p)
               IN /\ \A section \in DOMAIN after \ {"version"} :
                       after[section] = IF section \in includes
                                        THEN given[section] ELSE before[section]
                  /\ after.version = IF given.version = Empty THEN before.version
                                     ELSE given.version
    BY <2>3, <2>5, UploadRead
  <2> QED
    BY <2>3, <2>4, <2>5
<1>3. ClientInv /\ [Next]_cvars =>
        [\A c \in Callers :
           /\ kind \in ClientKinds
           /\ call[c].op = "upload_service_properties"
           /\ call[c].st = "sent" /\ call'[c].st = "answered"
           => LET before == move_properties(svc.document)
                  after == move_properties(svc'.document)
                  given == Canonical(call[c].arg.properties)
              IN /\ \A section \in DOMAIN after \ {"version"} :
                      after[section] = IF section \in call[c].arg.includes
                                       THEN given[section] ELSE before[section]
                 /\ after.version = IF given.version = Empty THEN before.version
                                    ELSE given.version]_cvars
  BY <1>2 DEF Upload
<1> QED
  BY <1>1, <1>3, PTL DEF Spec, PropertiesKept

-----------------------------------------------------------------------------
(* Entities.                                                               *)

OperationTypes == {"delete", "insert", "insert_or_merge", "insert_or_replace",
                   "merge", "replace", "retrieve"}

Checked == {"delete", "merge", "replace"}

Operations == [type : OperationTypes, row : Rows, etag : Nat]

IsTable(s) ==
  /\ DOMAIN s = {"there", "etag", "policies", "rows"}
  /\ s.there \in BOOLEAN /\ s.etag \in Nat /\ s.rows \in [Rows -> Nat]

(* The request of an operation: its method, its row and the etag the       *)
(* entity must have.                                                       *)
LEMMA OperationRequest ==
  ASSUME NEW o \in Operations
  PROVE  LET r == execute_operation(o)
         IN /\ {"method", "comp", "row"} \subseteq DOMAIN r
            /\ r.method = get_http_method(o.type) /\ r.comp = "entity"
            /\ r["row"] = o.row /\ ~Thrown(r)
            /\ Has(r, "if_match") <=> o.type \in Checked
            /\ Has(r, "if_match") =>
                 r["if_match"] = IF o.etag = Empty THEN AnyETag ELSE o.etag
<1> DEFINE base == base_request(get_http_method(o.type), "entity")
           plain == add_header(base, "row", o.row)
           etag == IF o.etag = Empty THEN AnyETag ELSE o.etag
<1>1. get_http_method(o.type) \in {"GET", "MERGE", "PUT", "DEL", "POST"}
  BY DEF get_http_method, Operations, OperationTypes
<1>2. /\ DOMAIN base = {"method", "comp"} /\ base.method = get_http_method(o.type)
      /\ base.comp = "entity" /\ ~Thrown(base)
  BY <1>1 DEF base_request, Thrown
<1> HIDE DEF base
<1>3. /\ DOMAIN plain = {"method", "comp", "row"} /\ plain.method = get_http_method(o.type)
      /\ plain.comp = "entity" /\ plain["row"] = o.row /\ ~Thrown(plain)
  BY <1>2 DEF add_header, Over, Thrown
<1>4. execute_operation(o) = IF o.type \in Checked THEN add_header(plain, "if_match", etag)
                             ELSE plain
  BY DEF execute_operation, populate_http_headers, Checked, base
<1> HIDE DEF plain, etag
<1>5. CASE o.type \in Checked
  BY <1>3, <1>4, <1>5 DEF add_header, Over, Thrown, Has, etag
<1>6. CASE o.type \notin Checked
  BY <1>3, <1>4, <1>6 DEF Has
<1> QED
  BY <1>5, <1>6

(* What an operation may change: its own row, and a row that is there only *)
(* with the etag it has, unless the operation has none.                    *)
Performed(ops, s, t) ==
  /\ IsTable(t)
  /\ \A row \in Rows : (\A o \in ops : o.row # row) => t.rows[row] = s.rows[row]
  /\ \A o \in ops : o.type \in Checked /\ t.rows[o.row] # s.rows[o.row]
                    => o.etag \in {Empty, s.rows[o.row]}

(* The service performs one operation.                                     *)
LEMMA EntityPerformed ==
  ASSUME NEW o \in Operations, NEW s, IsTable(s)
  PROVE  LET a == EntityService(execute_operation(o), s)
         IN /\ Performed({o}, s, a.state)
            /\ a.code \in {OK, Conflict, NotFound, PreconditionFailed}
            /\ a.code # OK \/ o.type = "retrieve" => a.state = s
<1> DEFINE r == execute_operation(o)
           code == EntityCode(r, s)
           etag == IF r.method = "DEL" THEN Empty ELSE s.etag + 1
           written == [NewVersion(s) EXCEPT !.rows[r["row"]] = etag]
           t == IF code = OK /\ r.method # "GET" THEN written ELSE s
<1>1. /\ r.method = get_http_method(o.type) /\ r["row"] = o.row
      /\ Has(r, "if_match") <=> o.type \in Checked
      /\ Has(r, "if_match") => r["if_match"] = IF o.etag = Empty THEN AnyETag ELSE o.etag
  BY OperationRequest
<1>2. EntityService(r, s) = Reply(code, t)
  BY DEF EntityService
<1> HIDE DEF r
<1>3. o.row \in Rows /\ o.etag \in Nat /\ o.type \in OperationTypes
  BY DEF Operations
<1>4. code \in {OK, Conflict, NotFound, PreconditionFailed}
  BY DEF EntityCode
<1>5. /\ DOMAIN written = DOMAIN s /\ written.etag = s.etag + 1 /\ written.there = s.there
      /\ written.rows = [s.rows EXCEPT ![o.row] = etag] /\ etag \in Nat
  BY <1>1 DEF IsTable, NewVersion, Empty
<1> HIDE DEF written
<1>6. IsTable(written) /\ \A row \in Rows \ {o.row} : written.rows[row] = s.rows[row]
  BY <1>3, <1>5 DEF IsTable
<1>7. IsTable(t) /\ \A row \in Rows \ {o.row} : t.rows[row] = s.rows[row]
  BY <1>6
<1>8. o.type \in Checked /\ code = OK => o.etag \in {Empty, s.rows[o.row]}
  <2> SUFFICES ASSUME o.type \in Checked, code = OK, o.etag # Empty
               PROVE  o.etag = s.rows[o.row]
    OBVIOUS
  <2>1. Get(r, "if_match") = o.etag
    BY <1>1 DEF Get
  <2>2. s.rows[r["row"]] = s.rows[o.row] /\ o.etag # AnyETag
    BY <1>1, <1>3 DEF AnyETag
  <2>3. Get(r, "if_match") \in {Empty, AnyETag, s.rows[r["row"]]}
    BY DEF EntityCode, OK, Conflict, NotFound, PreconditionFailed
  <2> QED
    BY <2>1, <2>2, <2>3
<1>9. o.type = "retrieve" => r.method = "GET"
  BY <1>1 DEF get_http_method
<1>10. Reply(code, t).code = code /\ Reply(code, t).state = t
  BY DEF Reply
<1> HIDE DEF code
<1>11. t # s => code = OK
  OBVIOUS
<1>12. code # OK \/ o.type = "retrieve" => t = s
  BY <1>9
<1> HIDE DEF t
<1>13. Performed({o}, s, t)
  BY <1>7, <1>8, <1>11 DEF Performed
<1> QED
  BY <1>2, <1>4, <1>10, <1>12, <1>13 DEF r

(* A batch of one operation, or of two on different rows.                  *)
IsBatch(ops) ==
  \/ \E a \in Operations : ops = <<a>>
  \/ \E a, b \in Operations :
       /\ ops = <<a, b>> /\ a.row # b.row
       /\ a.type # "retrieve" /\ b.type # "retrieve"

(* The service performs a batch.                                           *)
LEMMA BatchPerformed ==
  ASSUME NEW ops, IsBatch(ops), NEW s, IsTable(s)
  PROVE  LET a == BatchService([i \in DOMAIN ops |-> execute_operation(ops[i])], s)
         IN /\ a.code = OK /\ Performed(Range(ops), s, a.state)
            /\ a.inner # OK \/ ops[1].type = "retrieve" => a.state = s
<1> DEFINE requests == [i \in DOMAIN ops |-> execute_operation(ops[i])]
           perform(answer, r) ==
             IF answer.code = OK THEN EntityService(r, answer.state) ELSE answer
           a == BatchService(requests, s)
<1>1. Reply(OK, s).code = OK /\ Reply(OK, s).state = s
  BY DEF Reply
<1>2. CASE \E o \in Operations : ops = <<o>>
  <2>1. PICK o \in Operations : ops = <<o>>
    BY <1>2
  <2> DEFINE first == EntityService(execute_operation(o), s)
  <2>2. Len(requests) = 1 /\ requests[1] = execute_operation(o) /\ Range(ops) = {o}
        /\ ops[1] = o
    BY <2>1 DEF Range
  <2> HIDE DEF requests
  <2>3. a = [code |-> OK, state |-> IF first.code = OK THEN first.state ELSE s,
             inner |-> first.code]
    BY <1>1, <2>2 DEF BatchService
  <2>4. /\ Performed({o}, s, first.state)
        /\ first.code # OK \/ o.type = "retrieve" => first.state = s
    BY EntityPerformed
  <2> HIDE DEF first, a
  <2>5. a.code = OK /\ a.inner = first.code /\ a.state = first.state
    BY <2>3, <2>4
  <2> QED
    BY <2>2, <2>4, <2>5 DEF a, requests
<1>3. CASE \E p, q \in Operations :
             /\ ops = <<p, q>> /\ p.row # q.row
             /\ p.type # "retrieve" /\ q.type # "retrieve"
  <2>1. PICK p, q \in Operations : /\ ops = <<p, q>> /\ p.row # q.row
                                   /\ p.type # "retrieve" /\ q.type # "retrieve"
    BY <1>3
  <2> DEFINE first == EntityService(execute_operation(p), s)
             second == EntityService(execute_operation(q), first.state)
             last == IF first.code = OK THEN second ELSE first
  <2>2. /\ Len(requests) = 2 /\ requests[1] = execute_operation(p)
        /\ requests[2] = execute_operation(q) /\ Range(ops) = {p, q} /\ ops[1] = p
    BY <2>1 DEF Range
  <2> HIDE DEF requests
  <2>3. a = [code |-> OK, state |-> IF last.code = OK THEN last.state ELSE s,
             inner |-> last.code]
    BY <1>1, <2>2 DEF BatchService
  <2>4. Performed({p}, s, first.state)
    BY EntityPerformed
  <2>5. Performed({q}, first.state, second.state)
    BY <2>4, EntityPerformed DEF Performed
  <2> HIDE DEF first, second, a
  <2>6. Performed({p, q}, s, second.state)
    <3>1. p.row \in Rows /\ q.row \in Rows
      BY DEF Operations
    <3> QED
      BY <2>1, <2>4, <2>5, <3>1 DEF Performed
  <2>7. Performed({p, q}, s, s)
    BY DEF Performed
  <2>8. /\ a.code = OK /\ a.inner = last.code
        /\ a.state = IF last.code = OK THEN last.state ELSE s
    BY <2>3
  <2>9. last.code = OK => last.state = second.state
    OBVIOUS
  <2> HIDE DEF last
  <2> QED
    BY <2>1, <2>2, <2>6, <2>7, <2>8, <2>9 DEF a, requests
<1> QED
  BY <1>2, <1>3 DEF IsBatch

-----------------------------------------------------------------------------
(* The invariant of entities: a call carries the operations it was given,  *)
(* and what changes something goes to the primary only.                    *)

EntityCommand(r) ==
  \/ /\ r.op = "execute"
     /\ \E o \in Operations : /\ r.arg = {o} /\ r.req = execute_operation(o)
                              /\ o.type # "retrieve" => r.accepts = {}
                              /\ r.accepts \subseteq {NotFound}
  \/ /\ r.op = "execute_batch"
     /\ \E ops : /\ IsBatch(ops) /\ r.arg = Range(ops)
                 /\ r.req = execute_batch_operation(ops)
     /\ r.accepts = {}

EntityCall(r) ==
  /\ EntityCommand(r)
  /\ r.st = "answered" => IsTable(r.resp.state)

Entity ==
  /\ CallsTyped
  /\ IsTable(svc) /\ IsTable(sec)
  /\ DOMAIN obj = {"etags"} /\ obj.etags \in [Rows -> Nat]
  /\ \A c \in Callers : Active(c) => EntityCall(call[c])

Alone == \A c, d \in Callers : Active(c) /\ Active(d) => c = d

CurrentRow(row) == obj.etags[row] \in {Empty, svc.rows[row]}

(* An answer that changed nothing: a refusal, or a batch that failed.      *)
NothingDone(r) ==
  ~Success(r.resp.code) \/ (r.op = "execute_batch" /\ r.resp.inner # OK)

EntityCalm ==
  calm =>
    /\ Alone
    /\ (\A c \in Callers : call[c].st # "answered") => \A row \in Rows : CurrentRow(row)
    /\ \A c \in Callers : call[c].st = "answered" =>
         /\ call[c].resp.state = svc
         /\ \A row \in Rows :
              NothingDone(call[c]) \/ (\A o \in call[c].arg : o.row # row)
              => CurrentRow(row)

EntityInv == kind = "entity" => Entity /\ EntityCalm

(* What the table service makes of such a call.                            *)
LEMMA EntityServed ==
  ASSUME NEW r, NEW s, IsTable(s), EntityCommand(r)
  PROVE  LET a == TableService(r.req, s)
         IN /\ Performed(r.arg, s, a.state)
            /\ Reads(r.req) => a.state = s
            /\ ~Success(a.code) \/ (r.op = "execute_batch" /\ a.inner # OK) => a.state = s
<1> DEFINE a == TableService(r.req, s)
<1>1. Performed(r.arg, s, s)
  BY DEF Performed
<1>2. Reply(NotFound, s).state = s /\ Reply(NotFound, s).code = NotFound
  BY DEF Reply
<1>3. CASE r.op = "execute"
  <2>1. PICK o \in Operations : r.arg = {o} /\ r.req = execute_operation(o)
    BY <1>3 DEF EntityCommand
  <2> DEFINE e == EntityService(execute_operation(o), s)
  <2>2. r.req.comp = "entity" /\ r.req.method = get_http_method(o.type)
    BY <2>1, OperationRequest
  <2>3. a = IF s.there THEN e ELSE Reply(NotFound, s)
    <3> HIDE DEF e
    <3> QED
      BY <2>1, <2>2 DEF TableService, IsTable, e
  <2>4. /\ Performed({o}, s, e.state)
        /\ e.code \in {OK, Conflict, NotFound, PreconditionFailed}
        /\ e.code # OK \/ o.type = "retrieve" => e.state = s
    BY EntityPerformed
  <2>5. Reads(r.req) => o.type = "retrieve"
    BY <2>2 DEF Reads, get_http_method, Operations, OperationTypes
  <2>6. ~Success(e.code) => e.state = s
    BY <2>4 DEF Success, OK
  <2> HIDE DEF e, a
  <2> QED
    BY <1>1, <1>2, <1>3, <2>1, <2>3, <2>4, <2>5, <2>6 DEF a
<1>4. CASE r.op = "execute_batch"
  <2>1. PICK ops : /\ IsBatch(ops) /\ r.arg = Range(ops)
                   /\ r.req = execute_batch_operation(ops)
    BY <1>4 DEF EntityCommand
  <2> DEFINE requests == [i \in DOMAIN ops |-> execute_operation(ops[i])]
             b == BatchService(requests, s)
  <2>2. r.req.comp = "batch" /\ r.req.method = "POST" /\ r.req["operations"] = requests
    BY <2>1 DEF execute_batch_operation, add_header, base_request, Thrown, Over
  <2>3. a = IF s.there THEN b ELSE Reply(NotFound, s)
    <3> HIDE DEF requests
    <3> QED
      BY <2>2 DEF TableService, IsTable
  <2>4. /\ b.code = OK /\ Performed(Range(ops), s, b.state)
        /\ b.inner # OK => b.state = s
    BY <2>1, BatchPerformed
  <2>5. ~Reads(r.req) /\ Success(b.code)
    BY <2>2, <2>4 DEF Reads, Success, OK
  <2> HIDE DEF b, a
  <2> QED
    BY <1>1, <1>2, <2>1, <2>3, <2>4, <2>5 DEF a
<1> QED
  BY <1>3, <1>4 DEF EntityCommand

(* A call that another step leaves alone, but for what it sees.            *)
LEMMA SameEntityCall ==
  ASSUME NEW r, NEW q, EntityCall(q), Agree(r, q, {"seen"})
  PROVE  EntityCall(r)
  BY DEF Agree, CallFields, EntityCall, EntityCommand

(* A call on entities begins.                                              *)
LEMMA EntityStarts ==
  ASSUME Entity, EntityCalm, NEW c \in Callers, NEW cmd, DOMAIN cmd = CallFields,
         execute_async(c, cmd), Thrown(cmd.req) \/ EntityCommand(cmd)
  PROVE  Entity' /\ EntityCalm'
<1>1. /\ CallsTyped' /\ \A d \in Callers \ {c} : call'[d] = call[d]
      /\ Thrown(cmd.req) => call'[c] = Done(cmd, Threw)
      /\ ~Thrown(cmd.req) => /\ Agree(call'[c], cmd, {"st", "at", "seen"})
                             /\ call'[c].st = "sent"
      /\ UNCHANGED <<kind, obj, svc, sec>>
  BY ExecuteCalls DEF Entity
<1>2. call'[c].st \in {"sent", "returned"}
  BY <1>1, DoneFields
<1>3. call'[c].st = "sent" => EntityCall(call'[c])
  BY <1>1, DoneFields DEF EntityCall, EntityCommand, Agree, CallFields
<1>4. Entity'
  <2>1. \A d \in Callers : Active(d)' => EntityCall(call'[d])
    BY <1>1, <1>2, <1>3 DEF Entity, Active
  <2> QED
    BY <1>1, <2>1 DEF Entity
<1>5. EntityCalm'
  <2>1. calm' = (calm /\ Quiet)
    BY DEF execute_async
  <2> SUFFICES ASSUME calm, Quiet
               PROVE  /\ Alone' /\ \A row \in Rows : CurrentRow(row)'
                      /\ \A d \in Callers : call'[d].st # "answered"
    BY <2>1 DEF EntityCalm
  <2>2. \A d \in Callers : ~Active(d)
    BY DEF Quiet
  <2>3. \A d \in Callers : call[d].st # "answered"
    BY <2>2 DEF Active
  <2>4. \A row \in Rows : CurrentRow(row)
    BY <2>3 DEF EntityCalm
  <2>5. \A d \in Callers \ {c} : ~Active(d)'
    BY <1>1, <2>2 DEF Active
  <2> QED
    BY <1>1, <1>2, <2>3, <2>4, <2>5 DEF Alone, CurrentRow
<1> QED
  BY <1>4, <1>5

(* The operations an application makes of its entities.                    *)
LEMMA EntityExecutes ==
  ASSUME Entity, EntityCalm, NEW c \in Callers, execute(c) \/ execute_batch(c)
  PROVE  Entity' /\ EntityCalm'
<1>1. obj.etags \in [Rows -> Nat] /\ 1 \in Rows /\ 2 \in Rows /\ 3 \in Rows
  BY DEF Entity, Rows
<1>2. \A row \in Rows : operations(row, obj.etags[row]) \subseteq Operations
  BY <1>1 DEF operations, delete_entity, insert_entity, insert_or_merge_entity,
              insert_or_replace_entity, merge_entity, replace_entity, retrieve_entity,
              table_operation, Operations, OperationTypes, Empty
<1>3. CASE execute(c)
  <2>1. PICK row \in {1, 2} : \E operation \in operations(row, obj.etags[row]) :
                                execute_operation_async(c, operation)
    BY <1>3 DEF execute
  <2>2. PICK o \in operations(row, obj.etags[row]) : execute_operation_async(c, o)
    BY <2>1
  <2> DEFINE retrieve == o.type = "retrieve"
             accepts == IF retrieve THEN {NotFound} ELSE {}
             cmd == command("execute", execute_operation(o), retrieve, accepts,
                            {o}, access_condition)
  <2>3. /\ DOMAIN cmd = CallFields /\ cmd.op = "execute" /\ cmd.arg = {o}
        /\ cmd.req = execute_operation(o) /\ cmd.accepts = accepts
    BY DEF command, Idle, CallFields
  <2>4. execute_async(c, cmd)
    BY <2>2 DEF execute_operation_async
  <2> HIDE DEF cmd
  <2>5. o \in Operations
    BY <1>1, <1>2
  <2>6. EntityCommand(cmd)
    BY <2>3, <2>5 DEF EntityCommand
  <2> QED
    BY <2>3, <2>4, <2>6, EntityStarts
<1>4. CASE execute_batch(c)
  <2>1. PICK ops \in Batches : execute_batch_async(c, ops)
    BY <1>4 DEF execute_batch
  <2> DEFINE request == IF valid_batch(ops) THEN execute_batch_operation(ops)
                        ELSE invalid_argument
             cmd == command("execute_batch", request, retrieves(ops) # {}, {},
                            Range(ops), access_condition)
  <2>2. /\ DOMAIN cmd = CallFields /\ cmd.op = "execute_batch" /\ cmd.arg = Range(ops)
        /\ cmd.req = request /\ cmd.accepts = {}
    BY DEF command, Idle, CallFields
  <2>3. execute_async(c, cmd)
    BY <2>1 DEF execute_batch_async
  <2> HIDE DEF cmd
  <2>4. Thrown(invalid_argument)
    BY DEF Thrown, invalid_argument, base_request
  <2>5. valid_batch(ops) => IsBatch(ops)
    <3> DEFINE some(row) == {insert_entity(row, obj.etags[row]),
                             replace_entity(row, obj.etags[row]), retrieve_entity(row)}
    <3>1. \A row \in Rows : some(row) \subseteq Operations /\ \A o \in some(row) : o.row = row
      BY <1>1 DEF insert_entity, replace_entity, retrieve_entity, table_operation,
                  Operations, OperationTypes, Empty
    <3>2. \/ ops = <<>> \/ \E a \in some(1) : ops = <<a>>
          \/ \E a \in some(1), b \in some(2) \cup some(3) : ops = <<a, b>>
      BY DEF Batches
    <3> HIDE DEF some
    <3>3. ASSUME NEW a \in some(1), NEW b \in some(2) \cup some(3), ops = <<a, b>>,
                 valid_batch(ops)
          PROVE  IsBatch(ops)
      <4>1. a \in Operations /\ b \in Operations /\ a.row = 1 /\ b.row \in {2, 3}
        BY <1>1, <3>1
      <4>2. DOMAIN ops = {1, 2} /\ ops[1] = a /\ ops[2] = b /\ Len(ops) = 2
        BY <3>3
      <4>3. retrieves(ops) = {}
        BY <3>3, <4>2 DEF valid_batch
      <4>4. a.type # "retrieve" /\ b.type # "retrieve"
        BY <4>2, <4>3 DEF retrieves
      <4> QED
        BY <3>3, <4>1, <4>4 DEF IsBatch
    <3>4. ASSUME NEW a \in some(1), ops = <<a>> PROVE IsBatch(ops)
      BY <1>1, <3>1, <3>4 DEF IsBatch
    <3>5. ops = <<>> => ~valid_batch(ops)
      BY DEF valid_batch
    <3> QED
      BY <3>2, <3>3, <3>4, <3>5
  <2>6. Thrown(cmd.req) \/ EntityCommand(cmd)
    BY <2>2, <2>4, <2>5 DEF EntityCommand
  <2> QED
    BY <2>2, <2>3, <2>6, EntityStarts
<1> QED
  BY <1>3, <1>4

(* A call on entities returns, and leaves etags in the object that are     *)
(* current if the calls ran one at a time.                                 *)
LEMMA EntityReturns ==
  ASSUME Entity, EntityCalm, NEW c \in Callers, NEW out, Returns(c, out),
         DOMAIN obj' = {"etags"}, obj'.etags \in [Rows -> Nat], calm' => calm,
         calm' => \A row \in Rows : CurrentRow(row)'
  PROVE  Entity' /\ EntityCalm'
<1>1. /\ CallsTyped' /\ \A d \in Callers \ {c} : call'[d] = call[d]
      /\ call'[c].st = "returned" /\ UNCHANGED <<svc, sec>> /\ Active(c)
  BY ReturnCalls, DoneFields DEF Entity
<1>2. Entity'
  BY <1>1 DEF Entity, Active
<1>3. ASSUME calm'
      PROVE  Alone' /\ \A d \in Callers : call'[d].st # "answered"
  <2>1. Alone
    BY <1>3 DEF EntityCalm
  <2>2. \A d \in Callers \ {c} : ~Active(d) /\ ~Active(d)'
    BY <1>1, <2>1 DEF Alone, Active
  <2> QED
    BY <1>1, <2>2 DEF Alone, Active
<1>4. EntityCalm'
  BY <1>3 DEF EntityCalm
<1> QED
  BY <1>2, <1>4

(* The handlers of entity operations.                                      *)
LEMMA EntityResponds ==
  ASSUME Entity, EntityCalm, NEW c \in Callers, execute_response(c) \/ execute_batch_response(c)
  PROVE  Entity' /\ EntityCalm'
<1>1. call[c].st = "answered" /\ Active(c) /\ EntityCall(call[c])
  BY DEF execute_response, execute_batch_response, Answer, Accepted, Active, Entity
<1> DEFINE rows == {operation.row : operation \in call[c].arg}
           noted == table_results(c)
<1>2. /\ DOMAIN noted = {"etags"}
      /\ noted.etags = [row \in Rows |-> IF row \in rows THEN body(c).rows[row]
                                           ELSE obj.etags[row]]
  BY DEF table_results, parse_etag, Entity
<1>3. noted.etags \in [Rows -> Nat]
  BY <1>1, <1>2 DEF Entity, EntityCall, IsTable, body
<1> HIDE DEF noted
<1>4. PICK out : \/ Return(c, noted, out)
                 \/ Return(c, obj, out) /\ NothingDone(call[c])
  <2>1. CASE execute_response(c)
    BY <2>1 DEF execute_response, Answer, noted
  <2>2. CASE execute_batch_response(c)
    <3>1. call[c].op = "execute_batch"
      BY <2>2 DEF execute_batch_response, Accepted
    <3> QED
      BY <2>2, <3>1 DEF execute_batch_response, NothingDone, noted
  <2> QED
    BY <2>1, <2>2
<1>5. Returns(c, out) /\ calm' = calm /\ obj' \in {noted, obj} /\ svc' = svc
  BY <1>1, <1>4 DEF Return, Returns
<1>6. DOMAIN obj' = {"etags"} /\ obj'.etags \in [Rows -> Nat]
  BY <1>2, <1>3, <1>5 DEF Entity
<1>7. ASSUME calm PROVE \A row \in Rows : CurrentRow(row)'
  <2>1. /\ body(c) = svc
        /\ \A row \in Rows : NothingDone(call[c]) \/ row \notin rows => CurrentRow(row)
    BY <1>1, <1>7 DEF EntityCalm, body
  <2>2. CASE obj' = noted
    BY <1>2, <1>5, <2>1, <2>2 DEF CurrentRow
  <2>3. CASE obj' = obj /\ NothingDone(call[c])
    BY <1>5, <2>1, <2>3 DEF CurrentRow
  <2> QED
    BY <1>4, <2>2, <2>3 DEF Return
<1> QED
  BY <1>5, <1>6, <1>7, EntityReturns

(* The service performs the operations.                                    *)
LEMMA ServeEntity ==
  ASSUME Entity, EntityCalm, NEW c \in Callers,
         Serve(c, TableService(call[c].req, located(c)))
  PROVE  /\ Entity' /\ EntityCalm'
         /\ \A o \in call[c].arg :
              /\ o.type \in Checked
              /\ svc'.rows[o.row] # svc.rows[o.row]
              => o.etag \in {Empty, svc.rows[o.row]}
<1> DEFINE answer == TableService(call[c].req, located(c))
           r == call'[c]
<1>1. /\ CallsTyped' /\ call[c].st = "sent"
      /\ \A d \in Callers \ {c} : Watched(call'[d], call[d], svc'.there)
      /\ Agree(r, call[c], {"st", "resp", "did", "pre", "seen"})
      /\ r.st = "answered" /\ r.resp = answer
      /\ svc' = IF call[c].at = "primary" /\ ~Reads(call[c].req)
                THEN answer.state ELSE svc
      /\ UNCHANGED <<kind, obj, sec>>
  BY ServeCalls DEF Entity
<1>2. EntityCommand(call[c]) /\ IsTable(located(c))
  BY <1>1 DEF Entity, Active, EntityCall, located
<1>3. /\ Performed(call[c].arg, located(c), answer.state)
      /\ Reads(call[c].req) => answer.state = located(c)
      /\ ~Success(answer.code) \/ (call[c].op = "execute_batch" /\ answer.inner # OK)
         => answer.state = located(c)
  BY <1>2, EntityServed
<1> HIDE DEF answer
<1>4. IsTable(answer.state) /\ IsTable(svc')
  BY <1>1, <1>3 DEF Entity, Performed
<1>5. EntityCall(r)
  BY <1>1, <1>2, <1>4 DEF EntityCall, EntityCommand, Agree, CallFields
<1>6. r.op = call[c].op /\ r.arg = call[c].arg
  BY <1>1 DEF Agree, CallFields
<1> HIDE DEF r
<1>7. \A d \in Callers \ {c} : /\ Agree(call'[d], call[d], {"seen"})
                               /\ call'[d].st = call[d].st
  BY <1>1 DEF Watched, Agree, CallFields
<1>8. ASSUME NEW d \in Callers \ {c}, Active(d)'
      PROVE  EntityCall(call'[d])
  <2>1. EntityCall(call[d])
    BY <1>7, <1>8 DEF Entity, Active
  <2> QED
    BY <1>7, <2>1, SameEntityCall
<1>9. Entity'
  BY <1>1, <1>4, <1>5, <1>8 DEF Entity, r
<1>10. ASSUME calm'
       PROVE  /\ Alone'
              /\ \A d \in Callers : call'[d].st = "answered" => d = c
              /\ r.resp.state = svc'
              /\ \A row \in Rows : NothingDone(r) \/ (\A o \in r.arg : o.row # row)
                                   => CurrentRow(row)'
  <2>1. calm /\ call[c].at = "primary"
    BY <1>10 DEF Serve
  <2>2. Alone
    BY <2>1 DEF EntityCalm
  <2>3. \A d \in Callers \ {c} : ~Active(d)
    BY <1>1, <2>2 DEF Alone, Active
  <2>4. \A d \in Callers \ {c} : ~Active(d)' /\ call'[d].st # "answered"
    BY <1>7, <2>3 DEF Active
  <2>5. located(c) = svc
    BY <2>1 DEF located
  <2>6. answer.state = svc'
    BY <1>1, <1>3, <2>1, <2>5
  <2>7. \A row \in Rows : CurrentRow(row)
    BY <1>1, <2>1, <2>3 DEF EntityCalm, Active
  <2>8. NothingDone(r) => svc' = svc
    BY <1>1, <1>3, <1>6, <2>5, <2>6 DEF NothingDone, r
  <2>9. \A row \in Rows : (\A o \in r.arg : o.row # row) => svc'.rows[row] = svc.rows[row]
    BY <1>3, <1>6, <2>5, <2>6 DEF Performed
  <2>10. \A row \in Rows : NothingDone(r) \/ (\A o \in r.arg : o.row # row)
                           => CurrentRow(row)'
    BY <1>1, <2>7, <2>8, <2>9 DEF CurrentRow
  <2> QED
    BY <1>1, <2>4, <2>6, <2>10 DEF Alone, r
<1>11. EntityCalm'
  BY <1>1, <1>10 DEF EntityCalm, r
<1>12. ASSUME NEW o \in call[c].arg, o.type \in Checked, svc'.rows[o.row] # svc.rows[o.row]
       PROVE  o.etag \in {Empty, svc.rows[o.row]}
  <2>1. call[c].at = "primary" /\ svc' = answer.state
    BY <1>1, <1>12
  <2> QED
    BY <1>3, <1>12, <2>1 DEF Performed, located
<1> QED
  BY <1>9, <1>11, <1>12

(* Lost requests and refusals.                                             *)
LEMMA EntityDisturbed ==
  ASSUME Entity, EntityCalm, NEW c \in Callers,
         Resend(c) \/ GiveUp(c) \/ Refused(c)
  PROVE  Entity' /\ EntityCalm'
<1>1. CASE Resend(c)
  <2> DEFINE r == call'[c]
  <2>1. /\ CallsTyped' /\ \A d \in Callers \ {c} : call'[d] = call[d]
        /\ Active(c) /\ Agree(r, call[c], {"st", "resp", "at"}) /\ r.st = "sent"
        /\ ~calm' /\ UNCHANGED <<kind, obj, svc, sec>>
    BY <1>1, ResendCalls DEF Entity
  <2>2. EntityCall(call[c])
    BY <2>1 DEF Entity
  <2>3. EntityCall(r)
    BY <2>1, <2>2 DEF EntityCall, EntityCommand, Agree, CallFields
  <2> HIDE DEF r
  <2> QED
    BY <2>1, <2>3 DEF Entity, Active, EntityCalm, r
<1>2. CASE GiveUp(c)
  <2>1. Returns(c, Failed) /\ obj' = obj /\ ~calm'
    BY <1>2, ReturningSteps
  <2>2. DOMAIN obj' = {"etags"} /\ obj'.etags \in [Rows -> Nat]
    BY <2>1 DEF Entity
  <2> QED
    BY <2>1, <2>2, EntityReturns
<1>3. CASE Refused(c)
  <2>1. /\ call[c].st = "answered" /\ ~Success(call[c].resp.code)
        /\ obj' = obj /\ calm' = calm /\ UNCHANGED <<kind, svc, sec>>
    BY <1>3, RefusedCalls DEF Entity
  <2>2. calm => \A row \in Rows : CurrentRow(row) /\ CurrentRow(row)'
    BY <2>1 DEF EntityCalm, CurrentRow, NothingDone
  <2>3. DOMAIN obj' = {"etags"} /\ obj'.etags \in [Rows -> Nat]
    BY <2>1 DEF Entity
  <2>4. CASE Returns(c, call[c].resp.code)
    BY <2>1, <2>2, <2>3, <2>4, EntityReturns
  <2>5. CASE ~Returns(c, call[c].resp.code)
    <3>1. /\ CallsTyped' /\ \A d \in Callers \ {c} : call'[d] = call[d]
          /\ Agree(call'[c], call[c], {"st", "at", "both", "resp"})
          /\ call'[c].st = "sent"
      BY <1>3, <2>5, RefusedCalls DEF Entity
    <3>2. EntityCall(call[c]) /\ Active(c)
      BY <2>1 DEF Entity, Active
    <3>3. EntityCall(call'[c])
      BY <3>1, <3>2 DEF EntityCall, EntityCommand, Agree, CallFields
    <3>4. \A d \in Callers : Active(d)' => Active(d)
      BY <3>1, <3>2 DEF Active
    <3>5. Entity'
      BY <2>1, <2>3, <3>1, <3>3 DEF Entity, Active
    <3>6. ASSUME calm
          PROVE  Alone' /\ \A d \in Callers : call'[d].st # "answered"
      <4>1. Alone
        BY <3>6 DEF EntityCalm
      <4>2. \A d \in Callers \ {c} : ~Active(d)
        BY <3>2, <4>1 DEF Alone
      <4> QED
        BY <3>1, <3>4, <4>1, <4>2 DEF Alone, Active
    <3>7. EntityCalm'
      BY <2>1, <2>2, <3>6 DEF EntityCalm
    <3> QED
      BY <3>5, <3>7
  <2> QED
    BY <2>4, <2>5
<1> QED
  BY <1>1, <1>2, <1>3

(* Another client writes or deletes an entity.                             *)
LEMMA ForeignEntityStep ==
  ASSUME Entity, EntityCalm, ForeignEntity
  PROVE  Entity' /\ EntityCalm'
<1>1. PICK row \in {1, 2}, etag \in {Empty, svc.etag + 1} :
        Foreign([NewVersion(svc) EXCEPT !.rows[row] = etag])
  BY DEF ForeignEntity
<1> DEFINE state == [NewVersion(svc) EXCEPT !.rows[row] = etag]
<1>2. /\ CallsTyped' /\ UNCHANGED <<kind, obj, sec>> /\ svc' = state /\ ~calm'
      /\ \A d \in Callers : Watched(call'[d], call[d], svc'.there)
  BY <1>1, ForeignCalls DEF Entity
<1>3. IsTable(state)
  BY DEF Entity, IsTable, NewVersion, Empty, Rows
<1> HIDE DEF state
<1>4. ASSUME NEW d \in Callers, Active(d)'
      PROVE  EntityCall(call'[d])
  <2>1. Agree(call'[d], call[d], {"seen"}) /\ call'[d].st = call[d].st
    BY <1>2 DEF Watched, Agree, CallFields
  <2>2. EntityCall(call[d])
    BY <1>4, <2>1 DEF Entity, Active
  <2> QED
    BY <2>1, <2>2, SameEntityCall
<1> QED
  BY <1>2, <1>3, <1>4 DEF Entity, EntityCalm

(* The entities an application begins with.                                *)
LEMMA EntityBegins == Init => EntityInv
<1> SUFFICES ASSUME Init, kind = "entity" PROVE Entity /\ EntityCalm
  BY DEF EntityInv
<1>1. TableInit
  BY DEF Init, FileInit, QueueInit, ClientInit, ListingInit, CommandInit, ClientKinds
<1>2. /\ obj \in {cloud_table, [cloud_table EXCEPT !.etags[1] = 1]}
      /\ svc = StoredTable /\ sec = StoredTable /\ call = [c \in Callers |-> Idle]
  BY <1>1 DEF TableInit, CommandInit
<1>3. CallsTyped /\ \A c \in Callers : call[c].st = "idle"
  BY <1>2 DEF CallsTyped, Idle, CallFields
<1>4. IsTable(svc) /\ IsTable(sec) /\ svc.rows[1] = 1
  BY <1>2 DEF StoredTable, IsTable, Rows, Empty
<1>5. DOMAIN obj = {"etags"} /\ obj.etags \in [Rows -> Nat]
  BY <1>2 DEF cloud_table, NoRows, Rows, Empty
<1>6. \A row \in Rows : CurrentRow(row)
  BY <1>2, <1>4 DEF cloud_table, NoRows, Rows, Empty, CurrentRow
<1>7. \A c \in Callers : ~Active(c) /\ call[c].st # "answered"
  BY <1>3 DEF Active
<1> QED
  BY <1>3, <1>4, <1>5, <1>6, <1>7 DEF Entity, EntityCalm, Alone

(* The steps of entities, among those of all the objects.                  *)
LEMMA EntityNext ==
  ASSUME kind = "entity", Next
  PROVE  \/ ForeignEntity
         \/ \E c \in Callers : \/ EntityCalls(c)
                               \/ Serve(c, TableService(call[c].req, located(c)))
                               \/ Resend(c) \/ GiveUp(c) \/ Refused(c)
<1>1. ASSUME NEW c \in Callers, ServeCall(c)
      PROVE  Serve(c, TableService(call[c].req, located(c)))
  BY <1>1 DEF ServeCall, ClientKinds
<1>2. ForeignStep => ForeignEntity
  BY DEF ForeignStep, ForeignNames, ClientKinds
<1> QED
  BY <1>1, <1>2
  DEF Next, ShareCalls, DirectoryCalls, FileCalls, FileCopyCalls, FileLeaseCalls,
      QueueCalls, MessageCalls, TableCalls, ClientCalls, ClientKinds, ListingCalls

(* The invariant of entities is kept by every step.                        *)
LEMMA EntityKept == EntityInv /\ [Next]_cvars => EntityInv'
<1> SUFFICES ASSUME EntityInv, [Next]_cvars, kind = "entity" PROVE Entity' /\ EntityCalm'
  BY KindKept DEF EntityInv
<1>1. Entity /\ EntityCalm
  BY DEF EntityInv
<1>2. CASE UNCHANGED cvars
  <2>1. Entity'
    BY <1>1, <1>2 DEF cvars, Entity, CallsTyped, Active
  <2>2. EntityCalm'
    BY <1>1, <1>2 DEF cvars, EntityCalm, Alone, Active, CurrentRow
  <2> QED
    BY <2>1, <2>2
<1>3. CASE Next
  <2>1. ASSUME NEW c \in Callers, EntityCalls(c)
        PROVE  Entity' /\ EntityCalm'
    BY <1>1, <2>1, EntityExecutes, EntityResponds DEF EntityCalls
  <2> QED
    BY <1>1, <1>3, <2>1, EntityNext, ServeEntity, ForeignEntityStep, EntityDisturbed
<1> QED
  BY <1>2, <1>3

(* The calls and handlers of entities answer nothing.                      *)
LEMMA EntityCallsSilent ==
  ASSUME CallsTyped, NEW d \in Callers, EntityCalls(d)
  PROVE  Silent
<1>1. ASSUME execute(d) \/ execute_batch(d)
      PROVE  Silent
  BY <1>1, SilentSteps DEF execute, execute_batch, execute_operation_async, execute_batch_async
<1>2. ASSUME execute_response(d) \/ execute_batch_response(d)
      PROVE  Silent
  BY <1>2, SilentSteps DEF execute_response, execute_batch_response, Answer
<1> QED
  BY <1>1, <1>2 DEF EntityCalls

(* The invariant of entities holds throughout.                             *)
LEMMA EntityInvariant == Spec => []EntityInv
  BY EntityBegins, EntityKept, PTL DEF Spec

(* EntityProtected: whoever writes meanwhile, however often a request is   *)
(* sent and wherever it is in its batch, an operation that replaces,       *)
(* merges or deletes an entity changes it only if the entity still has the *)
(* etag it was read with.                                                  *)
THEOREM EntitiesAreProtected == Spec => EntityProtected
<1>1. ASSUME EntityInv, [Next]_cvars, NEW c \in Callers, kind = "entity",
             call[c].st = "sent", call'[c].st = "answered"
      PROVE  \A operation \in call[c].arg :
               /\ operation.type \in {"delete", "merge", "replace"}
               /\ svc'.rows[operation.row] # svc.rows[operation.row]
               => operation.etag \in {Empty, svc.rows[operation.row]}
  <2>1. Entity /\ EntityCalm
    BY <1>1 DEF EntityInv
  <2>2. Next /\ CallsTyped /\ ~Silent
    BY <1>1, <2>1 DEF cvars, Entity, Silent
  <2>3. PICK d \in Callers : Serve(d, TableService(call[d].req, located(d)))
    BY <1>1, <2>2, EntityNext, SilentSteps, EntityCallsSilent DEF ForeignEntity
  <2>4. c = d
    BY <1>1, <2>2, <2>3, OneAnswered
  <2> QED
    BY <2>1, <2>3, <2>4, ServeEntity DEF Checked
<1>2. EntityInv /\ [Next]_cvars =>
        [\A c \in Callers :
           kind = "entity" /\ call[c].st = "sent" /\ call'[c].st = "answered" =>
             \A operation \in call[c].arg :
               /\ operation.type \in {"delete", "merge", "replace"}
               /\ svc'.rows[operation.row] # svc.rows[operation.row]
               => operation.etag \in {Empty, svc.rows[operation.row]}]_cvars
  BY <1>1
<1> QED
  BY <1>2, EntityInvariant, PTL DEF Spec, EntityProtected

-----------------------------------------------------------------------------
(* Shares, directories and files.  A request, unless its builder threw:    *)
(* its method and component, and headers that are surely there.            *)

Plainly(r, m, comp, hs) ==
  ~Thrown(r) => /\ {"method", "comp"} \cup hs \subseteq DOMAIN r
                /\ r.method = m /\ r.comp = comp

(* No further header changes them.                                         *)
LEMMA PlainHeaders ==
  ASSUME NEW r, NEW m, NEW comp, NEW hs, Plainly(r, m, comp, hs)
  PROVE  /\ \A h, value : Plainly(add_header(r, h, value), m, comp, hs \cup {h})
         /\ \A values : Plainly(add_optional_headers(r, values), m, comp, hs)
         /\ \A h, value : Plainly(add_optional_header(r, h, value), m, comp, hs)
         /\ \A metadata : Plainly(add_metadata(r, metadata), m, comp, hs)
         /\ \A condition : Plainly(add_lease_id(r, condition), m, comp, hs)
         /\ \A condition : Plainly(add_source_access_condition(r, condition), m, comp, hs)
<1>1. ASSUME NEW h, NEW value
      PROVE  Plainly(add_header(r, h, value), m, comp, hs \cup {h})
  BY DEF Plainly, add_header, Over, Thrown
<1>2. ASSUME NEW values
      PROVE  Plainly(add_optional_headers(r, values), m, comp, hs)
  BY OptionalHeaders DEF Plainly, Has
<1>3. ASSUME NEW h, NEW value
      PROVE  Plainly(add_optional_header(r, h, value), m, comp, hs)
  BY <1>2 DEF add_optional_header
<1>4. Plainly(invalid_argument, m, comp, hs)
  BY DEF Plainly, Thrown, invalid_argument, base_request
<1>5. ASSUME NEW metadata
      PROVE  Plainly(add_metadata(r, metadata), m, comp, hs)
  BY <1>3, <1>4 DEF add_metadata
<1>6. ASSUME NEW condition
      PROVE  /\ Plainly(add_lease_id(r, condition), m, comp, hs)
             /\ Plainly(add_source_access_condition(r, condition), m, comp, hs)
  BY <1>2, <1>3, <1>4 DEF add_lease_id, add_source_access_condition
<1> QED
  BY <1>1, <1>2, <1>3, <1>5, <1>6

(* base_http_request.                                                      *)
LEMMA PlainBase ==
  ASSUME NEW m, NEW comp
  PROVE  Plainly(base_request(m, comp), m, comp, {})
  BY DEF Plainly, base_request

(* The requests of the file service, but for those on leases, and the ones *)
(* among them that leave the etag as it is.                                *)
FileRequest(r) ==
  /\ {"method", "comp"} \subseteq DOMAIN r
  /\ \/ r.method \in {"GET", "HEAD"}
        /\ r.comp \in {"share", "directory", "file", "stats", "acl", "filepermission",
                       "rangelist"}
     \/ r.method = "DEL" /\ r.comp \in {"share", "directory", "file"}
     \/ r.method = "PUT"
        /\ r.comp \in {"share", "directory", "file", "copy", "metadata", "acl",
                       "filepermission", "abort", "range"}
     \/ r.method = "PUT" /\ r.comp = "properties" /\ (Has(r, "quota") \/ Has(r, "attributes"))

KeepsEtag(r) == Reads(r) \/ r.method = "DEL" \/ r.comp \in {"abort", "filepermission"}

Changing(r) == ~Thrown(r) => FileRequest(r)

Keeping(r) == ~Thrown(r) => FileRequest(r) /\ KeepsEtag(r)

(* Requests on shares.                                                     *)
LEMMA ShareRequests ==
  /\ \A max_size, metadata : Changing(create_file_share(max_size, metadata))
  /\ \A quota : Changing(set_file_share_properties(quota))
  /\ \A metadata : Changing(set_file_share_metadata(metadata))
  /\ \A policies : Changing(set_file_share_acl(policies))
  /\ Keeping(delete_file_share) /\ Keeping(get_file_share_properties)
  /\ Keeping(get_file_share_stats) /\ Keeping(get_file_share_acl)
  /\ \A key : Keeping(get_file_share_permission(key))
  /\ \A permission : Keeping(set_file_share_permission(permission))
<1>1. ASSUME NEW r, NEW m, NEW comp, NEW hs, Plainly(r, m, comp, hs),
             \/ m = "PUT" /\ comp \in {"share", "metadata", "acl"}
             \/ m = "PUT" /\ comp = "properties" /\ "quota" \in hs
      PROVE  Changing(r)
  BY <1>1 DEF Plainly, Changing, FileRequest, Has
<1>2. ASSUME NEW r, NEW m, NEW comp, NEW hs, Plainly(r, m, comp, hs),
             \/ m = "GET" /\ comp \in {"share", "stats", "acl", "filepermission"}
             \/ m = "DEL" /\ comp = "share"
             \/ m = "PUT" /\ comp = "filepermission"
      PROVE  Keeping(r)
  BY <1>2 DEF Plainly, Keeping, FileRequest, KeepsEtag, Reads
<1>3. ASSUME NEW max_size, NEW metadata
      PROVE  Changing(create_file_share(max_size, metadata))
  <2>1. Plainly(create_file_share(max_size, metadata), "PUT", "share", {})
    BY PlainBase, PlainHeaders DEF create_file_share
  <2> QED
    BY <2>1, <1>1
<1>4. ASSUME NEW quota
      PROVE  Changing(set_file_share_properties(quota))
  <2>1. Plainly(set_file_share_properties(quota), "PUT", "properties", {} \cup {"quota"})
    BY PlainBase, PlainHeaders DEF set_file_share_properties
  <2> QED
    BY <2>1, <1>1
<1>5. ASSUME NEW metadata
      PROVE  Changing(set_file_share_metadata(metadata))
  <2>1. Plainly(set_file_share_metadata(metadata), "PUT", "metadata", {})
    BY PlainBase, PlainHeaders DEF set_file_share_metadata
  <2> QED
    BY <2>1, <1>1
<1>6. ASSUME NEW policies
      PROVE  Changing(set_file_share_acl(policies))
  <2>1. Plainly(set_file_share_acl(policies), "PUT", "acl", {} \cup {"policies"})
    BY PlainBase, PlainHeaders DEF set_file_share_acl
  <2> QED
    BY <2>1, <1>1
<1>7. /\ Keeping(delete_file_share) /\ Keeping(get_file_share_properties)
      /\ Keeping(get_file_share_stats) /\ Keeping(get_file_share_acl)
  BY <1>2, PlainBase DEF delete_file_share, get_file_share_properties,
                         get_file_share_stats, get_file_share_acl
<1>8. ASSUME NEW value
      PROVE  /\ Keeping(get_file_share_permission(value))
             /\ Keeping(set_file_share_permission(value))
  <2>1. /\ Plainly(get_file_share_permission(value), "GET", "filepermission", {} \cup {"key"})
        /\ Plainly(set_file_share_permission(value), "PUT", "filepermission",
                   {} \cup {"permission"})
    BY PlainBase, PlainHeaders DEF get_file_share_permission, set_file_share_permission
  <2> QED
    BY <2>1, <1>2
<1> QED
  BY <1>3, <1>4, <1>5, <1>6, <1>7, <1>8

(* Requests on directories.                                                *)
LEMMA DirectoryRequests ==
  /\ \A metadata, attributes : Changing(create_file_directory(metadata, attributes))
  /\ \A attributes : Changing(set_file_directory_properties(attributes))
  /\ \A metadata : Changing(set_file_directory_metadata(metadata))
  /\ Keeping(delete_file_directory) /\ Keeping(get_file_directory_properties)
<1>1. ASSUME NEW r, NEW m, NEW comp, NEW hs, Plainly(r, m, comp, hs), m = "PUT",
             \/ comp \in {"directory", "metadata"}
             \/ comp = "properties" /\ "attributes" \in hs
      PROVE  Changing(r)
  BY <1>1 DEF Plainly, Changing, FileRequest, Has
<1>2. ASSUME NEW metadata, NEW attributes
      PROVE  Changing(create_file_directory(metadata, attributes))
  <2>1. Plainly(add_metadata(base_request("PUT", "directory"), metadata),
                "PUT", "directory", {})
    BY PlainBase, PlainHeaders
  <2>2. Plainly(create_file_directory(metadata, attributes), "PUT", "directory",
                {} \cup {"attributes"})
    BY <2>1, PlainHeaders DEF create_file_directory, add_additional_properties
  <2> QED
    BY <2>2, <1>1
<1>3. ASSUME NEW attributes
      PROVE  Changing(set_file_directory_properties(attributes))
  <2>1. Plainly(set_file_directory_properties(attributes), "PUT", "properties",
                {} \cup {"attributes"})
    BY PlainBase, PlainHeaders DEF set_file_directory_properties, add_additional_properties
  <2> QED
    BY <2>1, <1>1
<1>4. ASSUME NEW metadata
      PROVE  Changing(set_file_directory_metadata(metadata))
  <2>1. Plainly(set_file_directory_metadata(metadata), "PUT", "metadata", {})
    BY PlainBase, PlainHeaders DEF set_file_directory_metadata
  <2> QED
    BY <2>1, <1>1
<1>5. Keeping(delete_file_directory) /\ Keeping(get_file_directory_properties)
  BY DEF delete_file_directory, get_file_directory_properties, base_request, Keeping,
         FileRequest, KeepsEtag, Reads
<1> QED
  BY <1>2, <1>3, <1>4, <1>5

(* Requests on files.                                                      *)
LEMMA FileRequestsKnown ==
  /\ \A length, metadata, properties, condition :
       Changing(create_file(length, metadata, properties, condition))
  /\ \A properties, condition : /\ Changing(set_file_properties(properties, condition))
                                /\ Changing(resize_with_properties(properties, condition))
  /\ \A metadata, condition : Changing(set_file_metadata(metadata, condition))
  /\ \A source, metadata, condition : Changing(copy_file(source, metadata, condition))
  /\ \A source, from, metadata, condition :
       Changing(copy_file_from_blob(source, from, metadata, condition))
  /\ \A action, md5, condition : Changing(put_file_range(action, md5, condition))
  /\ \A condition : /\ Keeping(delete_file(condition))
                    /\ Keeping(get_file_properties(condition))
                    /\ Keeping(list_file_ranges(condition))
  /\ \A copy_id, condition : Keeping(abort_copy_file(copy_id, condition))
<1>1. ASSUME NEW r, NEW m, NEW comp, NEW hs, Plainly(r, m, comp, hs), m = "PUT",
             \/ comp \in {"file", "metadata", "copy", "range"}
             \/ comp = "properties" /\ "attributes" \in hs
      PROVE  Changing(r)
  BY <1>1 DEF Plainly, Changing, FileRequest, Has
<1>2. ASSUME NEW r, NEW m, NEW comp, NEW hs, Plainly(r, m, comp, hs),
             <<m, comp>> \in {<<"HEAD", "file">>, <<"GET", "rangelist">>, <<"DEL", "file">>,
                              <<"PUT", "abort">>}
      PROVE  Keeping(r)
  <2>1. \/ m = "HEAD" /\ comp = "file"
        \/ m = "GET" /\ comp = "rangelist"
        \/ m = "DEL" /\ comp = "file"
        \/ m = "PUT" /\ comp = "abort"
    BY <1>2
  <2> QED
    BY <1>2, <2>1 DEF Plainly, Keeping, FileRequest, KeepsEtag, Reads
<1>3. ASSUME NEW length, NEW metadata, NEW properties, NEW condition
      PROVE  Changing(create_file(length, metadata, properties, condition))
  <2>1. Plainly(add_file_properties(add_metadata(base_request("PUT", "file"), metadata),
                                    properties), "PUT", "file", {})
    BY PlainBase, PlainHeaders DEF add_file_properties
  <2>2. Plainly(create_file(length, metadata, properties, condition), "PUT", "file",
                {} \cup {"attributes"} \cup {"length"})
    BY <2>1, PlainHeaders
    DEF create_file, add_additional_properties, add_file_access_condition
  <2> QED
    BY <2>2, <1>1
<1>4. ASSUME NEW properties, NEW condition
      PROVE  /\ Changing(set_file_properties(properties, condition))
             /\ Changing(resize_with_properties(properties, condition))
  <2>1. Plainly(set_file_properties(properties, condition), "PUT", "properties",
                {} \cup {"attributes"})
    BY PlainBase, PlainHeaders
    DEF set_file_properties, add_additional_properties, add_file_properties,
        add_file_access_condition
  <2>2. Plainly(resize_with_properties(properties, condition), "PUT", "properties",
                {} \cup {"attributes"} \cup {"length"})
    BY <2>1, PlainHeaders DEF resize_with_properties
  <2> QED
    BY <2>1, <2>2, <1>1
<1>5. ASSUME NEW metadata, NEW condition
      PROVE  Changing(set_file_metadata(metadata, condition))
  <2>1. Plainly(set_file_metadata(metadata, condition), "PUT", "metadata", {})
    BY PlainBase, PlainHeaders DEF set_file_metadata, add_file_access_condition
  <2> QED
    BY <2>1, <1>1
<1>6. ASSUME NEW source, NEW from, NEW metadata, NEW condition
      PROVE  /\ Changing(copy_file(source, metadata, condition))
             /\ Changing(copy_file_from_blob(source, from, metadata, condition))
  <2> DEFINE base == add_header(base_request("PUT", "copy"), "copy_source", source)
             hs == {} \cup {"copy_source"}
  <2>1. Plainly(base, "PUT", "copy", hs)
    BY PlainBase, PlainHeaders
  <2> HIDE DEF base, hs
  <2>2. /\ Plainly(copy_file(source, metadata, condition), "PUT", "copy", hs)
        /\ Plainly(copy_file_from_blob(source, from, metadata, condition), "PUT", "copy", hs)
    BY <2>1, PlainHeaders DEF copy_file, copy_file_from_blob, add_file_access_condition, base
  <2> QED
    BY <2>2, <1>1
<1>7. ASSUME NEW action, NEW md5, NEW condition
      PROVE  Changing(put_file_range(action, md5, condition))
  <2>1. Plainly(put_file_range(action, md5, condition), "PUT", "range", {} \cup {"write"})
    BY PlainBase, PlainHeaders DEF put_file_range, add_file_access_condition
  <2> QED
    BY <2>1, <1>1
<1>8. ASSUME NEW condition
      PROVE  /\ Keeping(delete_file(condition)) /\ Keeping(get_file_properties(condition))
             /\ Keeping(list_file_ranges(condition))
  <2>1. /\ Plainly(delete_file(condition), "DEL", "file", {})
        /\ Plainly(get_file_properties(condition), "HEAD", "file", {})
        /\ Plainly(list_file_ranges(condition), "GET", "rangelist", {})
    BY PlainBase, PlainHeaders
    DEF delete_file, get_file_properties, list_file_ranges, add_file_access_condition
  <2> QED
    BY <2>1, <1>2
<1>9. ASSUME NEW copy_id, NEW condition
      PROVE  Keeping(abort_copy_file(copy_id, condition))
  <2>1. Plainly(abort_copy_file(copy_id, condition), "PUT", "abort", {} \cup {"copy_id"})
    BY PlainBase, PlainHeaders DEF abort_copy_file, add_file_access_condition
  <2> QED
    BY <2>1, <1>2
<1> QED
  BY <1>3, <1>4, <1>5, <1>6, <1>7, <1>8, <1>9

(* What the file service does with such a request.                         *)
LEMMA FileServed ==
  ASSUME NEW r, NEW s, FileRequest(r), {"there", "etag"} \subseteq DOMAIN s
  PROVE  LET a == FileService(r, s)
         IN /\ {"there", "etag"} \subseteq DOMAIN a.state
            /\ Reads(r) \/ ~Success(a.code) => a.state = s
            /\ KeepsEtag(r) => a.state.etag = s.etag
            /\ s.there \in BOOLEAN => a.state.there \in BOOLEAN
<1> DEFINE a == FileService(r, s)
           deleted == [s EXCEPT !.there = FALSE, !.lease = Empty]
<1>1. \A code, t : Reply(code, t).code = code /\ Reply(code, t).state = t
  BY DEF Reply
<1>2. Success(OK) /\ ~Success(NotFound) /\ ~Success(Conflict) /\ ~Success(PreconditionFailed)
  BY DEF Success, OK, NotFound, Conflict, PreconditionFailed
<1>3. /\ {"there", "etag"} \subseteq DOMAIN NewFile(r, s)
      /\ {"there", "etag"} \subseteq DOMAIN [NewFile(r, s) EXCEPT !.lease = Empty]
      /\ NewFile(r, s).there = TRUE
      /\ [NewFile(r, s) EXCEPT !.lease = Empty].there = TRUE
  BY DEF NewFile, StoredFile
<1>4. {"there", "etag"} \subseteq DOMAIN deleted /\ deleted.etag = s.etag
      /\ deleted.there = FALSE
  OBVIOUS
<1>5. CASE r.method \in {"GET", "HEAD"}
  <2>1. Reads(r) /\ r.comp # "lease"
    BY <1>5 DEF FileRequest, Reads
  <2>2. a.state = s
    BY <1>1, <1>5, <2>1 DEF FileService
  <2> QED
    BY <2>2
<1>6. CASE r.method = "DEL"
  <2>1. ~Reads(r) /\ r.comp # "lease"
    BY <1>6 DEF FileRequest, Reads
  <2>2. \/ a = Reply(OK, deleted) \/ \E code \in {NotFound, PreconditionFailed} : a = Reply(code, s)
    BY <1>6, <2>1 DEF FileService
  <2>3. deleted.there \in BOOLEAN
    BY <1>4
  <2> HIDE DEF deleted, a
  <2>4. a.state = deleted \/ a.state = s
    BY <1>1, <2>2
  <2>5. a.state = s \/ (Success(a.code) /\ a.state = deleted)
    BY <1>1, <1>2, <2>2
  <2>6. s.there \in BOOLEAN => a.state.there \in BOOLEAN
    BY <2>3, <2>4
  <2> QED
    BY <1>4, <2>1, <2>5, <2>6 DEF a
<1>7. CASE r.method = "PUT"
  <2>1. ~Reads(r) /\ r.comp # "lease"
    BY <1>7 DEF FileRequest, Reads
  <2>2. CASE r.comp \in {"share", "directory", "file", "copy"}
    <3>1. ~KeepsEtag(r)
      BY <1>7, <2>1, <2>2 DEF KeepsEtag
    <3>2. \/ a = Reply(OK, NewFile(r, s))
          \/ a = Reply(OK, [NewFile(r, s) EXCEPT !.lease = Empty])
          \/ \E code \in {Conflict, PreconditionFailed} : a = Reply(code, s)
      BY <1>7, <2>1, <2>2 DEF FileService
    <3> DEFINE new == NewFile(r, s)
               freed == [NewFile(r, s) EXCEPT !.lease = Empty]
    <3>3. new.there \in BOOLEAN /\ freed.there \in BOOLEAN
      BY <1>3
    <3>4. a = Reply(OK, new) \/ a = Reply(OK, freed) \/ \E code \in {Conflict, PreconditionFailed} : a = Reply(code, s)
      BY <3>2
    <3>5. {"there", "etag"} \subseteq DOMAIN new /\ {"there", "etag"} \subseteq DOMAIN freed
      BY <1>3
    <3> HIDE DEF new, freed, a
    <3>6. \/ a.state = s /\ ~Success(a.code)
          \/ a.state \in {new, freed} /\ Success(a.code)
      BY <1>1, <1>2, <3>4
    <3>7. s.there \in BOOLEAN => a.state.there \in BOOLEAN
      BY <3>3, <3>6
    <3> QED
      BY <2>1, <3>1, <3>5, <3>6, <3>7 DEF a
  <2>3. CASE r.comp \notin {"share", "directory", "file", "copy"}
    <3>1. \/ a = ChangeFile(r, s)
          \/ \E code \in {NotFound, PreconditionFailed} : a = Reply(code, s)
      BY <1>7, <2>1, <2>3 DEF FileService
    <3>2. ASSUME a = ChangeFile(r, s)
          PROVE  /\ {"there", "etag"} \subseteq DOMAIN a.state
                 /\ ~Success(a.code) => a.state = s
                 /\ KeepsEtag(r) => a.state.etag = s.etag
                 /\ a.state.there = s.there
      <4>1. CASE r.comp \in {"metadata", "acl", "range", "properties"}
        <5>1. ~KeepsEtag(r)
          BY <1>7, <2>1, <4>1 DEF KeepsEtag
        <5>2. r.comp = "properties" => Has(r, "quota") \/ Has(r, "attributes")
          BY <1>7 DEF FileRequest
        <5>3. a.code = OK /\ DOMAIN a.state = DOMAIN s /\ a.state.there = s.there
          <6> DEFINE next == NewVersion(s)
          <6>1. CASE r.comp = "metadata"
            <7> DEFINE given == [next EXCEPT !.meta = Get(r, "metadata")]
            <7>1. a = Reply(OK, given)
              BY <3>2, <6>1 DEF ChangeFile
            <7>2. DOMAIN given = DOMAIN s /\ given.there = s.there
              BY DEF NewVersion
            <7> HIDE DEF given
            <7> QED
              BY <1>1, <7>1, <7>2
          <6>2. CASE r.comp = "acl"
            <7> DEFINE given == [next EXCEPT !.policies = r["policies"]]
            <7>1. a = Reply(OK, given)
              BY <3>2, <6>2 DEF ChangeFile
            <7>2. DOMAIN given = DOMAIN s /\ given.there = s.there
              BY DEF NewVersion
            <7> HIDE DEF given
            <7> QED
              BY <1>1, <7>1, <7>2
          <6>3. CASE r.comp = "range"
            <7>1. a = Reply(OK, next)
              BY <3>2, <6>3 DEF ChangeFile
            <7> QED
              BY <1>1, <7>1 DEF NewVersion
          <6>4. CASE r.comp = "properties"
            <7> DEFINE quota == [next EXCEPT !.quota = r["quota"]]
                       given == [next EXCEPT
                                   !.attributes = WrittenAttributes(r, @),
                                   !.content = Get(r, "content"), !.md5 = Get(r, "md5"),
                                   !.length = IF Has(r, "length") THEN r["length"] ELSE @]
            <7>1. a = Reply(OK, quota) \/ a = Reply(OK, given)
              BY <3>2, <5>2, <6>4 DEF ChangeFile
            <7>2. /\ DOMAIN quota = DOMAIN s /\ quota.there = s.there
                  /\ DOMAIN given = DOMAIN s /\ given.there = s.there
              BY DEF NewVersion
            <7> HIDE DEF quota, given
            <7> QED
              BY <1>1, <7>1, <7>2
          <6> QED
            BY <4>1, <6>1, <6>2, <6>3, <6>4
        <5> QED
          BY <1>1, <1>2, <5>1, <5>3
      <4>2. CASE r.comp = "filepermission"
        BY <1>1, <3>2, <4>2 DEF ChangeFile
      <4>3. CASE r.comp = "abort"
        <5>1. a = Reply(OK, [s EXCEPT !.copy = Empty]) \/ a = Reply(Conflict, s)
          BY <3>2, <4>3 DEF ChangeFile
        <5> QED
          BY <1>1, <1>2, <5>1
      <4> QED
        BY <1>7, <2>3, <4>1, <4>2, <4>3 DEF FileRequest
    <3> QED
      BY <1>1, <1>2, <2>1, <3>1, <3>2
  <2> QED
    BY <2>2, <2>3
<1> QED
  BY <1>5, <1>6, <1>7 DEF FileRequest

(* The calls that may change the etag.  Each of their handlers keeps the   *)
(* new one.                                                                *)
Updating == {"create", "create_if_not_exists", "upload_metadata", "upload_properties",
             "upload_permissions", "resize", "clear_range", "write_range", "start_copy"}

HandleKinds == {"share", "directory", "file", "file_copy"}

CurrentEtag == obj.etag \in {Empty, svc.etag}

FileCommand(op, r) == FileRequest(r) /\ (op \in Updating \/ KeepsEtag(r))

(* While the calls run one at a time: an etag that is not current has been *)
(* replaced by the call whose answer is there, and is in that answer.      *)
FileCalm ==
  /\ CallsTyped /\ Alone
  /\ {"there", "etag"} \subseteq DOMAIN svc /\ "etag" \in DOMAIN obj
  /\ \A c \in Callers : Active(c) => FileCommand(call[c].op, call[c].req)
  /\ (\A c \in Callers : call[c].st # "answered") => CurrentEtag
  /\ \A c \in Callers : call[c].st = "answered" =>
       /\ body(c) = svc
       /\ CurrentEtag \/ (call[c].op \in Updating /\ Success(call[c].resp.code))

FileInv == kind \in HandleKinds /\ calm => FileCalm

(* A call on a share, directory or file begins.                            *)
FileBegins(c) ==
  \E op, req, both, accepts, arg, cond :
    /\ execute_async(c, command(op, req, both, accepts, arg, cond))
    /\ Thrown(req) \/ FileCommand(op, req)

(* Its handler ends it or sends the next request.  The etag becomes the    *)
(* one of the answer if the call may have changed it.                      *)
FileResponds(c) ==
  /\ call[c].st = "answered"
  /\ "etag" \in DOMAIN obj' /\ obj'.etag \in {obj.etag, body(c).etag}
  /\ call[c].op \in Updating /\ Success(call[c].resp.code) => obj'.etag = body(c).etag
  /\ \/ \E o, out : Return(c, o, out)
     \/ \E o, req, accepts : /\ Continue(c, o, req, accepts)
                             /\ Thrown(req) \/ FileCommand(call[c].op, req)

(* Such a call begins when no other runs.                                  *)
LEMMA FileStarts ==
  ASSUME FileCalm, NEW c \in Callers, calm', calm' = (calm /\ Quiet), CallsTyped',
         \A d \in Callers \ {c} : call'[d] = call[d],
         \/ call'[c].st = "returned"
         \/ call'[c].st = "sent" /\ FileCommand(call'[c].op, call'[c].req),
         svc' = svc, "etag" \in DOMAIN obj', obj'.etag = obj.etag
  PROVE  FileCalm'
<1>1. \A d \in Callers : ~Active(d) /\ call[d].st # "answered"
  BY DEF Quiet, Active
<1>2. CurrentEtag
  BY <1>1 DEF FileCalm
<1>3. CurrentEtag'
  BY <1>2 DEF CurrentEtag
<1>4. \A d \in Callers : call'[d].st # "answered" /\ (Active(d)' => d = c)
  BY <1>1 DEF Active
<1>5. Alone'
  BY <1>4 DEF Alone
<1>6. \A d \in Callers : Active(d)' => FileCommand(call'[d].op, call'[d].req)
  BY <1>4 DEF Active
<1>7. {"there", "etag"} \subseteq DOMAIN svc'
  BY DEF FileCalm
<1> QED
  BY <1>3, <1>4, <1>5, <1>6, <1>7 DEF FileCalm

(* execute_async.                                                          *)
LEMMA FileBeginsStep ==
  ASSUME FileCalm, NEW c \in Callers, calm', FileBegins(c)
  PROVE  FileCalm'
<1>1. PICK op, req, both, accepts, arg, cond :
        /\ execute_async(c, command(op, req, both, accepts, arg, cond))
        /\ Thrown(req) \/ FileCommand(op, req)
  BY DEF FileBegins
<1> DEFINE cmd == command(op, req, both, accepts, arg, cond)
<1>2. DOMAIN cmd = CallFields /\ cmd.op = op /\ cmd.req = req
  BY DEF command, Idle, CallFields
<1>3. execute_async(c, cmd)
  BY <1>1
<1> HIDE DEF cmd
<1>4. CallsTyped
  BY DEF FileCalm
<1>5. /\ CallsTyped' /\ \A d \in Callers \ {c} : call'[d] = call[d]
      /\ Thrown(cmd.req) => call'[c] = Done(cmd, Threw)
      /\ ~Thrown(cmd.req) => /\ Agree(call'[c], cmd, {"st", "at", "seen"})
                             /\ call'[c].st = "sent"
      /\ UNCHANGED <<kind, obj, svc, sec>>
  BY <1>2, <1>3, <1>4, ExecuteCalls
<1>6. \/ call'[c].st = "returned"
      \/ call'[c].st = "sent" /\ FileCommand(call'[c].op, call'[c].req)
  BY <1>1, <1>2, <1>5, DoneFields DEF Agree, CallFields
<1>7. calm' = (calm /\ Quiet)
  BY <1>3 DEF execute_async
<1>8. svc' = svc /\ "etag" \in DOMAIN obj' /\ obj'.etag = obj.etag
  BY <1>5 DEF FileCalm
<1> QED
  BY <1>5, <1>6, <1>7, <1>8, FileStarts

(* A handler.                                                              *)
LEMMA FileRespondsStep ==
  ASSUME FileCalm, NEW c \in Callers, FileResponds(c)
  PROVE  FileCalm'
<1>1. CallsTyped /\ Alone /\ Active(c) /\ body(c) = svc
  BY DEF FileCalm, FileResponds, Active
<1>2. \A d \in Callers \ {c} : ~Active(d) /\ call[d].st # "answered"
  BY <1>1 DEF Alone, Active
<1>3. /\ svc' = svc /\ CallsTyped' /\ \A d \in Callers \ {c} : call'[d] = call[d]
      /\ \/ call'[c].st = "returned"
         \/ call'[c].st = "sent" /\ FileCommand(call'[c].op, call'[c].req)
  <2>1. ASSUME NEW out, Returns(c, out)
        PROVE  /\ svc' = svc /\ CallsTyped' /\ \A d \in Callers \ {c} : call'[d] = call[d]
               /\ call'[c].st = "returned"
    BY <1>1, <2>1, ReturnCalls, DoneFields
  <2>2. ASSUME NEW o, NEW out, Return(c, o, out)
        PROVE  Returns(c, out)
    BY <2>2, ReturningSteps DEF FileResponds
  <2>3. ASSUME NEW o, NEW req, NEW accepts, Continue(c, o, req, accepts),
               Thrown(req) \/ FileCommand(call[c].op, req)
        PROVE  \/ Returns(c, Threw)
               \/ /\ svc' = svc /\ CallsTyped' /\ \A d \in Callers \ {c} : call'[d] = call[d]
                  /\ call'[c].st = "sent" /\ FileCommand(call'[c].op, call'[c].req)
    <3>1. call[c].st = "answered"
      BY DEF FileResponds
    <3> QED
      BY <1>1, <2>3, <3>1, ContinueCalls DEF Agree, CallFields
  <2> QED
    BY <2>1, <2>2, <2>3 DEF FileResponds
<1>4. CurrentEtag'
  BY <1>1, <1>3 DEF FileCalm, FileResponds, CurrentEtag
<1>5. \A d \in Callers : call'[d].st # "answered" /\ (Active(d)' => d = c)
  BY <1>2, <1>3 DEF Active
<1>6. Alone'
  BY <1>5 DEF Alone
<1>7. \A d \in Callers : Active(d)' => FileCommand(call'[d].op, call'[d].req)
  BY <1>3, <1>5 DEF Active
<1>8. {"there", "etag"} \subseteq DOMAIN svc' /\ "etag" \in DOMAIN obj'
  BY <1>3 DEF FileCalm, FileResponds
<1> QED
  BY <1>3, <1>4, <1>5, <1>6, <1>7, <1>8 DEF FileCalm

(* The service performs a request.                                         *)
LEMMA ServeFile ==
  ASSUME FileCalm, NEW c \in Callers, calm',
         Serve(c, FileService(call[c].req, located(c)))
  PROVE  FileCalm'
<1> DEFINE answer == FileService(call[c].req, located(c))
           r == call'[c]
<1>1. calm /\ call[c].at = "primary" /\ CallsTyped /\ Alone
  BY DEF Serve, FileCalm
<1>2. located(c) = svc
  BY <1>1 DEF located
<1>3. /\ CallsTyped' /\ call[c].st = "sent"
      /\ \A d \in Callers \ {c} : Watched(call'[d], call[d], svc'.there)
      /\ Agree(r, call[c], {"st", "resp", "did", "pre", "seen"})
      /\ r.st = "answered" /\ r.resp = answer
      /\ svc' = IF ~Reads(call[c].req) THEN answer.state ELSE svc
      /\ obj' = obj
  BY <1>1, ServeCalls
<1>4. Active(c) /\ FileCommand(call[c].op, call[c].req)
  BY <1>3 DEF Active, FileCalm
<1>5. /\ {"there", "etag"} \subseteq DOMAIN answer.state
      /\ Reads(call[c].req) \/ ~Success(answer.code) => answer.state = svc
      /\ KeepsEtag(call[c].req) => answer.state.etag = svc.etag
  BY <1>2, <1>4, FileServed DEF FileCalm, FileCommand
<1> HIDE DEF answer
<1>6. svc' = answer.state
  BY <1>3, <1>5
<1>7. r.op = call[c].op /\ r.req = call[c].req
  BY <1>3 DEF Agree, CallFields
<1> HIDE DEF r
<1>8. \A d \in Callers \ {c} : ~Active(d)
  BY <1>1, <1>4 DEF Alone
<1>9. \A d \in Callers \ {c} : ~Active(d)' /\ call'[d].st # "answered"
  BY <1>3, <1>8 DEF Watched, Agree, CallFields, Active
<1>10. CurrentEtag
  BY <1>3, <1>8 DEF FileCalm, Active
<1>11. CurrentEtag' \/ (r.op \in Updating /\ Success(answer.code))
  BY <1>3, <1>4, <1>5, <1>6, <1>7, <1>10 DEF CurrentEtag, FileCommand
<1>12. Alone'
  BY <1>9 DEF Alone
<1>13. \A d \in Callers : Active(d)' => FileCommand(call'[d].op, call'[d].req)
  BY <1>4, <1>7, <1>9 DEF r
<1>14. {"there", "etag"} \subseteq DOMAIN svc' /\ "etag" \in DOMAIN obj'
  BY <1>3, <1>5, <1>6 DEF FileCalm
<1>15. \A d \in Callers : call'[d].st = "answered" => d = c
  BY <1>9
<1>16. body(c)' = svc'
  BY <1>3, <1>6 DEF body, r
<1> QED
  BY <1>3, <1>11, <1>12, <1>13, <1>14, <1>15, <1>16 DEF FileCalm, r

(* A refusal leaves everything as it was.                                  *)
LEMMA RefusedFile ==
  ASSUME FileCalm, NEW c \in Callers, Refused(c)
  PROVE  FileCalm'
<1>1. CallsTyped /\ Alone
  BY DEF FileCalm
<1>2. /\ call[c].st = "answered" /\ ~Success(call[c].resp.code)
      /\ obj' = obj /\ svc' = svc
      /\ \/ Returns(c, call[c].resp.code)
         \/ /\ CallsTyped'
            /\ \A d \in Callers \ {c} : call'[d] = call[d]
            /\ Agree(call'[c], call[c], {"st", "at", "both", "resp"})
            /\ call'[c].st = "sent"
  BY <1>1, RefusedCalls
<1>3. CurrentEtag /\ CurrentEtag'
  BY <1>2 DEF FileCalm, CurrentEtag
<1>4. FileCommand(call[c].op, call[c].req)
  BY <1>2 DEF FileCalm, Active
<1>5. /\ CallsTyped' /\ \A d \in Callers \ {c} : call'[d] = call[d]
      /\ \/ call'[c].st = "returned"
         \/ call'[c].st = "sent" /\ FileCommand(call'[c].op, call'[c].req)
  <2>1. CASE Returns(c, call[c].resp.code)
    BY <1>1, <2>1, ReturnCalls, DoneFields
  <2>2. CASE ~Returns(c, call[c].resp.code)
    BY <1>2, <1>4, <2>2 DEF Agree, CallFields
  <2> QED
    BY <2>1, <2>2
<1>6. \A d \in Callers : call'[d].st # "answered" /\ (Active(d)' => d = c)
  BY <1>1, <1>2, <1>5 DEF Alone, Active
<1>7. Alone'
  BY <1>6 DEF Alone
<1>8. \A d \in Callers : Active(d)' => FileCommand(call'[d].op, call'[d].req)
  BY <1>5, <1>6 DEF Active
<1>9. {"there", "etag"} \subseteq DOMAIN svc' /\ "etag" \in DOMAIN obj'
  BY <1>2 DEF FileCalm
<1> QED
  BY <1>3, <1>5, <1>6, <1>7, <1>8, <1>9 DEF FileCalm

(* What the handlers make of the object: its etag is the answer's.         *)
Refreshed(o, response) == "etag" \in DOMAIN o /\ o.etag = response.etag

(* The parsers of the file service.                                        *)
LEMMA FileParsers ==
  ASSUME NEW o, NEW response, "etag" \in DOMAIN o
  PROVE  /\ Refreshed(update_etag_and_last_modified(o, response), response)
         /\ Refreshed(share_properties(o, response), response)
         /\ Refreshed(share_attributes(o, response), response)
         /\ Refreshed(directory_properties(o, response), response)
         /\ Refreshed(directory_attributes(o, response), response)
         /\ Refreshed(file_attributes(o, response), response)
<1>1. Refreshed(update_etag_and_last_modified(o, response), response)
  BY DEF Refreshed, update_etag_and_last_modified
<1>2. ASSUME NEW p, "etag" \in DOMAIN p, p.etag = response.etag
      PROVE  /\ Refreshed(Over(p, o), response)
             /\ \A value : Refreshed([Over(p, o) EXCEPT !.meta = value], response)
  <2>1. "etag" \in DOMAIN Over(p, o) /\ Over(p, o).etag = response.etag
    BY <1>2 DEF Over
  <2> QED
    BY <2>1 DEF Refreshed
<1>3. /\ Refreshed(share_properties(o, response), response)
      /\ Refreshed(share_attributes(o, response), response)
  BY <1>2 DEF share_properties, share_attributes, parse_file_share_properties
<1>4. /\ Refreshed(directory_properties(o, response), response)
      /\ Refreshed(directory_attributes(o, response), response)
  BY <1>2 DEF directory_properties, directory_attributes, parse_file_directory_properties
<1>5. Refreshed(file_attributes(o, response), response)
  BY <1>2 DEF file_attributes, parse_file_properties
<1> QED
  BY <1>1, <1>3, <1>4, <1>5

(* A further field of the object may be set along with the etag.           *)
LEMMA FileFieldSet ==
  ASSUME NEW o, NEW response, NEW value, Refreshed(o, response)
  PROVE  /\ Refreshed([o EXCEPT !.md5 = value], response)
         /\ Refreshed([o EXCEPT !.length = value], response)
         /\ Refreshed([o EXCEPT !.copy = value], response)
         /\ Refreshed([o EXCEPT !.attributes = value], response)
  BY DEF Refreshed

(* The forms a handler has.                                                *)
LEMMA FileHandlers ==
  ASSUME "etag" \in DOMAIN obj, NEW c \in Callers
  PROVE  /\ \A op, o, out : Answer(c, op, o, out) /\ Refreshed(o, body(c)) => FileResponds(c)
         /\ \A op, out : Answer(c, op, obj, out) /\ op \notin Updating => FileResponds(c)
         /\ \A op, o, req, accepts :
              unless_exists(c, op, o, req, accepts) /\ Refreshed(o, body(c))
              /\ op \in Updating /\ Changing(req) => FileResponds(c)
         /\ \A op, o, req, accepts :
              if_exists(c, op, o, req, accepts) /\ Refreshed(o, body(c))
              /\ op \notin Updating /\ Keeping(req) => FileResponds(c)
         /\ \A op, o : acted(c, op, o)
              /\ (Refreshed(o, body(c)) \/ (o = obj /\ op \notin Updating)) => FileResponds(c)
         /\ \A o : whether_exists(c, o) /\ Refreshed(o, body(c)) => FileResponds(c)
<1>1. ASSUME NEW o, NEW out, call[c].st = "answered", Return(c, o, out),
             \/ Refreshed(o, body(c))
             \/ o = obj /\ ~(call[c].op \in Updating /\ Success(call[c].resp.code))
      PROVE  FileResponds(c)
  <2>1. obj' = o
    BY <1>1 DEF Return
  <2> QED
    BY <1>1, <2>1 DEF Refreshed, FileResponds
<1>2. ASSUME NEW o, NEW req, NEW accepts, call[c].st = "answered",
             Continue(c, o, req, accepts), Thrown(req) \/ FileCommand(call[c].op, req),
             ~(call[c].op \in Updating /\ Success(call[c].resp.code)),
             o = obj \/ Refreshed(o, body(c))
      PROVE  FileResponds(c)
  <2>1. obj' = o
    BY <1>2 DEF Continue
  <2> QED
    BY <1>2, <2>1 DEF Refreshed, FileResponds
<1>3. ~Success(NotFound) /\ "exists" \notin Updating
  BY DEF Success, NotFound, Updating
<1>4. \A op : Accepted(c, op) => call[c].st = "answered" /\ call[c].op = op
  BY DEF Accepted
<1>5. ASSUME NEW op, NEW o, NEW out, Answer(c, op, o, out)
      PROVE  /\ Refreshed(o, body(c)) => FileResponds(c)
             /\ o = obj /\ op \notin Updating => FileResponds(c)
  BY <1>1, <1>4, <1>5 DEF Answer
<1>6. ASSUME NEW op, NEW o, NEW req, NEW accepts, unless_exists(c, op, o, req, accepts),
             Refreshed(o, body(c)), op \in Updating, Changing(req)
      PROVE  FileResponds(c)
  <2>1. CASE call[c].resp.code = NotFound
    BY <1>2, <1>3, <1>4, <1>6, <2>1 DEF unless_exists, Changing, FileCommand
  <2>2. CASE call[c].resp.code # NotFound
    BY <1>1, <1>4, <1>6, <2>2 DEF unless_exists
  <2> QED
    BY <2>1, <2>2
<1>7. ASSUME NEW op, NEW o, NEW req, NEW accepts, if_exists(c, op, o, req, accepts),
             Refreshed(o, body(c)), op \notin Updating, Keeping(req)
      PROVE  FileResponds(c)
  <2>1. CASE call[c].resp.code = NotFound
    BY <1>1, <1>4, <1>7, <2>1 DEF if_exists
  <2>2. CASE call[c].resp.code # NotFound
    BY <1>2, <1>4, <1>7, <2>2 DEF if_exists, Keeping, FileCommand
  <2> QED
    BY <2>1, <2>2
<1>8. ASSUME NEW op, NEW o, acted(c, op, o),
             Refreshed(o, body(c)) \/ (o = obj /\ op \notin Updating)
      PROVE  FileResponds(c)
  BY <1>1, <1>4, <1>8 DEF acted
<1>9. ASSUME NEW o, whether_exists(c, o), Refreshed(o, body(c))
      PROVE  FileResponds(c)
  BY <1>1, <1>3, <1>4, <1>9 DEF whether_exists
<1> QED
  BY <1>5, <1>6, <1>7, <1>8, <1>9

(* The forms in which a call begins.                                       *)
LEMMA FileCommands ==
  ASSUME NEW c \in Callers
  PROVE  /\ \A op, req, cond : Send(c, op, req, cond)
              /\ ((op \in Updating /\ Changing(req)) \/ Keeping(req)) => FileBegins(c)
         /\ \A op, req, both, arg, cond : exists_first(c, op, req, both, arg, cond)
              /\ Keeping(req) => FileBegins(c)
         /\ \A op, req, both, accepts, arg, cond :
              execute_async(c, command(op, req, both, accepts, arg, cond))
              /\ Keeping(req) => FileBegins(c)
<1>1. ASSUME NEW op, NEW req, NEW both, NEW accepts, NEW arg, NEW cond,
             execute_async(c, command(op, req, both, accepts, arg, cond)),
             (op \in Updating /\ Changing(req)) \/ Keeping(req)
      PROVE  FileBegins(c)
  <2>1. Thrown(req) \/ FileCommand(op, req)
    BY <1>1 DEF Changing, Keeping, FileCommand
  <2> QED
    BY <1>1, <2>1 DEF FileBegins
<1> QED
  BY <1>1 DEF Send, exists_first

(* A step of an application on its object.                                 *)
FileStep(c) ==
  \/ FileBegins(c) \/ FileResponds(c)
  \/ /\ UNCHANGED <<svc, call, calm>>
     /\ "etag" \in DOMAIN obj' /\ obj'.etag = obj.etag

(* A method that changes the object and sends nothing.                     *)
LEMMA FileLocal ==
  ASSUME "etag" \in DOMAIN obj, NEW c \in Callers, set_attributes \/ change_metadata
  PROVE  FileStep(c)
<1>1. CASE set_attributes
  <2>1. PICK value : Local([obj EXCEPT !.attributes = value])
    BY <1>1 DEF set_attributes
  <2> QED
    BY <2>1 DEF Local, FileStep
<1>2. CASE change_metadata
  <2>1. PICK value : Local([obj EXCEPT !.meta = value])
    BY <1>2 DEF change_metadata
  <2> QED
    BY <2>1 DEF Local, FileStep
<1> QED
  BY <1>1, <1>2

(* The operations of shares.                                               *)
LEMMA ShareSteps ==
  ASSUME "etag" \in DOMAIN obj, NEW c \in Callers, ShareCalls(c)
  PROVE  FileStep(c)
<1>1. ASSUME \/ share_create(c) \/ share_create_if_not_exists(c)
             \/ delete_share(c) \/ delete_share_if_exists(c) \/ share_exists(c)
             \/ share_download_attributes(c) \/ share_upload_metadata(c)
      PROVE  FileBegins(c)
  BY <1>1, FileCommands, ShareRequests
  DEF share_create, share_create_async, share_create_if_not_exists,
      share_create_if_not_exists_async, delete_share, delete_share_async,
      delete_share_if_exists, delete_share_if_exists_async, share_exists,
      share_exists_async, share_download_attributes, share_download_attributes_async,
      share_upload_metadata, share_upload_metadata_async, Updating
<1>2. ASSUME \/ download_share_usage(c) \/ download_share_usage_in_bytes(c)
             \/ share_resize(c) \/ share_download_permissions(c)
             \/ share_upload_permissions(c) \/ download_file_permission(c)
             \/ upload_file_permission(c)
      PROVE  FileBegins(c)
  BY <1>2, FileCommands, ShareRequests
  DEF download_share_usage, download_share_usage_in_bytes,
      download_share_usage_in_bytes_async, share_resize, share_resize_async,
      share_download_permissions, share_download_permissions_async,
      share_upload_permissions, share_upload_permissions_async,
      download_file_permission, download_file_permission_async,
      upload_file_permission, upload_file_permission_async, Updating
<1>3. ASSUME \/ share_create_response(c) \/ share_create_if_not_exists_exists(c)
             \/ share_create_if_not_exists_response(c)
             \/ delete_share_response(c) \/ delete_share_if_exists_exists(c)
             \/ delete_share_if_exists_response(c) \/ share_exists_response(c)
      PROVE  FileResponds(c)
  BY <1>3, FileHandlers, FileParsers, ShareRequests
  DEF share_create_response, share_create_if_not_exists_exists,
      share_create_if_not_exists_response, delete_share_response,
      delete_share_if_exists_exists, delete_share_if_exists_response,
      share_exists_response, Updating
<1>4. ASSUME \/ share_download_attributes_response(c) \/ share_upload_metadata_response(c)
             \/ download_share_usage_response(c) \/ share_resize_response(c)
             \/ share_download_permissions_response(c) \/ share_upload_permissions_response(c)
             \/ download_file_permission_response(c) \/ upload_file_permission_response(c)
      PROVE  FileResponds(c)
  BY <1>4, FileHandlers, FileParsers
  DEF share_download_attributes_response, share_upload_metadata_response,
      download_share_usage_response, share_resize_response,
      share_download_permissions_response, share_upload_permissions_response,
      download_file_permission_response, upload_file_permission_response, Updating
<1> QED
  BY <1>1, <1>2, <1>3, <1>4, FileLocal DEF ShareCalls, FileStep

(* The operations of directories.                                          *)
LEMMA DirectorySteps ==
  ASSUME "etag" \in DOMAIN obj, NEW c \in Callers, DirectoryCalls(c)
  PROVE  FileStep(c)
<1>1. ASSUME \/ directory_create(c) \/ directory_create_if_not_exists(c)
             \/ delete_directory(c) \/ delete_directory_if_exists(c)
             \/ directory_exists(c) \/ directory_download_attributes(c)
             \/ directory_upload_properties(c) \/ directory_upload_metadata(c)
      PROVE  FileBegins(c)
  BY <1>1, FileCommands, DirectoryRequests
  DEF directory_create, directory_create_async, directory_create_if_not_exists,
      directory_create_if_not_exists_async, delete_directory, delete_directory_async,
      delete_directory_if_exists, delete_directory_if_exists_async, directory_exists,
      directory_exists_async, directory_download_attributes,
      directory_download_attributes_async, directory_upload_properties,
      directory_upload_properties_async, directory_upload_metadata,
      directory_upload_metadata_async, Updating
<1>2. ASSUME \/ directory_create_response(c) \/ directory_create_if_not_exists_exists(c)
             \/ directory_create_if_not_exists_response(c)
             \/ delete_directory_response(c) \/ delete_directory_if_exists_exists(c)
             \/ delete_directory_if_exists_response(c)
      PROVE  FileResponds(c)
  BY <1>2, FileHandlers, FileParsers, DirectoryRequests
  DEF directory_create_response, directory_create_if_not_exists_exists,
      directory_create_if_not_exists_response, delete_directory_response,
      delete_directory_if_exists_exists, delete_directory_if_exists_response, Updating
<1>3. ASSUME \/ directory_exists_response(c) \/ directory_download_attributes_response(c)
             \/ directory_upload_properties_response(c)
             \/ directory_upload_metadata_response(c)
      PROVE  FileResponds(c)
  BY <1>3, FileHandlers, FileParsers
  DEF directory_exists_response, directory_download_attributes_response,
      directory_upload_properties_response, directory_upload_metadata_response, Updating
<1> QED
  BY <1>1, <1>2, <1>3, FileLocal DEF DirectoryCalls, FileStep

(* The operations of files, but for resize.                                *)
LEMMA FileSteps ==
  ASSUME "etag" \in DOMAIN obj, NEW c \in Callers,
         FileCopyCalls(c) \/ (FileCalls(c) /\ ~file_resize(c))
  PROVE  FileStep(c)
<1>1. ASSUME \/ file_create(c) \/ file_create_if_not_exists(c) \/ delete_file_call(c)
             \/ delete_file_if_exists(c) \/ file_exists(c) \/ file_download_attributes(c)
             \/ file_upload_properties(c)
      PROVE  FileBegins(c)
  BY <1>1, FileCommands, FileRequestsKnown
  DEF file_create, file_create_async, file_create_if_not_exists,
      file_create_if_not_exists_async, delete_file_call, delete_file_async,
      delete_file_if_exists, delete_file_if_exists_async, file_exists,
      file_exists_async, file_download_attributes, file_download_attributes_async,
      file_upload_properties, file_upload_properties_async, Updating
<1>2. ASSUME \/ file_upload_metadata(c) \/ list_ranges(c) \/ clear_range(c)
             \/ write_range(c) \/ file_start_copy(c) \/ file_abort_copy(c)
      PROVE  FileBegins(c)
  BY <1>2, FileCommands, FileRequestsKnown
  DEF file_upload_metadata, file_upload_metadata_async, list_ranges,
      list_ranges_async, clear_range, clear_range_async, write_range,
      write_range_async, file_start_copy, file_start_copy_async,
      file_start_copy_from_blob_async, file_abort_copy, file_abort_copy_async, Updating
<1>3. Refreshed(file_created(c), body(c))
  BY FileParsers, FileFieldSet DEF file_created, update_acl_attributes_filetime_and_fileid
<1>4. ASSUME \/ file_create_response(c) \/ file_create_if_not_exists_exists(c)
             \/ file_create_if_not_exists_response(c) \/ delete_file_response(c)
             \/ delete_file_if_exists_exists(c) \/ delete_file_if_exists_response(c)
             \/ file_exists_response(c)
      PROVE  FileResponds(c)
  BY <1>3, <1>4, FileHandlers, FileParsers, FileRequestsKnown
  DEF file_create_response, file_create_if_not_exists_exists,
      file_create_if_not_exists_response, delete_file_response,
      delete_file_if_exists_exists, delete_file_if_exists_response,
      file_exists_response, Updating
<1>5. ASSUME \/ file_download_attributes_response(c) \/ file_start_copy_response(c)
             \/ list_ranges_response(c) \/ clear_range_response(c)
             \/ write_range_response(c)
      PROVE  FileResponds(c)
  <2>1. /\ Refreshed(file_attributes(obj, body(c)), body(c))
        /\ Refreshed(update_etag_and_last_modified(obj, body(c)), body(c))
    BY FileParsers
  <2>2. ASSUME NEW o, Refreshed(o, body(c)), NEW op, NEW value, NEW out,
               \/ Answer(c, op, [o EXCEPT !.copy = value], out)
               \/ Answer(c, op, [o EXCEPT !.length = value], out)
               \/ Answer(c, op, [o EXCEPT !.md5 = value], out)
        PROVE  FileResponds(c)
    BY <2>2, FileHandlers, FileFieldSet
  <2> QED
    BY <1>5, <2>1, <2>2
    DEF file_download_attributes_response, file_start_copy_response,
        list_ranges_response, clear_range_response, write_range_response
<1>6. ASSUME file_upload_properties_response(c)
      PROVE  FileResponds(c)
  <2>1. Refreshed(update_etag_and_last_modified(obj, body(c)), body(c))
    BY FileParsers
  <2>2. Refreshed(update_acl_attributes_filetime_and_fileid(
                    update_etag_and_last_modified(obj, body(c)), body(c)), body(c))
    BY <2>1, FileFieldSet DEF update_acl_attributes_filetime_and_fileid
  <2> QED
    BY <1>6, <2>2, FileHandlers DEF file_upload_properties_response
<1>7. ASSUME \/ file_upload_metadata_response(c) \/ file_resize_response(c)
             \/ file_abort_copy_response(c)
      PROVE  FileResponds(c)
  BY <1>7, FileHandlers, FileParsers
  DEF file_upload_metadata_response, file_resize_response, file_abort_copy_response,
      Updating
<1> QED
  BY <1>1, <1>2, <1>4, <1>5, <1>6, <1>7 DEF FileCalls, FileCopyCalls, FileStep

(* The request of resize is never refused by its builder.                  *)
LEMMA ResizeRequest ==
  ASSUME NEW o, NEW condition
  PROVE  LET request == resize_with_properties(o, condition)
         IN ~Thrown(request) /\ FileRequest(request)
<1>1. ASSUME NEW q, ~Thrown(q), "method" \in DOMAIN q
      PROVE  /\ \A h, value : LET a == add_header(q, h, value)
                              IN ~Thrown(a) /\ "method" \in DOMAIN a
             /\ \A values : LET a == add_optional_headers(q, values)
                            IN ~Thrown(a) /\ "method" \in DOMAIN a
  BY <1>1, OneHeader, OptionalHeaders DEF Has
<1>2. LET q == base_request("PUT", "properties") IN ~Thrown(q) /\ "method" \in DOMAIN q
  BY DEF base_request, Thrown
<1>3. LET q == add_file_properties(base_request("PUT", "properties"), o)
      IN ~Thrown(q) /\ "method" \in DOMAIN q
  BY <1>1, <1>2 DEF add_file_properties
<1>4. LET q == add_additional_properties(
                 add_file_properties(base_request("PUT", "properties"), o),
                 o.attributes, "update")
      IN ~Thrown(q) /\ "method" \in DOMAIN q
  BY <1>1, <1>3 DEF add_additional_properties
<1>5. LET q == set_file_properties(o, condition)
      IN ~Thrown(q) /\ "method" \in DOMAIN q
  BY <1>1, <1>4 DEF set_file_properties, add_file_access_condition, add_lease_id,
                    add_optional_header
<1>6. ~Thrown(resize_with_properties(o, condition))
  BY <1>1, <1>5 DEF resize_with_properties
<1> QED
  BY <1>6, FileRequestsKnown DEF Changing

(* resize caches the new length before it sends it.                        *)
LEMMA FileResizes ==
  ASSUME FileCalm, NEW c \in Callers, calm', file_resize(c)
  PROVE  FileCalm'
<1>1. PICK condition \in FileConditions : file_resize_async(c, 3, condition)
  BY DEF file_resize
<1> DEFINE resized == [obj EXCEPT !.length = 3]
           request == resize_with_properties(resized, condition)
           cmd == command("resize", request, PrimaryOnly, {}, 3, condition)
           r == [cmd EXCEPT !.st = "sent", !.seen = {svc.there}]
<1>2. FileRequest(request)
  BY ResizeRequest
<1> HIDE DEF request
<1>3. DOMAIN cmd = CallFields /\ cmd.op = "resize" /\ cmd.req = request
  BY DEF command, Idle, CallFields
<1>4. /\ calm' = (calm /\ Quiet) /\ obj' = resized /\ svc' = svc
      /\ call' = [call EXCEPT ![c] = r]
  BY <1>1 DEF file_resize_async, request
<1> HIDE DEF cmd
<1>5. DOMAIN r = CallFields /\ r.op = "resize" /\ r.req = request /\ r.st = "sent"
  BY <1>3 DEF CallFields
<1> HIDE DEF r
<1>6. /\ DOMAIN call' = Callers /\ call'[c] = r
      /\ \A d \in Callers \ {c} : call'[d] = call[d]
  BY <1>4 DEF FileCalm, CallsTyped
<1>7. CallsTyped'
  BY <1>5, <1>6 DEF FileCalm, CallsTyped
<1>8. FileCommand(call'[c].op, call'[c].req) /\ call'[c].st = "sent"
  BY <1>2, <1>5, <1>6 DEF FileCommand, Updating
<1>9. "etag" \in DOMAIN obj' /\ obj'.etag = obj.etag
  BY <1>4 DEF FileCalm
<1> QED
  BY <1>4, <1>6, <1>7, <1>8, <1>9, FileStarts

(* The steps of shares, directories and files, among those of all.         *)
LEMMA FileNext ==
  ASSUME kind \in HandleKinds, Next
  PROVE  \/ ForeignFile
         \/ \E c \in Callers :
              \/ ShareCalls(c) \/ DirectoryCalls(c) \/ FileCalls(c) \/ FileCopyCalls(c)
              \/ Serve(c, FileService(call[c].req, located(c)))
              \/ Resend(c) \/ GiveUp(c) \/ Refused(c)
<1>1. ASSUME NEW c \in Callers, ServeCall(c)
      PROVE  Serve(c, FileService(call[c].req, located(c)))
  BY <1>1 DEF ServeCall, ClientKinds, HandleKinds
<1>2. ForeignStep => ForeignFile
  BY DEF ForeignStep, ForeignNames, ClientKinds, HandleKinds
<1> QED
  BY <1>1, <1>2
  DEF Next, FileLeaseCalls, QueueCalls, MessageCalls, TableCalls, EntityCalls,
      ClientCalls, ClientKinds, ListingCalls, HandleKinds

(* The objects an application begins with: nothing is cached of them yet,  *)
(* or what the service has.                                                *)
LEMMA FileBeginning == Init => FileInv
<1> SUFFICES ASSUME Init, kind \in HandleKinds PROVE FileCalm
  BY DEF FileInv
<1>1. FileInit
  BY DEF Init, QueueInit, TableInit, ClientInit, ListingInit, CommandInit, ClientKinds,
         HandleKinds
<1>2. /\ call = [c \in Callers |-> Idle]
      /\ obj \in {cloud_file_share, cloud_file_directory, cloud_file,
                  file_attributes(cloud_file, StoredFile)}
      /\ svc \in {StoredFile, Absent(StoredFile)} \cup Leased(StoredFile)
  BY <1>1 DEF FileInit, CommandInit
<1>3. CallsTyped /\ \A c \in Callers : call[c].st = "idle"
  BY <1>2 DEF CallsTyped, Idle, CallFields
<1>4. {"there", "etag"} \subseteq DOMAIN svc /\ svc.etag = 1
  BY <1>2 DEF StoredFile, Absent, Leased
<1>5. "etag" \in DOMAIN obj /\ obj.etag \in {Empty, 1}
  <2>1. "etag" \in DOMAIN cloud_file /\ cloud_file.etag = Empty
    BY DEF cloud_file, cloud_file_properties, Over
  <2>2. Refreshed(file_attributes(cloud_file, StoredFile), StoredFile)
    BY <2>1, FileParsers
  <2> QED
    BY <1>2, <2>1, <2>2 DEF cloud_file_share, cloud_file_directory, Refreshed, StoredFile
<1>6. \A c \in Callers : ~Active(c) /\ call[c].st # "answered"
  BY <1>3 DEF Active
<1> QED
  BY <1>3, <1>4, <1>5, <1>6 DEF FileCalm, Alone, CurrentEtag

(* The invariant of shares, directories and files is kept.                 *)
LEMMA FileKept == FileInv /\ [Next]_cvars => FileInv'
<1> SUFFICES ASSUME FileInv, [Next]_cvars, kind \in HandleKinds, calm' PROVE FileCalm'
  BY KindKept DEF FileInv
<1>1. CASE UNCHANGED cvars
  <2>1. FileCalm
    BY <1>1 DEF FileInv, cvars
  <2> QED
    BY <1>1, <2>1 DEF cvars, FileCalm, CallsTyped, Alone, Active, CurrentEtag, body
<1>2. CASE Next
  <2>1. ASSUME NEW c \in Callers, ShareCalls(c) \/ DirectoryCalls(c) \/ FileCalls(c) \/ FileCopyCalls(c)
        PROVE  FileCalm'
    <3>1. ASSUME FileCalm
          PROVE  FileStep(c) \/ FileCalm'
      BY <2>1, <3>1, ShareSteps, DirectorySteps, FileSteps, FileResizes DEF FileCalm
    <3>2. calm
      BY <2>1, KindShareCalls, KindDirectoryCalls, KindFileCalls, KindFileCopyCalls
      DEF KindAndCalm
    <3>3. FileCalm
      BY <3>2 DEF FileInv
    <3>4. CASE /\ UNCHANGED <<svc, call, calm>>
               /\ "etag" \in DOMAIN obj' /\ obj'.etag = obj.etag
      BY <3>3, <3>4 DEF FileCalm, CallsTyped, Alone, Active, CurrentEtag, body
    <3> QED
      BY <3>1, <3>3, <3>4, FileBeginsStep, FileRespondsStep DEF FileStep
  <2>2. ASSUME NEW c \in Callers,
               Serve(c, FileService(call[c].req, located(c))) \/ Refused(c)
        PROVE  FileCalm'
    <3>1. calm
      BY <2>2 DEF Serve, Refused
    <3> QED
      BY <2>2, <3>1, ServeFile, RefusedFile DEF FileInv
  <2>3. ASSUME NEW c \in Callers, Resend(c) \/ GiveUp(c)
        PROVE  FALSE
    BY <2>3 DEF Resend, GiveUp
  <2>4. ~ForeignFile
    BY DEF ForeignFile, Foreign
  <2> QED
    BY <1>2, <2>1, <2>2, <2>3, <2>4, FileNext
<1> QED
  BY <1>1, <1>2

-----------------------------------------------------------------------------
(* Messages.  The pop receipt that is held of a message is the one it has. *)

IsMessage(m) == {"id", "receipt"} \subseteq DOMAIN m

CurrentReceipt(m, s) ==
  m.receipt # Empty /\ m.id \in Stored(s) => m.receipt = s.receipts[m.id]

IsQueue(s) ==
  /\ {"there", "etag", "receipts", "hidden"} \subseteq DOMAIN s
  /\ DOMAIN s.receipts = Ids

Peeking == {"peek_message", "peek_messages"}

Taking == {"get_message", "get_messages"}

(* The requests on messages, of an application that holds m.               *)
MessageCommand(op, r, m) ==
  /\ {"method", "comp"} \subseteq DOMAIN r
  /\ \/ op \in Peeking /\ r.method = "GET" /\ r.comp = "peek"
     \/ op \in Taking /\ r.method = "GET" /\ r.comp = "dequeue"
     \/ op = "add_message" /\ r.method = "POST" /\ r.comp = "messages"
     \/ op \in {"delete_message", "clear"} /\ r.method = "DEL" /\ r.comp = "messages"
     \/ /\ op = "update_message" /\ r.method = "PUT" /\ r.comp = "messages"
        /\ Has(r, "id") /\ r["id"] = m.id

(* An answer whose handler leaves a current receipt in the application's   *)
(* hands.                                                                  *)
Prepared(op, m, a) ==
  /\ op \in Peeking \cup Taking \cup {"add_message"} =>
       \A i \in a.items : IsMessage(i) /\ CurrentReceipt(i, a.state)
  /\ op = "add_message" /\ a.items = {} => CurrentReceipt(m, a.state)
  /\ op = "update_message" =>
       \A i \in a.items : CurrentReceipt([m EXCEPT !.receipt = i.receipt], a.state)
  /\ op \in {"delete_message", "clear"} => CurrentReceipt(m, a.state)

(* The messages of an answer have the receipts of the queue, or none.      *)
LEMMA MessagesAnswered ==
  ASSUME NEW s, NEW found, NEW peeked \in BOOLEAN
  PROVE  LET a == Messages(s, found, peeked)
         IN /\ a.code = OK /\ a.state = s
            /\ a.items = {} => found = {}
            /\ \A i \in a.items : /\ IsMessage(i) /\ CurrentReceipt(i, s)
                                  /\ i.id \in found
                                  /\ ~peeked => i.receipt = s.receipts[i.id]
<1> DEFINE a == Messages(s, found, peeked)
           item(id) == [id |-> id, receipt |-> IF peeked THEN Empty ELSE s.receipts[id]]
<1>1. a.code = OK /\ a.state = s /\ a.items = {item(id) : id \in found}
  BY DEF Messages
<1>2. ASSUME NEW id \in found
      PROVE  /\ IsMessage(item(id)) /\ CurrentReceipt(item(id), s) /\ item(id).id = id
             /\ ~peeked => item(id).receipt = s.receipts[id]
  BY <1>2 DEF IsMessage, CurrentReceipt
<1> HIDE DEF a, item
<1> QED
  BY <1>1, <1>2 DEF a

(* Changing and deleting messages.                                         *)
LEMMA MessagesChanged ==
  ASSUME NEW s, IsQueue(s), NEW ids
  PROVE  /\ \A hide : LET t == Touch(s, ids, hide)
                      IN IsQueue(t) /\ \A id \in Ids \ ids : t.receipts[id] = s.receipts[id]
         /\ LET t == Drop(s, ids)
            IN /\ IsQueue(t) /\ Stored(t) \subseteq Stored(s)
               /\ \A id \in Stored(t) : t.receipts[id] = s.receipts[id]
<1>1. ASSUME NEW hide
      PROVE  LET t == Touch(s, ids, hide)
             IN IsQueue(t) /\ \A id \in Ids \ ids : t.receipts[id] = s.receipts[id]
  <2> DEFINE t == Touch(s, ids, hide)
  <2>1. DOMAIN t = DOMAIN s
    BY DEF Touch, NewVersion
  <2>2. t.receipts = [id \in Ids |-> IF id \in ids THEN s.etag + 1 ELSE s.receipts[id]]
    BY DEF Touch, NewVersion, IsQueue
  <2> HIDE DEF t
  <2> QED
    BY <2>1, <2>2 DEF IsQueue, t
<1>2. LET t == Drop(s, ids)
      IN /\ IsQueue(t) /\ Stored(t) \subseteq Stored(s)
         /\ \A id \in Stored(t) : t.receipts[id] = s.receipts[id]
  <2> DEFINE t == Drop(s, ids)
  <2>1. DOMAIN t = DOMAIN s
    BY DEF Drop, NewVersion
  <2>2. t.receipts = [id \in Ids |-> IF id \in ids THEN Empty ELSE s.receipts[id]]
    BY DEF Drop, NewVersion, IsQueue
  <2> HIDE DEF t
  <2> QED
    BY <2>1, <2>2 DEF IsQueue, Stored, t
<1> QED
  BY <1>1, <1>2

(* What the queue service does with a request on messages.                 *)
LEMMA MessageServed ==
  ASSUME NEW op, NEW r, NEW m, NEW s, IsQueue(s), IsMessage(m), MessageCommand(op, r, m),
         CurrentReceipt(m, s)
  PROVE  LET a == QueueService(r, s)
         IN /\ IsQueue(a.state)
            /\ Reads(r) \/ ~Success(a.code) => a.state = s
            /\ Success(a.code) => Prepared(op, m, a)
<1> DEFINE a == QueueService(r, s)
<1>1. \A code, t : Reply(code, t).code = code /\ Reply(code, t).state = t
  BY DEF Reply
<1>2. Success(OK) /\ ~Success(NotFound) /\ ~Success(BadRequest)
  BY DEF Success, OK, NotFound, BadRequest
<1>3. ASSUME NEW b, NEW t, NEW found,
             b = Messages(t, found, TRUE) \/ b = Messages(t, found, FALSE)
      PROVE  /\ b.code = OK /\ b.state = t
             /\ b.items = {} => found = {}
             /\ \A i \in b.items : IsMessage(i) /\ CurrentReceipt(i, b.state) /\ i.id \in found
             /\ b = Messages(t, found, FALSE) =>
                  \A i \in b.items : i.receipt = t.receipts[i.id]
  <2>1. ASSUME NEW peeked \in BOOLEAN, b = Messages(t, found, peeked)
        PROVE  /\ b.code = OK /\ b.state = t
               /\ b.items = {} => found = {}
               /\ \A i \in b.items : IsMessage(i) /\ CurrentReceipt(i, b.state) /\ i.id \in found
               /\ ~peeked => \A i \in b.items : i.receipt = t.receipts[i.id]
    BY <2>1, MessagesAnswered
  <2>2. CASE b = Messages(t, found, TRUE) /\ b # Messages(t, found, FALSE)
    BY <2>1, <2>2
  <2>3. CASE b = Messages(t, found, FALSE)
    BY <2>1, <2>3
  <2> QED
    BY <1>3, <2>2, <2>3
<1>4. a = Reply(NotFound, s) \/ a = MessageService(r, s)
  BY DEF QueueService, MessageCommand
<1>5. CASE a = Reply(NotFound, s)
  BY <1>1, <1>2, <1>5
<1>6. CASE a = MessageService(r, s) /\ op \in Peeking
  <2>1. r.comp = "peek"
    BY <1>6 DEF MessageCommand, Peeking, Taking
  <2>2. PICK found : a = Messages(s, found, TRUE)
    BY <1>6, <2>1 DEF MessageService
  <2> HIDE DEF a
  <2>3. a.code = OK /\ a.state = s
        /\ \A i \in a.items : IsMessage(i) /\ CurrentReceipt(i, a.state)
    BY <1>3, <2>2
  <2> QED
    BY <1>2, <1>6, <2>3 DEF Prepared, Peeking, a
<1>7. CASE a = MessageService(r, s) /\ op \in Taking
  <2>1. r.comp = "dequeue" /\ ~Reads(r)
    BY <1>7 DEF MessageCommand, Peeking, Taking, Reads
  <2> DEFINE found == FirstVisible(s, r["count"])
             after == Touch(s, found, TRUE)
  <2>2. a = Messages(after, found, FALSE)
    BY <1>7, <2>1 DEF MessageService
  <2>3. IsQueue(after)
    BY MessagesChanged
  <2> HIDE DEF a, found, after
  <2>4. a.code = OK /\ a.state = after
        /\ \A i \in a.items : IsMessage(i) /\ CurrentReceipt(i, a.state)
    BY <1>3, <2>2
  <2> QED
    BY <1>2, <1>7, <2>1, <2>3, <2>4 DEF Prepared, Taking, a
<1>8. CASE a = MessageService(r, s) /\ op = "add_message"
  <2>1. r.comp = "messages" /\ r.method = "POST" /\ ~Reads(r)
    BY <1>8 DEF MessageCommand, Peeking, Taking, Reads
  <2> DEFINE id == Min(Ids \ Stored(s))
             after == Touch(s, {id}, Has(r, "visibility"))
  <2>2. a = Messages(s, {}, FALSE) \/ a = Messages(after, {id}, FALSE)
    BY <1>8, <2>1 DEF MessageService
  <2>3. IsQueue(after)
    BY MessagesChanged
  <2> HIDE DEF a, id, after
  <2>4. CASE a = Messages(s, {}, FALSE)
    <3>1. a.code = OK /\ a.state = s /\ \A i \in a.items : i.id \in {}
      BY <1>3, <2>4
    <3> QED
      BY <1>2, <1>8, <3>1 DEF Prepared, Peeking, Taking, a
  <2>5. CASE a = Messages(after, {id}, FALSE)
    <3>1. /\ a.code = OK /\ a.state = after /\ a.items # {}
          /\ \A i \in a.items : IsMessage(i) /\ CurrentReceipt(i, a.state)
      BY <1>3, <2>5
    <3> QED
      BY <1>2, <1>8, <2>1, <2>3, <3>1 DEF Prepared, Peeking, Taking, a
  <2> QED
    BY <2>2, <2>4, <2>5
<1>9. CASE a = MessageService(r, s) /\ op = "update_message"
  <2>1. r.comp = "messages" /\ r.method = "PUT" /\ ~Reads(r) /\ Has(r, "id") /\ r["id"] = m.id
    BY <1>9 DEF MessageCommand, Peeking, Taking, Reads
  <2> DEFINE id == {m.id}
             after == Touch(s, id, r["visibility"] # Empty)
  <2>2. \/ a = Reply(NotFound, s) \/ a = Reply(BadRequest, s)
        \/ a = Messages(after, id, FALSE)
    BY <1>9, <2>1 DEF MessageService, OneMessage
  <2>3. IsQueue(after)
    BY MessagesChanged
  <2> HIDE DEF a, id, after
  <2>4. CASE a = Messages(after, id, FALSE)
    <3>1. /\ a.code = OK /\ a.state = after
          /\ \A i \in a.items : i.id \in id
          /\ \A i \in a.items : i.receipt = after.receipts[i.id]
      BY <1>3, <2>4
    <3>2. ASSUME NEW i \in a.items
          PROVE  CurrentReceipt([m EXCEPT !.receipt = i.receipt], after)
      BY <3>1, <3>2 DEF CurrentReceipt, IsMessage, id
    <3> QED
      BY <1>2, <1>9, <2>1, <2>3, <3>1, <3>2 DEF Prepared, Peeking, Taking, a
  <2> QED
    BY <1>1, <1>2, <2>2, <2>4 DEF a
<1>10. CASE a = MessageService(r, s) /\ op \in {"delete_message", "clear"}
  <2>1. r.comp = "messages" /\ r.method = "DEL" /\ ~Reads(r)
    BY <1>10 DEF MessageCommand, Peeking, Taking, Reads
  <2>2. \/ a = Reply(NotFound, s) \/ a = Reply(BadRequest, s)
        \/ \E dropped : a = Reply(OK, Drop(s, dropped))
    BY <1>10, <2>1 DEF MessageService, OneMessage
  <2> HIDE DEF a
  <2>3. ASSUME NEW dropped, a = Reply(OK, Drop(s, dropped))
        PROVE  a.code = OK /\ IsQueue(a.state) /\ CurrentReceipt(m, a.state)
    BY <1>1, <2>3, MessagesChanged DEF CurrentReceipt
  <2> QED
    BY <1>1, <1>2, <1>10, <2>1, <2>2, <2>3 DEF Prepared, Peeking, Taking, a
<1> QED
  BY <1>4, <1>5, <1>6, <1>7, <1>8, <1>9, <1>10 DEF MessageCommand

(* While the calls run one at a time: the receipt that is held is current, *)
(* or the answer that is there has what the application will hold.         *)
MessageCalm ==
  /\ CallsTyped /\ Alone /\ IsQueue(svc)
  /\ "message" \in DOMAIN obj /\ IsMessage(obj.message)
  /\ \A c \in Callers : Active(c) =>
       /\ call[c].accepts = {}
       /\ MessageCommand(call[c].op, call[c].req, obj.message)
  /\ (\A c \in Callers : call[c].st # "answered") => CurrentReceipt(obj.message, svc)
  /\ \A c \in Callers : call[c].st = "answered" =>
       /\ body(c) = svc
       /\ Success(call[c].resp.code) => Prepared(call[c].op, obj.message, call[c].resp)
       /\ ~Success(call[c].resp.code) => CurrentReceipt(obj.message, svc)

MessageInv == kind = "message" /\ calm => MessageCalm

(* Send.                                                                   *)
LEMMA MessageStarts ==
  ASSUME MessageCalm, NEW c \in Callers, calm', NEW op, NEW req, NEW cond,
         Send(c, op, req, cond), Thrown(req) \/ MessageCommand(op, req, obj.message)
  PROVE  MessageCalm'
<1> DEFINE cmd == command(op, req, PrimaryOnly, {}, Empty, cond)
<1>1. DOMAIN cmd = CallFields /\ cmd.op = op /\ cmd.req = req /\ cmd.accepts = {}
  BY DEF command, Idle, CallFields
<1>2. execute_async(c, cmd)
  BY DEF Send
<1> HIDE DEF cmd
<1>3. CallsTyped
  BY DEF MessageCalm
<1>4. /\ CallsTyped' /\ \A d \in Callers \ {c} : call'[d] = call[d]
      /\ Thrown(cmd.req) => call'[c] = Done(cmd, Threw)
      /\ ~Thrown(cmd.req) => /\ Agree(call'[c], cmd, {"st", "at", "seen"})
                             /\ call'[c].st = "sent"
      /\ UNCHANGED <<kind, obj, svc, sec>>
  BY <1>1, <1>2, <1>3, ExecuteCalls
<1>5. \/ call'[c].st = "returned"
      \/ /\ call'[c].st = "sent" /\ call'[c].accepts = {}
         /\ MessageCommand(call'[c].op, call'[c].req, obj.message)
  BY <1>1, <1>4, DoneFields DEF Agree, CallFields
<1>6. calm' = (calm /\ Quiet)
  BY <1>2 DEF execute_async
<1>7. \A d \in Callers : ~Active(d) /\ call[d].st # "answered"
  BY <1>6 DEF Quiet, Active
<1>8. CurrentReceipt(obj.message, svc)
  BY <1>7 DEF MessageCalm
<1>9. \A d \in Callers : call'[d].st # "answered" /\ (Active(d)' => d = c)
  BY <1>4, <1>5, <1>7 DEF Active
<1>10. Alone'
  BY <1>9 DEF Alone
<1>11. \A d \in Callers : Active(d)' =>
         /\ call'[d].accepts = {}
         /\ MessageCommand(call'[d].op, call'[d].req, obj.message)
  BY <1>5, <1>9 DEF Active
<1> QED
  BY <1>4, <1>8, <1>9, <1>10, <1>11 DEF MessageCalm

(* A call returns.                                                         *)
LEMMA MessageReturns ==
  ASSUME MessageCalm, NEW c \in Callers, NEW out, Returns(c, out),
         "message" \in DOMAIN obj', IsMessage(obj'.message), CurrentReceipt(obj'.message, svc)
  PROVE  MessageCalm'
<1>1. CallsTyped /\ Alone
  BY DEF MessageCalm
<1>2. /\ CallsTyped' /\ \A d \in Callers \ {c} : call'[d] = call[d]
      /\ call'[c].st = "returned" /\ svc' = svc /\ Active(c)
  BY <1>1, ReturnCalls, DoneFields
<1>3. \A d \in Callers : ~Active(d)' /\ call'[d].st # "answered"
  BY <1>1, <1>2 DEF Alone, Active
<1> QED
  BY <1>2, <1>3 DEF MessageCalm, Alone

(* The requests on messages.                                               *)
LEMMA MessageRequests ==
  ASSUME NEW m
  PROVE  /\ \A ttl, timeout : MessageCommand("add_message", add_message(ttl, timeout), m)
         /\ \A op \in Taking : \A count, timeout :
              MessageCommand(op, get_messages(count, timeout, FALSE), m)
         /\ \A op \in Peeking : \A count, timeout :
              MessageCommand(op, get_messages(count, timeout, TRUE), m)
         /\ MessageCommand("delete_message", delete_message(m), m)
         /\ MessageCommand("clear", clear_messages, m)
         /\ m.id # Empty =>
              \A timeout : MessageCommand("update_message", update_message(m, timeout), m)
<1>1. ASSUME NEW method, NEW comp, method # "throw"
      PROVE  LET r == base_request(method, comp)
             IN ~Thrown(r) /\ IsRequest(r, method, comp) /\ ~Has(r, "id")
  BY <1>1 DEF base_request, Thrown, IsRequest, Has
<1>2. ASSUME NEW r, NEW method, NEW comp, ~Thrown(r), IsRequest(r, method, comp),
             NEW header, NEW value
      PROVE  LET a == add_header(r, header, value)
             IN /\ ~Thrown(a) /\ IsRequest(a, method, comp)
                /\ Has(r, "id") => Has(a, "id") /\ a["id"] = r["id"]
  BY <1>2, OneHeader DEF IsRequest, Has
<1>3. ASSUME NEW r, NEW method, NEW comp, ~Thrown(r), IsRequest(r, method, comp),
             NEW values
      PROVE  LET a == add_optional_headers(r, values)
             IN ~Thrown(a) /\ IsRequest(a, method, comp)
  BY <1>3, OptionalHeaders DEF IsRequest, Has
<1>4. ASSUME NEW op, NEW r, NEW method, NEW comp, IsRequest(r, method, comp),
             \/ op \in Peeking /\ method = "GET" /\ comp = "peek"
             \/ op \in Taking /\ method = "GET" /\ comp = "dequeue"
             \/ op = "add_message" /\ method = "POST" /\ comp = "messages"
             \/ op \in {"delete_message", "clear"} /\ method = "DEL" /\ comp = "messages"
             \/ /\ op = "update_message" /\ method = "PUT" /\ comp = "messages"
                /\ Has(r, "id") /\ r["id"] = m.id
      PROVE  MessageCommand(op, r, m)
  BY <1>4 DEF MessageCommand, IsRequest
<1>5. ASSUME NEW ttl, NEW timeout
      PROVE  MessageCommand("add_message", add_message(ttl, timeout), m)
  <2>1. IsRequest(add_message(ttl, timeout), "POST", "messages")
    BY <1>1, <1>3 DEF add_message
  <2> QED
    BY <1>4, <2>1
<1>6. ASSUME NEW op \in Taking, NEW count, NEW timeout
      PROVE  MessageCommand(op, get_messages(count, timeout, FALSE), m)
  <2>1. LET r == add_header(base_request("GET", "dequeue"), "count", count)
        IN ~Thrown(r) /\ IsRequest(r, "GET", "dequeue")
    BY <1>1, <1>2
  <2>2. IsRequest(get_messages(count, timeout, FALSE), "GET", "dequeue")
    BY <1>3, <2>1 DEF get_messages, add_optional_header
  <2> QED
    BY <1>4, <2>2
<1>7. ASSUME NEW op \in Peeking, NEW count, NEW timeout
      PROVE  MessageCommand(op, get_messages(count, timeout, TRUE), m)
  <2>1. IsRequest(get_messages(count, timeout, TRUE), "GET", "peek")
    BY <1>1, <1>2 DEF get_messages
  <2> QED
    BY <1>4, <2>1
<1>8. ASSUME NEW method \in {"DEL", "PUT"}
      PROVE  LET r == generate_queue_message_uri(method, m.id)
             IN /\ ~Thrown(r) /\ IsRequest(r, method, "messages")
                /\ m.id # Empty => Has(r, "id") /\ r["id"] = m.id
  <2> DEFINE base == base_request(method, "messages")
             values == [h \in {"id"} |-> m.id]
             r == add_optional_headers(base, values)
  <2>1. ~Thrown(base) /\ IsRequest(base, method, "messages") /\ ~Has(base, "id")
    BY <1>1
  <2>2. DOMAIN values = {"id"} /\ values["id"] = m.id
    OBVIOUS
  <2> HIDE DEF base, values
  <2>3. ~Thrown(r) /\ IsRequest(r, method, "messages")
    BY <1>3, <2>1
  <2>4. m.id # Empty => Has(r, "id") /\ r["id"] = m.id
    BY <2>1, <2>2, OptionalHeaders DEF Has
  <2> QED
    BY <2>3, <2>4 DEF generate_queue_message_uri, add_optional_header, base, values
<1>9. MessageCommand("delete_message", delete_message(m), m)
  <2>1. IsRequest(delete_message(m), "DEL", "messages")
    BY <1>2, <1>8 DEF delete_message
  <2> QED
    BY <1>4, <2>1
<1>10. MessageCommand("clear", clear_messages, m)
  BY <1>1, <1>4 DEF clear_messages
<1>11. ASSUME m.id # Empty, NEW timeout
       PROVE  MessageCommand("update_message", update_message(m, timeout), m)
  <2> DEFINE r == generate_queue_message_uri("PUT", m.id)
             q == add_header(r, "receipt", m.receipt)
             u == add_header(q, "visibility", timeout)
  <2>1. /\ ~Thrown(r) /\ IsRequest(r, "PUT", "messages")
        /\ Has(r, "id") /\ r["id"] = m.id
    BY <1>8, <1>11
  <2> HIDE DEF r
  <2>2. /\ ~Thrown(q) /\ IsRequest(q, "PUT", "messages")
        /\ Has(q, "id") /\ q["id"] = m.id
    BY <1>2, <2>1
  <2> HIDE DEF q
  <2>3. IsRequest(u, "PUT", "messages") /\ Has(u, "id") /\ u["id"] = m.id
    BY <1>2, <2>2
  <2> HIDE DEF u
  <2>4. MessageCommand("update_message", u, m)
    BY <1>4, <2>3
  <2> QED
    BY <2>4 DEF update_message, r, q, u
<1> QED
  BY <1>5, <1>6, <1>7, <1>9, <1>10, <1>11

(* The operations on messages.                                             *)
LEMMA MessageSends ==
  ASSUME MessageCalm, NEW c \in Callers, calm',
         \/ queue_add_message(c) \/ queue_get_message(c) \/ queue_get_messages(c)
         \/ queue_peek_message(c) \/ queue_peek_messages(c) \/ queue_update_message(c)
         \/ queue_delete_message(c) \/ queue_clear(c)
  PROVE  MessageCalm'
<1>1. Thrown(invalid_argument)
  BY DEF Thrown, invalid_argument, base_request
<1>2. ASSUME NEW op, NEW req, NEW condition, NEW cond,
             Send(c, op, checked(condition, req), cond),
             condition => MessageCommand(op, req, obj.message)
      PROVE  MessageCalm'
  <2>1. \/ Thrown(checked(condition, req))
        \/ MessageCommand(op, checked(condition, req), obj.message)
    BY <1>1, <1>2 DEF checked
  <2> QED
    BY <1>2, <2>1, MessageStarts
<1>3. CASE queue_add_message(c)
  BY <1>2, <1>3, MessageRequests DEF queue_add_message, queue_add_message_async
<1>4. CASE queue_get_message(c) \/ queue_get_messages(c)
  BY <1>2, <1>4, MessageRequests
  DEF queue_get_message, queue_get_message_async, queue_get_messages,
      queue_get_messages_async, Taking
<1>5. CASE queue_peek_message(c) \/ queue_peek_messages(c)
  BY <1>5, MessageStarts, MessageRequests
  DEF queue_peek_message, queue_peek_message_async, queue_peek_messages,
      queue_peek_messages_async, Peeking
<1>6. CASE queue_update_message(c)
  BY <1>2, <1>6, MessageRequests DEF queue_update_message, queue_update_message_async
<1>7. CASE queue_delete_message(c) \/ queue_clear(c)
  BY <1>7, MessageStarts, MessageRequests
  DEF queue_delete_message, queue_delete_message_async, queue_clear, queue_clear_async
<1> QED
  BY <1>3, <1>4, <1>5, <1>6, <1>7

(* Their handlers.                                                         *)
LEMMA MessageResponds ==
  ASSUME MessageCalm, NEW c \in Callers,
         \/ queue_add_message_response(c) \/ queue_get_message_response(c)
         \/ queue_get_messages_response(c) \/ queue_peek_message_response(c)
         \/ queue_peek_messages_response(c) \/ queue_update_message_response(c)
         \/ queue_delete_message_response(c) \/ queue_clear_response(c)
  PROVE  MessageCalm'
<1> DEFINE a == call[c].resp
<1>1. "message" \in DOMAIN obj /\ IsMessage(obj.message)
  BY DEF MessageCalm
<1>2. ASSUME NEW op, Accepted(c, op)
      PROVE  /\ call[c].st = "answered" /\ Prepared(op, obj.message, a) /\ a.state = svc
  BY <1>2 DEF Accepted, MessageCalm, Active, body
<1>3. ASSUME NEW op, Accepted(c, op), NEW m, IsMessage(m), CurrentReceipt(m, svc), NEW out,
             Return(c, [obj EXCEPT !.message = m], out)
      PROVE  MessageCalm'
  <2>1. Returns(c, out) /\ obj' = [obj EXCEPT !.message = m]
    BY <1>2, <1>3, ReturningSteps
  <2>2. "message" \in DOMAIN obj' /\ obj'.message = m
    BY <1>1, <2>1
  <2> QED
    BY <1>3, <2>1, <2>2, MessageReturns
<1>4. ASSUME NEW op, Accepted(c, op), CurrentReceipt(obj.message, svc), NEW out,
             Return(c, obj, out)
      PROVE  MessageCalm'
  <2>1. Returns(c, out) /\ obj' = obj
    BY <1>2, <1>4, ReturningSteps
  <2> QED
    BY <1>1, <1>4, <2>1, MessageReturns
<1>5. ASSUME NEW op \in Peeking \cup Taking, Take(c, op)
      PROVE  MessageCalm'
  <2>1. CASE messages(c) = {}
    <3>1. IsMessage(cloud_queue_message) /\ CurrentReceipt(cloud_queue_message, svc)
      BY DEF IsMessage, CurrentReceipt, cloud_queue_message
    <3> QED
      BY <1>3, <1>5, <2>1, <3>1 DEF Take, Answer
  <2>2. CASE messages(c) # {}
    <3>1. PICK m \in messages(c) : Answer(c, op, [obj EXCEPT !.message = m], OK)
      BY <1>5, <2>2 DEF Take
    <3>2. Accepted(c, op) /\ Return(c, [obj EXCEPT !.message = m], OK)
      BY <3>1 DEF Answer
    <3>3. IsMessage(m) /\ CurrentReceipt(m, svc)
      BY <1>2, <1>5, <3>1, <3>2 DEF Prepared, messages
    <3> QED
      BY <1>3, <3>2, <3>3
  <2> QED
    BY <2>1, <2>2
<1>6. CASE \/ queue_get_message_response(c) \/ queue_get_messages_response(c)
           \/ queue_peek_message_response(c) \/ queue_peek_messages_response(c)
  BY <1>5, <1>6
  DEF queue_get_message_response, queue_get_messages_response,
      queue_peek_message_response, queue_peek_messages_response, Peeking, Taking
<1>7. CASE queue_add_message_response(c)
  <2>1. Accepted(c, "add_message")
    BY <1>7 DEF queue_add_message_response
  <2>2. Prepared("add_message", obj.message, a) /\ a.state = svc
    BY <1>2, <2>1
  <2>3. CASE messages(c) = {}
    <3>1. CurrentReceipt(obj.message, svc)
      BY <2>2, <2>3 DEF Prepared, messages
    <3> QED
      BY <1>4, <1>7, <2>1, <2>3, <3>1 DEF queue_add_message_response
  <2>4. CASE messages(c) # {}
    <3> DEFINE m == CHOOSE i \in messages(c) : TRUE
    <3>1. m \in messages(c)
      BY <2>4
    <3>2. Return(c, [obj EXCEPT !.message = m], OK)
      BY <1>7, <2>4 DEF queue_add_message_response
    <3> HIDE DEF m
    <3>3. IsMessage(m) /\ CurrentReceipt(m, svc)
      BY <2>2, <3>1 DEF Prepared, messages
    <3> QED
      BY <1>3, <2>1, <3>2, <3>3
  <2> QED
    BY <2>3, <2>4
<1>8. CASE queue_update_message_response(c)
  <2>1. Accepted(c, "update_message")
    BY <1>8 DEF queue_update_message_response
  <2>2. PICK i \in messages(c) : Return(c, [obj EXCEPT !.message.receipt = i.receipt], OK)
    BY <1>8 DEF queue_update_message_response
  <2> DEFINE m == [obj.message EXCEPT !.receipt = i.receipt]
  <2>3. [obj EXCEPT !.message.receipt = i.receipt] = [obj EXCEPT !.message = m]
    OBVIOUS
  <2>4. IsMessage(m)
    BY <1>1 DEF IsMessage
  <2>5. CurrentReceipt(m, svc)
    BY <1>2, <2>1 DEF Prepared, messages
  <2> HIDE DEF m
  <2> QED
    BY <1>3, <2>1, <2>2, <2>3, <2>4, <2>5
<1>9. CASE queue_delete_message_response(c) \/ queue_clear_response(c)
  <2>1. ASSUME NEW op \in {"delete_message", "clear"}, Answer(c, op, obj, OK)
        PROVE  MessageCalm'
    <3>1. Accepted(c, op) /\ Return(c, obj, OK)
      BY <2>1 DEF Answer
    <3>2. CurrentReceipt(obj.message, svc)
      BY <1>2, <2>1, <3>1 DEF Prepared
    <3> QED
      BY <1>4, <3>1, <3>2
  <2> QED
    BY <1>9, <2>1 DEF queue_delete_message_response, queue_clear_response
<1> QED
  BY <1>6, <1>7, <1>8, <1>9

(* The queue service performs a request.                                   *)
LEMMA ServeMessage ==
  ASSUME MessageCalm, NEW c \in Callers, calm',
         Serve(c, QueueService(call[c].req, located(c)))
  PROVE  MessageCalm'
<1> DEFINE answer == QueueService(call[c].req, located(c))
           r == call'[c]
<1>1. calm /\ call[c].at = "primary" /\ CallsTyped /\ Alone
  BY DEF Serve, MessageCalm
<1>2. located(c) = svc
  BY <1>1 DEF located
<1>3. /\ CallsTyped' /\ call[c].st = "sent"
      /\ \A d \in Callers \ {c} : Watched(call'[d], call[d], svc'.there)
      /\ Agree(r, call[c], {"st", "resp", "did", "pre", "seen"})
      /\ r.st = "answered" /\ r.resp = answer
      /\ svc' = IF ~Reads(call[c].req) THEN answer.state ELSE svc
      /\ obj' = obj
  BY <1>1, ServeCalls
<1>4. /\ Active(c) /\ call[c].accepts = {}
      /\ MessageCommand(call[c].op, call[c].req, obj.message)
  BY <1>3 DEF Active, MessageCalm
<1>5. \A d \in Callers \ {c} : ~Active(d)
  BY <1>1, <1>4 DEF Alone
<1>6. CurrentReceipt(obj.message, svc)
  BY <1>3, <1>5 DEF MessageCalm, Active
<1>7. /\ IsQueue(answer.state)
      /\ Reads(call[c].req) \/ ~Success(answer.code) => answer.state = svc
      /\ Success(answer.code) => Prepared(call[c].op, obj.message, answer)
  BY <1>2, <1>4, <1>6, MessageServed DEF MessageCalm
<1> HIDE DEF answer
<1>8. svc' = answer.state
  BY <1>3, <1>7
<1>9. r.op = call[c].op /\ r.req = call[c].req /\ r.accepts = {}
  BY <1>3, <1>4 DEF Agree, CallFields
<1> HIDE DEF r
<1>10. \A d \in Callers \ {c} : ~Active(d)' /\ call'[d].st # "answered"
  BY <1>3, <1>5 DEF Watched, Agree, CallFields, Active
<1>11. Alone'
  BY <1>10 DEF Alone
<1>12. \A d \in Callers : Active(d)' =>
         /\ call'[d].accepts = {}
         /\ MessageCommand(call'[d].op, call'[d].req, obj'.message)
  BY <1>3, <1>4, <1>9, <1>10 DEF r
<1>13. body(c)' = svc'
  BY <1>3, <1>8 DEF body, r
<1>14. /\ Success(r.resp.code) => Prepared(r.op, obj'.message, r.resp)
       /\ ~Success(r.resp.code) => CurrentReceipt(obj'.message, svc')
  BY <1>3, <1>6, <1>7, <1>8, <1>9
<1>15. "message" \in DOMAIN obj' /\ IsMessage(obj'.message) /\ IsQueue(svc')
  BY <1>3, <1>7, <1>8 DEF MessageCalm
<1>16. \A d \in Callers : call'[d].st = "answered" => d = c
  BY <1>10
<1> QED
  BY <1>3, <1>11, <1>12, <1>13, <1>14, <1>15, <1>16 DEF MessageCalm, r

(* A refusal.                                                              *)
LEMMA RefusedMessage ==
  ASSUME MessageCalm, NEW c \in Callers, Refused(c)
  PROVE  MessageCalm'
<1>1. CallsTyped /\ Alone
  BY DEF MessageCalm
<1>2. /\ call[c].st = "answered" /\ ~Success(call[c].resp.code)
      /\ obj' = obj /\ svc' = svc
      /\ \/ Returns(c, call[c].resp.code)
         \/ /\ CallsTyped'
            /\ \A d \in Callers \ {c} : call'[d] = call[d]
            /\ Agree(call'[c], call[c], {"st", "at", "both", "resp"})
            /\ call'[c].st = "sent"
  BY <1>1, RefusedCalls
<1>3. CurrentReceipt(obj.message, svc) /\ Active(c)
  BY <1>2 DEF MessageCalm, Active
<1>4. CASE Returns(c, call[c].resp.code)
  BY <1>2, <1>3, <1>4, MessageReturns DEF MessageCalm
<1>5. CASE ~Returns(c, call[c].resp.code)
  <2>1. \A d \in Callers \ {c} : ~Active(d)
    BY <1>1, <1>3 DEF Alone
  <2>2. \A d \in Callers : call'[d].st # "answered" /\ (Active(d)' => d = c)
    BY <1>2, <1>5, <2>1 DEF Active
  <2>3. Alone'
    BY <2>2 DEF Alone
  <2>4. /\ call'[c].accepts = {}
        /\ MessageCommand(call'[c].op, call'[c].req, obj'.message)
    BY <1>2, <1>3, <1>5 DEF MessageCalm, Agree, CallFields
  <2> QED
    BY <1>2, <1>3, <1>5, <2>2, <2>3, <2>4 DEF MessageCalm
<1> QED
  BY <1>4, <1>5

(* The steps of messages, among those of all the objects.                  *)
LEMMA MessageNext ==
  ASSUME kind = "message", Next
  PROVE  \/ ForeignConsumer
         \/ \E c \in Callers : \/ MessageCalls(c)
                               \/ Serve(c, QueueService(call[c].req, located(c)))
                               \/ Resend(c) \/ GiveUp(c) \/ Refused(c)
<1>1. ASSUME NEW c \in Callers, ServeCall(c)
      PROVE  Serve(c, QueueService(call[c].req, located(c)))
  BY <1>1 DEF ServeCall, ClientKinds
<1>2. ForeignStep => ForeignConsumer
  BY DEF ForeignStep, ForeignNames, ClientKinds
<1> QED
  BY <1>1, <1>2
  DEF Next, ShareCalls, DirectoryCalls, FileCalls, FileCopyCalls, FileLeaseCalls,
      QueueCalls, TableCalls, EntityCalls, ClientCalls, ClientKinds, ListingCalls

(* An application begins with no message in its hands.                     *)
LEMMA MessageBegins == Init => MessageInv
<1> SUFFICES ASSUME Init, kind = "message" PROVE MessageCalm
  BY DEF MessageInv
<1>1. QueueInit
  BY DEF Init, FileInit, TableInit, ClientInit, ListingInit, CommandInit, ClientKinds
<1>2. /\ call = [c \in Callers |-> Idle] /\ obj = cloud_queue
      /\ svc \in {StoredQueue, TwoMessages, OneHidden}
  BY <1>1 DEF QueueInit, CommandInit
<1>3. CallsTyped /\ \A c \in Callers : call[c].st = "idle"
  BY <1>2 DEF CallsTyped, Idle, CallFields
<1>4. IsQueue(svc)
  <2>1. DOMAIN StoredQueue.receipts = Ids /\ IsQueue(StoredQueue)
    BY DEF StoredQueue, IsQueue
  <2>2. /\ DOMAIN TwoMessages = DOMAIN StoredQueue
        /\ TwoMessages.receipts = [id \in Ids |-> 1]
    BY DEF TwoMessages, StoredQueue
  <2>3. /\ DOMAIN OneHidden = DOMAIN StoredQueue
        /\ OneHidden.receipts = [StoredQueue.receipts EXCEPT ![1] = 1]
    BY DEF OneHidden, StoredQueue
  <2> QED
    BY <1>2, <2>1, <2>2, <2>3 DEF IsQueue
<1>5. /\ "message" \in DOMAIN obj /\ IsMessage(obj.message)
      /\ CurrentReceipt(obj.message, svc)
  BY <1>2 DEF cloud_queue, cloud_queue_message, IsMessage, CurrentReceipt
<1>6. \A c \in Callers : ~Active(c) /\ call[c].st # "answered"
  BY <1>3 DEF Active
<1> QED
  BY <1>3, <1>4, <1>5, <1>6 DEF MessageCalm, Alone

(* The invariant of messages is kept by every step.                        *)
LEMMA MessageKept == MessageInv /\ [Next]_cvars => MessageInv'
<1> SUFFICES ASSUME MessageInv, [Next]_cvars, kind = "message", calm' PROVE MessageCalm'
  BY KindKept DEF MessageInv
<1>1. CASE UNCHANGED cvars
  <2>1. MessageCalm
    BY <1>1 DEF MessageInv, cvars
  <2> QED
    BY <1>1, <2>1 DEF cvars, MessageCalm, CallsTyped, Alone, Active, body
<1>2. CASE Next
  <2>1. ASSUME NEW c \in Callers, MessageCalls(c)
        PROVE  MessageCalm'
    <3>1. calm
      BY <2>1, KindMessageCalls DEF KindAndCalm
    <3>2. MessageCalm
      BY <3>1 DEF MessageInv
    <3> QED
      BY <2>1, <3>2, MessageSends, MessageResponds DEF MessageCalls
  <2>2. ASSUME NEW c \in Callers,
               Serve(c, QueueService(call[c].req, located(c))) \/ Refused(c)
        PROVE  MessageCalm'
    <3>1. calm
      BY <2>2 DEF Serve, Refused
    <3> QED
      BY <2>2, <3>1, ServeMessage, RefusedMessage DEF MessageInv
  <2>3. ASSUME NEW c \in Callers, Resend(c) \/ GiveUp(c)
        PROVE  FALSE
    BY <2>3 DEF Resend, GiveUp
  <2>4. ~ForeignConsumer
    BY DEF ForeignConsumer, Foreign
  <2> QED
    BY <1>2, <2>1, <2>2, <2>3, <2>4, MessageNext
<1> QED
  BY <1>1, <1>2

-----------------------------------------------------------------------------
(* When nothing runs, the three invariants say that the etag of a share,   *)
(* directory or file, the pop receipt of a message and the etags of the    *)
(* entities are current.                                                   *)
LEMMA HandlesAtRest == FileInv /\ MessageInv /\ EntityInv => HandlesCurrent
<1> SUFFICES ASSUME FileInv, MessageInv, EntityInv, calm, Quiet
             PROVE  CASE kind \in {"share", "directory", "file", "file_copy"} ->
                           obj.etag \in {Empty, svc.etag}
                      [] kind = "message" ->
                           LET message == obj.message
                           IN message.receipt # Empty /\ message.id \in Stored(svc) =>
                                message.receipt = svc.receipts[message.id]
                      [] kind = "entity" ->
                           \A row \in Rows : obj.etags[row] \in {Empty, svc.rows[row]}
                      [] OTHER -> TRUE
  BY DEF HandlesCurrent
<1>1. \A c \in Callers : call[c].st # "answered"
  BY DEF Quiet, Active
<1>2. CASE kind \in {"share", "directory", "file", "file_copy"}
  <2>1. CurrentEtag
    BY <1>1, <1>2 DEF FileInv, HandleKinds, FileCalm
  <2> QED
    BY <1>2, <2>1 DEF CurrentEtag
<1>3. CASE kind = "message"
  <2>1. CurrentReceipt(obj.message, svc)
    BY <1>1, <1>3 DEF MessageInv, MessageCalm
  <2> QED
    BY <1>3, <2>1 DEF CurrentReceipt
<1>4. CASE kind = "entity"
  <2>1. \A row \in Rows : CurrentRow(row)
    BY <1>1, <1>4 DEF EntityInv, EntityCalm
  <2> QED
    BY <1>4, <2>1 DEF CurrentRow
<1>5. CASE kind \notin {"share", "directory", "file", "file_copy", "message", "entity"}
  BY <1>5
<1> QED
  BY <1>2, <1>3, <1>4, <1>5

(* HandlesCurrent: after calls that ran one at a time and were answered,   *)
(* the next conditional call of the application finds its condition met:   *)
(* every handler of these objects keeps the etag or the receipt of the     *)
(* answer to a request that changed it.                                    *)
THEOREM HandlesStayCurrent == Spec => []HandlesCurrent
<1>1. Init => FileInv /\ MessageInv
  BY FileBeginning, MessageBegins
<1>2. FileInv /\ MessageInv /\ [Next]_cvars => (FileInv /\ MessageInv)'
  BY FileKept, MessageKept
<1> QED
  BY <1>1, <1>2, EntityInvariant, HandlesAtRest, PTL DEF Spec


-----------------------------------------------------------------------------
(* The calls that act if the resource exists, or does not, of shares,      *)
(* directories, files, queues and tables: a question, and then a request   *)
(* to create or to delete.                                                 *)

IfCalls == {"create_if_not_exists", "delete_if_exists"}

IfKinds == {"share", "directory", "file", "queue", "table"}

Question(r) ==
  Reads(r) /\ r.comp \in {"share", "directory", "file", "metadata", "table"}

Creation(r) ==
  \/ r.method = "PUT" /\ r.comp \in {"share", "directory", "file", "queue"}
  \/ r.method = "POST" /\ r.comp = "table"

Deletion(r) ==
  r.method = "DEL" /\ r.comp \in {"share", "directory", "file", "queue", "table"}

(* The requests on these objects.                                          *)
KnownRequest(k, r) ==
  IF k = "queue" THEN r.comp \in {"queue", "metadata", "acl"}
  ELSE IF k = "table" THEN r.comp \in {"table", "acl"}
  ELSE FileRequest(r)

Existing(s) == {"there", "etag"} \subseteq DOMAIN s /\ s.there \in BOOLEAN

IfService(k, r, s) ==
  IF k = "queue" THEN QueueService(r, s)
  ELSE IF k = "table" THEN TableService(r, s)
  ELSE FileService(r, s)

(* What an answer tells of the resource, before and after.                 *)
IfAnswer(k, r, s, a) ==
  /\ Existing(a.state)
  /\ Question(r) => /\ a.code # NoContent
                    /\ a.code = NotFound => s.there = FALSE
                    /\ Success(a.code) => s.there = TRUE
  /\ Creation(r) => /\ a.code = NoContent => k = "queue"
                    /\ a.code \in {Conflict, NoContent} => a.state.there = TRUE
                    /\ Success(a.code) /\ a.code # NoContent /\ r.comp # "file"
                         => s.there = FALSE
  /\ Deletion(r) => /\ a.code # NoContent
                    /\ a.code = NotFound => a.state.there = FALSE

(* The codes that are compared.                                            *)
LEMMA IfCodes ==
  /\ Success(OK) /\ Success(NoContent)
  /\ ~Success(NotFound) /\ ~Success(Conflict) /\ ~Success(PreconditionFailed)
  /\ OK \notin {NoContent, NotFound, Conflict, PreconditionFailed}
  /\ NoContent \notin {NotFound, Conflict, PreconditionFailed}
  /\ NotFound \notin {Conflict, PreconditionFailed} /\ Conflict # PreconditionFailed
  BY DEF Success, OK, NoContent, NotFound, Conflict, PreconditionFailed

(* The queue service's answers.                                            *)
LEMMA IfQueue ==
  ASSUME NEW r, NEW s, KnownRequest("queue", r), Existing(s)
  PROVE  IfAnswer("queue", r, s, QueueService(r, s))
<1> DEFINE a == QueueService(r, s)
           made == [StoredQueue EXCEPT !.etag = s.etag + 1, !.meta = Empty]
           gone == [Drop(s, Stored(s)) EXCEPT !.there = FALSE]
           given == [NewVersion(s) EXCEPT !.meta = Get(r, "metadata")]
           ruled == [s EXCEPT !.policies = r["policies"]]
<1>1. \A code, t : Reply(code, t).code = code /\ Reply(code, t).state = t
  BY DEF Reply
<1>2. r.comp \in {"queue", "metadata", "acl"}
  BY DEF KnownRequest
<1>3. /\ Existing(made) /\ made.there = TRUE
      /\ Existing(gone) /\ Existing(given) /\ Existing(ruled)
  BY DEF Existing, StoredQueue, Drop, NewVersion
<1> HIDE DEF made, gone, given, ruled
<1>4. CASE r.method = "PUT" /\ r.comp = "queue"
  <2>1. ~Question(r) /\ ~Deletion(r)
    BY <1>4 DEF Question, Deletion, Reads
  <2>2. CASE ~s.there
    <3>1. a = Reply(OK, made) /\ s.there = FALSE
      BY <1>4, <2>2 DEF QueueService, MakeQueue, made, Existing
    <3> QED
      BY <1>1, <1>3, <2>1, <3>1, IfCodes DEF IfAnswer
  <2>3. CASE s.there
    <3>1. s.there = TRUE /\ a.state = s /\ a.code \in {NoContent, Conflict}
      BY <1>1, <1>4, <2>3 DEF QueueService, MakeQueue, Existing
    <3> QED
      BY <2>1, <3>1, IfCodes DEF IfAnswer
  <2> QED
    BY <2>2, <2>3
<1>5. CASE ~(r.method = "PUT" /\ r.comp = "queue")
  <2>1. ~Creation(r)
    BY <1>2, <1>5 DEF Creation
  <2>2. CASE ~s.there
    <3>1. a = Reply(NotFound, s) /\ s.there = FALSE
      BY <1>5, <2>2 DEF QueueService, Existing
    <3> QED
      BY <1>1, <2>1, <3>1, IfCodes DEF IfAnswer
  <2>3. CASE s.there
    <3>1. a \in {Reply(OK, gone), Reply(OK, s), Reply(OK, given), Reply(OK, ruled)}
      BY <1>2, <1>5, <2>3 DEF QueueService, gone, given, ruled
    <3>2. a.code = OK /\ Existing(a.state)
      BY <1>1, <1>3, <3>1
    <3>3. s.there = TRUE
      BY <2>3 DEF Existing
    <3> QED
      BY <2>1, <3>2, <3>3, IfCodes DEF IfAnswer
  <2> QED
    BY <2>2, <2>3
<1> QED
  BY <1>4, <1>5

(* The table service's.                                                    *)
LEMMA IfTable ==
  ASSUME NEW r, NEW s, KnownRequest("table", r), Existing(s)
  PROVE  IfAnswer("table", r, s, TableService(r, s))
<1> DEFINE a == TableService(r, s)
           made == [StoredTable EXCEPT !.etag = s.etag + 1, !.rows = NoRows]
           gone == [s EXCEPT !.there = FALSE, !.rows = NoRows]
           ruled == [s EXCEPT !.policies = r["policies"]]
<1>1. \A code, t : Reply(code, t).code = code /\ Reply(code, t).state = t
  BY DEF Reply
<1>2. r.comp \in {"table", "acl"}
  BY DEF KnownRequest
<1>3. Existing(made) /\ Existing(gone) /\ Existing(ruled)
  BY DEF Existing, StoredTable
<1> HIDE DEF made, gone, ruled
<1>4. CASE r.method = "POST" /\ r.comp = "table"
  <2>1. ~Question(r) /\ ~Deletion(r)
    BY <1>4 DEF Question, Deletion, Reads
  <2>2. CASE ~s.there
    <3>1. a = Reply(OK, made) /\ s.there = FALSE
      BY <1>4, <2>2 DEF TableService, made, Existing
    <3> QED
      BY <1>1, <1>3, <2>1, <3>1, IfCodes DEF IfAnswer
  <2>3. CASE s.there
    <3>1. s.there = TRUE /\ a = Reply(Conflict, s)
      BY <1>4, <2>3 DEF TableService, Existing
    <3> QED
      BY <1>1, <2>1, <3>1, IfCodes DEF IfAnswer
  <2> QED
    BY <2>2, <2>3
<1>5. CASE ~(r.method = "POST" /\ r.comp = "table")
  <2>1. ~Creation(r)
    BY <1>2, <1>5 DEF Creation
  <2>2. CASE ~s.there
    <3>1. a = Reply(NotFound, s) /\ s.there = FALSE
      BY <1>5, <2>2 DEF TableService, Existing
    <3> QED
      BY <1>1, <2>1, <3>1, IfCodes DEF IfAnswer
  <2>3. CASE s.there
    <3>1. a \in {Reply(OK, gone), Reply(OK, s), Reply(OK, ruled)}
      BY <1>2, <1>5, <2>3 DEF TableService, gone, ruled
    <3>2. a.code = OK /\ Existing(a.state)
      BY <1>1, <1>3, <3>1
    <3>3. s.there = TRUE
      BY <2>3 DEF Existing
    <3> QED
      BY <2>1, <3>2, <3>3, IfCodes DEF IfAnswer
  <2> QED
    BY <2>2, <2>3
<1> QED
  BY <1>4, <1>5

(* The file service's.                                                     *)
LEMMA IfFile ==
  ASSUME NEW r, NEW s, NEW k, FileRequest(r), Existing(s)
  PROVE  IfAnswer(k, r, s, FileService(r, s))
<1> DEFINE a == FileService(r, s)
           gone == [s EXCEPT !.there = FALSE, !.lease = Empty]
<1>1. \A code, t : Reply(code, t).code = code /\ Reply(code, t).state = t
  BY DEF Reply
<1>2. Existing(a.state)
  BY FileServed DEF Existing
<1>3. ASSUME Question(r)
      PROVE  /\ a.code # NoContent /\ (a.code = NotFound => s.there = FALSE)
             /\ Success(a.code) => s.there = TRUE
  <2>1. r.method # "PUT" /\ Reads(r) /\ r.comp # "lease"
    BY <1>3 DEF Question, Reads
  <2>2. \/ ~s.there /\ a = Reply(NotFound, s)
        \/ s.there /\ a \in {Reply(PreconditionFailed, s), Reply(OK, s)}
    BY <2>1 DEF FileService
  <2> QED
    BY <1>1, <2>2, IfCodes DEF Existing
<1>4. ASSUME Creation(r)
      PROVE  /\ a.code # NoContent
             /\ a.code = Conflict => a.state.there = TRUE
             /\ Success(a.code) /\ r.comp # "file" => s.there = FALSE
  <2>1. r.method = "PUT" /\ r.comp \in {"share", "directory", "file"} /\ ~Reads(r)
    BY <1>4 DEF Creation, FileRequest, Reads
  <2>2. \/ s.there /\ a = Reply(Conflict, s)
        \/ \E t : /\ a \in {Reply(OK, t), Reply(PreconditionFailed, t)}
                  /\ r.comp # "file" => ~s.there
    BY <2>1 DEF FileService
  <2> QED
    BY <1>1, <2>2, IfCodes DEF Existing
<1>5. ASSUME Deletion(r)
      PROVE  a.code # NoContent /\ (a.code = NotFound => a.state.there = FALSE)
  <2>1. r.method = "DEL" /\ r.comp # "lease" /\ ~Reads(r)
    BY <1>5 DEF Deletion, Reads
  <2>2. \/ ~s.there /\ a = Reply(NotFound, s)
        \/ a \in {Reply(PreconditionFailed, s), Reply(OK, gone)}
    BY <2>1 DEF FileService
  <2> HIDE DEF gone
  <2> QED
    BY <1>1, <2>2, IfCodes DEF Existing
<1> HIDE DEF a
<1>6. NoContent # Conflict
  BY IfCodes
<1> QED
  BY <1>2, <1>3, <1>4, <1>5, <1>6 DEF IfAnswer, a


(* What the service of such an object answers.                             *)
LEMMA IfServed ==
  ASSUME NEW k \in IfKinds, NEW r, NEW s, KnownRequest(k, r), Existing(s)
  PROVE  IfAnswer(k, r, s, IfService(k, r, s))
<1>1. CASE k = "queue"
  BY <1>1, IfQueue DEF IfService
<1>2. CASE k = "table"
  BY <1>2, IfTable DEF IfService
<1>3. CASE k \notin {"queue", "table"}
  <2>1. FileRequest(r)
    BY <1>3 DEF KnownRequest
  <2> QED
    BY <1>3, <2>1, IfFile DEF IfService
<1> QED
  BY <1>1, <1>2, <1>3

(* The questions about shares, and before a file is deleted, go to either  *)
(* location; what such a call may believe is what it has seen or what the  *)
(* secondary has, which is s.                                              *)
Either(k, op) == k = "share" \/ (k = "file" /\ op = "delete_if_exists")

Sees(k, s, r, there) == there \in r.seen \/ (Either(k, r.op) /\ s.there = there)

(* All other requests of such a call go to the primary location.           *)
InTwo(k, r) ==
  /\ k \in IfKinds /\ r.step \in {1, 2}
  /\ (r.step = 1 /\ Either(k, r.op)) \/ (r.both = FALSE /\ r.at = "primary")
  /\ r.step = 1 => Question(r.req) /\ r.accepts = {NotFound}
  /\ r.step = 2 => IF r.op = "create_if_not_exists"
                   THEN /\ Creation(r.req) /\ r.accepts \subseteq {Conflict}
                        /\ k # "file" => r.req.comp # "file"
                   ELSE Deletion(r.req) /\ r.accepts \subseteq {NotFound}
  /\ r.op = "create_if_not_exists" /\ k # "file" => r.pre = Empty

(* The answer that it has says what it has seen, and whether it has done   *)
(* something.                                                              *)
Told(k, s, r) ==
  /\ r.step = 1 => /\ r.resp.code = NotFound => Sees(k, s, r, FALSE)
                   /\ Success(r.resp.code) => Sees(k, s, r, TRUE)
  /\ r.step = 2 =>
       /\ r.resp.code = NoContent => k = "queue" /\ r.op = "create_if_not_exists"
       /\ Success(r.resp.code) /\ r.resp.code # NoContent => r.did
       /\ r.op = "create_if_not_exists" /\ r.resp.code \in {Conflict, NoContent}
            => Sees(k, s, r, TRUE)
       /\ r.op = "delete_if_exists" /\ r.resp.code = NotFound => Sees(k, s, r, FALSE)

(* IfExistsHonest, of one call with the result out.                        *)
Truthful(k, s, r, out) ==
  /\ r.op \in IfCalls /\ out = 1 => r.did
  /\ r.op = "create_if_not_exists" /\ k # "file" /\ out = 1 => r.pre = Empty
  /\ r.op = "delete_if_exists" /\ out = 0 => Sees(k, s, r, FALSE)
  /\ r.op = "create_if_not_exists" /\ out = 0 => Sees(k, s, r, TRUE)

IfCall(k, s, r) ==
  /\ r.op \notin {"delete_blob_if_exists", "delete_container_if_exists"}
  /\ r.st \in {"sent", "answered"} => /\ k \in IfKinds => KnownRequest(k, r.req)
                                      /\ r.op \in IfCalls => InTwo(k, r)
  /\ r.st = "answered" /\ r.op \in IfCalls => Told(k, s, r)
  /\ r.st = "returned" => Truthful(k, s, r, r.out)

IfInv ==
  /\ CallsTyped
  /\ kind \in IfKinds => Existing(svc) /\ Existing(sec)
  /\ \A c \in Callers : IfCall(kind, sec, call[c])

(* A command that may be sent.                                             *)
Began(k, cmd) ==
  /\ DOMAIN cmd = CallFields
  /\ cmd.op \notin {"delete_blob_if_exists", "delete_container_if_exists"}
  /\ ~Thrown(cmd.req) => /\ k \in IfKinds => KnownRequest(k, cmd.req)
                         /\ cmd.op \in IfCalls => InTwo(k, cmd)

(* Codes and exceptions are neither true nor false.                        *)
LEMMA Unanswered ==
  ASSUME NEW k, NEW s, NEW r, NEW out, out \notin {0, 1}
  PROVE  Truthful(k, s, r, out)
  BY DEF Truthful

(* A call begins.                                                          *)
LEMMA IfStarts ==
  ASSUME IfInv, NEW c \in Callers, NEW cmd, Began(kind, cmd), execute_async(c, cmd)
  PROVE  IfInv'
<1>1. /\ CallsTyped' /\ \A d \in Callers \ {c} : call'[d] = call[d]
      /\ Thrown(cmd.req) => call'[c] = Done(cmd, Threw)
      /\ ~Thrown(cmd.req) => /\ Agree(call'[c], cmd, {"st", "at", "seen"})
                             /\ call'[c].st = "sent" /\ call'[c].at \in locations(cmd)
      /\ UNCHANGED <<kind, obj, svc, sec>>
  BY ExecuteCalls DEF IfInv, Began
<1>2. IfCall(kind, sec, call'[c])
  <2>1. CASE Thrown(cmd.req)
    <3>1. /\ call'[c].st = "returned" /\ call'[c].op = cmd.op /\ call'[c].out = Threw
      BY <1>1, <2>1, DoneFields
    <3>2. Truthful(kind, sec, call'[c], Threw)
      BY Unanswered DEF Threw
    <3> QED
      BY <3>1, <3>2 DEF IfCall, Began
  <2>2. CASE ~Thrown(cmd.req)
    <3>1. /\ call'[c].st = "sent" /\ call'[c].op = cmd.op /\ call'[c].req = cmd.req
          /\ call'[c].both = cmd.both /\ call'[c].step = cmd.step
          /\ call'[c].accepts = cmd.accepts /\ call'[c].at \in locations(cmd)
          /\ call'[c].pre = cmd.pre
      BY <1>1, <2>2 DEF Agree, CallFields
    <3>2. cmd.op \in IfCalls => InTwo(kind, call'[c])
      BY <2>2, <3>1 DEF Began, InTwo, locations
    <3> QED
      BY <2>2, <3>1, <3>2 DEF IfCall, Began
  <2> QED
    BY <2>1, <2>2
<1> QED
  BY <1>1, <1>2 DEF IfInv

(* A call returns with a true answer, or with a code or an exception.      *)
LEMMA IfReturns ==
  ASSUME IfInv, NEW c \in Callers, NEW out, Returns(c, out), Truthful(kind, sec, call[c], out)
  PROVE  IfInv'
<1>1. /\ CallsTyped' /\ \A d \in Callers \ {c} : call'[d] = call[d]
      /\ call'[c] = Done(call[c], out) /\ UNCHANGED <<kind, svc, sec>>
  BY ReturnCalls DEF IfInv
<1>2. /\ call'[c].st = "returned" /\ call'[c].op = call[c].op /\ call'[c].out = out
      /\ call'[c].did = call[c].did /\ call'[c].seen = call[c].seen
      /\ call'[c].pre = call[c].pre
  BY <1>1, DoneFields
<1>3. Truthful(kind, sec, call'[c], out)
  BY <1>2 DEF Truthful, Sees
<1>4. IfCall(kind, sec, call'[c])
  BY <1>2, <1>3 DEF IfInv, IfCall
<1> QED
  BY <1>1, <1>4 DEF IfInv

(* A call goes on with its second request.                                 *)
LEMMA IfContinues ==
  ASSUME IfInv, NEW c \in Callers, NEW o, NEW req, NEW accepts,
         call[c].st = "answered", Continue(c, o, req, accepts),
         ~Thrown(req) /\ kind \in IfKinds => KnownRequest(kind, req),
         ~Thrown(req) /\ call[c].op = "create_if_not_exists"
           => /\ Creation(req) /\ accepts \subseteq {Conflict}
              /\ kind # "file" => req.comp # "file",
         ~Thrown(req) /\ call[c].op = "delete_if_exists"
           => Deletion(req) /\ accepts \subseteq {NotFound}
  PROVE  IfInv'
<1>1. CASE Thrown(req)
  <2>1. Returns(c, Threw)
    BY <1>1, ContinueCalls DEF IfInv
  <2>2. Truthful(kind, sec, call[c], Threw)
    BY Unanswered DEF Threw
  <2> QED
    BY <2>1, <2>2, IfReturns
<1>2. CASE ~Thrown(req)
  <2>1. /\ CallsTyped' /\ \A d \in Callers \ {c} : call'[d] = call[d]
        /\ Agree(call'[c], call[c], {"st", "step", "req", "both", "accepts", "at", "resp", "did"})
        /\ call'[c].st = "sent" /\ call'[c].step = 2 /\ call'[c].req = req
        /\ call'[c].both = FALSE /\ call'[c].accepts = accepts
        /\ call'[c].at = "primary" /\ UNCHANGED <<kind, svc, sec>>
    BY <1>2, ContinueCalls DEF IfInv
  <2>2. call'[c].op = call[c].op /\ call'[c].pre = call[c].pre
    BY <2>1 DEF Agree, CallFields
  <2>3. call[c].op \in IfCalls =>
          /\ kind \in IfKinds
          /\ call[c].op = "create_if_not_exists" /\ kind # "file" => call[c].pre = Empty
    BY DEF IfInv, IfCall, InTwo
  <2>4. IfCall(kind, sec, call'[c])
    BY <1>2, <2>1, <2>2, <2>3 DEF IfInv, IfCall, InTwo, IfCalls
  <2> QED
    BY <2>1, <2>4 DEF IfInv
<1> QED
  BY <1>1, <1>2


(* A call that runs sees what another step has made of the resource.       *)
LEMMA IfWatched ==
  ASSUME NEW k, NEW s, NEW r, NEW q, NEW there, IfCall(k, s, q), Watched(r, q, there)
  PROVE  IfCall(k, s, r)
<1>1. /\ r.st = q.st /\ r.op = q.op /\ r.req = q.req /\ r.both = q.both /\ r.at = q.at
      /\ r.step = q.step /\ r.accepts = q.accepts /\ r.resp = q.resp /\ r.did = q.did
      /\ r.pre = q.pre /\ r.out = q.out /\ q.seen \subseteq r.seen
  BY DEF Watched, Agree, CallFields
<1>2. InTwo(k, q) => InTwo(k, r)
  BY <1>1 DEF InTwo
<1>3. \A x : Sees(k, s, q, x) => Sees(k, s, r, x)
  BY <1>1 DEF Sees
<1>4. Told(k, s, q) => Told(k, s, r)
  BY <1>1, <1>3 DEF Told
<1>5. Truthful(k, s, q, q.out) => Truthful(k, s, r, r.out)
  BY <1>1, <1>3 DEF Truthful
<1> QED
  BY <1>1, <1>2, <1>4, <1>5 DEF IfCall

(* The service performs a request.                                         *)
LEMMA IfServes ==
  ASSUME IfInv, NEW c \in Callers, NEW answer, Serve(c, answer),
         kind \in IfKinds => answer = IfService(kind, call[c].req, located(c))
  PROVE  IfInv'
<1> DEFINE q == call[c]
           r == call'[c]
           done == Success(answer.code) /\ answer.code # NoContent /\ ~Reads(q.req)
<1>1. /\ CallsTyped' /\ \A d \in Callers \ {c} : Watched(call'[d], call[d], svc'.there)
      /\ q.st = "sent"
      /\ Agree(r, q, {"st", "resp", "did", "pre", "seen"})
      /\ r.st = "answered" /\ r.resp = answer
      /\ r.did = (q.did \/ done)
      /\ r.pre = IF done THEN version(located(c)) ELSE q.pre
      /\ r.seen = q.seen \cup {svc'.there}
      /\ svc' = IF q.at = "primary" /\ ~Reads(q.req) THEN answer.state ELSE svc
      /\ UNCHANGED <<kind, obj, sec>>
  BY ServeCalls DEF IfInv
<1>2. IfCall(kind, sec, q)
  BY DEF IfInv
<1>3. /\ r.op = q.op /\ r.step = q.step /\ r.req = q.req /\ r.both = q.both
      /\ r.accepts = q.accepts /\ r.at = q.at
  BY <1>1 DEF Agree, CallFields
<1>4. ASSUME kind \in IfKinds
      PROVE  IfAnswer(kind, q.req, located(c), answer)
  <2>1. KnownRequest(kind, q.req) /\ Existing(located(c))
    BY <1>1, <1>2, <1>4 DEF IfCall, located, IfInv
  <2> QED
    BY <1>4, <2>1, IfServed
<1>5. kind \in IfKinds => Existing(svc') /\ Existing(sec')
  BY <1>1, <1>4 DEF IfAnswer, IfInv
<1>6. located(c) = IF q.at = "primary" THEN svc ELSE sec
  BY DEF located
<1> DEFINE here == located(c)
<1> HIDE DEF q, r, here
<1>7. q.op \in IfCalls => InTwo(kind, q)
  BY <1>1, <1>2 DEF IfCall
<1>8. ASSUME q.op \in IfCalls PROVE InTwo(kind, r)
  <2>1. InTwo(kind, q) /\ IfAnswer(kind, q.req, here, answer)
    BY <1>4, <1>7, <1>8 DEF InTwo, here
  <2>2. q.op = "create_if_not_exists" /\ kind # "file" => r.pre = Empty
    <3> SUFFICES ASSUME q.op = "create_if_not_exists", kind # "file"
                 PROVE  r.pre = Empty
      OBVIOUS
    <3>1. q.pre = Empty
      BY <2>1 DEF InTwo
    <3>2. CASE done
      <4>1. q.step = 2
        BY <2>1, <3>2 DEF InTwo, Question
      <4>2. Creation(q.req) /\ q.req.comp # "file"
        BY <2>1, <4>1 DEF InTwo
      <4>3. here.there = FALSE
        BY <2>1, <3>2, <4>2 DEF IfAnswer
      <4> QED
        BY <1>1, <3>2, <4>3 DEF version, here
    <3>3. CASE ~done
      BY <1>1, <3>1, <3>3
    <3> QED
      BY <3>2, <3>3
  <2> QED
    BY <1>3, <2>1, <2>2 DEF InTwo
<1>9. ASSUME q.op \in IfCalls PROVE Told(kind, sec, r)
  <2>1. InTwo(kind, q) /\ IfAnswer(kind, q.req, here, answer)
    BY <1>4, <1>7, <1>9 DEF InTwo, here
  <2>2. \A x : x = svc'.there => Sees(kind, sec, r, x)
    BY <1>1 DEF Sees
  <2>3. CASE q.step = 1
    <3>1. Question(q.req) /\ Reads(q.req)
      BY <2>1, <2>3 DEF InTwo, Question
    <3>2. \A x : x = here.there => Sees(kind, sec, r, x)
      <4>1. CASE q.at = "primary"
        BY <1>1, <1>6, <2>2, <3>1, <4>1 DEF here
      <4>2. CASE q.at # "primary"
        <5>1. Either(kind, r.op) /\ here = sec
          BY <1>3, <1>6, <2>1, <4>2 DEF InTwo, here
        <5> QED
          BY <5>1 DEF Sees
      <4> QED
        BY <4>1, <4>2
    <3>3. /\ r.resp.code = NotFound => FALSE = here.there
          /\ Success(r.resp.code) => TRUE = here.there
      BY <1>1, <2>1, <3>1 DEF IfAnswer
    <3>4. /\ r.resp.code = NotFound => Sees(kind, sec, r, FALSE)
          /\ Success(r.resp.code) => Sees(kind, sec, r, TRUE)
      BY <3>2, <3>3
    <3>5. r.step = 1 /\ r.step # 2
      BY <1>3, <2>3
    <3> QED
      BY <3>4, <3>5, Zenon DEF Told
  <2>4. CASE q.step = 2
    <3>1. ~Reads(q.req)
      BY <2>1, <2>4 DEF InTwo, Creation, Deletion, Reads
    <3>2. svc' = answer.state
      BY <1>1, <2>1, <2>4, <3>1 DEF InTwo
    <3>3. Success(r.resp.code) /\ r.resp.code # NoContent => r.did
      BY <1>1, <3>1
    <3>4. CASE q.op = "create_if_not_exists"
      <4>1. Creation(q.req)
        BY <2>1, <2>4, <3>4 DEF InTwo
      <4>2. /\ r.resp.code = NoContent => kind = "queue"
            /\ r.resp.code \in {Conflict, NoContent} => TRUE = svc'.there
        BY <1>1, <2>1, <3>2, <4>1 DEF IfAnswer
      <4>3. r.resp.code \in {Conflict, NoContent} => Sees(kind, sec, r, TRUE)
        BY <2>2, <4>2
      <4>4. r.step # 1 /\ r.op = "create_if_not_exists" /\ r.op # "delete_if_exists"
        BY <1>3, <2>4, <3>4
      <4> QED
        BY <3>3, <4>2, <4>3, <4>4, Zenon DEF Told
    <3>5. CASE q.op = "delete_if_exists"
      <4>1. Deletion(q.req)
        BY <2>1, <2>4, <3>5 DEF InTwo
      <4>2. /\ r.resp.code # NoContent
            /\ r.resp.code = NotFound => FALSE = svc'.there
        BY <1>1, <2>1, <3>2, <4>1 DEF IfAnswer
      <4>3. r.resp.code = NotFound => Sees(kind, sec, r, FALSE)
        BY <2>2, <4>2
      <4>4. r.step # 1 /\ r.op # "create_if_not_exists"
        BY <1>3, <2>4, <3>5
      <4> QED
        BY <3>3, <4>2, <4>3, <4>4, Zenon DEF Told
    <3> QED
      BY <1>9, <3>4, <3>5 DEF IfCalls
  <2> QED
    BY <2>1, <2>3, <2>4 DEF InTwo
<1>10. IfCall(kind, sec, r)
  BY <1>1, <1>2, <1>3, <1>8, <1>9 DEF IfCall
<1>11. ASSUME NEW d \in Callers \ {c} PROVE IfCall(kind, sec, call'[d])
  BY <1>1, IfWatched DEF IfInv
<1> QED
  BY <1>1, <1>5, <1>10, <1>11 DEF IfInv, r

(* A request is sent again: to the primary, but for a question that may be *)
(* put to either location.                                                 *)
LEMMA IfResends ==
  ASSUME IfInv, NEW c \in Callers, CallsTyped', UNCHANGED <<kind, svc, sec>>,
         \A d \in Callers \ {c} : call'[d] = call[d], Active(c),
         Agree(call'[c], call[c], {"st", "at", "both", "resp"}), call'[c].st = "sent",
         call[c].both = FALSE /\ call[c].at = "primary"
           => call'[c].both = FALSE /\ call'[c].at = "primary"
  PROVE  IfInv'
<1>1. /\ call'[c].op = call[c].op /\ call'[c].step = call[c].step
      /\ call'[c].req = call[c].req /\ call'[c].accepts = call[c].accepts
      /\ call'[c].pre = call[c].pre
  BY DEF Agree, CallFields
<1>2. IfCall(kind, sec, call[c]) /\ call[c].st \in {"sent", "answered"}
  BY DEF IfInv, Active
<1>3. InTwo(kind, call[c]) => InTwo(kind, call'[c])
  BY <1>1 DEF InTwo
<1>4. IfCall(kind, sec, call'[c])
  BY <1>1, <1>2, <1>3 DEF IfCall
<1> QED
  BY <1>4 DEF IfInv

(* The executor's steps: a request is sent again, given up or refused.     *)
LEMMA IfExecutor ==
  ASSUME IfInv, NEW c \in Callers, Resend(c) \/ GiveUp(c) \/ Refused(c)
  PROVE  IfInv'
<1>1. CallsTyped
  BY DEF IfInv
<1>2. CASE Resend(c)
  <2>1. /\ CallsTyped' /\ \A d \in Callers \ {c} : call'[d] = call[d]
        /\ Active(c) /\ Agree(call'[c], call[c], {"st", "resp", "at"})
        /\ call'[c].st = "sent"
        /\ call'[c].at = IF call[c].both THEN other(call[c].at) ELSE call[c].at
        /\ UNCHANGED <<kind, obj, svc, sec>>
    BY <1>1, <1>2, ResendCalls
  <2>2. /\ Agree(call'[c], call[c], {"st", "at", "both", "resp"})
        /\ call'[c].both = call[c].both
    BY <2>1 DEF Agree, CallFields
  <2> QED
    BY <2>1, <2>2, IfResends
<1>3. CASE GiveUp(c)
  <2>1. Returns(c, Failed) /\ Truthful(kind, sec, call[c], Failed)
    BY <1>3, ReturningSteps, Unanswered DEF Failed
  <2> QED
    BY <2>1, IfReturns
<1>4. CASE Refused(c)
  <2>1. /\ call[c].st = "answered" /\ ~Success(call[c].resp.code)
        /\ UNCHANGED <<kind, svc, sec>>
        /\ \/ Returns(c, call[c].resp.code)
           \/ /\ CallsTyped' /\ \A d \in Callers \ {c} : call'[d] = call[d]
              /\ Agree(call'[c], call[c], {"st", "at", "both", "resp"})
              /\ call'[c].st = "sent" /\ call'[c].at = "primary" /\ call'[c].both = FALSE
    BY <1>1, <1>4, RefusedCalls
  <2>2. call[c].resp.code \notin {0, 1}
    BY <2>1 DEF Success
  <2>3. Truthful(kind, sec, call[c], call[c].resp.code) /\ Active(c)
    BY <2>1, <2>2, Unanswered DEF Active
  <2> QED
    BY <2>1, <2>3, IfReturns, IfResends
<1> QED
  BY <1>2, <1>3, <1>4

(* Another client's change.                                                *)
LEMMA IfForeign ==
  ASSUME IfInv, NEW state, Foreign(state), kind \in IfKinds => Existing(state)
  PROVE  IfInv'
<1>1. /\ CallsTyped' /\ \A d \in Callers : Watched(call'[d], call[d], state.there)
      /\ svc' = state /\ UNCHANGED <<kind, obj, sec>>
  BY ForeignCalls DEF IfInv
<1>2. \A d \in Callers : IfCall(kind, sec, call'[d])
  BY <1>1, IfWatched DEF IfInv
<1> QED
  BY <1>1, <1>2 DEF IfInv

(* What other clients do to these resources leaves them as they should be. *)
LEMMA IfForeignStep ==
  ASSUME IfInv, ForeignStep
  PROVE  IfInv'
<1>1. CASE kind \in IfKinds
  <2>1. Existing(svc)
    BY <1>1 DEF IfInv
  <2>2. \/ kind \in {"share", "directory", "file"} /\ ForeignFile
        \/ kind = "queue" /\ ForeignQueue
        \/ kind = "table" /\ ForeignTable
    BY <1>1 DEF ForeignStep, ForeignNames, ClientKinds, IfKinds
  <2>3. /\ Existing([NewVersion(svc) EXCEPT !.meta = 2])
        /\ Existing([Absent(svc) EXCEPT !.lease = Empty])
        /\ Existing([NewVersion(svc) EXCEPT !.there = TRUE]) /\ Existing(Absent(svc))
        /\ \A value : Existing([NewVersion(svc) EXCEPT !.there = TRUE, !.meta = value])
        /\ Existing([NewVersion(svc) EXCEPT !.there = ~@])
    BY <2>1 DEF Existing, NewVersion, Absent
  <2> QED
    BY <2>2, <2>3, IfForeign DEF ForeignFile, ForeignQueue, ForeignTable
<1>2. CASE kind \notin IfKinds
  <2>1. PICK state : Foreign(state)
    BY DEF ForeignStep, ForeignFile, ForeignQueue, ForeignConsumer, ForeignTable,
           ForeignEntity, ForeignProperties, ForeignNames
  <2> QED
    BY <1>2, <2>1, IfForeign
<1> QED
  BY <1>1, <1>2


(* An operation that is none of these calls, and a request that may be     *)
(* sent.                                                                   *)
PlainCall(op) ==
  op \notin IfCalls \cup {"delete_blob_if_exists", "delete_container_if_exists"}

MaySend(r) == ~Thrown(r) /\ kind \in IfKinds => KnownRequest(kind, r)

(* The forms in which a call begins.                                       *)
LEMMA IfCommands ==
  ASSUME IfInv, NEW c \in Callers
  PROVE  /\ \A op, req, both, accepts, arg, cond :
              execute_async(c, command(op, req, both, accepts, arg, cond))
              /\ PlainCall(op) /\ MaySend(req) => IfInv'
         /\ \A op, req, cond :
              Send(c, op, req, cond) /\ PlainCall(op) /\ MaySend(req) => IfInv'
         /\ \A op, req, both, arg, cond :
              exists_first(c, op, req, both, arg, cond)
              /\ PlainCall(op) /\ MaySend(req) => IfInv'
         /\ \A both \in BOOLEAN : \A op, req, arg, cond :
              exists_first(c, op, req, both, arg, cond)
              /\ op \in IfCalls /\ kind \in IfKinds /\ MaySend(req)
              /\ (both => Either(kind, op)) /\ (~Thrown(req) => Question(req)) => IfInv'
<1>1. ASSUME NEW op, NEW req, NEW both, NEW accepts, NEW arg, NEW cond
      PROVE  LET cmd == command(op, req, both, accepts, arg, cond)
             IN /\ DOMAIN cmd = CallFields /\ cmd.op = op /\ cmd.req = req
                /\ cmd.both = both /\ cmd.accepts = accepts /\ cmd.step = 1
                /\ cmd.at = "primary"
  BY DEF command, Idle, CallFields
<1>2. ASSUME NEW op, NEW req, NEW both, NEW accepts, NEW arg, NEW cond,
             execute_async(c, command(op, req, both, accepts, arg, cond)),
             PlainCall(op), MaySend(req)
      PROVE  IfInv'
  <2>1. Began(kind, command(op, req, both, accepts, arg, cond))
    BY <1>1, <1>2 DEF Began, PlainCall, MaySend
  <2> QED
    BY <1>2, <2>1, IfStarts
<1>3. ASSUME NEW op, NEW req, NEW both \in BOOLEAN, NEW arg, NEW cond,
             exists_first(c, op, req, both, arg, cond), op \in IfCalls,
             kind \in IfKinds, MaySend(req), both => Either(kind, op),
             ~Thrown(req) => Question(req)
      PROVE  IfInv'
  <2> DEFINE cmd == command(op, req, both, {NotFound}, arg, cond)
  <2>1. execute_async(c, cmd)
    BY <1>3 DEF exists_first
  <2>2. /\ DOMAIN cmd = CallFields /\ cmd.op = op /\ cmd.req = req
        /\ cmd.both = both /\ cmd.accepts = {NotFound} /\ cmd.step = 1
        /\ cmd.at = "primary" /\ cmd.pre = Empty
    BY DEF command, Idle, CallFields
  <2> HIDE DEF cmd
  <2>3. ~Thrown(req) => InTwo(kind, cmd)
    BY <1>3, <2>2 DEF InTwo
  <2>4. Began(kind, cmd)
    BY <1>3, <2>2, <2>3 DEF Began, MaySend, IfCalls
  <2> QED
    BY <2>1, <2>4, IfStarts
<1> QED
  BY <1>2, <1>3 DEF Send, exists_first

(* The two location modes of a question.                                   *)
LEMMA PrimaryQuestion ==
  /\ PrimaryOnly \in BOOLEAN /\ (PrimaryOnly => FALSE)
  /\ Both \in BOOLEAN
  BY DEF PrimaryOnly, Both

(* What an answer that is taken by the handler of such a call says.        *)
Tells(k, s, op, r) ==
  /\ r.st = "answered" /\ r.op = op /\ k \in IfKinds
  /\ op = "create_if_not_exists" /\ k # "file" => r.pre = Empty
  /\ r.step = 1 => /\ r.resp.code = NotFound => Sees(k, s, r, FALSE)
                   /\ r.resp.code # NotFound => Sees(k, s, r, TRUE)
  /\ r.step = 2 /\ op = "delete_if_exists" =>
       /\ Success(r.resp.code) => r.did
       /\ ~Success(r.resp.code) => Sees(k, s, r, FALSE)
  /\ r.step = 2 /\ op = "create_if_not_exists" =>
       /\ r.resp.code \in {Conflict, NoContent} => Sees(k, s, r, TRUE)
       /\ r.resp.code \notin {Conflict, NoContent} => r.did
       /\ ~Success(r.resp.code) => r.resp.code = Conflict
       /\ r.resp.code = NoContent => k = "queue"

(* The handler takes a success, and the codes the request allows.          *)
LEMMA IfResults ==
  ASSUME IfInv, NEW c \in Callers, NEW op \in IfCalls, Accepted(c, op)
  PROVE  Tells(kind, sec, op, call[c])
<1> DEFINE r == call[c]
<1>1. /\ r.st = "answered" /\ r.op = op
      /\ Success(r.resp.code) \/ r.resp.code \in r.accepts
  BY DEF Accepted
<1>2. InTwo(kind, r) /\ Told(kind, sec, r)
  BY <1>1 DEF IfInv, IfCall
<1> HIDE DEF r
<1>3. kind \in IfKinds /\ (op = "create_if_not_exists" /\ kind # "file" => r.pre = Empty)
  BY <1>1, <1>2 DEF InTwo
<1>4. ASSUME r.step = 1
      PROVE  /\ r.resp.code = NotFound => Sees(kind, sec, r, FALSE)
             /\ r.resp.code # NotFound => Sees(kind, sec, r, TRUE)
  BY <1>1, <1>2, <1>4 DEF InTwo, Told
<1>5. ASSUME r.step = 2, op = "delete_if_exists"
      PROVE  /\ Success(r.resp.code) => r.did
             /\ ~Success(r.resp.code) => Sees(kind, sec, r, FALSE)
  <2>1. r.resp.code # NoContent /\ r.accepts \subseteq {NotFound}
    BY <1>1, <1>2, <1>5 DEF InTwo, Told
  <2> QED
    BY <1>1, <1>2, <1>5, <2>1 DEF Told
<1>6. ASSUME r.step = 2, op = "create_if_not_exists"
      PROVE  /\ r.resp.code \in {Conflict, NoContent} => Sees(kind, sec, r, TRUE)
             /\ r.resp.code \notin {Conflict, NoContent} => r.did
             /\ ~Success(r.resp.code) => r.resp.code = Conflict
             /\ r.resp.code = NoContent => kind = "queue"
  <2>1. r.accepts \subseteq {Conflict}
    BY <1>1, <1>2, <1>6 DEF InTwo
  <2> QED
    BY <1>1, <1>2, <1>6, <2>1 DEF Told
<1> QED
  BY <1>1, <1>3, <1>4, <1>5, <1>6 DEF r, Tells

(* The forms of the other handlers.                                        *)
LEMMA PlainHandlers ==
  ASSUME IfInv, NEW c \in Callers
  PROVE  /\ \A op, o, out :
              Accepted(c, op) /\ Return(c, o, out) /\ PlainCall(op) => IfInv'
         /\ \A op, o, out : Answer(c, op, o, out) /\ PlainCall(op) => IfInv'
         /\ \A op, o, req, accepts :
              unless_exists(c, op, o, req, accepts) /\ PlainCall(op) /\ MaySend(req)
              => IfInv'
         /\ \A op, o, req, accepts :
              if_exists(c, op, o, req, accepts) /\ PlainCall(op) /\ MaySend(req)
              => IfInv'
         /\ \A op, o : acted(c, op, o) /\ PlainCall(op) => IfInv'
         /\ \A o : whether_exists(c, o) => IfInv'
         /\ \A o : Local(o) => IfInv'
<1>1. ASSUME NEW op, NEW o, NEW out, Accepted(c, op), Return(c, o, out), PlainCall(op)
      PROVE  IfInv'
  <2>1. Returns(c, out)
    BY <1>1, ReturningSteps DEF Accepted
  <2>2. Truthful(kind, sec, call[c], out)
    BY <1>1 DEF Accepted, Truthful, PlainCall, IfCalls
  <2> QED
    BY <2>1, <2>2, IfReturns
<1>2. ASSUME NEW op, NEW o, NEW req, NEW accepts, Accepted(c, op),
             Continue(c, o, req, accepts), PlainCall(op), MaySend(req)
      PROVE  IfInv'
  BY <1>2, IfContinues DEF Accepted, PlainCall, IfCalls, MaySend
<1>3. ASSUME NEW o, Local(o)
      PROVE  IfInv'
  BY <1>3 DEF Local, IfInv, CallsTyped
<1>4. PlainCall("exists")
  BY DEF PlainCall, IfCalls
<1> QED
  BY <1>1, <1>2, <1>3, <1>4
  DEF Answer, unless_exists, if_exists, acted, whether_exists

(* What makes true of an answer, and what false.                           *)
LEMMA TrueAnswers ==
  ASSUME NEW k, NEW s, NEW r
  PROVE  /\ /\ r.did
            /\ r.op = "create_if_not_exists" /\ k # "file" => r.pre = Empty
            => Truthful(k, s, r, 1)
         /\ /\ r.op = "create_if_not_exists" => Sees(k, s, r, TRUE)
            /\ r.op = "delete_if_exists" => Sees(k, s, r, FALSE)
            => Truthful(k, s, r, 0)
<1>1. 0 # 1
  OBVIOUS
<1> QED
  BY <1>1, Zenon DEF Truthful

(* The forms of theirs.                                                    *)
LEMMA IfHandlers ==
  ASSUME IfInv, NEW c \in Callers
  PROVE  /\ \A o, req, accepts :
              unless_exists(c, "create_if_not_exists", o, req, accepts) /\ MaySend(req)
              /\ (~Thrown(req) => Creation(req) /\ (kind # "file" => req.comp # "file"))
              /\ accepts \subseteq {Conflict} => IfInv'
         /\ \A o, req, accepts :
              if_exists(c, "delete_if_exists", o, req, accepts) /\ MaySend(req)
              /\ (~Thrown(req) => Deletion(req)) /\ accepts \subseteq {NotFound} => IfInv'
         /\ \A o : acted(c, "delete_if_exists", o) => IfInv'
         /\ \A o : acted(c, "create_if_not_exists", o) /\ kind # "queue" => IfInv'
         /\ queue_create_if_not_exists_response(c) => IfInv'
<1>1. ASSUME NEW op, NEW o, NEW out, Accepted(c, op), Return(c, o, out),
             Truthful(kind, sec, call[c], out)
      PROVE  IfInv'
  BY <1>1, ReturningSteps, IfReturns DEF Accepted
<1>2. ASSUME NEW o, NEW req, NEW accepts,
             unless_exists(c, "create_if_not_exists", o, req, accepts), MaySend(req),
             ~Thrown(req) => Creation(req) /\ (kind # "file" => req.comp # "file"),
             accepts \subseteq {Conflict}
      PROVE  IfInv'
  <2>1. /\ Accepted(c, "create_if_not_exists") /\ call[c].step = 1
        /\ call[c].st = "answered" /\ call[c].op = "create_if_not_exists"
    BY <1>2 DEF unless_exists, Accepted
  <2>2. CASE call[c].resp.code = NotFound
    BY <1>2, <2>1, <2>2, IfContinues DEF unless_exists, MaySend
  <2>3. CASE call[c].resp.code # NotFound
    <3>1. Sees(kind, sec, call[c], TRUE)
      BY <2>1, <2>3, IfResults DEF Tells, IfCalls
    <3>2. Truthful(kind, sec, call[c], 0)
      BY <2>1, <3>1, TrueAnswers
    <3> QED
      BY <1>1, <1>2, <2>1, <2>3, <3>2 DEF unless_exists
  <2> QED
    BY <2>2, <2>3
<1>3. ASSUME NEW o, NEW req, NEW accepts,
             if_exists(c, "delete_if_exists", o, req, accepts), MaySend(req),
             ~Thrown(req) => Deletion(req), accepts \subseteq {NotFound}
      PROVE  IfInv'
  <2>1. /\ Accepted(c, "delete_if_exists") /\ call[c].step = 1
        /\ call[c].st = "answered" /\ call[c].op = "delete_if_exists"
    BY <1>3 DEF if_exists, Accepted
  <2>2. CASE call[c].resp.code # NotFound
    BY <1>3, <2>1, <2>2, IfContinues DEF if_exists, MaySend
  <2>3. CASE call[c].resp.code = NotFound
    <3>1. Sees(kind, sec, call[c], FALSE)
      BY <2>1, <2>3, IfResults DEF Tells, IfCalls
    <3>2. Truthful(kind, sec, call[c], 0)
      BY <2>1, <3>1, TrueAnswers
    <3> QED
      BY <1>1, <1>3, <2>1, <2>3, <3>2 DEF if_exists
  <2> QED
    BY <2>2, <2>3
<1>4. ASSUME NEW o, NEW op \in IfCalls, acted(c, op, o),
             op = "create_if_not_exists" => kind # "queue"
      PROVE  IfInv'
  <2>1. Accepted(c, op) /\ call[c].step = 2 /\ call[c].op = op
    BY <1>4 DEF acted, Accepted
  <2>2. CASE Success(call[c].resp.code)
    <3>1. /\ call[c].did
          /\ op = "create_if_not_exists" /\ kind # "file" => call[c].pre = Empty
      BY <1>4, <2>1, <2>2, IfResults, IfCodes DEF Tells, IfCalls
    <3>2. Truthful(kind, sec, call[c], 1)
      BY <2>1, <3>1, TrueAnswers
    <3> QED
      BY <1>1, <1>4, <2>1, <2>2, <3>2 DEF acted
  <2>3. CASE ~Success(call[c].resp.code)
    <3>1. /\ op = "create_if_not_exists" => Sees(kind, sec, call[c], TRUE)
          /\ op = "delete_if_exists" => Sees(kind, sec, call[c], FALSE)
      BY <1>4, <2>1, <2>3, IfResults DEF Tells, IfCalls
    <3>2. Truthful(kind, sec, call[c], 0)
      BY <2>1, <3>1, TrueAnswers
    <3> QED
      BY <1>1, <1>4, <2>1, <2>3, <3>2 DEF acted
  <2> QED
    BY <2>2, <2>3
<1>5. ASSUME queue_create_if_not_exists_response(c)
      PROVE  IfInv'
  <2>1. /\ Accepted(c, "create_if_not_exists") /\ call[c].step = 2
        /\ call[c].op = "create_if_not_exists"
        /\ Return(c, obj, IF call[c].resp.code \in {Conflict, NoContent} THEN 0 ELSE 1)
    BY <1>5 DEF queue_create_if_not_exists_response, Accepted
  <2>2. CASE call[c].resp.code \in {Conflict, NoContent}
    <3>1. Sees(kind, sec, call[c], TRUE)
      BY <2>1, <2>2, IfResults DEF Tells, IfCalls
    <3>2. Truthful(kind, sec, call[c], 0)
      BY <2>1, <3>1, TrueAnswers
    <3> QED
      BY <1>1, <2>1, <2>2, <3>2
  <2>3. CASE call[c].resp.code \notin {Conflict, NoContent}
    <3>1. call[c].did /\ (kind # "file" => call[c].pre = Empty)
      BY <2>1, <2>3, IfResults DEF Tells, IfCalls
    <3>2. Truthful(kind, sec, call[c], 1)
      BY <2>1, <3>1, TrueAnswers
    <3> QED
      BY <1>1, <2>1, <2>3, <3>2
  <2> QED
    BY <2>2, <2>3
<1> QED
  BY <1>2, <1>3, <1>4, <1>5 DEF IfCalls


-----------------------------------------------------------------------------
(* The objects that have none of these calls send what they like: copies   *)
(* and leases of files.                                                    *)
LEMMA OtherFiles ==
  ASSUME IfInv, NEW c \in Callers, FileCopyCalls(c) \/ FileLeaseCalls(c)
  PROVE  IfInv'
<1>1. \A r : MaySend(r)
  BY DEF MaySend, IfKinds, FileCopyCalls, FileLeaseCalls
<1>2. ASSUME FileCopyCalls(c)
      PROVE  IfInv'
  BY <1>1, <1>2, IfCommands, PlainHandlers
  DEF FileCopyCalls, file_start_copy, file_start_copy_async,
      file_start_copy_response, file_abort_copy, file_abort_copy_async,
      file_abort_copy_response, file_download_attributes,
      file_download_attributes_async, file_download_attributes_response,
      file_start_copy_from_blob_async, PlainCall, IfCalls
<1>3. ASSUME FileLeaseCalls(c)
      PROVE  IfInv'
  BY <1>1, <1>3, IfCommands, PlainHandlers
  DEF FileLeaseCalls, file_acquire_lease, file_acquire_lease_async,
      file_acquire_lease_response, file_change_lease,
      file_change_lease_async, file_change_lease_response,
      file_release_lease, file_release_lease_async,
      file_release_lease_response, file_break_lease, file_break_lease_async,
      file_break_lease_response, PlainCall, IfCalls
<1> QED
  BY <1>2, <1>3

(* Messages.                                                               *)
LEMMA OtherMessages ==
  ASSUME IfInv, NEW c \in Callers, MessageCalls(c)
  PROVE  IfInv'
<1>1. \A r : MaySend(r)
  BY DEF MaySend, IfKinds, MessageCalls
<1>2. ASSUME \/ queue_add_message(c) \/ queue_get_message(c) \/ queue_get_messages(c)
             \/ queue_peek_message(c) \/ queue_peek_messages(c)
             \/ queue_update_message(c) \/ queue_delete_message(c) \/ queue_clear(c)
      PROVE  IfInv'
  BY <1>1, <1>2, IfCommands
  DEF queue_add_message, queue_add_message_async, queue_get_message,
      queue_get_message_async, queue_get_messages, queue_get_messages_async,
      queue_peek_message, queue_peek_message_async, queue_peek_messages,
      queue_peek_messages_async, queue_update_message, queue_update_message_async,
      queue_delete_message, queue_delete_message_async, queue_clear,
      queue_clear_async, PlainCall, IfCalls
<1>3. ASSUME \/ queue_add_message_response(c) \/ queue_get_message_response(c)
             \/ queue_get_messages_response(c) \/ queue_peek_message_response(c)
             \/ queue_peek_messages_response(c) \/ queue_update_message_response(c)
             \/ queue_delete_message_response(c) \/ queue_clear_response(c)
      PROVE  IfInv'
  BY <1>3, PlainHandlers
  DEF queue_add_message_response, queue_get_message_response,
      queue_get_messages_response, queue_peek_message_response,
      queue_peek_messages_response, queue_update_message_response,
      queue_delete_message_response, queue_clear_response, Take, PlainCall, IfCalls
<1> QED
  BY <1>2, <1>3 DEF MessageCalls

(* Entities and service clients.                                           *)
LEMMA OtherEntities ==
  ASSUME IfInv, NEW c \in Callers, EntityCalls(c) \/ ClientCalls(c)
  PROVE  IfInv'
<1>1. \A r : MaySend(r)
  BY DEF MaySend, IfKinds, EntityCalls, ClientCalls, ClientKinds
<1>2. ASSUME EntityCalls(c)
      PROVE  IfInv'
  BY <1>1, <1>2, IfCommands, PlainHandlers
  DEF EntityCalls, execute, execute_response, execute_batch, execute_batch_async,
      execute_batch_response, execute_operation_async, PlainCall, IfCalls
<1>3. ASSUME ClientCalls(c)
      PROVE  IfInv'
  BY <1>1, <1>3, IfCommands, PlainHandlers
  DEF ClientCalls, blob_download_service_properties,
      blob_upload_service_properties, blob_download_service_stats,
      download_account_properties, download_account_properties_base_async,
      download_account_properties_response, file_download_service_properties,
      file_upload_service_properties, queue_download_service_properties,
      queue_upload_service_properties, queue_download_service_stats,
      table_download_service_properties, table_upload_service_properties,
      table_download_service_stats, download_service_properties_response,
      upload_service_properties_response, download_service_stats_response,
      read_async, download_service_properties_base_async,
      upload_service_properties_base_async, download_service_stats_base_async,
      PlainCall, IfCalls
<1> QED
  BY <1>2, <1>3

(* Listings: every request is one of the generator's.                      *)
LEMMA OtherListings ==
  ASSUME IfInv, ListingInv, NEW c \in Callers, ListingCalls(c)
  PROVE  IfInv'
<1>1. kind = "listing" /\ kind \notin IfKinds
  BY DEF ListingCalls, IfKinds
<1>2. obj.what \in Listings
  BY <1>1 DEF ListingInv, Listed, IteratorInv, Iterators
<1>3. ASSUME NEW token
      PROVE  LET cmd == result_generator(obj, token)
             IN DOMAIN cmd = CallFields /\ cmd.op = "list"
  BY <1>2, Generator DEF IsListing
<1>4. ASSUME NEW token, execute_async(c, result_generator(obj, token))
      PROVE  IfInv'
  <2>1. Began(kind, result_generator(obj, token))
    BY <1>1, <1>3 DEF Began, IfCalls
  <2> QED
    BY <1>4, <2>1, IfStarts
<1>5. ASSUME segment_response(c)
      PROVE  IfInv'
  <2> DEFINE again == result_generator(obj, next_token(c))
  <2>1. PlainCall("list")
    BY DEF PlainCall, IfCalls
  <2>2. ASSUME NEW loc, call' = [call EXCEPT ![c] = [again EXCEPT !.st = "sent", !.at = loc]],
               UNCHANGED <<kind, svc, sec>>
        PROVE  IfInv'
    <3>1. DOMAIN again = CallFields /\ again.op = "list"
      BY <1>3
    <3> HIDE DEF again
    <3>2. CallsTyped /\ DOMAIN call = Callers
      BY DEF IfInv, CallsTyped
    <3>3. /\ DOMAIN call' = Callers /\ DOMAIN call'[c] = CallFields
          /\ call'[c].op = "list" /\ call'[c].st = "sent"
          /\ \A d \in Callers \ {c} : call'[d] = call[d]
      BY <2>2, <3>1, <3>2 DEF CallFields
    <3>4. CallsTyped'
      BY <2>2, <3>2, <3>3 DEF CallsTyped
    <3>5. IfCall(kind, sec, call'[c])
      BY <1>1, <3>3 DEF IfCall, IfCalls
    <3> QED
      BY <2>2, <3>3, <3>4, <3>5 DEF IfInv
  <2>3. ASSUME NEW o, Accepted(c, "list"), Return(c, o, OK)
        PROVE  IfInv'
    BY <2>1, <2>3, PlainHandlers
  <2> QED
    BY <1>5, <2>2, <2>3 DEF segment_response, again
<1>6. ASSUME UNCHANGED <<kind, svc, sec, call>>
      PROVE  IfInv'
  BY <1>6 DEF IfInv, CallsTyped
<1> QED
  BY <1>4, <1>5, <1>6
  DEF ListingCalls, fetch_first_segment, increment, fetch_next_segment


-----------------------------------------------------------------------------
(* The objects that have them: what each request asks, creates or deletes. *)
LEMMA IfQueues ==
  ASSUME IfInv, NEW c \in Callers, QueueCalls(c)
  PROVE  IfInv'
<1>1. kind = "queue" /\ kind \in IfKinds
  BY DEF QueueCalls, IfKinds
<1>2. /\ MaySend(create_queue) /\ Creation(create_queue) /\ create_queue.comp # "file"
      /\ MaySend(delete_queue) /\ Deletion(delete_queue)
      /\ MaySend(download_queue_metadata) /\ Question(download_queue_metadata)
      /\ MaySend(get_queue_acl)
  BY <1>1 DEF MaySend, KnownRequest, Creation, Deletion, Question, Reads, create_queue,
              delete_queue, download_queue_metadata, get_queue_acl, base_request
<1>3. /\ \A metadata : MaySend(upload_queue_metadata(metadata))
      /\ \A policies : MaySend(set_queue_acl(policies))
  <2>1. /\ \A metadata : Plainly(upload_queue_metadata(metadata), "PUT", "metadata", {})
        /\ \A policies :
             Plainly(set_queue_acl(policies), "PUT", "acl", {} \cup {"policies"})
    BY PlainBase, PlainHeaders DEF upload_queue_metadata, set_queue_acl
  <2> QED
    BY <1>1, <2>1 DEF MaySend, KnownRequest, Plainly
<1>4. /\ queue_create_accepts(TRUE) \subseteq {Conflict} /\ {NotFound} \subseteq {NotFound}
  BY DEF queue_create_accepts
<1>5. ASSUME \/ queue_create(c) \/ queue_delete(c) \/ queue_exists(c)
             \/ queue_download_attributes(c) \/ queue_upload_metadata(c)
             \/ queue_download_permissions(c) \/ queue_upload_permissions(c)
      PROVE  IfInv'
  BY <1>2, <1>3, <1>5, IfCommands
  DEF queue_create, queue_create_async, queue_delete, queue_delete_async,
      queue_exists, queue_exists_async, queue_download_attributes,
      queue_download_attributes_async, queue_upload_metadata,
      queue_upload_metadata_async, queue_download_permissions,
      queue_download_permissions_async, queue_upload_permissions,
      queue_upload_permissions_async, PlainCall, IfCalls
<1>6. ASSUME queue_create_if_not_exists(c) \/ queue_delete_if_exists(c)
      PROVE  IfInv'
  BY <1>1, <1>2, <1>6, IfCommands, PrimaryQuestion
  DEF queue_create_if_not_exists, queue_create_if_not_exists_async,
      queue_delete_if_exists, queue_delete_if_exists_async, IfCalls
<1>7. ASSUME \/ queue_create_response(c) \/ queue_delete_response(c)
             \/ queue_exists_response(c) \/ queue_download_attributes_response(c)
             \/ queue_upload_metadata_response(c)
             \/ queue_download_permissions_response(c)
             \/ queue_upload_permissions_response(c) \/ change_metadata
      PROVE  IfInv'
  BY <1>7, PlainHandlers
  DEF queue_create_response, queue_delete_response, queue_exists_response,
      queue_download_attributes_response, queue_upload_metadata_response,
      queue_download_permissions_response, queue_upload_permissions_response,
      change_metadata, PlainCall, IfCalls
<1>8. ASSUME \/ queue_create_if_not_exists_exists(c) \/ queue_delete_if_exists_exists(c)
             \/ queue_create_if_not_exists_response(c)
             \/ queue_delete_if_exists_response(c)
      PROVE  IfInv'
  BY <1>2, <1>4, <1>8, IfHandlers
  DEF queue_create_if_not_exists_exists, queue_delete_if_exists_exists,
      queue_delete_if_exists_response
<1> QED
  BY <1>5, <1>6, <1>7, <1>8 DEF QueueCalls

(* Tables.                                                                 *)
LEMMA IfTables ==
  ASSUME IfInv, NEW c \in Callers, TableCalls(c)
  PROVE  IfInv'
<1>1. kind = "table" /\ kind \in IfKinds /\ kind # "queue"
  BY DEF TableCalls, IfKinds
<1> DEFINE insert == execute_table_operation("insert")
           retrieve == execute_table_operation("retrieve")
           delete == execute_table_operation("delete")
<1>2. /\ MaySend(insert) /\ Creation(insert) /\ insert.comp # "file"
      /\ MaySend(delete) /\ Deletion(delete)
      /\ MaySend(retrieve) /\ Question(retrieve) /\ MaySend(get_table_acl)
  BY <1>1 DEF MaySend, KnownRequest, Creation, Deletion, Question, Reads,
              execute_table_operation, get_http_method, get_table_acl, base_request
<1>3. \A policies : MaySend(set_table_acl(policies))
  <2>1. \A policies : Plainly(set_table_acl(policies), "PUT", "acl", {} \cup {"policies"})
    BY PlainBase, PlainHeaders DEF set_table_acl
  <2> QED
    BY <1>1, <2>1 DEF MaySend, KnownRequest, Plainly
<1>4. ASSUME \/ table_create(c) \/ table_delete(c) \/ table_exists(c)
             \/ table_download_permissions(c) \/ table_upload_permissions(c)
      PROVE  IfInv'
  BY <1>2, <1>3, <1>4, IfCommands
  DEF table_create, table_create_async, table_delete, table_delete_async,
      table_exists, table_exists_async, table_download_permissions,
      table_download_permissions_async, table_upload_permissions,
      table_upload_permissions_async, PlainCall, IfCalls
<1>5. ASSUME table_create_if_not_exists(c) \/ table_delete_if_exists(c)
      PROVE  IfInv'
  BY <1>1, <1>2, <1>5, IfCommands, PrimaryQuestion
  DEF table_create_if_not_exists, table_create_if_not_exists_async,
      table_delete_if_exists, table_delete_if_exists_async, IfCalls
<1>6. ASSUME \/ table_create_response(c) \/ table_delete_response(c)
             \/ table_exists_response(c) \/ table_download_permissions_response(c)
             \/ table_upload_permissions_response(c)
      PROVE  IfInv'
  BY <1>6, PlainHandlers
  DEF table_create_response, table_delete_response, table_exists_response,
      table_download_permissions_response, table_upload_permissions_response,
      PlainCall, IfCalls
<1>7. {Conflict} \subseteq {Conflict} /\ {NotFound} \subseteq {NotFound}
  OBVIOUS
<1>8. ASSUME \/ table_create_if_not_exists_exists(c) \/ table_delete_if_exists_exists(c)
             \/ table_create_if_not_exists_response(c)
             \/ table_delete_if_exists_response(c)
      PROVE  IfInv'
  BY <1>1, <1>2, <1>7, <1>8, IfHandlers
  DEF table_create_if_not_exists_exists, table_delete_if_exists_exists,
      table_create_if_not_exists_response, table_delete_if_exists_response
<1> QED
  BY <1>4, <1>5, <1>6, <1>8 DEF TableCalls

(* Shares: the questions go to either location.                            *)
LEMMA IfShares ==
  ASSUME IfInv, NEW c \in Callers, ShareCalls(c)
  PROVE  IfInv'
<1>1. /\ kind = "share" /\ kind \in IfKinds /\ kind # "queue"
      /\ \A op : Either(kind, op)
  BY DEF ShareCalls, IfKinds, Either
<1>2. \A r : Changing(r) \/ Keeping(r) => MaySend(r)
  BY <1>1 DEF Changing, Keeping, MaySend, KnownRequest
<1>3. /\ MaySend(delete_file_share) /\ Deletion(delete_file_share)
      /\ MaySend(get_file_share_properties) /\ Question(get_file_share_properties)
  BY <1>2, ShareRequests DEF delete_file_share, get_file_share_properties,
                             base_request, Deletion, Question, Reads
<1>4. ASSUME NEW max_size, NEW metadata
      PROVE  LET r == create_file_share(max_size, metadata)
             IN MaySend(r) /\ (~Thrown(r) => Creation(r) /\ r.comp # "file")
  <2>1. Plainly(create_file_share(max_size, metadata), "PUT", "share", {})
    BY PlainBase, PlainHeaders DEF create_file_share
  <2> QED
    BY <1>2, <2>1, ShareRequests DEF Plainly, Creation
<1>5. ASSUME \/ share_create(c) \/ delete_share(c) \/ share_exists(c)
             \/ share_download_attributes(c) \/ share_upload_metadata(c)
      PROVE  IfInv'
  BY <1>2, <1>5, IfCommands, ShareRequests
  DEF share_create, share_create_async, delete_share, delete_share_async,
      share_exists, share_exists_async, share_download_attributes,
      share_download_attributes_async, share_upload_metadata,
      share_upload_metadata_async, PlainCall, IfCalls
<1>6. ASSUME \/ download_share_usage(c) \/ download_share_usage_in_bytes(c)
             \/ share_resize(c) \/ share_download_permissions(c)
             \/ share_upload_permissions(c) \/ download_file_permission(c)
             \/ upload_file_permission(c)
      PROVE  IfInv'
  BY <1>2, <1>6, IfCommands, ShareRequests
  DEF download_share_usage, download_share_usage_in_bytes,
      download_share_usage_in_bytes_async, share_resize, share_resize_async,
      share_download_permissions, share_download_permissions_async,
      share_upload_permissions, share_upload_permissions_async,
      download_file_permission, download_file_permission_async,
      upload_file_permission, upload_file_permission_async, PlainCall, IfCalls
<1>7. ASSUME share_create_if_not_exists(c) \/ delete_share_if_exists(c)
      PROVE  IfInv'
  BY <1>1, <1>3, <1>7, IfCommands, PrimaryQuestion
  DEF share_create_if_not_exists, share_create_if_not_exists_async,
      delete_share_if_exists, delete_share_if_exists_async, IfCalls
<1>8. ASSUME \/ share_create_response(c) \/ delete_share_response(c)
             \/ share_exists_response(c) \/ change_metadata
             \/ share_download_attributes_response(c) \/ share_upload_metadata_response(c)
      PROVE  IfInv'
  BY <1>8, PlainHandlers
  DEF share_create_response, delete_share_response, share_exists_response,
      change_metadata, share_download_attributes_response,
      share_upload_metadata_response, PlainCall, IfCalls
<1>9. ASSUME \/ download_share_usage_response(c) \/ share_resize_response(c)
             \/ share_download_permissions_response(c) \/ share_upload_permissions_response(c)
             \/ download_file_permission_response(c) \/ upload_file_permission_response(c)
      PROVE  IfInv'
  BY <1>9, PlainHandlers
  DEF download_share_usage_response, share_resize_response,
      share_download_permissions_response, share_upload_permissions_response,
      download_file_permission_response, upload_file_permission_response, PlainCall,
      IfCalls
<1>10. {Conflict} \subseteq {Conflict} /\ {NotFound} \subseteq {NotFound}
  OBVIOUS
<1>11. ASSUME \/ share_create_if_not_exists_exists(c) \/ delete_share_if_exists_exists(c)
              \/ share_create_if_not_exists_response(c)
              \/ delete_share_if_exists_response(c)
       PROVE  IfInv'
  BY <1>1, <1>3, <1>4, <1>10, <1>11, IfHandlers
  DEF share_create_if_not_exists_exists, delete_share_if_exists_exists,
      share_create_if_not_exists_response, delete_share_if_exists_response
<1> QED
  BY <1>5, <1>6, <1>7, <1>8, <1>9, <1>11 DEF ShareCalls

(* Directories.                                                            *)
LEMMA IfDirectories ==
  ASSUME IfInv, NEW c \in Callers, DirectoryCalls(c)
  PROVE  IfInv'
<1>1. kind = "directory" /\ kind \in IfKinds /\ kind # "queue"
  BY DEF DirectoryCalls, IfKinds
<1>2. \A r : Changing(r) \/ Keeping(r) => MaySend(r)
  BY <1>1 DEF Changing, Keeping, MaySend, KnownRequest
<1>3. /\ MaySend(delete_file_directory) /\ Deletion(delete_file_directory)
      /\ MaySend(get_file_directory_properties)
      /\ Question(get_file_directory_properties)
  BY <1>2, DirectoryRequests DEF delete_file_directory, get_file_directory_properties,
                                 base_request, Deletion, Question, Reads
<1>4. ASSUME NEW metadata, NEW attributes, ~Thrown(create_file_directory(metadata, attributes))
      PROVE  /\ Creation(create_file_directory(metadata, attributes))
             /\ create_file_directory(metadata, attributes).comp # "file"
  <2>1. Plainly(add_metadata(base_request("PUT", "directory"), metadata),
                "PUT", "directory", {})
    BY PlainBase, PlainHeaders
  <2>2. Plainly(create_file_directory(metadata, attributes), "PUT", "directory",
                {} \cup {"attributes"})
    BY <2>1, PlainHeaders DEF create_file_directory, add_additional_properties
  <2> QED
    BY <1>4, <2>2 DEF Plainly, Creation
<1>5. ASSUME \/ directory_create(c) \/ delete_directory(c) \/ directory_exists(c)
             \/ directory_download_attributes(c) \/ directory_upload_properties(c)
             \/ directory_upload_metadata(c)
      PROVE  IfInv'
  BY <1>2, <1>5, IfCommands, DirectoryRequests
  DEF directory_create, directory_create_async, delete_directory,
      delete_directory_async, directory_exists, directory_exists_async,
      directory_download_attributes, directory_download_attributes_async,
      directory_upload_properties, directory_upload_properties_async,
      directory_upload_metadata, directory_upload_metadata_async, PlainCall, IfCalls
<1>6. ASSUME directory_create_if_not_exists(c) \/ delete_directory_if_exists(c)
      PROVE  IfInv'
  BY <1>1, <1>3, <1>6, IfCommands, PrimaryQuestion
  DEF directory_create_if_not_exists, directory_create_if_not_exists_async,
      delete_directory_if_exists, delete_directory_if_exists_async, IfCalls
<1>7. ASSUME \/ directory_create_response(c) \/ delete_directory_response(c)
             \/ directory_exists_response(c) \/ directory_download_attributes_response(c)
             \/ directory_upload_properties_response(c)
             \/ directory_upload_metadata_response(c)
             \/ set_attributes \/ change_metadata
      PROVE  IfInv'
  BY <1>7, PlainHandlers
  DEF directory_create_response, delete_directory_response,
      directory_exists_response, directory_download_attributes_response,
      directory_upload_properties_response, directory_upload_metadata_response,
      set_attributes, change_metadata, PlainCall, IfCalls
<1>8. /\ {} \subseteq {Conflict} /\ {} \subseteq {NotFound}
      /\ MaySend(create_file_directory(obj.meta, obj.attributes))
  BY <1>2, DirectoryRequests
<1>9. ASSUME \/ directory_create_if_not_exists_exists(c)
             \/ delete_directory_if_exists_exists(c)
             \/ directory_create_if_not_exists_response(c)
             \/ delete_directory_if_exists_response(c)
      PROVE  IfInv'
  BY <1>1, <1>3, <1>4, <1>8, <1>9, IfHandlers
  DEF directory_create_if_not_exists_exists, delete_directory_if_exists_exists,
      directory_create_if_not_exists_response, delete_directory_if_exists_response
<1> QED
  BY <1>5, <1>6, <1>7, <1>9 DEF DirectoryCalls

(* Files: what deletes one if it exists asks either location.              *)
LEMMA IfFiles ==
  ASSUME IfInv, NEW c \in Callers, FileCalls(c), ~file_resize(c)
  PROVE  IfInv'
<1>1. kind = "file" /\ kind \in IfKinds /\ kind # "queue"
  BY DEF FileCalls, IfKinds
<1>2. \A r : Changing(r) \/ Keeping(r) => MaySend(r)
  BY <1>1 DEF Changing, Keeping, MaySend, KnownRequest
<1>3. ASSUME NEW condition
      PROVE  /\ MaySend(get_file_properties(condition))
             /\ ~Thrown(get_file_properties(condition))
                  => Question(get_file_properties(condition))
  <2>1. Plainly(get_file_properties(condition), "HEAD", "file", {})
    BY PlainBase, PlainHeaders DEF get_file_properties, add_file_access_condition
  <2> QED
    BY <1>2, <2>1, FileRequestsKnown DEF Plainly, Question, Reads
<1>4. ASSUME NEW length, NEW metadata, NEW properties, NEW condition
      PROVE  LET r == create_file(length, metadata, properties, condition)
             IN MaySend(r) /\ (~Thrown(r) => Creation(r))
  <2>1. Plainly(add_file_properties(add_metadata(base_request("PUT", "file"), metadata),
                                    properties), "PUT", "file", {})
    BY PlainBase, PlainHeaders DEF add_file_properties
  <2>2. Plainly(create_file(length, metadata, properties, condition), "PUT", "file",
                {} \cup {"attributes"} \cup {"length"})
    BY <2>1, PlainHeaders
    DEF create_file, add_additional_properties, add_file_access_condition
  <2> QED
    BY <1>2, <2>2, FileRequestsKnown DEF Plainly, Creation
<1>5. ASSUME \/ file_create(c) \/ delete_file_call(c) \/ file_exists(c) \/ file_download_attributes(c)
             \/ file_upload_properties(c)
      PROVE  IfInv'
  BY <1>2, <1>5, IfCommands, FileRequestsKnown
  DEF file_create, file_create_async, delete_file_call, delete_file_async,
      file_exists, file_exists_async, file_download_attributes,
      file_download_attributes_async,
      file_upload_properties, file_upload_properties_async, PlainCall, IfCalls
<1>6. ASSUME file_upload_metadata(c) \/ list_ranges(c) \/ clear_range(c) \/ write_range(c)
      PROVE  IfInv'
  BY <1>2, <1>6, IfCommands, FileRequestsKnown
  DEF file_upload_metadata, file_upload_metadata_async, list_ranges,
      list_ranges_async, clear_range, clear_range_async, write_range,
      write_range_async, PlainCall, IfCalls
<1>7. ASSUME file_create_if_not_exists(c) \/ delete_file_if_exists(c)
      PROVE  IfInv'
  BY <1>1, <1>3, <1>7, IfCommands, PrimaryQuestion
  DEF file_create_if_not_exists, file_create_if_not_exists_async,
      delete_file_if_exists, delete_file_if_exists_async, IfCalls, Either
<1>8. ASSUME \/ file_create_response(c) \/ delete_file_response(c)
             \/ file_exists_response(c) \/ file_download_attributes_response(c)
             \/ file_upload_properties_response(c)
      PROVE  IfInv'
  BY <1>2, <1>8, PlainHandlers, FileRequestsKnown
  DEF file_create_response, delete_file_response, file_exists_response,
      file_download_attributes_response, file_upload_properties_response,
      PlainCall, IfCalls
<1>9. ASSUME \/ file_upload_metadata_response(c) \/ file_resize_response(c)
             \/ list_ranges_response(c) \/ clear_range_response(c)
             \/ write_range_response(c)
      PROVE  IfInv'
  BY <1>9, PlainHandlers
  DEF file_upload_metadata_response, file_resize_response, list_ranges_response,
      clear_range_response, write_range_response, PlainCall, IfCalls
<1>10. ASSUME file_create_if_not_exists_exists(c)
       PROVE  IfInv'
  <2>1. {} \subseteq {Conflict}
    OBVIOUS
  <2> QED
    BY <1>1, <1>4, <1>10, <2>1, IfHandlers DEF file_create_if_not_exists_exists
<1>11. ASSUME file_create_if_not_exists_response(c)
       PROVE  IfInv'
  BY <1>1, <1>11, IfHandlers DEF file_create_if_not_exists_response
<1>12. ASSUME NEW condition
       PROVE  LET r == delete_file(condition)
              IN MaySend(r) /\ (~Thrown(r) => Deletion(r))
  <2>1. Plainly(delete_file(condition), "DEL", "file", {})
    BY PlainBase, PlainHeaders DEF delete_file, add_file_access_condition
  <2> QED
    BY <1>2, <2>1, FileRequestsKnown DEF Plainly, Deletion
<1>13. ASSUME delete_file_if_exists_exists(c) \/ delete_file_if_exists_response(c)
       PROVE  IfInv'
  <2>1. {} \subseteq {NotFound}
    OBVIOUS
  <2> QED
    BY <1>12, <1>13, <2>1, IfHandlers
    DEF delete_file_if_exists_exists, delete_file_if_exists_response
<1> QED
  BY <1>5, <1>6, <1>7, <1>8, <1>9, <1>10, <1>11, <1>13 DEF FileCalls


(* A file is given another length.                                         *)
LEMMA IfResized ==
  ASSUME IfInv, NEW c \in Callers, FileCalls(c), file_resize(c)
  PROVE  IfInv'
<1>1. PICK condition \in FileConditions : file_resize_async(c, 3, condition)
  BY DEF file_resize
<1> DEFINE resized == [obj EXCEPT !.length = 3]
           request == resize_with_properties(resized, condition)
           cmd == command("resize", request, PrimaryOnly, {}, 3, condition)
           r == [cmd EXCEPT !.st = "sent", !.seen = {svc.there}]
<1>2. FileRequest(request)
  BY ResizeRequest
<1> HIDE DEF request
<1>3. DOMAIN cmd = CallFields /\ cmd.op = "resize" /\ cmd.req = request
  BY DEF command, Idle, CallFields
<1>4. call' = [call EXCEPT ![c] = r] /\ UNCHANGED <<kind, svc, sec>>
  BY <1>1 DEF file_resize_async, request
<1> HIDE DEF cmd
<1>5. DOMAIN r = CallFields /\ r.op = "resize" /\ r.req = request /\ r.st = "sent"
  BY <1>3 DEF CallFields
<1> HIDE DEF r
<1>6. /\ DOMAIN call' = Callers /\ call'[c] = r
      /\ \A d \in Callers \ {c} : call'[d] = call[d]
  BY <1>4 DEF IfInv, CallsTyped
<1>7. CallsTyped'
  BY <1>5, <1>6 DEF IfInv, CallsTyped
<1>8. kind = "file"
  BY DEF FileCalls
<1>9. IfCall(kind, sec, call'[c])
  BY <1>2, <1>5, <1>6, <1>8 DEF IfCall, KnownRequest, IfCalls
<1> QED
  BY <1>4, <1>6, <1>7, <1>9 DEF IfInv

(* The service performs a request on any of the objects.                   *)
LEMMA IfServeCall ==
  ASSUME IfInv, NEW c \in Callers, ServeCall(c)
  PROVE  IfInv'
<1>1. CASE kind \in IfKinds
  <2>1. Serve(c, IfService(kind, call[c].req, located(c)))
    BY <1>1 DEF ServeCall, IfService, IfKinds, ClientKinds
  <2> QED
    BY <2>1, IfServes
<1>2. CASE kind \notin IfKinds
  <2>1. PICK answer : Serve(c, answer)
    BY DEF ServeCall, ServeListing
  <2> QED
    BY <1>2, <2>1, IfServes
<1> QED
  BY <1>1, <1>2

(* At the beginning nobody has called.                                     *)
LEMMA IfBegins == Init => IfInv
<1> SUFFICES ASSUME Init PROVE IfInv
  OBVIOUS
<1>1. call = [c \in Callers |-> Idle]
  BY DEF Init, FileInit, QueueInit, TableInit, ClientInit, ListingInit, CommandInit
<1>2. /\ CallsTyped
      /\ \A c \in Callers : call[c].st = "idle" /\ call[c].op = "none"
  BY <1>1 DEF CallsTyped, Idle, CallFields
<1>3. \A c \in Callers : IfCall(kind, sec, call[c])
  BY <1>2 DEF IfCall
<1>4. ASSUME kind \in IfKinds
      PROVE  Existing(svc) /\ Existing(sec)
  <2>1. /\ Existing(StoredFile) /\ Existing(Absent(StoredFile))
        /\ \A s \in Leased(StoredFile) : Existing(s)
    BY DEF Existing, StoredFile, Absent, Leased
  <2>2. /\ Existing(StoredQueue) /\ Existing([StoredQueue EXCEPT !.meta = Empty])
        /\ Existing(Absent([StoredQueue EXCEPT !.meta = Empty]))
    BY DEF Existing, StoredQueue, Absent
  <2>3. /\ Existing(StoredTable)
        /\ Existing([StoredTable EXCEPT !.there = FALSE, !.rows = NoRows])
    BY DEF Existing, StoredTable
  <2>4. CASE FileInit
    BY <2>1, <2>4 DEF FileInit, CommandInit
  <2>5. CASE QueueInit
    BY <1>4, <2>2, <2>5 DEF QueueInit, CommandInit, IfKinds
  <2>6. CASE TableInit
    BY <1>4, <2>3, <2>6 DEF TableInit, CommandInit, IfKinds
  <2>7. ~ClientInit /\ ~ListingInit
    BY <1>4 DEF ClientInit, ListingInit, CommandInit, IfKinds, ClientKinds
  <2> QED
    BY <2>4, <2>5, <2>6, <2>7 DEF Init
<1> QED
  BY <1>2, <1>3, <1>4 DEF IfInv

(* The invariant is kept.                                                  *)
LEMMA IfKept == IfInv /\ ListingInv /\ [Next]_cvars => IfInv'
<1>1. ASSUME IfInv, UNCHANGED cvars
      PROVE  IfInv'
  BY <1>1 DEF cvars, IfInv, CallsTyped
<1>2. ASSUME IfInv, ListingInv, NEW c \in Callers,
             \/ ShareCalls(c) \/ DirectoryCalls(c) \/ FileCalls(c) \/ FileCopyCalls(c)
             \/ FileLeaseCalls(c) \/ QueueCalls(c) \/ MessageCalls(c) \/ TableCalls(c)
             \/ EntityCalls(c) \/ ClientCalls(c) \/ ListingCalls(c)
             \/ ServeCall(c) \/ Resend(c) \/ GiveUp(c) \/ Refused(c)
      PROVE  IfInv'
  BY <1>2, IfShares, IfDirectories, IfFiles, IfResized, OtherFiles, IfQueues,
     OtherMessages, IfTables, OtherEntities, OtherListings, IfServeCall, IfExecutor
<1> QED
  BY <1>1, <1>2, IfForeignStep DEF Next

(* Among the objects of these services too, a call that acts only if the   *)
(* resource exists, or does not, tells the truth: true, and this call's    *)
(* request has deleted it, or created it where there was none (a file may  *)
(* have replaced one); false, and at some moment of the call there was     *)
(* nothing to delete, or something already, at the primary or, for shares  *)
(* and the deletion of files, at the secondary.  It asks first and acts    *)
(* later, with other clients in between, and either answer may get lost.   *)
THEOREM ServicesTellTheTruth == Spec => []IfExistsHonest
<1>1. IfInv => IfExistsHonest
  <2> SUFFICES ASSUME IfInv, NEW c \in Callers, call[c].st = "returned"
               PROVE  /\ call[c].op \in DeleteIfExists =>
                           /\ call[c].out = 1 => call[c].did
                           /\ call[c].out = 0 => Found(call[c], FALSE)
                      /\ call[c].op = "create_if_not_exists" =>
                           /\ call[c].out = 1 =>
                                call[c].did /\ (kind # "file" => call[c].pre = Empty)
                           /\ call[c].out = 0 => Found(call[c], TRUE)
    BY DEF IfExistsHonest
  <2>1. /\ Truthful(kind, sec, call[c], call[c].out)
        /\ call[c].op \in DeleteIfExists => call[c].op = "delete_if_exists"
    BY DEF IfInv, IfCall, DeleteIfExists
  <2>2. \A x : Sees(kind, sec, call[c], x) => Found(call[c], x)
    BY DEF Sees, Found, Either, AsksEither
  <2> QED
    BY <2>1, <2>2, Zenon DEF Truthful, IfCalls
<1>2. Init => IfInv /\ ListingInv
  BY IfBegins, ListingBegins
<1>3. IfInv /\ ListingInv /\ [Next]_cvars => (IfInv /\ ListingInv)'
  BY IfKept, ListingKept
<1> QED
  BY <1>1, <1>2, <1>3, PTL DEF Spec
=============================================================================

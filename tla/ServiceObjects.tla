--------------------------- MODULE ServiceObjects ---------------------------
(***************************************************************************)
(* The objects of the file, queue and table services, the service clients  *)
(* and listings, under concurrent calls, lost answers and changes by other *)
(* clients.  Init chooses what the object is.                              *)
(***************************************************************************)
EXTENDS CloudFile, CloudQueue, CloudTable, CloudClient, Listing

Absent(s) == [s EXCEPT !.there = FALSE]

Leased(s) == {[s EXCEPT !.lease = id] : id \in {OurLease, TheirLease}}

FileInit ==
  \/ CommandInit("share", cloud_file_share, StoredFile)
  \/ CommandInit("share", cloud_file_share, Absent(StoredFile))
  \/ CommandInit("directory", cloud_file_directory, StoredFile)
  \/ CommandInit("directory", cloud_file_directory, Absent(StoredFile))
  \/ \E k \in {"file", "file_lease", "file_copy"} :
       \/ CommandInit(k, cloud_file, StoredFile)
       \/ CommandInit(k, file_attributes(cloud_file, StoredFile), StoredFile)
       \/ CommandInit(k, cloud_file, Absent(StoredFile))
       \/ \E s \in Leased(StoredFile) : CommandInit(k, cloud_file, s)

(* A queue with metadata or without, one with two messages or with one     *)
(* that somebody else is at work on.                                       *)
TwoMessages == [StoredQueue EXCEPT !.receipts = [id \in Ids |-> 1]]

OneHidden ==
  [StoredQueue EXCEPT !.receipts[1] = 1, !.hidden = {1}]

QueueInit ==
  \/ CommandInit("queue", cloud_queue, StoredQueue)
  \/ CommandInit("queue", cloud_queue, [StoredQueue EXCEPT !.meta = Empty])
  \/ CommandInit("queue", cloud_queue, Absent([StoredQueue EXCEPT !.meta = Empty]))
  \/ \E s \in {StoredQueue, TwoMessages, OneHidden} :
       CommandInit("message", cloud_queue, s)

TableInit ==
  \/ \E s \in {StoredTable, [StoredTable EXCEPT !.there = FALSE, !.rows = NoRows]} :
       CommandInit("table", cloud_table, s)
  \/ CommandInit("entity", cloud_table, StoredTable)
  \/ CommandInit("entity", [cloud_table EXCEPT !.etags[1] = 1], StoredTable)

Init == FileInit \/ QueueInit \/ TableInit \/ ClientInit \/ ListingInit

-----------------------------------------------------------------------------
ShareCalls(c) ==
  /\ kind = "share"
  /\ \/ share_create(c) \/ share_create_response(c)
     \/ share_create_if_not_exists(c) \/ share_create_if_not_exists_exists(c)
     \/ share_create_if_not_exists_response(c)
     \/ delete_share(c) \/ delete_share_response(c)
     \/ delete_share_if_exists(c) \/ delete_share_if_exists_exists(c)
     \/ delete_share_if_exists_response(c)
     \/ share_exists(c) \/ share_exists_response(c)
     \/ share_download_attributes(c)
     \/ share_download_attributes_response(c)
     \/ share_upload_metadata(c) \/ share_upload_metadata_response(c)
     \/ change_metadata
     \/ download_share_usage(c) \/ download_share_usage_in_bytes(c)
     \/ download_share_usage_response(c)
     \/ share_resize(c) \/ share_resize_response(c)
     \/ share_download_permissions(c)
     \/ share_download_permissions_response(c)
     \/ share_upload_permissions(c) \/ share_upload_permissions_response(c)
     \/ download_file_permission(c)
     \/ download_file_permission_response(c)
     \/ upload_file_permission(c) \/ upload_file_permission_response(c)

DirectoryCalls(c) ==
  /\ kind = "directory"
  /\ \/ directory_create(c) \/ directory_create_response(c)
     \/ directory_create_if_not_exists(c)
     \/ directory_create_if_not_exists_exists(c)
     \/ directory_create_if_not_exists_response(c)
     \/ delete_directory(c) \/ delete_directory_response(c)
     \/ delete_directory_if_exists(c) \/ delete_directory_if_exists_exists(c)
     \/ delete_directory_if_exists_response(c)
     \/ directory_exists(c) \/ directory_exists_response(c)
     \/ directory_download_attributes(c)
     \/ directory_download_attributes_response(c)
     \/ directory_upload_properties(c)
     \/ directory_upload_properties_response(c)
     \/ directory_upload_metadata(c)
     \/ directory_upload_metadata_response(c)
     \/ set_attributes \/ change_metadata

FileCalls(c) ==
  /\ kind = "file"
  /\ \/ file_create(c) \/ file_create_response(c)
     \/ file_create_if_not_exists(c) \/ file_create_if_not_exists_exists(c)
     \/ file_create_if_not_exists_response(c)
     \/ delete_file_call(c) \/ delete_file_response(c)
     \/ delete_file_if_exists(c) \/ delete_file_if_exists_exists(c)
     \/ delete_file_if_exists_response(c)
     \/ file_exists(c) \/ file_exists_response(c)
     \/ file_download_attributes(c) \/ file_download_attributes_response(c)
     \/ file_upload_properties(c) \/ file_upload_properties_response(c)
     \/ file_upload_metadata(c) \/ file_upload_metadata_response(c)
     \/ file_resize(c) \/ file_resize_response(c)
     \/ list_ranges(c) \/ list_ranges_response(c)
     \/ clear_range(c) \/ clear_range_response(c)
     \/ write_range(c) \/ write_range_response(c)

FileCopyCalls(c) ==
  /\ kind = "file_copy"
  /\ \/ file_start_copy(c) \/ file_start_copy_response(c)
     \/ file_abort_copy(c) \/ file_abort_copy_response(c)
     \/ file_download_attributes(c) \/ file_download_attributes_response(c)

FileLeaseCalls(c) ==
  /\ kind = "file_lease"
  /\ \/ file_acquire_lease(c) \/ file_acquire_lease_response(c)
     \/ file_change_lease(c) \/ file_change_lease_response(c)
     \/ file_release_lease(c) \/ file_release_lease_response(c)
     \/ file_break_lease(c) \/ file_break_lease_response(c)

QueueCalls(c) ==
  /\ kind = "queue"
  /\ \/ queue_create(c) \/ queue_create_response(c)
     \/ queue_create_if_not_exists(c) \/ queue_create_if_not_exists_exists(c)
     \/ queue_create_if_not_exists_response(c)
     \/ queue_delete(c) \/ queue_delete_response(c)
     \/ queue_delete_if_exists(c) \/ queue_delete_if_exists_exists(c)
     \/ queue_delete_if_exists_response(c)
     \/ queue_exists(c) \/ queue_exists_response(c)
     \/ queue_download_attributes(c) \/ queue_download_attributes_response(c)
     \/ queue_upload_metadata(c) \/ queue_upload_metadata_response(c)
     \/ change_metadata
     \/ queue_download_permissions(c) \/ queue_download_permissions_response(c)
     \/ queue_upload_permissions(c) \/ queue_upload_permissions_response(c)

MessageCalls(c) ==
  /\ kind = "message"
  /\ \/ queue_add_message(c) \/ queue_add_message_response(c)
     \/ queue_get_message(c) \/ queue_get_message_response(c)
     \/ queue_get_messages(c) \/ queue_get_messages_response(c)
     \/ queue_peek_message(c) \/ queue_peek_message_response(c)
     \/ queue_peek_messages(c) \/ queue_peek_messages_response(c)
     \/ queue_update_message(c) \/ queue_update_message_response(c)
     \/ queue_delete_message(c) \/ queue_delete_message_response(c)
     \/ queue_clear(c) \/ queue_clear_response(c)

TableCalls(c) ==
  /\ kind = "table"
  /\ \/ table_create(c) \/ table_create_response(c)
     \/ table_create_if_not_exists(c) \/ table_create_if_not_exists_exists(c)
     \/ table_create_if_not_exists_response(c)
     \/ table_delete(c) \/ table_delete_response(c)
     \/ table_delete_if_exists(c) \/ table_delete_if_exists_exists(c)
     \/ table_delete_if_exists_response(c)
     \/ table_exists(c) \/ table_exists_response(c)
     \/ table_download_permissions(c) \/ table_download_permissions_response(c)
     \/ table_upload_permissions(c) \/ table_upload_permissions_response(c)

EntityCalls(c) ==
  /\ kind = "entity"
  /\ \/ execute(c) \/ execute_response(c)
     \/ execute_batch(c) \/ execute_batch_response(c)

ServeCall(c) ==
  LET req == call[c].req
      here == located(c)
  IN IF kind = "listing" THEN ServeListing(c)
     ELSE Serve(c, CASE kind \in {"queue", "message"} -> QueueService(req, here)
                     [] kind \in {"table", "entity"} -> TableService(req, here)
                     [] kind \in ClientKinds -> PropertiesService(req, here)
                     [] OTHER -> FileService(req, here))

-----------------------------------------------------------------------------
(* What another client may do meanwhile.                                   *)

ForeignFile ==
  \/ svc.there /\ Foreign([NewVersion(svc) EXCEPT !.meta = 2])
  \/ svc.there /\ Foreign([Absent(svc) EXCEPT !.lease = Empty])
  \/ ~svc.there /\ Foreign([NewVersion(svc) EXCEPT !.there = TRUE])

ForeignQueue ==
  \/ svc.there /\ Foreign(Absent(svc))
  \/ ~svc.there /\ \E metadata \in {Empty, 1} :
       Foreign([NewVersion(svc) EXCEPT !.there = TRUE, !.meta = metadata])

ForeignTable == Foreign([NewVersion(svc) EXCEPT !.there = ~@])

ForeignProperties ==
  Foreign([NewVersion(svc) EXCEPT
             !.document = Over(write(Chosen, includes_file), @)])

ForeignStep ==
  \/ kind \in {"share", "directory", "file", "file_copy", "file_lease"} /\ ForeignFile
  \/ kind = "queue" /\ ForeignQueue
  \/ kind = "message" /\ ForeignConsumer
  \/ kind = "table" /\ ForeignTable
  \/ kind = "entity" /\ ForeignEntity
  \/ kind \in ClientKinds /\ ForeignProperties
  \/ ForeignNames

Next ==
  \/ \E c \in Callers :
       \/ ShareCalls(c) \/ DirectoryCalls(c) \/ FileCalls(c) \/ FileCopyCalls(c)
       \/ FileLeaseCalls(c) \/ QueueCalls(c) \/ MessageCalls(c) \/ TableCalls(c)
       \/ EntityCalls(c) \/ ClientCalls(c) \/ ListingCalls(c)
       \/ ServeCall(c) \/ Resend(c) \/ GiveUp(c) \/ Refused(c)
  \/ ForeignStep

Spec == Init /\ [][Next]_cvars

-----------------------------------------------------------------------------
(* Properties.                                                             *)

(* While calls run one at a time and every answer arrives, what the        *)
(* application holds is what it needs for the next conditional call: the   *)
(* etag of a share, directory or file, the etag of an entity, and the pop  *)
(* receipt of a message that is still there.                               *)
HandlesCurrent ==
  calm /\ Quiet =>
    CASE kind \in {"share", "directory", "file", "file_copy"} ->
           obj.etag \in {Empty, svc.etag}
      [] kind = "message" ->
           LET message == obj.message
           IN message.receipt # Empty /\ message.id \in Stored(svc) =>
                message.receipt = svc.receipts[message.id]
      [] kind = "entity" ->
           \A row \in Rows : obj.etags[row] \in {Empty, svc.rows[row]}
      [] OTHER -> TRUE

(* An entity that was read with its etag is never replaced, merged into or *)
(* deleted by a call that has not seen its last change, alone or in a      *)
(* batch, and however often the request was sent.  (The insert_or_...      *)
(* operations name no etag; they are meant to overwrite.)                  *)
EntityProtected ==
  [][\A c \in Callers :
       kind = "entity" /\ call[c].st = "sent" /\ call'[c].st = "answered" =>
         \A operation \in call[c].arg :
           /\ operation.type \in {"delete", "merge", "replace"}
           /\ svc'.rows[operation.row] # svc.rows[operation.row]
           => operation.etag \in {Empty, svc.rows[operation.row]}]_cvars

CallerSymmetry == Permutations(Callers)
=============================================================================

----------------------------- MODULE BlobObjects -----------------------------
(***************************************************************************)
(* The objects of the blob service under concurrent calls, lost answers    *)
(* and changes by other clients.  Init chooses what the object is: a blob  *)
(* of one of the three types, a snapshot, or a container.                  *)
(***************************************************************************)
EXTENDS BlobTypes, CloudBlobContainer

-----------------------------------------------------------------------------
(* Objects just made, or up to date with the blob.                         *)

BlobKinds == {"blob", "lease", "copy", "block", "page", "incremental",
              "append"}

TypeOf(k) == CASE k = "block" -> "block"
               [] k \in {"page", "incremental"} -> "page"
               [] k = "append" -> "append"
               [] OTHER -> "block"

Absent(s) == [s EXCEPT !.there = FALSE]

Leased(s) == {[s EXCEPT !.lease = id] : id \in {OurLease, TheirLease}}

BlobInit ==
  \E k \in BlobKinds :
    LET stored == StoredBlob(TypeOf(k))
        made == cloud_blob(IF k = "blob" THEN "unspecified" ELSE TypeOf(k),
                           Empty)
    IN \/ CommandInit(k, attributes(made, stored), stored)
       \/ CommandInit(k, made, Absent(stored))
       \/ /\ k \in {"lease", "page", "block", "append"}
          /\ \E s \in Leased(stored) : CommandInit(k, made, s)

(* A snapshot's object; the blob itself is there as well, with a copy into *)
(* it under way, leased or not.                                            *)
SnapshotInit ==
  \E type \in {"block", "page", "append"} :
    LET stored == [StoredBlob(type) EXCEPT !.snap_meta = 2, !.copy = NotedCopy]
    IN \E s \in {stored} \cup Leased(stored) :
         CommandInit("snapshot", cloud_blob(type, 1), s)

ContainerInit ==
  \E k \in {"container", "container_lease"} :
    \/ CommandInit(k, container_attributes(cloud_blob_container,
                                           StoredContainer), StoredContainer)
    \/ CommandInit(k, cloud_blob_container, Absent(StoredContainer))
    \/ \E s \in Leased(StoredContainer) : CommandInit(k, cloud_blob_container, s)

Init == BlobInit \/ SnapshotInit \/ ContainerInit

-----------------------------------------------------------------------------
(* The calls on each kind of object, and their handlers.                   *)

BlobCalls(c) ==
  /\ kind = "blob"
  /\ \/ exists(c) \/ exists_response(c)
     \/ download_attributes(c) \/ download_attributes_response(c)
     \/ upload_metadata(c) \/ upload_metadata_response(c)
     \/ upload_properties(c) \/ upload_properties_response(c)
     \/ set_metadata \/ set_content
     \/ delete_blob_call(c) \/ delete_blob_response(c)
     \/ delete_blob_if_exists(c) \/ delete_blob_if_exists_exists(c)
     \/ delete_blob_if_exists_response(c)

(* Blobs and containers share the handlers of their lease calls.           *)
LeaseResponses(c) ==
  \/ acquire_lease_response(c)
  \/ renew_lease_response(c)
  \/ change_lease_response(c)
  \/ release_lease_response(c)
  \/ break_lease_response(c)

LeaseCalls(c) ==
  /\ kind = "lease"
  /\ \/ acquire_lease(c) \/ renew_lease(c) \/ change_lease(c)
     \/ release_lease(c) \/ break_lease(c) \/ LeaseResponses(c)

CopyCalls(c) ==
  /\ kind = "copy"
  /\ \/ start_copy(c) \/ start_copy_response(c)
     \/ abort_copy(c) \/ abort_copy_response(c)
     \/ create_snapshot(c) \/ create_snapshot_response(c)

BlockCalls(c) ==
  /\ kind = "block"
  /\ \/ upload_block(c) \/ upload_block_response(c)
     \/ upload_block_list(c) \/ upload_block_list_response(c)
     \/ download_block_list(c) \/ download_block_list_response(c)
     \/ upload_from_stream(c) \/ upload_single_response(c)
     \/ set_standard_blob_tier(c) \/ set_standard_blob_tier_response(c)

PageCalls(c) ==
  /\ kind = "page"
  /\ \/ create(c) \/ create_response(c)
     \/ resize(c) \/ resize_response(c)
     \/ set_sequence_number(c) \/ set_sequence_number_response(c)
     \/ clear_pages(c) \/ clear_pages_response(c)
     \/ upload_pages(c) \/ upload_pages_response(c)

IncrementalCalls(c) ==
  /\ kind = "incremental"
  /\ \/ start_incremental_copy(c) \/ start_incremental_copy_response(c)
     \/ page_start_copy(c) \/ start_copy_response(c)
     \/ download_page_ranges(c) \/ download_page_ranges_response(c)
     \/ download_page_ranges_diff(c) \/ download_page_ranges_diff_md(c)
     \/ download_page_ranges_diff_response(c)
     \/ set_premium_blob_tier(c) \/ set_premium_blob_tier_response(c)

AppendCalls(c) ==
  /\ kind = "append"
  /\ \/ create_or_replace(c) \/ create_or_replace_response(c)
     \/ append_block_call(c) \/ append_block_response(c)

(* On a snapshot's object every call is possible; these are all that       *)
(* write, and a read.                                                      *)
SnapshotCalls(c) ==
  /\ kind = "snapshot"
  /\ \/ download_attributes(c) \/ download_attributes_response(c)
     \/ upload_metadata(c) \/ upload_properties(c)
     \/ delete_blob_call(c) \/ delete_blob_response(c)
     \/ delete_blob_if_exists(c) \/ delete_blob_if_exists_exists(c)
     \/ delete_blob_if_exists_response(c)
     \/ acquire_lease(c) \/ renew_lease(c) \/ change_lease(c)
     \/ release_lease(c) \/ break_lease(c)
     \/ start_copy(c) \/ abort_copy(c) \/ create_snapshot(c)
     \/ obj.type = "block" /\ (\/ upload_block(c) \/ upload_block_list(c)
                               \/ upload_from_stream(c)
                               \/ set_standard_blob_tier(c)
                               \/ set_standard_blob_tier_response(c))
     \/ obj.type = "page" /\ (\/ create(c) \/ resize(c) \/ clear_pages(c)
                              \/ set_sequence_number(c) \/ upload_pages(c)
                              \/ start_incremental_copy(c)
                              \/ set_premium_blob_tier(c)
                              \/ set_premium_blob_tier_response(c))
     \/ obj.type = "append" /\ (create_or_replace(c) \/ append_block_call(c))

ContainerCalls(c) ==
  /\ kind = "container"
  /\ \/ container_download_attributes(c)
     \/ container_download_attributes_response(c)
     \/ container_upload_metadata(c) \/ container_upload_metadata_response(c)
     \/ set_metadata
     \/ container_exists(c) \/ container_exists_response(c)
     \/ container_create(c) \/ container_create_response(c)
     \/ container_create_if_not_exists(c)
     \/ container_create_if_not_exists_exists(c)
     \/ container_create_if_not_exists_response(c)
     \/ delete_container(c) \/ delete_container_response(c)
     \/ delete_container_if_exists(c) \/ delete_container_if_exists_exists(c)
     \/ delete_container_if_exists_response(c)
     \/ upload_permissions(c) \/ upload_permissions_response(c)
     \/ download_permissions(c) \/ download_permissions_response(c)

ContainerLeaseCalls(c) ==
  /\ kind = "container_lease"
  /\ \/ container_acquire_lease(c) \/ container_renew_lease(c)
     \/ container_change_lease(c) \/ container_release_lease(c)
     \/ container_break_lease(c) \/ LeaseResponses(c)

Container == kind \in {"container", "container_lease"}

ServeObject(c) ==
  Serve(c, IF Container THEN ContainerService(call[c].req, located(c))
           ELSE BlobService(call[c].req, located(c)))

(* What another client may do meanwhile: write the resource, delete it or  *)
(* create it, replace a blob by one of another type, take the lease.       *)
ForeignWrite ==
  \/ svc.there /\ Foreign([NewVersion(svc) EXCEPT !.meta = 2])
  \/ svc.there /\ Foreign([Absent(svc) EXCEPT !.lease = Empty])
  \/ ~svc.there /\ Foreign([NewVersion(svc) EXCEPT !.there = TRUE])
  \/ svc.there /\ svc.lease = Empty /\ Foreign([svc EXCEPT !.lease = TheirLease])
  \/ kind = "blob" /\ Foreign([NewVersion(svc) EXCEPT !.type = "page",
                                                      !.there = TRUE])

Next ==
  \/ \E c \in Callers :
       \/ BlobCalls(c) \/ LeaseCalls(c) \/ CopyCalls(c) \/ BlockCalls(c)
       \/ PageCalls(c) \/ IncrementalCalls(c) \/ AppendCalls(c)
       \/ SnapshotCalls(c) \/ ContainerCalls(c) \/ ContainerLeaseCalls(c)
       \/ ServeObject(c) \/ Network(c)
  \/ ForeignWrite

Spec == Init /\ [][Next]_cvars

-----------------------------------------------------------------------------
(* Properties.                                                             *)

(* Builders that pass on the lease id of a condition and nothing else.     *)
LeaseIdOnly ==
  {"upload_block", "abort_copy", "upload_permissions", "download_permissions"}

Etagged(op) == op \notin LeaseIdOnly /\ kind # "container_lease"

(* Every builder but those passes the whole condition on.                  *)
ConditionsHonoured ==
  \A c \in Callers : Etagged(call[c].op) => Protected(call[c])

(* While calls run one at a time and every answer arrives, each handler    *)
(* leaves the object with the etag of the resource, so that the next       *)
(* conditional call on the object succeeds.  (start_incremental_copy does  *)
(* not, see the README.)                                                   *)
CacheMirrors ==
  (calm /\ Quiet /\ kind \notin {"incremental", "snapshot"}) =>
    obj.etag \in {Empty, svc.etag}

(* A snapshot's object never changes the blob the snapshot was taken of:   *)
(* steps of its calls leave the blob's version, existence and lease alone, *)
(* and take at most its snapshot away.                                     *)
SnapshotReadOnly ==
  [][kind = "snapshot" /\ left'.foreign = left.foreign =>
       [svc' EXCEPT !.snap_meta = Empty, !.tier = Empty]
         = [svc EXCEPT !.snap_meta = Empty, !.tier = Empty]]_cvars

(* The second request of a call of two gets time to run in when the first  *)
(* has taken less than the maximum execution time.                         *)
TimeRemains == \A c \in Callers : call[c].step = 2 => call[c].time >= 0

CallerSymmetry == Permutations(Callers)
=============================================================================

----------------------------- MODULE BlobService -----------------------------
(***************************************************************************)
(* The blob service, as far as the requests of the client library reach    *)
(* it: not code of this repository, but what its handlers rely on.  A blob *)
(* is a record, every change gives it a new version number, which stands   *)
(* for its etag and its modification time.                                 *)
(***************************************************************************)
EXTENDS StorageService

(* Access tiers: one of the standard and one of the premium ones.          *)
Hot == 1
P4 == 2

(* The blob at the service; seq to snap_meta: sequence number, committed   *)
(* append blocks, uncommitted and committed blocks, metadata of its        *)
(* snapshot.                                                               *)
StoredBlob(type) ==
  [there |-> TRUE, etag |-> 1, content |-> 1, size |-> 1, seq |-> 0,
   count |-> 0, tier |-> Empty, lease |-> Empty, type |-> type, meta |-> 1,
   copy |-> Empty, uncommitted |-> {}, blocks |-> {}, snap_meta |-> Empty]

-----------------------------------------------------------------------------
(* A blob that is put as a whole: the old one's lease and snapshot stay.    *)
PutBlob(r, s, type) ==
  [StoredBlob(type) EXCEPT
     !.etag = s.etag + 1, !.meta = Get(r, "metadata"),
     !.content = Get(r, "content"), !.size = Get(r, "size"),
     !.seq = Get(r, "seq"), !.tier = Get(r, "tier"), !.lease = s.lease,
     !.snap_meta = s.snap_meta]

Creates == {"block_blob", "page_blob", "append_blob", "copy", "blocklist",
            "block", "incrementalcopy"}

SetSequenceNumber(r, s) ==
  CASE r["seq_action"] = "increment" -> s.seq + 1
    [] r["seq_action"] = "update" -> r["seq"]
    [] r["seq_action"] = "max" -> IF r["seq"] > s.seq THEN r["seq"] ELSE s.seq

SequenceNumberAllows(r, s) ==
  Has(r, "if_seq") =>
    CASE r["if_seq"] = "eq" -> s.seq = r["if_seq_number"]
      [] r["if_seq"] = "le" -> s.seq <= r["if_seq_number"]
      [] r["if_seq"] = "lt" -> s.seq < r["if_seq_number"]

AppendAllows(r, s) ==
  /\ Has(r, "append_position") => s.size = r["append_position"]
  /\ Has(r, "max_size") => s.size + 1 <= r["max_size"]

DeleteBlob(r, s) ==
  LET option == Get(r, "delete_snapshots")
      bare == [s EXCEPT !.snap_meta = Empty]
  IN CASE Has(r, "snapshot") \/ option = 2 -> Reply(OK, bare)
       [] ~Has(r, "snapshot") /\ option = 1 ->
            Reply(OK, [bare EXCEPT !.there = FALSE, !.lease = Empty])
       [] OTHER -> IF s.snap_meta # Empty THEN Reply(Conflict, s)
                   ELSE Reply(OK, [s EXCEPT !.there = FALSE,
                                            !.lease = Empty])

Change(r, s) ==
  LET next == NewVersion(s)
      here == IF s.there THEN s ELSE [StoredBlob("block") EXCEPT
                 !.etag = s.etag, !.there = FALSE, !.size = 0,
                 !.uncommitted = s.uncommitted]
  IN CASE r.comp = "metadata" ->
            Reply(OK, [next EXCEPT !.meta = Get(r, "metadata")])
       [] r.comp = "properties" ->
            Reply(OK, [next EXCEPT
              !.content = IF Has(r, "size") \/ Has(r, "seq_action") THEN @
                          ELSE Get(r, "content"),
              !.size = IF Has(r, "size") THEN r["size"] ELSE @,
              !.seq = IF Has(r, "seq_action") THEN SetSequenceNumber(r, s)
                      ELSE @])
       [] r.comp = "snapshot" ->
            Reply(OK, [s EXCEPT !.snap_meta =
                         IF Has(r, "metadata") THEN r["metadata"] ELSE s.meta])
       [] r.comp = "tier" -> Reply(OK, [s EXCEPT !.tier = r["tier"]])
       [] r.comp = "copy" ->
            Reply(OK, [PutBlob(r, s, s.type) EXCEPT !.copy = s.etag + 1])
       [] r.comp = "abort" ->
            IF s.copy = r["copy_id"] THEN Reply(OK, [s EXCEPT !.copy = Empty])
            ELSE Reply(Conflict, s)
       [] r.comp = "block" ->
            Reply(OK, [here EXCEPT !.uncommitted = @ \cup {r["block_id"]}])
       [] r.comp = "blocklist" ->
            IF r["blocks"] \subseteq here.uncommitted \cup here.blocks
            THEN Reply(OK, [PutBlob(r, here, "block") EXCEPT
                              !.blocks = r["blocks"],
                              !.size = Cardinality(r["blocks"])])
            ELSE Reply(BadRequest, s)
       [] r.comp = "block_blob" -> Reply(OK, PutBlob(r, here, "block"))
       [] r.comp = "page_blob" -> Reply(OK, PutBlob(r, here, "page"))
       [] r.comp = "append_blob" -> Reply(OK, PutBlob(r, here, "append"))
       [] r.comp = "appendblock" ->
            IF AppendAllows(r, s)
            THEN Reply(OK, [next EXCEPT !.size = @ + 1, !.count = @ + 1])
            ELSE Reply(PreconditionFailed, s)
       [] r.comp = "page" ->
            IF SequenceNumberAllows(r, s) THEN Reply(OK, next)
            ELSE Reply(PreconditionFailed, s)
       [] r.comp = "incrementalcopy" ->
            Reply(OK, [PutBlob(r, s, "page") EXCEPT !.copy = s.etag + 1])

BlobService(r, s) ==
  IF Has(r, "snapshot") /\ Reads(r)
  THEN IF s.snap_meta = Empty THEN Reply(NotFound, s)
       ELSE Reply(OK, [s EXCEPT !.meta = s.snap_meta])
  ELSE IF ~s.there /\ r.comp \notin Creates THEN Reply(NotFound, s)
  ELSE IF ~Conditional(r, s) THEN Reply(PreconditionFailed, s)
  ELSE IF r.comp = "lease" THEN Lease(r, s)
  ELSE IF ~LeaseAllows(r, s) THEN Reply(PreconditionFailed, s)
  ELSE IF Reads(r) THEN Reply(OK, s)
  ELSE IF r.method = "DEL" THEN DeleteBlob(r, s)
  ELSE Change(r, s)
=============================================================================

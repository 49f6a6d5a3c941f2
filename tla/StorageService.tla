--------------------------- MODULE StorageService ---------------------------
(***************************************************************************)
(* What the services share in how they perform a request: conditions and   *)
(* leases.  Not code of this repository, but what its handlers rely on.    *)
(* A resource is a record, every change gives it a new version number,     *)
(* which stands for its etag and its modification time.                    *)
(***************************************************************************)
EXTENDS RequestFactory

(* Lease ids: ours, another client's, and the one the service makes up.    *)
OurLease == 1
TheirLease == 2
MadeUpLease == 3

-----------------------------------------------------------------------------
Conditional(r, s) ==
  /\ Has(r, "if_match") =>
       s.there /\ r["if_match"] \in {AnyETag, s.etag}
  /\ Has(r, "if_none_match") =>
       ~s.there \/ r["if_none_match"] \notin {AnyETag, s.etag}
  /\ Has(r, "if_modified_since") => s.etag > r["if_modified_since"]
  /\ Has(r, "if_unmodified_since") => s.etag <= r["if_unmodified_since"]

LeaseAllows(r, s) ==
  LET id == Get(r, "lease_id")
  IN IF id = Empty THEN s.lease = Empty \/ Reads(r) ELSE id = s.lease

Reply(code, state) == [code |-> code, state |-> state]

(* The lease actions: which they allow, and the id that is left.           *)
Lease(r, s) ==
  LET id == Get(r, "lease_id")
      proposed == Get(r, "proposed")
      granted == IF proposed = Empty THEN MadeUpLease ELSE proposed
      set(value) == Reply(OK, [s EXCEPT !.lease = value])
      refuse == Reply(Conflict, s)
  IN CASE r["action"] = "acquire" ->
            IF s.lease \in {Empty, granted} THEN set(granted) ELSE refuse
       [] r["action"] = "renew" -> IF id = s.lease THEN set(id) ELSE refuse
       [] r["action"] = "change" ->
            IF s.lease \in {id, proposed} THEN set(proposed) ELSE refuse
       [] r["action"] = "release" -> IF id = s.lease THEN set(Empty) ELSE refuse
       [] r["action"] = "break" -> IF s.lease # Empty THEN set(Empty) ELSE refuse

NewVersion(s) == [s EXCEPT !.etag = @ + 1]
=============================================================================

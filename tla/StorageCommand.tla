--------------------------- MODULE StorageCommand ---------------------------
(***************************************************************************)
(* One API object of the client library (a blob, a container, a queue, a   *)
(* share, ...) used by concurrent calls.  A call builds a request, the     *)
(* executor sends it to the primary or, where the command allows it, to    *)
(* the secondary location, the service performs it, and the command's      *)
(* response handler updates the object and gives the call its result.      *)
(* Requests and answers get lost on the way; the executor then sends the   *)
(* same request again, to the other location if the command allows both    *)
(* (module Executor models that loop attempt by attempt; here a retry is   *)
(* one step).                                                              *)
(*                                                                         *)
(* The modules that extend this one add the commands of one service: how   *)
(* each builds its request, and what its handler does with the answer.     *)
(***************************************************************************)
EXTENDS StorageService

CONSTANTS
  Callers,        \* the threads that issue calls on the object
  MaxCalls,       \* bound: calls issued in a behaviour
  MaxLost,        \* bound: requests or answers lost on the way
  MaxForeign,     \* bound: changes made by other clients
  ClientMaxTime   \* the client's default maximum execution time, in steps of
                  \* the clock; Empty: it has none

ASSUME BoundsAssumption ==
  MaxCalls \in Nat /\ MaxLost \in Nat /\ MaxForeign \in Nat

ASSUME TimeAssumption == ClientMaxTime \in Nat

VARIABLES
  kind,           \* which class of object this behaviour is about
  obj,            \* the object's cached state, shared by its calls
  svc,            \* the resource at the primary location
  sec,            \* the resource as the secondary location has it: geo-
                  \* replication brings it up to date after the behaviour
  call,           \* call[c]: the call c issued last
  left,           \* what is left of the three bounds
  calm            \* history: the calls so far ran one at a time, nobody else
                  \* changed the resource and the primary answered them all

cvars == <<kind, obj, svc, sec, call, left, calm>>

-----------------------------------------------------------------------------
(* Options: a value set by the call wins over the client's default.        *)

NotSet == [value |-> Empty, has_value |-> FALSE]

merge(option, default) == IF option.has_value THEN option ELSE default

(* The maximum execution time, in steps of a clock that started Uptime     *)
(* steps ago: the client's default, and what a call may set itself.        *)
Uptime == 5

client_default == [value |-> ClientMaxTime, has_value |-> ClientMaxTime # Empty]

CallMaxTime == {NotSet, [value |-> 2, has_value |-> TRUE]}

-----------------------------------------------------------------------------
(* A call.  "seen" collects whether the resource existed while the call    *)
(* ran, "did" whether the service performed its change, "pre" on which     *)
(* version, which is Empty if there was none.                              *)

NoAnswer == [code |-> Empty]

Idle == [st |-> "idle", op |-> "none", step |-> 1, req |-> invalid_argument,
         both |-> FALSE, accepts |-> {}, at |-> "primary", resp |-> NoAnswer,
         arg |-> Empty, cond |-> access_condition, time |-> Empty, seen |-> {},
         did |-> FALSE, pre |-> Empty, out |-> Empty]

(* What is left of a call that has given its result.                       *)
Done(r, out) ==
  [Idle EXCEPT !.st = "returned", !.op = r.op, !.seen = r.seen, !.did = r.did,
               !.cond = IF r.did THEN r.cond ELSE @, !.pre = r.pre, !.out = out]

Active(c) == call[c].st \in {"sent", "answered"}

Quiet == \A c \in Callers : ~Active(c)

(* set_location_mode: both locations, or the one the command is bound to. *)
locations(cmd) == IF cmd.both THEN {"primary", "secondary"} ELSE {cmd.at}

(* storage_command: the request, the location mode, the status codes the   *)
(* handler accepts besides success, and what it captures.                  *)
command(op, req, both, accepts, arg, cond) ==
  [Idle EXCEPT !.op = op, !.req = req, !.both = both, !.accepts = accepts,
               !.arg = arg, !.cond = cond]

(* executor::execute_async: an exception of the builder ends the call, a   *)
(* request goes to a location its mode allows.                             *)
execute_async(c, cmd) ==
  /\ ~Active(c)
  /\ left.calls > 0
  /\ left' = [left EXCEPT !.calls = @ - 1]
  /\ calm' = (calm /\ Quiet)
  /\ \E loc \in locations(cmd) :
       call' = [call EXCEPT ![c] =
                  IF Thrown(cmd.req)
                  THEN Done(cmd, Threw)
                  ELSE [cmd EXCEPT !.st = "sent", !.at = loc,
                                   !.seen = {svc.there}]]
  /\ UNCHANGED <<kind, obj, svc, sec>>

(* Every call that runs sees the resource's new state.                     *)
Watch(calls, there) ==
  [c \in Callers |-> IF calls[c].st \in {"sent", "answered"}
                     THEN [calls[c] EXCEPT !.seen = @ \cup {there}]
                     ELSE calls[c]]

Success(code) == code < 300

version(state) == IF state.there THEN state.etag ELSE Empty

(* The resource as the location has it to which the request was sent.      *)
located(c) == IF call[c].at = "primary" THEN svc ELSE sec

(* The service performs the request at that location, with the given       *)
(* answer; only the primary location takes changes.                        *)
Serve(c, answer) ==
  LET done == /\ Success(answer.code) /\ answer.code # NoContent
              /\ ~Reads(call[c].req)
  IN /\ call[c].st = "sent"
     /\ svc' = IF call[c].at = "primary" /\ ~Reads(call[c].req)
               THEN answer.state ELSE svc
     /\ call' = Watch([call EXCEPT ![c].st = "answered", ![c].resp = answer,
                                   ![c].did = @ \/ done,
                                   ![c].pre = IF done THEN version(located(c))
                                              ELSE @],
                      svc'.there)
     /\ calm' = (calm /\ call[c].at = "primary")
     /\ UNCHANGED <<kind, obj, sec, left>>

other(loc) == IF loc = "primary" THEN "secondary" ELSE "primary"

(* The request or its answer is lost: the executor sends the request again,*)
(* to the other location when the command allows both.                     *)
Resend(c) ==
  /\ \/ call[c].st = "answered"
     \/ call[c].st = "sent" /\ call[c].both
  /\ left.lost > 0
  /\ left' = [left EXCEPT !.lost = @ - 1]
  /\ call' = [call EXCEPT ![c].st = "sent", ![c].resp = NoAnswer,
                          ![c].at = IF call[c].both THEN other(@) ELSE @]
  /\ calm' = FALSE
  /\ UNCHANGED <<kind, obj, svc, sec>>

(* The last attempt is lost as well: the call throws.                      *)
GiveUp(c) ==
  /\ Active(c)
  /\ left.lost = 0 /\ MaxLost > 0
  /\ call' = [call EXCEPT ![c] = Done(@, Failed)]
  /\ calm' = FALSE
  /\ UNCHANGED <<kind, obj, svc, sec, left>>

(* preprocess_response: the handler takes a success, and the codes it      *)
(* accepts.                                                                *)
Accepted(c, op) ==
  /\ call[c].st = "answered"
  /\ call[c].op = op
  /\ \/ Success(call[c].resp.code)
     \/ call[c].resp.code \in call[c].accepts

body(c) == call[c].resp.state

(* Any other status ends the call with an exception, but for a NotFound of *)
(* the secondary, which the retry policy takes to the primary.             *)
Refused(c) ==
  LET code == call[c].resp.code
  IN /\ call[c].st = "answered"
     /\ ~Success(code) /\ code \notin call[c].accepts
     /\ call' = [call EXCEPT ![c] =
                   IF code = NotFound /\ call[c].at = "secondary"
                   THEN [@ EXCEPT !.st = "sent", !.at = "primary",
                                  !.both = FALSE, !.resp = NoAnswer]
                   ELSE Done(@, code)]
     /\ UNCHANGED <<kind, obj, svc, sec, left, calm>>

(* The handler's last step: the object becomes o, the caller gets out.     *)
Return(c, o, out) ==
  /\ obj' = o
  /\ call' = [call EXCEPT ![c] = Done(@, out)]
  /\ UNCHANGED <<kind, svc, sec, left, calm>>

Answer(c, op, o, out) == Accepted(c, op) /\ Return(c, o, out)

(* A call of several requests goes on with its next one.                   *)
Continue(c, o, req, accepts) ==
  /\ obj' = o
  /\ call' = [call EXCEPT ![c] =
                IF Thrown(req) THEN Done(@, Threw)
                ELSE [@ EXCEPT !.st = "sent", !.step = 2, !.req = req,
                               !.both = FALSE, !.accepts = accepts,
                               !.at = "primary", !.resp = NoAnswer,
                               !.did = FALSE]]
  /\ UNCHANGED <<kind, svc, sec, left, calm>>

(* The second request of a call of two gets what is left of the maximum    *)
(* execution time after the first, which took one step, and its timer      *)
(* cancels it at once if nothing is left.  "started" is the time the call  *)
(* noted when it began.                                                    *)
new_max_execution_time(options, started) ==
  LET modified_options == merge(options, client_default)
  IN IF modified_options.has_value
     THEN modified_options.value - (Uptime + 1 - started)
     ELSE Uptime

timer_fires(c) ==
  /\ Active(c)
  /\ call[c].step = 2
  /\ call[c].time < 0
  /\ call' = [call EXCEPT ![c] = Done(@, TimedOut)]
  /\ UNCHANGED <<kind, obj, svc, sec, left, calm>>

-----------------------------------------------------------------------------
(* What commands and handlers of all the services use.                     *)

(* Content headers, sizes and tiers: two values of each.                   *)
Values == {1, 2}

Both == TRUE           \* command_location_mode::primary_or_secondary
PrimaryOnly == FALSE

Send(c, op, request, condition) ==
  execute_async(c, command(op, request, PrimaryOnly, {}, Empty, condition))

first_time_point(options) == IF options.has_value THEN Uptime ELSE 0

parse_lease_state(response) == IF response.lease = Empty THEN 1 ELSE 2

parse_lease_id(response) == response.lease

parse_lease_time(response) == IF response.lease = Empty THEN 0 ELSE 1

Durations == {1, 2}    \* a lease of limited time, and an infinite one

parse_metadata(response) == response.meta

parse_copy_state(response) == response.copy

update_etag_and_last_modified(o, response) == [o EXCEPT !.etag = response.etag]

-----------------------------------------------------------------------------
(* The parts of a call of two requests that asks first whether the         *)
(* resource exists, and goes on if it does not, or does.                   *)

exists_first(c, op, request, both, arg, condition) ==
  execute_async(c, command(op, request, both, {NotFound}, arg, condition))

unless_exists(c, op, o, request, accepts) ==
  /\ Accepted(c, op) /\ call[c].step = 1
  /\ IF call[c].resp.code = NotFound THEN Continue(c, obj, request, accepts)
     ELSE Return(c, o, 0)

if_exists(c, op, o, request, accepts) ==
  /\ Accepted(c, op) /\ call[c].step = 1
  /\ IF call[c].resp.code = NotFound THEN Return(c, obj, 0)
     ELSE Continue(c, o, request, accepts)

acted(c, op, o) ==
  /\ Accepted(c, op) /\ call[c].step = 2
  /\ IF Success(call[c].resp.code) THEN Return(c, o, 1) ELSE Return(c, obj, 0)

(* The handler of exists: o is what it makes of the object.                *)
whether_exists(c, o) ==
  /\ Accepted(c, "exists")
  /\ IF call[c].resp.code = NotFound THEN Return(c, obj, 0) ELSE Return(c, o, 1)

-----------------------------------------------------------------------------
(* A method that changes the object and sends nothing.                     *)
Local(o) ==
  /\ left.calls > 0
  /\ left' = [left EXCEPT !.calls = @ - 1]
  /\ obj' = o
  /\ UNCHANGED <<kind, svc, sec, call, calm>>

(* Another client's change.                                                *)
Foreign(state) ==
  /\ left.foreign > 0
  /\ left' = [left EXCEPT !.foreign = @ - 1]
  /\ svc' = state
  /\ call' = Watch(call, state.there)
  /\ calm' = FALSE
  /\ UNCHANGED <<kind, obj, sec>>

CommandInit(k, o, s) ==
  /\ kind = k
  /\ obj = o
  /\ svc = s
  /\ sec = s
  /\ call = [c \in Callers |-> Idle]
  /\ left = [calls |-> MaxCalls, lost |-> MaxLost, foreign |-> MaxForeign]
  /\ calm = TRUE

-----------------------------------------------------------------------------
(* What holds of every object.                                             *)

DeleteIfExists == {"delete_blob_if_exists", "delete_container_if_exists",
                   "delete_if_exists"}

(* create_if_not_exists and delete_if_exists of shares, and the deletion   *)
(* of files, put their question to either location: they may believe what  *)
(* the secondary has.                                                      *)
AsksEither(r) == kind = "share" \/ (kind = "file" /\ r.op = "delete_if_exists")

Found(r, there) == there \in r.seen \/ (AsksEither(r) /\ sec.there = there)

(* The calls that act only if the resource exists, or does not, tell the   *)
(* truth although they ask first and act later, with other clients in      *)
(* between.  True means that this call's request deleted the resource, or  *)
(* created it where there was none; false that at some moment of the call  *)
(* there was nothing to delete, or what was to be created: at the primary, *)
(* or at the secondary for the calls that ask either (AsksEither).  Files  *)
(* are excepted from "where there was none", although file.h:3474 says     *)
(* that true means "the file did not already exist and was created": the   *)
(* request that creates a file has no condition and replaces one that      *)
(* another client has created since the question (cloud_file.cpp:134-141). *)
(* (Of a snapshot, "seen" tells whether its blob exists, so snapshots are  *)
(* left out.)                                                              *)
IfExistsHonest ==
  \A c \in Callers :
    LET r == call[c]
    IN r.st = "returned" /\ kind # "snapshot" =>
         /\ r.op \in DeleteIfExists =>
              /\ r.out = 1 => r.did
              /\ r.out = 0 => Found(r, FALSE)
         /\ r.op = "create_if_not_exists" =>
              /\ r.out = 1 => r.did /\ (kind # "file" => r.pre = Empty)
              /\ r.out = 0 => Found(r, TRUE)

(* A conditional request is performed on the version its caller asked for, *)
(* whoever else wrote meanwhile and however often it was sent: an etag     *)
(* condition protects the caller from overwriting what it has not seen.    *)
Protected(r) ==
  r.did => /\ r.cond.if_match_etag \in {Empty, AnyETag, r.pre}
           /\ \/ r.cond.if_not_modified_since = Empty
              \/ r.pre <= r.cond.if_not_modified_since

(* A call that gives the lease id the resource is leased with is never     *)
(* refused for the lease, whatever the other conditions' handling.         *)
HolderServed ==
  \A c \in Callers :
    /\ call[c].st = "answered"
    /\ call[c].cond = generate_lease_condition(OurLease)
    /\ call[c].resp.code = PreconditionFailed
    => body(c).lease # OurLease

Network(c) == Resend(c) \/ GiveUp(c) \/ Refused(c) \/ timer_fires(c)
=============================================================================

-------------------------- MODULE OutputStreamProofs --------------------------
(***************************************************************************)
(* The output streams, for every length, buffer size, number of permits    *)
(* and of attempts: what a flush or a close that succeeds has stored, and  *)
(* what an append blob holds at any moment.                                *)
(***************************************************************************)
EXTENDS OutputStream, AsyncSemaphoreProofs

(* The theorems about a semaphore with one permit, for the append stream.  *)
Single == INSTANCE AsyncSemaphoreProofs WITH m_initial_count <- 1

(* The parts of the inductive invariant.                                   *)
Steps == {"none", "locking", "sent", "ok", "skipped", "failed", "threw", "dropped"}
Record == [step : Steps, buffer : Seq(Nat), offset : Nat, tries : Nat]
Positions == 1..MaxLength
Syncing == {"flush", "seek", "close"}
Pending == {t \in Tasks : upload[t].step \in {"locking", "sent"}}
End(t) == upload[t].offset + Len(upload[t].buffer)

(* Nothing has gone wrong so far.                                          *)
Clean == \A t \in Tasks : upload[t].step \in {"none", "locking", "sent", "ok"}
Healthy == ~m_currentException /\ Clean

SemInv == IF kind = "append" THEN Single!IInv ELSE IInv

Members ==
    /\ kind \in {"block", "page", "append", "file"} /\ m_currentException \in BOOLEAN
    /\ m_buffer \in Seq(Nat) /\ m_current_blob_offset \in Nat
    /\ m_current_blob_offset + Len(m_buffer) <= MaxLength
    /\ written \in 0..MaxLength /\ image \in [Positions -> Nat]
    /\ writer \in {"none", "closed"} \cup Syncing
    /\ reported \in {"nothing", "waiting", "ok", "failed"}
    /\ upload \in [Tasks -> Record]
    /\ service = [staged |-> service.staged, bytes |-> service.bytes]
    /\ service.bytes = [p \in Positions |-> service.bytes[p]]
    /\ service.staged \in SUBSET Tasks

(* The uploads are the calls of lock_async, numbered in their order, and   *)
(* each carries a character.                                               *)
Numbered ==
    /\ Len(requests) + Len(m_buffer) <= written
    /\ \A i \in 1..Len(requests) : requests[i] = i

(* How the step of an upload, its permit and the exception stand to each   *)
(* other.                                                                  *)
Linked ==
    \A t \in Tasks :
        /\ state[t] = "idle" <=> upload[t].step = "none"
        /\ state[t] \in {"queued", "popped"} => upload[t].step = "locking"
        /\ state[t] = "holding" => upload[t].step \in {"locking", "sent", "ok", "failed"}
        /\ state[t] = "released" => upload[t].step \in {"skipped", "ok", "failed", "threw", "dropped"}
        /\ upload[t].step \in {"skipped", "failed"} => m_currentException
        /\ upload[t].step \in {"threw", "dropped"} => Oversized(t)

(* Blocks on the service.                                                  *)
Staged ==
    \A t \in Tasks :
        /\ upload[t].step = "ok" /\ kind = "block" => t \in service.staged
        /\ t \in service.staged => upload[t].step # "none"

(* The writer's calls.                                                     *)
Calls ==
    /\ writer \in Syncing \cup {"closed"} => m_buffer = <<>>
    /\ writer = "seek" => kind \in {"page", "file"}
    /\ waiter # {} <=> reported = "waiting"
    /\ reported = "waiting" => writer \in Syncing /\ owed = Elements(requests)
    /\ reported = "ok" /\ writer \in {"none", "closed"} =>
        /\ m_buffer = <<>> /\ \A t \in Tasks : state[t] \in {"idle", "released"}
        /\ Threw \/ Healthy

(* Uploads that are under way do not overlap each other or the buffer.     *)
Apart ==
    /\ \A t \in Tasks : upload[t].step # "none" => End(t) <= MaxLength
    /\ \A t \in Pending : End(t) <= m_current_blob_offset
    /\ \A t, u \in Pending : t < u => End(t) <= upload[u].offset

(* Every character is in the buffer, in an upload under way or stored.     *)
Covered(p) == p > m_current_blob_offset /\ p <= m_current_blob_offset + Len(m_buffer)
Within(t, p) == p > upload[t].offset /\ p <= End(t)
Stored ==
    kind # "block" /\ Healthy =>
        \A p \in Positions :
            /\ Covered(p) => image[p] = m_buffer[p - m_current_blob_offset]
            /\ \A t \in Pending : Within(t, p) => image[p] = upload[t].buffer[p - upload[t].offset]
            /\ Covered(p) \/ (\E t \in Pending : Within(t, p)) \/ image[p] = service.bytes[p]

(* The append stream: everything is where its number says, and the service *)
(* has a prefix.                                                           *)
InStreamOrder ==
    /\ m_current_blob_offset + Len(m_buffer) = written
    /\ \A p \in Positions : image[p] = IF p <= written THEN p ELSE 0
    /\ \A i \in 1..Len(m_buffer) : m_buffer[i] = m_current_blob_offset + i
    /\ \A t \in Uploads :
        /\ upload[t].tries >= 1 /\ End(t) <= m_current_blob_offset /\ \A m \in max_size : End(t) <= m
        /\ \A i \in 1..Len(upload[t].buffer) : upload[t].buffer[i] = upload[t].offset + i
    /\ \A t, u \in Uploads : t < u => End(t) <= upload[u].offset
Prefix(n) == \A p \in Positions : service.bytes[p] = IF p <= n THEN p ELSE 0
Prefixed == Length \in Nat /\ Length <= m_current_blob_offset /\ Prefix(Length)

(* Its uploads leave no gap; the length of the blob says which of them are *)
(* applied, and only a repeated request may find itself applied already.   *)
Gapless ==
    Healthy =>
        /\ m_current_blob_offset = 0 \/ \E t \in Uploads : End(t) = m_current_blob_offset
        /\ \A u \in Uploads : upload[u].offset = 0 \/ \E t \in Uploads : t < u /\ End(t) = upload[u].offset
        /\ \A t \in Tasks : upload[t].step = "ok" => End(t) <= Length
        /\ \A t \in Pending : \/ Length <= upload[t].offset
                              \/ upload[t].step = "sent" /\ upload[t].tries > 1 /\ Length = End(t)
        /\ \A t \in Tasks : upload[t].step = "sent" => upload[t].offset <= Length
Appended == kind = "append" => InStreamOrder /\ Prefixed /\ Gapless

OInv == SemInv /\ Members /\ Numbered /\ Linked /\ Staged /\ Calls /\ Apart /\ Stored /\ Appended
-----------------------------------------------------------------------------
(* What the stream uses of its semaphore, whichever it has.                *)
LEMMA SemFacts ==
    ASSUME SemInv
    PROVE  /\ state \in [Tasks -> States] /\ requests \in Seq(Tasks)
           /\ \A t \in Tasks : state[t] # "idle" <=> \E i \in 1..Len(requests) : requests[i] = t
           /\ waiter \subseteq set_events => owed \subseteq In({"released"})
           /\ kind = "append" =>
                \A i, j \in 1..Len(requests) :
                    i < j /\ state[requests[j]] = "holding" => state[requests[i]] = "released"
<1>1. CASE kind # "append"
  BY <1>1 DEF SemInv, IInv, TypeOK, RequestsListed, WaiterOwed, WaitAllIsBarrier
<1>2. CASE kind = "append"
  <2>1. Single!IInv
    BY <1>2 DEF SemInv
  <2>2. /\ state \in [Tasks -> States] /\ requests \in Seq(Tasks)
        /\ \A t \in Tasks : state[t] # "idle" <=> \E i \in 1..Len(requests) : requests[i] = t
        /\ waiter \subseteq set_events => owed \subseteq In({"released"})
    BY <2>1 DEF Single!IInv, Single!TypeOK, Single!RequestsListed, Single!WaiterOwed,
                Single!WaitAllIsBarrier, Single!In, In, Single!States, States
  <2>3. Single!SinglePermitIsFifo
    BY <2>1, Single!IInvFifo
  <2> QED
    BY <2>2, <2>3 DEF Single!SinglePermitIsFifo
<1> QED
  BY <1>1, <1>2

(* Every step of the stream uses the semaphore as AsyncSemaphore says.     *)
LEMMA TakePermit ==
    ASSUME SemInv, NEW t \in Tasks, take_permit(t), UNCHANGED kind
    PROVE  /\ SemInv' /\ state[t] = "idle" /\ requests' = Append(requests, t)
           /\ \E s \in {"holding", "queued"} : state' = [state EXCEPT ![t] = s]
           /\ UNCHANGED <<waiter, owed>>
<1>1. CASE kind # "append"
  <2>1. lock_async(t)
    BY <1>1 DEF take_permit
  <2>2. SemInv'
    BY <1>1, <2>1, LockIInv DEF SemInv
  <2> QED
    BY <2>1, <2>2 DEF lock_async
<1>2. CASE kind = "append"
  <2>1. OnePermit!lock_async(t)
    BY <1>2 DEF take_permit
  <2>2. Single!lock_async(t)
    BY <2>1 DEF OnePermit!lock_async, Single!lock_async, OnePermit!renewed, Single!renewed,
                OnePermit!push, Single!push
  <2>3. SemInv'
    BY <1>2, <2>2, Single!LockIInv DEF SemInv
  <2> QED
    BY <2>1, <2>3 DEF OnePermit!lock_async
<1> QED
  BY <1>1, <1>2

LEMMA Unlock ==
    ASSUME SemInv, NEW t \in Tasks, unlock(t), UNCHANGED kind
    PROVE  /\ SemInv' /\ state[t] = "holding" /\ state'[t] = "released"
           /\ UNCHANGED <<requests, waiter, owed>>
           /\ \A u \in Tasks \ {t} : state'[u] = state[u] \/ (state[u] = "queued" /\ state'[u] = "popped")
<1>1. CASE kind # "append"
  BY <1>1, DequeueIInv, DequeueEffect DEF SemInv, unlock
<1>2. CASE kind = "append"
  <2>1. OnePermit!dequeue_pending(t)
    BY <1>2 DEF unlock
  <2>2. Single!dequeue_pending(t)
    BY <2>1 DEF OnePermit!dequeue_pending, Single!dequeue_pending, OnePermit!free_permit, Single!free_permit,
                OnePermit!hand_over, Single!hand_over
  <2> QED
    BY <1>2, <2>2, Single!DequeueIInv, Single!DequeueEffect DEF SemInv
<1> QED
  BY <1>1, <1>2

LEMMA OtherPermitSteps ==
    ASSUME SemInv, UNCHANGED kind,
           wait_all_async \/ resume \/ UNCHANGED vars \/ \E t \in Tasks : set(t)
    PROVE  SemInv'
<1>1. CASE kind # "append"
  BY <1>1, WaitIInv, SetIInv DEF SemInv
<1>2. CASE kind = "append"
  <2>1. ASSUME wait_all_async \/ resume \/ UNCHANGED vars PROVE SemInv'
    <3>1. Single!wait_all_async \/ Single!resume \/ UNCHANGED Single!vars
      BY <2>1 DEF wait_all_async, Single!wait_all_async, resume, Single!resume, vars, Single!vars,
                  svars, Single!svars, Elements, Single!Elements
    <3> QED
      BY <1>2, <3>1, Single!WaitIInv DEF SemInv
  <2>2. ASSUME NEW t \in Tasks, set(t) PROVE SemInv'
    <3>1. Single!set(t)
      BY <2>2 DEF set, Single!set
    <3> QED
      BY <1>2, <3>1, Single!SetIInv DEF SemInv
  <2> QED
    BY <2>1, <2>2
<1> QED
  BY <1>1, <1>2

-----------------------------------------------------------------------------
(* What a step of an upload does.  To everything else: a queued upload may *)
(* get the permit.                                                         *)
Frame(t) ==
    /\ UNCHANGED <<writers_own, requests, waiter, owed>> /\ SemInv' /\ state' \in [Tasks -> States]
    /\ \A u \in Tasks \ {t} : state'[u] = state[u] \/ (state[u] = "queued" /\ state'[u] = "popped")
    /\ upload' \in [Tasks -> Record]
    /\ \A u \in Tasks \ {t} : upload'[u] = upload[u]
    /\ upload'[t].buffer = upload[t].buffer /\ upload'[t].offset = upload[t].offset
    /\ upload'[t].tries \in {upload[t].tries, upload[t].tries + 1}

(* To itself: one of these.                                                *)
Moves(t, from, to) == upload[t].step = from /\ upload'[t].step = to
Leaves(t) == state[t] = "holding" /\ state'[t] = "released" /\ UNCHANGED <<m_currentException, service>>
Stays(t) == state'[t] = state[t]
Skips(t) == Leaves(t) /\ Moves(t, "locking", "skipped") /\ m_currentException
Throws(t) == Leaves(t) /\ (Moves(t, "locking", "threw") \/ Moves(t, "locking", "dropped")) /\ Oversized(t)
Finishes(t) == Leaves(t) /\ UNCHANGED upload /\ upload[t].step \in {"ok", "failed"}
Gets(t) == state[t] = "popped" /\ state'[t] = "holding" /\ UNCHANGED <<m_currentException, service, upload>>
Sends(t) ==
    /\ state[t] = "holding" /\ Stays(t) /\ Moves(t, "locking", "sent")
    /\ UNCHANGED <<m_currentException, service>>
Keeps(t) == Stays(t) /\ Moves(t, "threw", "failed") /\ m_currentException' = TRUE /\ UNCHANGED service
Stores(t) ==
    /\ Stays(t) /\ Moves(t, "sent", "ok")
    /\ Accepted(t) /\ service' = Applied(t) /\ UNCHANGED m_currentException
Repeats(t) ==
    /\ Stays(t) /\ Moves(t, "sent", "sent") /\ upload'[t].tries = upload[t].tries + 1
    /\ service' = service \/ (Accepted(t) /\ service' = Applied(t))
    /\ UNCHANGED m_currentException
Fails(t) ==
    /\ Stays(t) /\ Moves(t, "sent", "failed") /\ m_currentException' = TRUE
    /\ service' = service \/ (Accepted(t) /\ service' = Applied(t))
Absorbs(t) ==
    /\ Stays(t) /\ Moves(t, "sent", "ok") /\ ~Accepted(t) /\ upload[t].tries > 1
    /\ UNCHANGED <<m_currentException, service>>

Effect(t) ==
    \/ Skips(t) \/ Throws(t) \/ Finishes(t) \/ Gets(t) \/ Sends(t) \/ Keeps(t)
    \/ Stores(t) \/ Repeats(t) \/ Fails(t) \/ Absorbs(t)

LEMMA StepFrame ==
    ASSUME SemInv, Members, NEW t \in Tasks, UNCHANGED writers_own,
           UNCHANGED upload \/ (\E s \in Steps : Step(t, s)) \/ upload' = [upload EXCEPT ![t].tries = @ + 1],
           UNCHANGED vars \/ unlock(t) \/ set(t)
    PROVE  /\ Frame(t)
           /\ UNCHANGED vars => Stays(t)
           /\ unlock(t) => state[t] = "holding" /\ state'[t] = "released"
           /\ set(t) => state[t] = "popped" /\ state'[t] = "holding"
<1>1. UNCHANGED kind
  BY DEF writers_own, options
<1>2. state \in [Tasks -> States]
  BY SemFacts
<1>3. /\ SemInv' /\ UNCHANGED <<requests, waiter, owed>>
      /\ \A u \in Tasks \ {t} : state'[u] = state[u] \/ (state[u] = "queued" /\ state'[u] = "popped")
      /\ UNCHANGED vars => Stays(t)
      /\ unlock(t) => state[t] = "holding" /\ state'[t] = "released"
      /\ set(t) => state[t] = "popped" /\ state'[t] = "holding"
  <2>1. CASE UNCHANGED vars
    <3>1. SemInv' /\ UNCHANGED <<requests, waiter, owed, state>>
      BY <1>1, <2>1, OtherPermitSteps DEF vars, svars
    <3>2. ~set(t)
      BY <1>2, <3>1 DEF set
    <3>3. ~unlock(t)
      BY <1>1, <3>1, Unlock
    <3> QED
      BY <3>1, <3>2, <3>3 DEF Stays
  <2>2. CASE unlock(t)
    <3>1. state[t] = "holding" /\ state'[t] = "released"
      BY <1>1, <2>2, Unlock
    <3>2. ~UNCHANGED vars /\ ~set(t)
      BY <3>1 DEF vars, svars, set
    <3> QED
      BY <1>1, <2>2, <3>2, Unlock
  <2>3. CASE set(t)
    <3>1. SemInv'
      BY <1>1, <2>3, OtherPermitSteps
    <3>2. state[t] = "popped" /\ state'[t] = "holding"
      BY <1>2, <2>3 DEF set
    <3>3. ~UNCHANGED vars
      BY <3>2 DEF vars, svars
    <3>4. ~unlock(t)
      BY <1>1, <3>2, Unlock
    <3> QED
      BY <1>2, <2>3, <3>1, <3>2, <3>3, <3>4 DEF set
  <2> QED
    BY <2>1, <2>2, <2>3
<1>4. state' \in [Tasks -> States]
  BY <1>3 DEF SemInv, IInv, TypeOK, States, Single!IInv, Single!TypeOK, Single!States
<1>5. /\ upload' \in [Tasks -> Record]
      /\ \A u \in Tasks \ {t} : upload'[u] = upload[u]
      /\ upload'[t].buffer = upload[t].buffer /\ upload'[t].offset = upload[t].offset
      /\ upload'[t].tries \in {upload[t].tries, upload[t].tries + 1}
  <2>1. upload \in [Tasks -> Record]
    BY DEF Members
  <2>2. CASE UNCHANGED upload
    BY <2>1, <2>2
  <2>3. ASSUME NEW s \in Steps, upload' = [upload EXCEPT ![t].step = s] PROVE <1>5!:
    BY <2>1, <2>3 DEF Record
  <2>4. CASE upload' = [upload EXCEPT ![t].tries = @ + 1]
    <3>1. upload[t] \in Record /\ upload[t].tries + 1 \in Nat
      BY <2>1 DEF Record
    <3>2. upload' = [upload EXCEPT ![t] = [upload[t] EXCEPT !.tries = upload[t].tries + 1]]
      BY <2>4
    <3> HIDE <2>4
    <3>3. [upload[t] EXCEPT !.tries = upload[t].tries + 1] \in Record
      BY <3>1 DEF Record
    <3>4. upload'[t] = [upload[t] EXCEPT !.tries = upload[t].tries + 1]
      BY <2>1, <3>2
    <3> QED
      BY <2>1, <3>1, <3>2, <3>3, <3>4 DEF Record
  <2> QED
    BY <2>2, <2>3, <2>4 DEF Step
<1> QED
  BY <1>3, <1>4, <1>5 DEF Frame

LEMMA UploadEffect ==
    ASSUME SemInv, Members, Linked, NEW t \in Tasks, Upload(t)
    PROVE  Frame(t) /\ Effect(t)
<1>0. upload \in [Tasks -> Record]
  BY DEF Members
<1>1. CASE skip_upload(t)
  <2>1. Frame(t) /\ state[t] = "holding" /\ state'[t] = "released"
    BY <1>1, StepFrame DEF skip_upload, Steps
  <2> QED
    BY <1>0, <1>1, <2>1 DEF skip_upload, Step, Granted, Record, Effect, Skips, Leaves, Moves
<1>2. CASE start_upload(t)
  <2>1. Frame(t) /\ Stays(t)
    BY <1>2, StepFrame DEF start_upload, Steps
  <2> QED
    BY <1>0, <1>2, <2>1 DEF start_upload, Step, Granted, Record, Effect, Sends, Moves
<1>3. CASE upload_throws(t)
  <2> DEFINE to == IF kind = "block" THEN "threw" ELSE "dropped"
  <2>1. Step(t, to) /\ to \in Steps /\ to \in {"threw", "dropped"}
    BY <1>3 DEF upload_throws, Steps
  <2>2. Frame(t) /\ state[t] = "holding" /\ state'[t] = "released"
    BY <1>3, <2>1, StepFrame DEF upload_throws
  <2>3. Moves(t, "locking", to)
    BY <1>0, <1>3, <2>1 DEF upload_throws, Step, Granted, Record, Moves
  <2> QED
    BY <1>3, <2>1, <2>2, <2>3 DEF upload_throws, Effect, Throws, Leaves
<1>4. CASE keep_thrown(t)
  <2>1. Frame(t) /\ Stays(t)
    BY <1>4, StepFrame DEF keep_thrown, Steps, writers_own
  <2> QED
    BY <1>0, <1>4, <2>1 DEF keep_thrown, Step, Record, Effect, Keeps, Moves
<1>5. CASE upload_succeeds(t)
  <2>1. Frame(t) /\ Stays(t)
    BY <1>5, StepFrame DEF upload_succeeds, Steps
  <2> QED
    BY <1>0, <1>5, <2>1 DEF upload_succeeds, Step, Record, Effect, Stores, Moves
<1>6. CASE attempt_lost(t)
  <2>1. service' = service \/ (Accepted(t) /\ service' = Applied(t))
    BY <1>6 DEF attempt_lost
  <2>2. CASE upload' = [upload EXCEPT ![t].tries = @ + 1] /\ UNCHANGED m_currentException
    <3>1. Frame(t) /\ Stays(t)
      BY <1>6, <2>2, StepFrame DEF attempt_lost
    <3>2. Moves(t, "sent", "sent") /\ upload'[t].tries = upload[t].tries + 1
      BY <1>0, <1>6, <2>2 DEF attempt_lost, Record, Moves
    <3> QED
      BY <2>1, <2>2, <3>1, <3>2 DEF Effect, Repeats
  <2>3. CASE Step(t, "failed") /\ m_currentException' = kept_exception
    <3>1. Frame(t) /\ Stays(t)
      BY <1>6, <2>3, StepFrame DEF attempt_lost, Steps
    <3>2. Moves(t, "sent", "failed")
      BY <1>0, <1>6, <2>3 DEF attempt_lost, Record, Moves, Step
    <3> QED
      BY <2>1, <2>3, <3>1, <3>2 DEF Effect, Fails, kept_exception
  <2> QED
    BY <1>6, <2>2, <2>3 DEF attempt_lost
<1>7. CASE upload_refused(t)
  <2>1. PICK s \in {"ok", "failed"} : Step(t, s)
    BY <1>7 DEF upload_refused
  <2>2. Frame(t) /\ Stays(t)
    BY <1>7, <2>1, StepFrame DEF upload_refused, Steps
  <2>3. Moves(t, "sent", s)
    BY <1>0, <1>7, <2>1 DEF upload_refused, Record, Moves, Step
  <2>4. CASE absorbed(t) /\ Step(t, "ok") /\ UNCHANGED m_currentException
    <3>1. Moves(t, "sent", "ok")
      BY <1>0, <1>7, <2>4 DEF upload_refused, Record, Moves, Step
    <3> QED
      BY <1>7, <2>2, <2>4, <3>1 DEF upload_refused, absorbed, Effect, Absorbs
  <2>5. CASE Step(t, "failed") /\ m_currentException' = kept_exception
    <3>1. Moves(t, "sent", "failed")
      BY <1>0, <1>7, <2>5 DEF upload_refused, Record, Moves, Step
    <3> QED
      BY <1>7, <2>2, <2>5, <3>1 DEF upload_refused, kept_exception, Effect, Fails
  <2> QED
    BY <1>7, <2>4, <2>5 DEF upload_refused
<1>8. CASE finish_upload(t)
  <2>1. Frame(t) /\ state[t] = "holding" /\ state'[t] = "released"
    BY <1>8, StepFrame DEF finish_upload
  <2> QED
    BY <1>8, <2>1 DEF finish_upload, Effect, Finishes, Leaves
<1>9. CASE granted(t)
  <2>1. Frame(t) /\ state[t] = "popped" /\ state'[t] = "holding"
    BY <1>9, StepFrame DEF granted
  <2> QED
    BY <1>9, <2>1 DEF granted, Effect, Gets
<1> QED
  BY <1>1, <1>2, <1>3, <1>4, <1>5, <1>6, <1>7, <1>8, <1>9 DEF Upload


(* What a request that is applied does at the service.                     *)
Applies(t) ==
    /\ service'.staged = (IF kind = "block" THEN service.staged \cup {t} ELSE service.staged)
    /\ \A p \in Positions :
        service'.bytes[p] = IF kind # "block" /\ Within(t, p) THEN upload[t].buffer[p - upload[t].offset]
                            ELSE service.bytes[p]

LEMMA AppliedFacts ==
    ASSUME Members, NEW t \in Tasks, Accepted(t), service' = Applied(t)
    PROVE  /\ service' = [staged |-> service'.staged, bytes |-> service'.bytes]
           /\ service'.bytes = [p \in Positions |-> service'.bytes[p]]
           /\ service'.staged \in SUBSET Tasks
           /\ Applies(t)
<1> DEFINE b == upload[t].buffer
           o == upload[t].offset
<1>0. /\ service = [staged |-> service.staged, bytes |-> service.bytes]
      /\ service.bytes = [p \in Positions |-> service.bytes[p]] /\ DOMAIN service.bytes = Positions
      /\ service.staged \in SUBSET Tasks
  BY DEF Members
<1>1. CASE kind = "block"
  <2>1. service' = [service EXCEPT !.staged = @ \cup {t}]
    BY <1>1 DEF Applied
  <2>2. service'.staged = service.staged \cup {t} /\ service'.bytes = service.bytes
        /\ service' = [staged |-> service'.staged, bytes |-> service'.bytes]
    BY <1>0, <2>1
  <2> QED
    BY <1>0, <1>1, <2>2 DEF Applies
<1>2. CASE kind # "block"
  <2>1. service' = [service EXCEPT !.bytes = Overlaid(service.bytes, o, b)]
    BY <1>2 DEF Applied, Members, Accepted, append_position_matches
  <2>2. service'.staged = service.staged /\ service'.bytes = Overlaid(service.bytes, o, b)
        /\ service' = [staged |-> service'.staged, bytes |-> service'.bytes]
    BY <1>0, <2>1
  <2>3. service'.bytes = [p \in Positions |-> IF p - o \in 1..Len(b) THEN b[p - o] ELSE service.bytes[p]]
    BY <1>0, <2>2 DEF Overlaid
  <2>4. o \in Nat /\ b \in Seq(Nat) /\ Len(b) \in Nat /\ MaxLength \in Nat
    BY StreamAssumption, LenProperties DEF Members, Record
  <2>5. ASSUME NEW p \in Positions PROVE p - o \in 1..Len(b) <=> Within(t, p)
    BY <2>4, <2>5 DEF Within, End, Positions
  <2>6. Applies(t)
    BY <1>2, <2>2, <2>3, <2>5 DEF Applies
  <2> QED
    BY <1>0, <2>2, <2>3, <2>6
<1> QED
  BY <1>1, <1>2

LEMMA UploadMembers ==
    ASSUME Members, Linked, Staged, NEW t \in Tasks, Frame(t), Effect(t)
    PROVE  Members' /\ Linked' /\ Staged'
<1>1. UNCHANGED <<kind, m_buffer, m_current_blob_offset, written, image, writer, reported>>
  BY DEF Frame, writers_own, options, buffer, history
<1>2. /\ service' = [staged |-> service'.staged, bytes |-> service'.bytes]
      /\ service'.bytes = [p \in Positions |-> service'.bytes[p]]
      /\ service'.staged \in SUBSET Tasks
      /\ UNCHANGED service \/ Applies(t)
  BY AppliedFacts DEF Members, Effect, Skips, Throws, Finishes, Gets, Sends, Keeps, Stores, Repeats, Fails, Absorbs, Leaves
<1>3. m_currentException' \in BOOLEAN /\ (m_currentException => m_currentException')
  BY DEF Members, Effect, Skips, Throws, Finishes, Gets, Sends, Keeps, Stores, Repeats, Fails, Absorbs, Leaves
<1>4. Members'
  BY <1>1, <1>2, <1>3 DEF Members, Frame
<1>5. \A u \in Tasks : Oversized(u)' <=> Oversized(u)
  BY <1>1 DEF Oversized, Frame
<1>6. Linked'
  <2> SUFFICES ASSUME NEW u \in Tasks PROVE Linked!(u)'
    BY DEF Linked
  <2>1. CASE u # t
    <3>1. upload'[u] = upload[u] /\ (state'[u] = state[u] \/ (state[u] = "queued" /\ state'[u] = "popped"))
      BY <2>1 DEF Frame
    <3> QED
      BY <1>3, <1>5, <3>1 DEF Linked
  <2>2. CASE u = t
    <3>1. Linked!(t) /\ state'[t] \in States /\ upload'[t].step \in Steps
      BY DEF Linked, Frame, Record
    <3> HIDE DEF Linked
    <3>2. CASE Skips(t) \/ Throws(t)
      BY <1>5, <2>2, <3>1, <3>2 DEF Skips, Throws, Leaves, Moves
    <3>3. CASE Finishes(t) \/ Gets(t)
      BY <1>5, <2>2, <3>1, <3>3 DEF Finishes, Gets, Leaves
    <3>4. CASE Sends(t) \/ Keeps(t)
      BY <1>5, <2>2, <3>1, <3>4 DEF Sends, Keeps, Stays, Moves, States
    <3>5. CASE Stores(t) \/ Repeats(t) \/ Fails(t) \/ Absorbs(t)
      BY <1>5, <2>2, <3>1, <3>5 DEF Stores, Repeats, Fails, Absorbs, Stays, Moves, States
    <3> QED
      BY <3>2, <3>3, <3>4, <3>5 DEF Effect
  <2> QED
    BY <2>1, <2>2
<1>7. Staged'
  <2> SUFFICES ASSUME NEW u \in Tasks PROVE Staged!(u)'
    BY DEF Staged
  <2>1. u \in service'.staged => u \in service.staged \/ u = t
    BY <1>2 DEF Applies
  <2>2. u \in service.staged => u \in service'.staged
    BY <1>2 DEF Applies
  <2>3. upload[u].step # "none" => upload'[u].step # "none"
    BY DEF Frame, Effect, Skips, Throws, Finishes, Gets, Sends, Keeps, Stores, Repeats, Fails, Absorbs, Moves, Leaves
  <2>4. upload'[t].step # "none"
    BY DEF Linked, Effect, Skips, Throws, Finishes, Gets, Sends, Keeps, Stores, Repeats, Fails, Absorbs, Moves, Leaves
  <2>5. ASSUME upload'[u].step = "ok", kind = "block" PROVE u \in service'.staged
    <3>1. CASE upload[u].step = "ok"
      BY <2>2, <2>5, <3>1 DEF Staged
    <3>2. CASE upload[u].step # "ok"
      <4>1. u = t
        BY <2>5, <3>2 DEF Frame
      <4>2. Accepted(t)
        BY <2>5 DEF Accepted
      <4>3. service' = Applied(t)
        BY <2>5, <3>2, <4>1, <4>2 DEF Effect, Skips, Throws, Finishes, Gets, Sends, Keeps, Stores, Repeats, Fails, Absorbs, Moves, Leaves
      <4> QED
        BY <2>5, <4>1, <4>2, <4>3, AppliedFacts DEF Applies
    <3> QED
      BY <3>1, <3>2
  <2> QED
    BY <1>1, <2>1, <2>3, <2>4, <2>5 DEF Staged
<1> QED
  BY <1>4, <1>6, <1>7


(* The writer's calls are not disturbed.                                   *)
LEMMA UploadCalls ==
    ASSUME Members, Numbered, Linked, Calls, Apart, NEW t \in Tasks, Frame(t), Effect(t)
    PROVE  Numbered' /\ Calls' /\ Apart'
<1>1. UNCHANGED <<kind, m_buffer, m_current_blob_offset, written, writer, reported, requests, waiter, owed>>
  BY DEF Frame, writers_own, options, buffer, history
<1>2. Numbered'
  BY <1>1 DEF Numbered
<1>3. \A u \in Tasks : upload'[u].buffer = upload[u].buffer /\ upload'[u].offset = upload[u].offset
                       /\ End(u)' = End(u)
  BY DEF Frame, End
<1>4. Pending' \subseteq Pending
  BY DEF Pending, Frame, Effect, Skips, Throws, Finishes, Gets, Sends, Keeps, Stores, Repeats, Fails, Absorbs, Moves, Leaves
<1>5. \A u \in Tasks : upload'[u].step # "none" => upload[u].step # "none"
  BY DEF Frame, Effect, Skips, Throws, Finishes, Gets, Sends, Keeps, Stores, Repeats, Fails, Absorbs, Moves, Leaves
<1>6. Apart'
  BY <1>1, <1>3, <1>4, <1>5 DEF Apart, Pending
<1>7. ASSUME reported = "ok", writer \in {"none", "closed"}
      PROVE  Threw' /\ \A u \in Tasks : state'[u] \in {"idle", "released"}
  <2>1. \A u \in Tasks : state[u] \in {"idle", "released"}
    BY <1>7 DEF Calls
  <2>2. upload[t].step \notin {"sent", "locking"}
    BY <2>1 DEF Linked
  <2>3. Keeps(t)
    BY <2>1, <2>2 DEF Effect, Skips, Throws, Finishes, Gets, Sends, Stores, Repeats, Fails, Absorbs, Moves, Leaves
  <2>4. Oversized(t)'
    BY <1>1, <1>3, <2>3 DEF Linked, Keeps, Moves, Oversized
  <2>5. Threw'
    BY <2>3, <2>4 DEF Threw, Keeps, Moves
  <2> QED
    BY <2>1, <2>3, <2>5 DEF Frame, Keeps, Stays
<1>8. Calls'
  BY <1>1, <1>7 DEF Calls, Elements
<1> QED
  BY <1>2, <1>6, <1>8

(* A stream that is well after a step was well before it.                  *)
LEMMA WellBefore ==
    ASSUME NEW t \in Tasks, Frame(t), Effect(t), Healthy'
    PROVE  /\ Healthy
           /\ Finishes(t) \/ Gets(t) \/ Sends(t) \/ Stores(t) \/ Repeats(t) \/ Absorbs(t)
<1>1. Finishes(t) \/ Gets(t) \/ Sends(t) \/ Stores(t) \/ Repeats(t) \/ Absorbs(t)
  BY DEF Healthy, Clean, Effect, Skips, Throws, Keeps, Fails, Moves
<1>2. \A u \in Tasks : upload'[u].step \in {"none", "locking", "sent", "ok"}
  BY DEF Healthy, Clean
<1>3. ~m_currentException
  BY <1>1 DEF Healthy, Finishes, Gets, Sends, Stores, Repeats, Absorbs, Leaves
<1>4. \A u \in Tasks : upload[u].step \in {"none", "locking", "sent", "ok"}
  BY <1>1, <1>2 DEF Frame, Finishes, Gets, Sends, Stores, Repeats, Absorbs, Moves
<1> QED
  BY <1>1, <1>3, <1>4 DEF Healthy, Clean

(* A request that is refused on its repetition was applied before.         *)
LEMMA AbsorbedIsStored ==
    ASSUME Members, Appended, Healthy, NEW t \in Tasks, Absorbs(t)
    PROVE  kind = "append" /\ Length = End(t)
<1>1. kind = "append" /\ InStreamOrder /\ Prefixed /\ Gapless
  BY DEF Absorbs, Accepted, Appended
<1>2. t \in Pending /\ t \in Uploads
  BY DEF Absorbs, Moves, Pending, Uploads
<1>3. /\ upload[t].offset \in Nat /\ Len(upload[t].buffer) \in Nat /\ Length \in Nat
      /\ max_size \subseteq Nat
  BY <1>1, StreamAssumption, LenProperties DEF Members, Record, Prefixed
<1>4. upload[t].offset <= Length
  BY <1>1 DEF Gapless, Absorbs, Moves
<1>5. Length = upload[t].offset => Accepted(t)
  BY <1>1, <1>2, <1>3 DEF Accepted, append_position_matches, InStreamOrder, End
<1>6. Length # upload[t].offset
  BY <1>5 DEF Absorbs
<1> QED
  BY <1>1, <1>2, <1>3, <1>4, <1>6 DEF Gapless

LEMMA UploadStored ==
    ASSUME Members, Apart, Stored, Appended, NEW t \in Tasks, Frame(t), Effect(t)
    PROVE  Stored'
<1>1. UNCHANGED <<kind, m_buffer, m_current_blob_offset, image>>
  BY DEF Frame, writers_own, options, buffer, history
<1> SUFFICES ASSUME kind # "block", Healthy', NEW p \in Positions PROVE Stored!2!(p)'
  BY <1>1 DEF Stored
<1>2. Healthy /\ (Finishes(t) \/ Gets(t) \/ Sends(t) \/ Stores(t) \/ Repeats(t) \/ Absorbs(t))
  BY WellBefore
<1>3. /\ Covered(p)' <=> Covered(p)
      /\ \A u \in Tasks : Within(u, p)' <=> Within(u, p)
      /\ \A u \in Tasks : upload'[u].buffer = upload[u].buffer /\ upload'[u].offset = upload[u].offset
  BY <1>1 DEF Covered, Within, End, Frame
<1>4. /\ Covered(p) => image[p] = m_buffer[p - m_current_blob_offset]
      /\ \A u \in Pending : Within(u, p) => image[p] = upload[u].buffer[p - upload[u].offset]
      /\ Covered(p) \/ (\E u \in Pending : Within(u, p)) \/ image[p] = service.bytes[p]
  BY <1>2 DEF Stored
<1>5. Pending' \subseteq Pending /\ \A u \in Pending \ {t} : u \in Pending'
  BY <1>2 DEF Pending, Frame, Finishes, Gets, Sends, Stores, Repeats, Absorbs, Moves
<1>6. CASE Finishes(t) \/ Gets(t) \/ Sends(t)
  <2>1. Pending' = Pending /\ UNCHANGED service
    BY <1>5, <1>6 DEF Pending, Finishes, Gets, Sends, Moves, Leaves
  <2> QED
    BY <1>1, <1>3, <1>4, <2>1 DEF Pending
<1>7. CASE (Stores(t) \/ Repeats(t)) /\ UNCHANGED service /\ t \in Pending'
  BY <1>1, <1>3, <1>4, <1>5, <1>7 DEF Pending
<1>8. CASE (Stores(t) \/ Repeats(t)) /\ Accepted(t) /\ service' = Applied(t)
  <2>1. Applies(t)
    BY <1>8, AppliedFacts
  <2>2. t \in Pending
    BY <1>8 DEF Stores, Repeats, Moves, Pending
  <2> QED
    BY <1>1, <1>3, <1>4, <1>5, <2>1, <2>2 DEF Applies, Pending
<1>9. CASE Absorbs(t)
  <2>1. kind = "append" /\ Length = End(t) /\ UNCHANGED service /\ t \in Pending
    BY <1>2, <1>9, AbsorbedIsStored DEF Absorbs, Moves, Pending
  <2>2. InStreamOrder /\ Prefixed /\ t \in Uploads
    BY <2>1 DEF Appended, Uploads, Pending
  <2>3. /\ Len(m_buffer) \in Nat /\ m_current_blob_offset \in Nat /\ written \in Nat /\ MaxLength \in Nat
        /\ upload[t].offset \in Nat /\ Len(upload[t].buffer) \in Nat
    BY StreamAssumption, LenProperties DEF Members, Record
  <2>4. ASSUME Within(t, p) PROVE image[p] = service.bytes[p]
    <3>1. p <= Length /\ p <= written /\ p \in Nat
      BY <2>1, <2>2, <2>3, <2>4 DEF Within, InStreamOrder, Prefixed, End, Positions
    <3> QED
      BY <2>2, <3>1 DEF InStreamOrder, Prefixed, Prefix
  <2> QED
    BY <1>1, <1>3, <1>4, <1>5, <2>1, <2>4 DEF Pending
<1> QED
  BY <1>2, <1>6, <1>7, <1>8, <1>9 DEF Stores, Repeats, Moves, Pending


(* The length of a blob that holds a prefix.                               *)
LEMMA PrefixLength ==
    ASSUME NEW f, DOMAIN f = Positions, NEW n \in Nat, n <= MaxLength,
           \A p \in Positions : f[p] = IF p <= n THEN p ELSE 0
    PROVE  Cardinality({p \in DOMAIN f : f[p] # 0}) = n
<1>1. MaxLength \in Nat
  BY StreamAssumption
<1>2. {p \in DOMAIN f : f[p] # 0} = 1..n
  BY <1>1 DEF Positions
<1>3. Cardinality(1..n) = n
  BY FS_Interval
<1> QED
  BY <1>2, <1>3

(* The one permit of an append stream goes round in the order of the       *)
(* stream.                                                                 *)
LEMMA EarlierIsOver ==
    ASSUME SemInv, Numbered, Linked, kind = "append", NEW t \in Tasks, NEW u \in Tasks,
           u < t, state[t] = "holding", upload[u].step # "none"
    PROVE  upload[u].step \notin {"locking", "sent"}
<1>1. state[u] # "idle" /\ state[t] # "idle" /\ Len(requests) \in Nat
  BY SemFacts, LenProperties DEF Linked
<1>2. /\ u \in 1..Len(requests) /\ requests[u] = u
      /\ t \in 1..Len(requests) /\ requests[t] = t
  BY <1>1, SemFacts DEF Numbered
<1>3. state[u] = "released"
  BY <1>2, SemFacts
<1> QED
  BY <1>3 DEF Linked

LEMMA UploadAppended ==
    ASSUME SemInv, Members, Numbered, Linked, Appended, NEW t \in Tasks, Frame(t), Effect(t)
    PROVE  Appended'
<1>1. UNCHANGED <<kind, m_buffer, m_current_blob_offset, image, written>>
  BY DEF Frame, writers_own, options, buffer, history
<1> SUFFICES ASSUME kind = "append" PROVE InStreamOrder' /\ Prefixed' /\ Gapless'
  BY <1>1 DEF Appended
<1>2. InStreamOrder /\ Prefixed /\ Gapless
  BY DEF Appended
<1>3. /\ \A u \in Tasks : upload'[u].buffer = upload[u].buffer /\ upload'[u].offset = upload[u].offset
      /\ \A u \in Tasks : End(u)' = End(u)
  BY DEF Frame, End
<1>4. Uploads' = Uploads
  BY DEF Uploads, Frame, Effect, Skips, Throws, Finishes, Gets, Sends, Keeps, Stores, Repeats, Fails, Absorbs, Moves, Leaves
<1>5. \A u \in Tasks : /\ upload[u].offset \in Nat /\ Len(upload[u].buffer) \in Nat /\ End(u) \in Nat
                       /\ upload[u].tries \in Nat /\ upload'[u].tries \in Nat /\ u \in Nat
  <2>1. \A u \in Tasks : upload[u] \in Record /\ upload'[u] \in Record
    BY DEF Members, Frame
  <2>2. \A u \in Tasks : upload[u].offset \in Nat /\ Len(upload[u].buffer) \in Nat
                         /\ upload[u].tries \in Nat /\ upload'[u].tries \in Nat
    BY <2>1, LenProperties DEF Record
  <2>3. \A u \in Tasks : u \in Nat
    BY StreamAssumption, FS_CardinalityType
  <2> QED
    BY <2>2, <2>3 DEF End
<1>6. /\ Len(m_buffer) \in Nat /\ m_current_blob_offset \in Nat /\ MaxLength \in Nat /\ Length \in Nat
      /\ m_current_blob_offset <= MaxLength
  BY <1>2, StreamAssumption, LenProperties DEF Members, Prefixed
<1>7. \A u \in Uploads : upload'[u].tries >= 1
  <2>1. \A u \in Uploads : upload[u].tries >= 1
    BY <1>2 DEF InStreamOrder
  <2>2. upload'[t].tries = upload[t].tries \/ upload'[t].tries = upload[t].tries + 1
    BY DEF Frame
  <2> QED
    BY <1>5, <2>1, <2>2 DEF Frame, Uploads
<1>8. InStreamOrder'
  BY <1>1, <1>2, <1>3, <1>4, <1>7 DEF InStreamOrder, Uploads
<1>9. \/ UNCHANGED service /\ ~Stores(t)
      \/ (Stores(t) \/ Repeats(t) \/ Fails(t)) /\ Accepted(t) /\ service' = Applied(t)
  BY DEF Effect, Skips, Throws, Finishes, Gets, Sends, Keeps, Stores, Repeats, Fails, Absorbs, Leaves
<1>10. /\ Prefixed'
       /\ \/ Length' = Length /\ ~Stores(t)
          \/ /\ Stores(t) \/ Repeats(t) \/ Fails(t)
             /\ upload[t].step = "sent" /\ upload[t].offset = Length /\ Length' = End(t)
  <2>1. CASE UNCHANGED service /\ ~Stores(t)
    BY <1>1, <1>2, <2>1 DEF Length, Prefixed, Prefix
  <2>2. CASE (Stores(t) \/ Repeats(t) \/ Fails(t)) /\ Accepted(t) /\ service' = Applied(t)
    <3>0. upload[t].step = "sent"
      BY <2>2 DEF Stores, Repeats, Fails, Moves
    <3>1. Applies(t) /\ DOMAIN service'.bytes = Positions
      BY <2>2, AppliedFacts
    <3>2. upload[t].offset = Length /\ t \in Uploads
      BY <2>2, <3>0 DEF Accepted, append_position_matches, Uploads
    <3>3. End(t) <= m_current_blob_offset
      BY <1>2, <3>2 DEF InStreamOrder
    <3>4. ASSUME NEW p \in Positions PROVE service'.bytes[p] = IF p <= End(t) THEN p ELSE 0
      <4>1. p \in Nat /\ p >= 1
        BY <1>6 DEF Positions
      <4>2. CASE Within(t, p)
        <5>1. p - upload[t].offset \in 1..Len(upload[t].buffer)
          BY <1>5, <4>1, <4>2 DEF Within, End
        <5>2. upload[t].buffer[p - upload[t].offset] = upload[t].offset + (p - upload[t].offset)
          BY <1>2, <3>2, <5>1 DEF InStreamOrder
        <5>3. service'.bytes[p] = upload[t].buffer[p - upload[t].offset]
          BY <3>1, <4>2 DEF Applies
        <5> QED
          BY <1>5, <4>1, <4>2, <5>2, <5>3 DEF Within
      <4>3. CASE ~Within(t, p)
        <5>1. service'.bytes[p] = IF p <= Length THEN p ELSE 0
          BY <1>2, <3>1, <4>3 DEF Applies, Prefixed, Prefix
        <5>2. p <= Length <=> p <= End(t)
          BY <1>5, <1>6, <3>2, <4>1, <4>3 DEF Within, End
        <5> QED
          BY <5>1, <5>2
      <4> QED
        BY <4>2, <4>3
    <3>5. End(t) \in Nat /\ End(t) <= MaxLength
      BY <1>5, <1>6, <3>3
    <3>6. Length' = End(t)
      BY <3>1, <3>4, <3>5, PrefixLength DEF Length
    <3> QED
      BY <1>1, <2>2, <3>0, <3>2, <3>3, <3>4, <3>5, <3>6 DEF Prefixed, Prefix
  <2> QED
    BY <1>9, <2>1, <2>2
<1>11. Length' \in Nat /\ Length <= Length'
  BY <1>5, <1>6, <1>10 DEF Prefixed, End
<1>12. ASSUME Healthy' PROVE Gapless!2'
  <2>1. Healthy /\ (Finishes(t) \/ Gets(t) \/ Sends(t) \/ Stores(t) \/ Repeats(t) \/ Absorbs(t))
    BY <1>12, WellBefore
  <2>2. Gapless!2
    BY <1>2, <2>1 DEF Gapless
  <2>3. \A u \in Uploads : upload'[u].offset = 0 \/ \E v \in Uploads : v < u /\ End(v)' = upload'[u].offset
    BY <1>3, <2>2 DEF Uploads
  <2>7. m_current_blob_offset = 0 \/ \E v \in Uploads : End(v)' = m_current_blob_offset
    BY <1>3, <2>2 DEF Uploads
  <2>4. ASSUME NEW u \in Tasks, upload'[u].step = "ok" PROVE End(u) <= Length'
    <3>1. CASE upload[u].step = "ok"
      BY <1>5, <1>6, <1>11, <2>2, <3>1
    <3>2. CASE upload[u].step # "ok"
      <4>1. u = t /\ (Stores(t) \/ Absorbs(t))
        BY <2>1, <2>4, <3>2 DEF Frame, Finishes, Gets, Sends, Repeats, Moves
      <4>2. CASE Absorbs(t)
        BY <1>5, <1>6, <1>11, <2>1, <4>1, <4>2, AbsorbedIsStored
      <4>3. CASE Stores(t)
        BY <1>5, <1>10, <4>1, <4>3
      <4> QED
        BY <4>1, <4>2, <4>3
    <3> QED
      BY <3>1, <3>2
  <2>5. ASSUME NEW u \in Tasks, upload'[u].step \in {"locking", "sent"}
        PROVE  \/ Length' <= upload[u].offset
               \/ upload'[u].step = "sent" /\ upload'[u].tries > 1 /\ Length' = End(u)
    <3>1. u \in Pending /\ u \in Uploads
      BY <2>1, <2>5 DEF Pending, Uploads, Frame, Finishes, Gets, Sends, Stores, Repeats, Absorbs, Moves
    <3>2. \/ Length <= upload[u].offset
          \/ upload[u].step = "sent" /\ upload[u].tries > 1 /\ Length = End(u)
      BY <2>2, <3>1
    <3>3. CASE Length' = Length
      <4>1. upload[u].step = "sent" => upload'[u].step = "sent"
        BY <2>1, <2>5 DEF Frame, Finishes, Gets, Sends, Stores, Repeats, Absorbs, Moves
      <4>2. upload[u].tries > 1 => upload'[u].tries > 1
        BY <1>5 DEF Frame
      <4> QED
        BY <3>2, <3>3, <4>1, <4>2
    <3>4. CASE /\ Stores(t) \/ Repeats(t) \/ Fails(t)
               /\ upload[t].step = "sent" /\ upload[t].offset = Length /\ Length' = End(t)
      <4>1. CASE u = t
        <5>1. Repeats(t)
          BY <2>5, <3>4, <4>1 DEF Stores, Fails, Moves
        <5>2. upload[t].tries >= 1
          BY <1>2, <3>1, <4>1 DEF InStreamOrder
        <5> QED
          BY <1>5, <3>4, <4>1, <5>1, <5>2 DEF Repeats, Moves
      <4>2. CASE t < u
        <5>1. t \in Uploads
          BY <3>4 DEF Uploads
        <5> QED
          BY <1>2, <3>1, <3>4, <4>2, <5>1 DEF InStreamOrder
      <4>3. CASE u < t
        <5>1. state[t] = "holding"
          BY <3>4, SemFacts DEF Linked, States
        <5>2. upload[u].step \notin {"locking", "sent"}
          BY <3>1, <4>3, <5>1, EarlierIsOver DEF Uploads
        <5> QED
          BY <3>1, <5>2 DEF Pending
      <4> QED
        BY <1>5, <4>1, <4>2, <4>3
    <3> QED
      BY <1>10, <3>3, <3>4
  <2>6. ASSUME NEW u \in Tasks, upload'[u].step = "sent" PROVE upload[u].offset <= Length'
    <3>1. CASE upload[u].step = "sent"
      BY <1>5, <1>6, <1>11, <2>2, <3>1
    <3>2. CASE upload[u].step # "sent"
      <4>1. u = t /\ Sends(t)
        BY <2>1, <2>6, <3>2 DEF Frame, Finishes, Gets, Stores, Repeats, Absorbs, Moves
      <4>2. t \in Uploads /\ state[t] = "holding"
        BY <4>1 DEF Sends, Moves, Uploads
      <4>3. CASE upload[t].offset = 0
        BY <1>11, <4>1, <4>3
      <4>4. ASSUME NEW v \in Uploads, v < t, End(v) = upload[t].offset PROVE upload[t].offset <= Length'
        <5>1. v \in Tasks /\ upload[v].step # "none"
          BY DEF Uploads
        <5>2. upload[v].step \notin {"locking", "sent"}
          BY <4>2, <4>4, <5>1, EarlierIsOver
        <5>3. upload[v].step = "ok"
          BY <2>1, <5>1, <5>2 DEF Healthy, Clean
        <5>4. End(v) <= Length
          BY <2>2, <5>1, <5>3
        <5> QED
          BY <1>5, <1>6, <1>11, <4>4, <5>4
      <4> QED
        BY <2>2, <4>1, <4>2, <4>3, <4>4
    <3> QED
      BY <3>1, <3>2
  <2> QED
    BY <1>1, <1>3, <1>4, <2>3, <2>4, <2>5, <2>6, <2>7 DEF Pending, Uploads
<1> QED
  BY <1>8, <1>10, <1>12 DEF Gapless

-----------------------------------------------------------------------------
(* The writer's steps.  b is what upload_buffer finds in the buffer: the   *)
(* buffer itself, or the buffer and one character more.                    *)
Filled(b) ==
    /\ b \in Seq(Nat) /\ m_current_blob_offset + Len(b) <= MaxLength
    /\ written' \in 0..MaxLength /\ Len(requests) + Len(b) <= written'
    /\ image' \in [Positions -> Nat]
    /\ kind # "block" /\ Healthy =>
        \A p \in Positions :
            IF p > m_current_blob_offset /\ p <= m_current_blob_offset + Len(b)
            THEN image'[p] = b[p - m_current_blob_offset]
            ELSE image'[p] = image[p] /\ ~Covered(p)
    /\ kind = "append" =>
        /\ m_current_blob_offset + Len(b) = written'
        /\ \A p \in Positions : image'[p] = IF p <= written' THEN p ELSE 0
        /\ \A i \in 1..Len(b) : b[i] = m_current_blob_offset + i

LEMMA BufferIsFilled ==
    ASSUME Members, Numbered, Stored, Appended, UNCHANGED <<image, written>>
    PROVE  Filled(m_buffer)
<1>1. m_buffer \in Seq(Nat) /\ Len(m_buffer) \in Nat /\ m_current_blob_offset \in Nat
  BY LenProperties DEF Members
<1>2. kind # "block" /\ Healthy => \A p \in Positions : Covered(p) => image[p] = m_buffer[p - m_current_blob_offset]
  BY DEF Stored
<1>3. kind = "append" => InStreamOrder
  BY DEF Appended
<1> QED
  BY <1>1, <1>2, <1>3 DEF Filled, Members, Numbered, Covered, InStreamOrder

LEMMA PutFills ==
    ASSUME Members, Numbered, Stored, Appended, put
    PROVE  Filled(Append(m_buffer, written + 1))
<1> DEFINE n == Len(m_buffer)
           o == m_current_blob_offset
           b == Append(m_buffer, written + 1)
<1>1. /\ m_buffer \in Seq(Nat) /\ n \in Nat /\ o \in Nat /\ written \in Nat /\ MaxLength \in Nat
      /\ image \in [Positions -> Nat]
  BY StreamAssumption, LenProperties DEF Members
<1>2. /\ written < MaxLength /\ o + n + 1 \in Positions
      /\ image' = [image EXCEPT ![o + n + 1] = written + 1] /\ written' = written + 1
  BY <1>1 DEF put
<1>3. b \in Seq(Nat) /\ Len(b) = n + 1 /\ b[n + 1] = written + 1 /\ \A i \in 1..n : b[i] = m_buffer[i]
  BY <1>1, AppendProperties
<1>4. o + Len(b) <= MaxLength /\ written' \in 0..MaxLength /\ image' \in [Positions -> Nat]
  BY <1>1, <1>2, <1>3 DEF Positions
<1>5. Len(requests) + Len(b) <= written'
  BY <1>1, <1>2, <1>3, LenProperties DEF Numbered
<1>6. ASSUME kind # "block", Healthy, NEW p \in Positions
      PROVE  IF p > o /\ p <= o + Len(b) THEN image'[p] = b[p - o] ELSE image'[p] = image[p] /\ ~Covered(p)
  <2>1. p \in Nat /\ p - o \in Int
    BY <1>1 DEF Positions
  <2>2. Covered(p) => image[p] = m_buffer[p - o]
    BY <1>6 DEF Stored
  <2>3. CASE p = o + n + 1
    <3>1. p - o = n + 1 /\ p > o /\ p <= o + (n + 1)
      BY <1>1, <2>3
    <3> QED
      BY <1>1, <1>2, <1>3, <2>3, <3>1
  <2>4. CASE p # o + n + 1
    <3>1. image'[p] = image[p]
      BY <1>1, <1>2, <2>4
    <3>2. (p > o /\ p <= o + (n + 1)) <=> Covered(p)
      BY <1>1, <2>1, <2>4 DEF Covered
    <3>3. Covered(p) => p - o \in 1..n
      BY <1>1, <2>1 DEF Covered
    <3> QED
      BY <1>3, <2>2, <3>1, <3>2, <3>3
  <2> QED
    BY <2>3, <2>4
<1>7. ASSUME kind = "append"
      PROVE  /\ o + Len(b) = written'
             /\ \A p \in Positions : image'[p] = IF p <= written' THEN p ELSE 0
             /\ \A i \in 1..Len(b) : b[i] = o + i
  <2>1. InStreamOrder
    BY <1>7 DEF Appended
  <2>2. o + n = written /\ \A i \in 1..n : m_buffer[i] = o + i
    BY <2>1 DEF InStreamOrder
  <2>3. \A p \in Positions : image[p] = IF p <= written THEN p ELSE 0
    BY <2>1 DEF InStreamOrder
  <2>4. \A p \in Positions : image'[p] = IF p <= written' THEN p ELSE 0
    BY <1>1, <1>2, <2>2, <2>3 DEF Positions
  <2> QED
    BY <1>1, <1>2, <1>3, <2>2, <2>4
<1> QED
  BY <1>3, <1>4, <1>5, <1>6, <1>7 DEF Filled

(* The number of the next upload.                                          *)
LEMMA NextTaskFacts ==
    ASSUME SemInv, Members, Numbered, Linked
    PROVE  /\ Uploads = 1..Len(requests) /\ Len(requests) \in Nat /\ NextTask = Len(requests) + 1
           /\ Len(requests) < MaxLength => NextTask \in Tasks
<1>1. requests \in Seq(Tasks) /\ Len(requests) \in Nat /\ \A i \in 1..Len(requests) : requests[i] = i /\ i \in Tasks
  <2>1. requests \in Seq(Tasks) /\ \A i \in 1..Len(requests) : requests[i] = i
    BY SemFacts DEF Numbered
  <2> QED
    BY <2>1, LenProperties, ElementOfSeq
<1>2. Uploads = 1..Len(requests)
  BY <1>1, SemFacts DEF Uploads, Linked
<1>3. Cardinality(1..Len(requests)) = Len(requests)
  BY <1>1, FS_Interval
<1>4. /\ Tasks = 1..Cardinality(Tasks) /\ Cardinality(Tasks) \in Nat
      /\ MaxLength \in Nat /\ MaxLength <= Cardinality(Tasks)
  BY StreamAssumption, FS_CardinalityType
<1> QED
  BY <1>1, <1>2, <1>3, <1>4 DEF NextTask


LEMMA UploadTypes ==
    ASSUME Members
    PROVE  \A t \in Tasks : /\ upload[t].buffer \in Seq(Nat) /\ Len(upload[t].buffer) \in Nat
                            /\ upload[t].offset \in Nat /\ End(t) \in Nat /\ t \in Nat
<1>1. ASSUME NEW t \in Tasks PROVE upload[t].buffer \in Seq(Nat) /\ upload[t].offset \in Nat
  BY DEF Members, Record
<1>2. Cardinality(Tasks) \in Nat /\ Tasks = 1..Cardinality(Tasks)
  BY StreamAssumption, FS_CardinalityType
<1>3. \A t \in Tasks : t \in Nat
  BY <1>2
<1> QED
  BY <1>1, <1>3, LenProperties DEF End

(* All but what depends on the writer's call.                              *)
Rest == SemInv /\ Members /\ Numbered /\ Linked /\ Staged /\ Apart /\ Stored /\ Appended
CallTypes == writer \in {"none", "closed"} \cup Syncing /\ reported \in {"nothing", "waiting", "ok", "failed"}

LEMMA BufferKept ==
    ASSUME Rest, CallTypes', NEW b, Filled(b), m_buffer' = b, SemInv',
           UNCHANGED <<state, requests, kind, m_current_blob_offset, m_currentException, upload, service>>
    PROVE  Rest'
<1> USE DEF Rest
<1>2. Members'
  BY DEF Members, Filled, CallTypes
<1>3. Numbered' /\ Linked' /\ Staged'
  BY DEF Numbered, Filled, Linked, Staged, Oversized
<1>4. /\ Pending' = Pending /\ Uploads' = Uploads /\ Healthy' = Healthy /\ Length' = Length
      /\ \A t : End(t)' = End(t)
      /\ \A t, p : Within(t, p)' <=> Within(t, p)
  BY DEF Pending, Uploads, Healthy, Clean, Length, End, Within
<1>5. Apart'
  BY <1>4 DEF Apart
<1>6. Appended'
  <2>1. SUFFICES ASSUME kind = "append" PROVE InStreamOrder' /\ Prefixed' /\ Gapless'
    BY DEF Appended
  <2>2. InStreamOrder'
    BY <1>4, <2>1 DEF Appended, InStreamOrder, Filled
  <2>3. Prefixed'
    BY <1>4, <2>1 DEF Appended, Prefixed, Prefix
  <2>4. Gapless'
    BY <1>4, <2>1 DEF Appended, Gapless
  <2> QED
    BY <2>2, <2>3, <2>4
<1>7. Stored'
  <2> SUFFICES ASSUME kind # "block", Healthy, NEW p \in Positions PROVE Stored!2!(p)'
    BY <1>4 DEF Stored
  <2>1. Covered(p)' <=> p > m_current_blob_offset /\ p <= m_current_blob_offset + Len(b)
    BY DEF Covered
  <2>2. /\ Covered(p)' => image'[p] = b[p - m_current_blob_offset]
        /\ ~Covered(p)' => image'[p] = image[p] /\ ~Covered(p)
    BY <2>1 DEF Filled
  <2>3. ASSUME NEW t \in Pending, Within(t, p) PROVE ~Covered(p)'
    <3>1. End(t) <= m_current_blob_offset /\ t \in Tasks
      BY DEF Apart, Pending
    <3>2. End(t) \in Nat /\ m_current_blob_offset \in Nat /\ p \in Nat
      BY <3>1, StreamAssumption, LenProperties DEF Members, Record, End, Positions
    <3> QED
      BY <2>1, <2>3, <3>1, <3>2 DEF Within
  <2>4. /\ \A t \in Pending : Within(t, p) => image[p] = upload[t].buffer[p - upload[t].offset]
        /\ Covered(p) \/ (\E t \in Pending : Within(t, p)) \/ image[p] = service.bytes[p]
    BY DEF Stored
  <2>5. \A t \in Pending : Within(t, p) => image'[p] = upload[t].buffer[p - upload[t].offset]
    BY <2>2, <2>3, <2>4
  <2>6. Covered(p)' \/ (\E t \in Pending : Within(t, p)) \/ image'[p] = service.bytes[p]
    BY <2>2, <2>4
  <2> QED
    BY <1>4, <2>2, <2>5, <2>6
<1> QED
  BY <1>2, <1>3, <1>5, <1>6, <1>7

(* A buffer beyond max_size is dropped with an exception.                  *)
LEMMA BufferRefused ==
    ASSUME Rest, CallTypes', NEW b, Filled(b), kind = "append", m_buffer' = <<>>, m_currentException' = TRUE,
           m_current_blob_offset' = m_current_blob_offset + Len(b), UNCHANGED <<vars, kind, upload, service>>
    PROVE  Rest'
<1> USE DEF Rest
<1>0. /\ UNCHANGED <<state, requests>> /\ ~Healthy'
      /\ Len(b) \in Nat /\ m_current_blob_offset \in Nat /\ <<>> \in Seq(Nat) /\ Len(<<>>) = 0
      /\ Len(requests) \in Nat /\ MaxLength \in Nat /\ written' \in Nat
  BY StreamAssumption, SemFacts, EmptySeq, LenProperties DEF vars, svars, Healthy, Filled, Members
<1>1. SemInv'
  BY OtherPermitSteps
<1>2. Members'
  BY <1>0 DEF Members, Filled, CallTypes
<1>3. Numbered' /\ Linked' /\ Staged'
  <2>1. Numbered'
    BY <1>0 DEF Numbered, Filled
  <2> QED
    BY <1>0, <2>1 DEF Linked, Staged, Oversized
<1>4. /\ Pending' = Pending /\ Uploads' = Uploads /\ Length' = Length
      /\ \A t : End(t)' = End(t)
      /\ \A t \in Tasks : End(t) \in Nat
  <2>1. \A t \in Tasks : End(t) \in Nat
    BY UploadTypes
  <2> QED
    BY <2>1 DEF Pending, Uploads, Length, End
<1>5. Apart'
  BY <1>0, <1>4 DEF Apart, Pending
<1>6. Appended'
  <2>1. InStreamOrder /\ Prefixed
    BY DEF Appended
  <2>2. InStreamOrder'
    <3>1. \A t \in Uploads : End(t) \in Nat
      BY <1>4 DEF Uploads
    <3>2. \A t \in Uploads : End(t) <= m_current_blob_offset'
      BY <1>0, <2>1, <3>1 DEF InStreamOrder
    <3> QED
      BY <1>0, <1>4, <2>1, <3>2 DEF InStreamOrder, Filled
  <2>3. Prefixed'
    BY <1>0, <1>4, <2>1 DEF Prefixed, Prefix
  <2> QED
    BY <1>0, <2>2, <2>3 DEF Appended, Gapless
<1> QED
  BY <1>0, <1>1, <1>2, <1>3, <1>5, <1>6 DEF Stored


(* A buffer becomes the next upload.                                       *)
LEMMA BufferUploaded ==
    ASSUME Rest, CallTypes', NEW b, Filled(b), b # <<>>, ~beyond_max_size(b), m_buffer' = <<>>,
           m_current_blob_offset' = m_current_blob_offset + Len(b),
           take_permit(NextTask), UNCHANGED <<kind, m_currentException, service>>,
           upload' = [upload EXCEPT ![NextTask] =
                          [step |-> "locking", buffer |-> b, offset |-> m_current_blob_offset, tries |-> 1]]
    PROVE  Rest'
<1> DEFINE o == m_current_blob_offset
           r == [step |-> "locking", buffer |-> b, offset |-> o, tries |-> 1]
<1> USE DEF Rest
<1>1. /\ b \in Seq(Nat) /\ Len(b) \in Nat /\ Len(b) >= 1 /\ o \in Nat /\ MaxLength \in Nat /\ written' \in 0..MaxLength
      /\ o + Len(b) <= MaxLength /\ <<>> \in Seq(Nat) /\ Len(<<>>) = 0
      /\ max_size \in SUBSET Nat
  <2>1. b \in Seq(Nat) /\ o \in Nat /\ MaxLength \in Nat /\ written' \in 0..MaxLength /\ o + Len(b) <= MaxLength
        /\ max_size \in SUBSET Nat
    BY StreamAssumption DEF Filled, Members
  <2> QED
    BY <2>1, EmptySeq, LenProperties
<1>0. PICK n \in Tasks : n = NextTask
  <2>1. Len(requests) + Len(b) <= written'
    BY DEF Filled
  <2> QED
    BY <1>1, <2>1, NextTaskFacts
<1>2. /\ Uploads = 1..Len(requests) /\ Len(requests) \in Nat /\ n = Len(requests) + 1
      /\ n \notin Uploads /\ \A t \in Uploads : t \in Tasks /\ t < n
  <2>1. Uploads = 1..Len(requests) /\ Len(requests) \in Nat /\ n = Len(requests) + 1
    BY <1>0, NextTaskFacts
  <2> QED
    BY <2>1 DEF Uploads
<1>3. /\ SemInv' /\ state[n] = "idle" /\ requests' = Append(requests, n)
      /\ \E s \in {"holding", "queued"} : state' = [state EXCEPT ![n] = s]
  BY <1>0, TakePermit
<1>4. /\ state \in [Tasks -> States] /\ requests \in Seq(Tasks)
      /\ state'[n] \in {"holding", "queued"} /\ \A t \in Tasks \ {n} : state'[t] = state[t]
  BY <1>2, <1>3, SemFacts
<1>5. /\ upload \in [Tasks -> Record] /\ r \in Record /\ upload'[n] = r /\ upload' \in [Tasks -> Record]
      /\ \A t \in Tasks \ {n} : upload'[t] = upload[t]
      /\ upload[n].step = "none"
  <2>1. upload \in [Tasks -> Record] /\ r \in Record
    BY <1>1 DEF Members, Record, Steps
  <2>2. upload[n].step = "none"
    BY <1>2, <1>3 DEF Linked
  <2> HIDE DEF r
  <2>3. upload' = [upload EXCEPT ![n] = r]
    BY <1>0 DEF r
  <2> QED
    BY <1>2, <2>1, <2>2, <2>3
<1>6. /\ upload'[n].step = "locking" /\ upload'[n].buffer = b /\ upload'[n].offset = o /\ upload'[n].tries = 1
      /\ End(n)' = o + Len(b)
  BY <1>5 DEF End
<1>7. \A t \in Tasks \ {n} : End(t)' = End(t)
  BY <1>5 DEF End
<1>8. /\ Uploads' = Uploads \cup {n} /\ Pending' = Pending \cup {n} /\ Pending \in SUBSET Uploads
      /\ n \notin Pending
  BY <1>2, <1>5, <1>6 DEF Uploads, Pending
<1>9. Healthy' => Healthy
  BY <1>5 DEF Healthy, Clean
<1> HIDE DEF r
<1>10. Members'
  BY <1>1, <1>5 DEF Members, Filled, CallTypes
<1>11. Numbered'
  <2>1. Len(requests') = Len(requests) + 1 /\ requests'[Len(requests) + 1] = n
        /\ \A i \in 1..Len(requests) : requests'[i] = requests[i]
    BY <1>2, <1>3, <1>4, AppendProperties
  <2>2. Len(requests) + Len(b) <= written'
    BY DEF Filled
  <2>3. \A i \in 1..Len(requests') : requests'[i] = i
    BY <1>2, <2>1 DEF Numbered
  <2> QED
    BY <1>1, <1>2, <2>1, <2>2, <2>3 DEF Numbered
<1>12. Linked' /\ Staged'
  <2>1. \A t \in Tasks \ {n} : Oversized(t)' <=> Oversized(t)
    BY <1>5 DEF Oversized
  <2>2. Linked'
    BY <1>4, <1>5, <1>6, <2>1 DEF Linked
  <2>3. Staged'
    BY <1>5, <1>6 DEF Staged
  <2> QED
    BY <2>2, <2>3
<1>13. \A t \in Pending : End(t) <= o /\ t \in Tasks /\ t # n /\ t < n /\ End(t) \in Nat /\ upload[t].offset \in Nat
  BY <1>2, <1>8, UploadTypes DEF Apart
<1>14. Apart'
  <2>1. ASSUME NEW t \in Tasks, upload'[t].step # "none" PROVE End(t)' <= MaxLength
    BY <1>1, <1>5, <1>6, <1>7, <2>1 DEF Apart
  <2>2. ASSUME NEW t \in Pending' PROVE End(t)' <= m_current_blob_offset'
    BY <1>1, <1>6, <1>7, <1>8, <1>13, <2>2
  <2>3. ASSUME NEW t \in Pending', NEW u \in Pending', t < u PROVE End(t)' <= upload'[u].offset
    <3>1. CASE t = n
      BY <1>2, <1>8, <1>13, <2>3, <3>1
    <3>2. CASE t # n /\ u = n
      BY <1>6, <1>7, <1>8, <1>13, <3>2
    <3>3. CASE t # n /\ u # n
      BY <1>5, <1>7, <1>8, <1>13, <2>3, <3>3 DEF Apart
    <3> QED
      BY <3>1, <3>2, <3>3
  <2> QED
    BY <2>1, <2>2, <2>3 DEF Apart
<1>15. Stored'
  <2> SUFFICES ASSUME kind # "block", Healthy', NEW p \in Positions PROVE Stored!2!(p)'
    BY DEF Stored
  <2>1. p \in Nat
    BY <1>1 DEF Positions
  <2>2. /\ ~Covered(p)'
        /\ Within(n, p)' <=> p > o /\ p <= o + Len(b)
        /\ \A t \in Pending : Within(t, p)' <=> Within(t, p)
    BY <1>1, <1>5, <1>6, <1>7, <1>13, <2>1 DEF Covered, Within
  <2>3. IF Within(n, p)' THEN image'[p] = b[p - o] ELSE image'[p] = image[p] /\ ~Covered(p)
    BY <1>9, <2>2 DEF Filled
  <2>4. \A t \in Pending : Within(t, p) => ~Within(n, p)'
    BY <1>1, <1>13, <2>1, <2>2 DEF Within
  <2>5. /\ \A t \in Pending : Within(t, p) => image[p] = upload[t].buffer[p - upload[t].offset]
        /\ Covered(p) \/ (\E t \in Pending : Within(t, p)) \/ image[p] = service.bytes[p]
    BY <1>9 DEF Stored
  <2>6. ASSUME NEW t \in Pending', Within(t, p)' PROVE image'[p] = upload'[t].buffer[p - upload'[t].offset]
    <3>1. CASE t = n
      BY <1>6, <2>3, <2>6, <3>1
    <3>2. CASE t \in Pending
      BY <1>5, <1>13, <2>2, <2>3, <2>4, <2>5, <2>6, <3>2
    <3> QED
      BY <1>8, <3>1, <3>2
  <2>7. (\E t \in Pending' : Within(t, p)') \/ image'[p] = service'.bytes[p]
    BY <1>8, <2>2, <2>3, <2>5
  <2> QED
    BY <2>2, <2>6, <2>7
<1>16. Appended'
  <2> SUFFICES ASSUME kind = "append" PROVE InStreamOrder' /\ Prefixed' /\ Gapless'
    BY DEF Appended
  <2>1. InStreamOrder /\ Prefixed /\ Gapless
    BY DEF Appended
  <2>2. \A t \in Uploads : /\ End(t) <= o /\ t \in Tasks /\ t # n /\ t < n /\ t \in Nat /\ End(t) \in Nat
                           /\ End(t)' = End(t) /\ upload'[t] = upload[t]
    BY <1>2, <1>5, <1>7, <2>1, UploadTypes DEF InStreamOrder
  <2>3. InStreamOrder'
    <3>1. ASSUME NEW t \in Uploads'
          PROVE  /\ upload'[t].tries >= 1 /\ End(t)' <= m_current_blob_offset' /\ \A m \in max_size : End(t)' <= m
                 /\ \A i \in 1..Len(upload'[t].buffer) : upload'[t].buffer[i] = upload'[t].offset + i
      <4>1. CASE t = n
        <5>1. \A m \in max_size : o + Len(b) <= m
          BY <1>1 DEF beyond_max_size
        <5>2. \A i \in 1..Len(b) : b[i] = o + i
          BY DEF Filled
        <5> QED
          BY <1>1, <1>6, <4>1, <5>1, <5>2
      <4>2. CASE t \in Uploads
        BY <1>1, <2>1, <2>2, <4>2 DEF InStreamOrder
      <4> QED
        BY <1>8, <4>1, <4>2
    <3>2. ASSUME NEW t \in Uploads', NEW u \in Uploads', t < u PROVE End(t)' <= upload'[u].offset
      <4>1. CASE t = n
        BY <1>2, <1>8, <2>2, <3>2, <4>1
      <4>2. CASE t # n /\ u = n
        BY <1>6, <1>8, <2>2, <4>2
      <4>3. CASE t # n /\ u # n
        BY <1>8, <2>1, <2>2, <3>2, <4>3 DEF InStreamOrder
      <4> QED
        BY <4>1, <4>2, <4>3
    <3> QED
      BY <1>1, <3>1, <3>2 DEF InStreamOrder, Filled
  <2>4. Length' = Length /\ Prefixed'
    BY <1>1, <2>1 DEF Length, Prefixed, Prefix
  <2>5. ASSUME Healthy' PROVE Gapless!2'
    <3>1. Gapless!2
      BY <1>9, <2>1, <2>5 DEF Gapless
    <3>2. \E t \in Uploads' : End(t)' = m_current_blob_offset'
      BY <1>6, <1>8
    <3>3. ASSUME NEW u \in Uploads'
          PROVE  upload'[u].offset = 0 \/ \E t \in Uploads' : t < u /\ End(t)' = upload'[u].offset
      <4>1. CASE u = n
        BY <1>6, <1>8, <2>2, <3>1, <4>1
      <4>2. CASE u \in Uploads
        BY <1>8, <2>2, <3>1, <4>2
      <4> QED
        BY <1>8, <4>1, <4>2
    <3>4. \A t \in Tasks : upload'[t].step = "ok" => End(t)' <= Length
      BY <1>5, <1>6, <1>7, <3>1
    <3>5. ASSUME NEW t \in Pending'
          PROVE  \/ Length <= upload'[t].offset
                 \/ upload'[t].step = "sent" /\ upload'[t].tries > 1 /\ Length = End(t)'
      <4>1. CASE t = n
        BY <1>6, <2>1, <4>1 DEF Prefixed
      <4>2. CASE t \in Pending
        BY <1>5, <1>7, <1>13, <3>1, <4>2
      <4> QED
        BY <1>8, <4>1, <4>2
    <3>6. \A t \in Tasks : upload'[t].step = "sent" => upload'[t].offset <= Length
      BY <1>5, <1>6, <3>1
    <3> QED
      BY <2>4, <3>2, <3>3, <3>4, <3>5, <3>6
  <2> QED
    BY <2>3, <2>4, <2>5 DEF Gapless
<1> QED
  BY <1>3, <1>10, <1>11, <1>12, <1>14, <1>15, <1>16


LEMMA UploadBufferKeeps ==
    ASSUME Rest, CallTypes', NEW b, Filled(b), upload_buffer(b), UNCHANGED kind
    PROVE  Rest' /\ m_buffer' = <<>> /\ UNCHANGED <<waiter, owed>>
<1>0. m_buffer' = <<>> /\ m_current_blob_offset' = m_current_blob_offset + Len(b) /\ UNCHANGED service
  BY DEF upload_buffer, prepare_buffer
<1>1. CASE b = <<>> /\ UNCHANGED <<vars, m_block_list, m_currentException, upload>>
  <2>1. m_current_blob_offset' = m_current_blob_offset
    BY <1>0, <1>1, EmptySeq DEF Rest, Members
  <2>2. SemInv' /\ UNCHANGED <<state, requests, waiter, owed>>
    BY <1>1, OtherPermitSteps DEF Rest, vars, svars
  <2> QED
    BY <1>0, <1>1, <2>1, <2>2, BufferKept
<1>2. CASE b # <<>> /\ beyond_max_size(b) /\ m_currentException' = TRUE /\ UNCHANGED <<vars, m_block_list, upload>>
  <2>1. UNCHANGED <<waiter, owed>>
    BY <1>2 DEF vars
  <2> QED
    BY <1>0, <1>2, <2>1, BufferRefused DEF beyond_max_size
<1>3. CASE /\ b # <<>> /\ ~beyond_max_size(b) /\ take_permit(NextTask) /\ UNCHANGED m_currentException
           /\ upload' = [upload EXCEPT ![NextTask] =
                             [step |-> "locking", buffer |-> b, offset |-> m_current_blob_offset, tries |-> 1]]
  <2>1. Rest'
    BY <1>0, <1>3, BufferUploaded
  <2>2. UNCHANGED <<waiter, owed>>
    BY <1>3 DEF take_permit, lock_async, OnePermit!lock_async
  <2> QED
    BY <1>0, <2>1, <2>2
<1> QED
  BY <1>1, <1>2, <1>3 DEF upload_buffer

LEMMA PutKeeps ==
    ASSUME OInv, put
    PROVE  OInv'
<1>0. Rest /\ Calls /\ Members /\ UNCHANGED kind
  BY DEF OInv, Rest, put, options
<1> DEFINE b == Append(m_buffer, written + 1)
<1>1. writer = "none" /\ writer' = "none" /\ reported' = "nothing" /\ CallTypes'
  BY DEF put, CallTypes
<1>2. Filled(b)
  BY <1>0, PutFills DEF Rest
<1>3. waiter = {}
  BY <1>0, <1>1 DEF Calls, Syncing
<1>4. Rest' /\ UNCHANGED <<waiter, owed>>
  <2>1. CASE upload_buffer(b)
    BY <1>0, <1>1, <1>2, <2>1, UploadBufferKeeps
  <2>2. CASE m_buffer' = b /\ UNCHANGED <<vars, stream, upload, service>>
    <3>1. SemInv' /\ UNCHANGED <<state, requests, waiter, owed>>
      BY <1>0, <2>2, OtherPermitSteps DEF Rest, vars, svars
    <3>2. UNCHANGED <<m_current_blob_offset, m_currentException>>
      BY <2>2 DEF stream
    <3> QED
      BY <1>0, <1>1, <1>2, <2>2, <3>1, <3>2, BufferKept
  <2> QED
    BY <2>1, <2>2 DEF put
<1>5. Calls'
  BY <1>1, <1>3, <1>4 DEF Calls, Syncing
<1> QED
  BY <1>4, <1>5 DEF OInv, Rest

LEMMA SyncKeeps ==
    ASSUME OInv, NEW call \in Syncing, _sync(call), call = "seek" => kind \in {"page", "file"}
    PROVE  OInv'
<1>0. Rest /\ Calls /\ Members /\ UNCHANGED <<kind, image, written, reported>>
  BY DEF OInv, Rest, _sync, options, history
<1>1. writer = "none" /\ writer' = call /\ CallTypes'
  BY <1>0 DEF _sync, CallTypes, Members
<1>2. Filled(m_buffer)
  BY <1>0, BufferIsFilled DEF Rest
<1>3. waiter = {} /\ reported # "waiting"
  BY <1>0, <1>1 DEF Calls, Syncing
<1>4. Rest' /\ m_buffer' = <<>> /\ UNCHANGED <<waiter, owed>>
  BY <1>0, <1>1, <1>2, UploadBufferKeeps DEF _sync
<1>5. Calls'
  BY <1>0, <1>1, <1>3, <1>4 DEF Calls, Syncing
<1> QED
  BY <1>4, <1>5 DEF OInv, Rest

(* Nothing but the size of the next buffer or the waiting changes.         *)
LEMMA WaitKeeps ==
    ASSUME OInv, sync_wait \/ (\E n \in BufferSizes : set_buffer_size(n)) \/ UNCHANGED ovars
    PROVE  OInv'
<1>0. Rest /\ Calls /\ Members
  BY DEF OInv, Rest
<1>1. UNCHANGED <<kind, m_buffer, m_current_blob_offset, m_currentException, upload, service, image, written, writer>>
  BY DEF sync_wait, set_buffer_size, ovars, options, buffer, stream, history
<1>2. SemInv' /\ UNCHANGED <<state, requests>>
  <2>1. wait_all_async \/ UNCHANGED vars
    BY DEF sync_wait, set_buffer_size, ovars
  <2> QED
    BY <1>0, <1>1, <2>1, OtherPermitSteps DEF Rest, wait_all_async, vars, svars
<1>3. CallTypes'
  BY <1>0, <1>1 DEF sync_wait, set_buffer_size, ovars, history, CallTypes, Members
<1>4. Rest'
  BY <1>0, <1>1, <1>2, <1>3, BufferIsFilled, BufferKept DEF Rest
<1>5. (Threw \/ Healthy) => (Threw \/ Healthy)'
  BY <1>1 DEF Threw, Healthy, Clean, Oversized
<1>6. CASE sync_wait
  <2>1. writer \in Syncing /\ waiter' # {} /\ owed' = Elements(requests) /\ reported' = "waiting"
    BY <1>6 DEF sync_wait, wait_all_async, Syncing
  <2>2. Calls'
    BY <1>0, <1>1, <1>2, <2>1 DEF Calls, Elements
  <2> QED
    BY <1>4, <2>2 DEF OInv, Rest
<1>7. CASE UNCHANGED <<vars, reported>>
  <2>1. Calls'
    BY <1>0, <1>1, <1>2, <1>5, <1>7 DEF Calls, Elements, vars
  <2> QED
    BY <1>4, <2>1 DEF OInv, Rest
<1> QED
  BY <1>6, <1>7 DEF set_buffer_size, ovars, history


(* Once wait_all_async's task is done no upload is under way, and what is  *)
(* not stored has left an exception or was too large.                      *)
LEMMA Barrier ==
    ASSUME OInv, NEW call \in Syncing, synced(call), UNCHANGED kind
    PROVE  /\ SemInv' /\ UNCHANGED <<state, requests>> /\ waiter' = {} /\ m_buffer = <<>> /\ writer = call
           /\ \A t \in Tasks : state[t] \in {"idle", "released"} /\ t \notin Pending
           /\ m_currentException \/ Threw \/ Healthy
<1> USE DEF OInv
<1>1. writer = call /\ reported = "waiting" /\ resume
  BY DEF synced
<1>2. UNCHANGED <<state, requests>> /\ waiter' = {} /\ waiter \subseteq set_events
  BY <1>1 DEF resume, svars
<1>3. SemInv'
  BY <1>1, OtherPermitSteps
<1>4. owed \subseteq In({"released"}) /\ owed = Elements(requests)
  BY <1>1, <1>2, SemFacts DEF Calls
<1>5. \A t \in Tasks : state[t] \in {"idle", "released"}
  BY <1>4, SemFacts DEF Elements, In
<1>6. \A t \in Tasks : upload[t].step \in {"none", "skipped", "ok", "failed", "threw", "dropped"}
  BY <1>5 DEF Linked
<1>7. m_currentException \/ Threw \/ Healthy
  <2> SUFFICES ASSUME ~m_currentException, ~Threw, NEW t \in Tasks
               PROVE  upload[t].step \in {"none", "locking", "sent", "ok"}
    BY DEF Healthy, Clean
  <2>1. upload[t].step \notin {"skipped", "failed"} /\ (upload[t].step \in {"threw", "dropped"} => Oversized(t))
    BY DEF Linked
  <2> QED
    BY <1>6, <2>1 DEF Threw
<1> QED
  BY <1>1, <1>2, <1>3, <1>5, <1>6, <1>7 DEF Calls, Pending

LEMMA FlushKeeps ==
    ASSUME OInv, flush_done
    PROVE  OInv'
<1>0. Rest /\ Calls /\ Members
  BY DEF OInv, Rest
<1>1. /\ UNCHANGED <<kind, m_buffer, m_current_blob_offset, m_currentException, upload, service, image, written>>
      /\ writer' = "none" /\ reported' = (IF m_currentException THEN "failed" ELSE "ok") /\ synced("flush")
  BY DEF flush_done, options, buffer, stream
<1>2. /\ SemInv' /\ UNCHANGED <<state, requests>> /\ waiter' = {} /\ m_buffer = <<>>
      /\ \A t \in Tasks : state[t] \in {"idle", "released"}
      /\ m_currentException \/ Threw \/ Healthy
  BY <1>1, Barrier DEF Syncing
<1>3. CallTypes'
  BY <1>1 DEF CallTypes
<1>4. Rest'
  BY <1>0, <1>1, <1>2, <1>3, BufferIsFilled, BufferKept DEF Rest
<1>5. (Threw \/ Healthy) => (Threw \/ Healthy)'
  BY <1>1 DEF Threw, Healthy, Clean, Oversized
<1>6. Calls'
  BY <1>1, <1>2, <1>5 DEF Calls, Syncing
<1> QED
  BY <1>4, <1>6 DEF OInv, Rest

LEMMA SeekKeeps ==
    ASSUME OInv, NEW pos \in 0..MaxLength - 1, seek_done(pos)
    PROVE  OInv'
<1>0. Rest /\ Calls /\ Members /\ MaxLength \in Nat /\ Len(<<>>) = 0
  BY StreamAssumption, EmptySeq DEF OInv, Rest
<1>1. /\ UNCHANGED <<kind, m_buffer, m_currentException, upload, service, image, written>>
      /\ m_current_blob_offset' = (IF m_currentException THEN m_current_blob_offset ELSE pos)
      /\ writer' = "none" /\ reported' = "nothing" /\ synced("seek")
  BY DEF seek_done, options, buffer
<1>2. /\ SemInv' /\ UNCHANGED <<state, requests>> /\ waiter' = {} /\ m_buffer = <<>>
      /\ \A t \in Tasks : t \notin Pending
  BY <1>1, Barrier DEF Syncing
<1>3. kind \in {"page", "file"}
  BY <1>0, <1>1 DEF Calls, synced
<1>4. Calls'
  BY <1>1, <1>2 DEF Calls, Syncing
<1>5. Members'
  <2>1. m_current_blob_offset' \in Nat /\ m_current_blob_offset' <= MaxLength /\ m_buffer' = <<>>
    BY <1>0, <1>1, <1>2 DEF Members
  <2> QED
    BY <1>0, <1>1, <2>1 DEF Members
<1>6. Numbered' /\ Linked' /\ Staged'
  BY <1>0, <1>1, <1>2 DEF Rest, Numbered, Linked, Staged, Oversized
<1>7. Pending' = Pending /\ Pending = {}
  BY <1>1, <1>2 DEF Pending
<1>8. Apart'
  BY <1>0, <1>1, <1>7 DEF Rest, Apart, End
<1>9. Stored'
  <2> SUFFICES ASSUME kind # "block", Healthy', NEW p \in Positions PROVE Stored!2!(p)'
    BY <1>1 DEF Stored
  <2>1. Healthy
    BY <1>1 DEF Healthy, Clean
  <2>2. ~Covered(p) /\ ~Covered(p)'
    <3>1. p \in Nat /\ m_current_blob_offset \in Nat /\ m_current_blob_offset' \in Nat
      BY <1>0, <1>5 DEF Positions, Members
    <3> QED
      BY <1>0, <1>1, <1>2, <3>1 DEF Covered
  <2>3. image[p] = service.bytes[p]
    BY <1>0, <1>7, <2>1, <2>2 DEF Rest, Stored
  <2> QED
    BY <1>1, <1>7, <2>2, <2>3
<1>10. Appended'
  BY <1>1, <1>3 DEF Appended
<1> QED
  BY <1>2, <1>4, <1>5, <1>6, <1>8, <1>9, <1>10 DEF OInv

LEMMA CloseKeeps ==
    ASSUME OInv, commit_close
    PROVE  OInv'
<1>0. Rest /\ Calls /\ Members
  BY DEF OInv, Rest
<1>1. /\ UNCHANGED <<kind, m_buffer, m_current_blob_offset, m_currentException, upload, image, written>>
      /\ writer' = "closed" /\ reported' \in {"ok", "failed"} /\ (reported' = "ok" => ~m_currentException)
      /\ synced("close")
      /\ UNCHANGED service \/ (kind = "block" /\ service' = Committed)
  BY DEF commit_close, options, buffer, stream
<1>2. /\ SemInv' /\ UNCHANGED <<state, requests>> /\ waiter' = {} /\ m_buffer = <<>>
      /\ \A t \in Tasks : state[t] \in {"idle", "released"}
      /\ m_currentException \/ Threw \/ Healthy
  BY <1>1, Barrier DEF Syncing
<1>3. CallTypes'
  BY <1>1 DEF CallTypes
<1>4. (Threw \/ Healthy) => (Threw \/ Healthy)'
  BY <1>1 DEF Threw, Healthy, Clean, Oversized
<1>5. Calls'
  BY <1>1, <1>2, <1>4 DEF Calls, Syncing
<1>6. CASE UNCHANGED service
  <2>1. Rest'
    BY <1>0, <1>1, <1>2, <1>3, <1>6, BufferIsFilled, BufferKept DEF Rest
  <2> QED
    BY <1>5, <2>1 DEF OInv, Rest
<1>7. CASE kind = "block" /\ service' = Committed
  <2>1. /\ service = [staged |-> service.staged, bytes |-> service.bytes]
        /\ service.bytes = [p \in Positions |-> service.bytes[p]] /\ DOMAIN service.bytes = Positions
    BY <1>0 DEF Members
  <2>2. PICK c : c = Content
    OBVIOUS
  <2>3. /\ service'.staged = service.staged /\ service'.bytes = Overlaid(service.bytes, 0, c)
        /\ service' = [staged |-> service'.staged, bytes |-> service'.bytes]
    BY <1>7, <2>1, <2>2 DEF Committed
  <2>4. service'.bytes = [p \in Positions |-> service'.bytes[p]]
    BY <2>1, <2>3 DEF Overlaid
  <2>5. Members'
    BY <1>0, <1>1, <1>3, <2>3, <2>4 DEF Members, CallTypes
  <2>6. Numbered' /\ Linked' /\ Staged'
    BY <1>0, <1>1, <1>2, <2>3 DEF Rest, Numbered, Linked, Staged, Oversized
  <2>7. Apart'
    BY <1>0, <1>1 DEF Rest, Apart, Pending, End
  <2> QED
    BY <1>1, <1>2, <1>5, <1>7, <2>5, <2>6, <2>7 DEF OInv, Stored, Appended
<1> QED
  BY <1>1, <1>6, <1>7

LEMMA InitOInv == OInit => OInv
<1> SUFFICES ASSUME OInit PROVE OInv
  OBVIOUS
<1>0. MaxLength \in Nat /\ Kinds \subseteq {"block", "page", "append", "file"} /\ <<>> \in Seq(Nat) /\ Len(<<>>) = 0
  BY StreamAssumption, EmptySeq
<1>1. /\ kind \in {"block", "page", "append", "file"} /\ m_buffer = <<>> /\ m_current_blob_offset = 0
      /\ m_currentException = FALSE /\ writer = "none" /\ upload = [t \in Tasks |-> NoUpload]
      /\ written = 0 /\ image = [p \in Positions |-> 0] /\ reported = "nothing"
      /\ service = [staged |-> {}, bytes |-> image]
  BY <1>0 DEF OInit, Positions
<1>2. SemInv /\ requests = <<>> /\ waiter = {} /\ state = [t \in Tasks |-> "idle"]
  <2>1. CASE kind # "append"
    <3>1. Init
      BY <2>1 DEF OInit
    <3> QED
      BY <2>1, <3>1, InitIInv DEF SemInv, Init
  <2>2. CASE kind = "append"
    <3>1. OnePermit!Init
      BY <2>2 DEF OInit
    <3>2. Single!Init
      BY <3>1 DEF OnePermit!Init, Single!Init
    <3> QED
      BY <2>2, <3>1, <3>2, Single!InitIInv DEF SemInv, OnePermit!Init
  <2> QED
    BY <2>1, <2>2
<1>3. service.staged = {} /\ service.bytes = image /\ NoUpload \in Record /\ NoUpload.step = "none"
  BY <1>0, <1>1 DEF NoUpload, Record, Steps
<1>4. \A t \in Tasks : upload[t].step = "none"
  BY <1>1, <1>3
<1>5. Members
  <2>1. m_current_blob_offset + Len(m_buffer) <= MaxLength /\ written \in 0..MaxLength /\ image \in [Positions -> Nat]
    BY <1>0, <1>1
  <2>2. /\ service = [staged |-> service.staged, bytes |-> service.bytes]
        /\ service.bytes = [p \in Positions |-> service.bytes[p]]
        /\ service.staged \in SUBSET Tasks
    BY <1>1, <1>3
  <2>3. upload \in [Tasks -> Record]
    BY <1>1, <1>3
  <2> QED
    BY <1>0, <1>1, <2>1, <2>2, <2>3 DEF Members
<1>6. Numbered /\ Linked /\ Staged
  BY <1>0, <1>1, <1>2, <1>3, <1>4 DEF Numbered, Linked, Staged
<1>7. Calls
  BY <1>1, <1>2 DEF Calls, Syncing
<1>8. Pending = {} /\ Uploads = {}
  BY <1>4 DEF Pending, Uploads
<1>9. Apart /\ Stored
  <2>1. \A p \in Positions : ~Covered(p)
    BY <1>0, <1>1 DEF Covered, Positions
  <2> QED
    BY <1>3, <1>4, <1>8, <2>1 DEF Apart, Stored
<1>10. Length = 0
  <2>1. DOMAIN service.bytes = Positions /\ \A p \in Positions : service.bytes[p] = IF p <= 0 THEN p ELSE 0
    BY <1>0, <1>1, <1>3 DEF Positions
  <2> QED
    BY <1>0, <2>1, PrefixLength DEF Length
<1>11. Appended
  <2>1. \A p \in Positions : image[p] = (IF p <= 0 THEN p ELSE 0)
    BY <1>0, <1>1 DEF Positions
  <2>2. InStreamOrder
    BY <1>0, <1>1, <1>8, <2>1 DEF InStreamOrder
  <2>3. Prefixed
    BY <1>1, <1>3, <1>10, <2>1 DEF Prefixed, Prefix
  <2>4. Gapless
    BY <1>1, <1>4, <1>8 DEF Gapless
  <2> QED
    BY <2>2, <2>3, <2>4 DEF Appended
<1> QED
  BY <1>2, <1>5, <1>6, <1>7, <1>9, <1>11 DEF OInv

(* OInv is an invariant of the four streams.                               *)
THEOREM StreamInvariant == OSpec => []OInv
<1>1. OInv /\ [ONext]_ovars => OInv'
  <2> SUFFICES ASSUME OInv, [ONext]_ovars PROVE OInv'
    OBVIOUS
  <2>1. ASSUME NEW t \in Tasks, Upload(t) PROVE OInv'
    <3>1. Frame(t) /\ Effect(t)
      BY <2>1, UploadEffect DEF OInv
    <3>2. Members' /\ Linked' /\ Staged' /\ Numbered' /\ Calls' /\ Apart'
      BY <3>1, UploadMembers, UploadCalls DEF OInv
    <3>3. Stored' /\ Appended'
      BY <3>1, UploadStored, UploadAppended DEF OInv
    <3> QED
      BY <3>1, <3>2, <3>3 DEF OInv, Frame
  <2>2. CASE flush \/ _close_write
    BY <2>2, SyncKeeps DEF flush, _close_write, Syncing
  <2>3. CASE seekpos \/ file_seekpos
    BY <2>3, SyncKeeps DEF seekpos, file_seekpos, Syncing
  <2> QED
    BY <2>1, <2>2, <2>3, PutKeeps, WaitKeeps, FlushKeeps, SeekKeeps, CloseKeeps DEF ONext, Synced
<1> QED
  BY <1>1, InitOInv, PTL DEF OSpec

(* What a stream that is well and has nothing under way has stored.        *)
LEMMA AllStored ==
    ASSUME OInv, reported = "ok", writer \in {"none", "closed"}, ~Threw
    PROVE  IF kind = "block" THEN service.staged = Uploads ELSE service.bytes = image
<1>1. m_buffer = <<>> /\ Healthy /\ \A t \in Tasks : state[t] \in {"idle", "released"}
  BY DEF OInv, Calls
<1>2. \A t \in Tasks : upload[t].step \in {"none", "ok"}
  BY <1>1 DEF OInv, Linked, Healthy, Clean
<1>3. CASE kind = "block"
  BY <1>2, <1>3 DEF OInv, Staged, Members, Uploads
<1>4. CASE kind # "block"
  <2>1. Pending = {}
    BY <1>2 DEF Pending
  <2>2. ASSUME NEW p \in Positions PROVE ~Covered(p)
    <3>1. p \in Nat /\ m_current_blob_offset \in Nat /\ Len(m_buffer) = 0
      BY <1>1, StreamAssumption, EmptySeq DEF OInv, Members, Positions
    <3> QED
      BY <3>1 DEF Covered
  <2>3. \A p \in Positions : image[p] = service.bytes[p]
    BY <1>1, <1>4, <2>1, <2>2 DEF OInv, Stored
  <2> QED
    BY <1>4, <2>3 DEF OInv, Members
<1> QED
  BY <1>3, <1>4

(* A flush that succeeds means that everything written so far is on the    *)
(* service: what the barrier, the exception and the absorbed refusals of   *)
(* repeated requests amount to together.                                   *)
THEOREM FlushStores == OSpec => []FlushMeansStored
<1>1. OInv => FlushMeansStored
  BY AllStored DEF FlushMeansStored
<1> QED
  BY <1>1, StreamInvariant, PTL

(* A page, append or file stream that closes successfully has stored what  *)
(* was written, unless an upload was too large to be sent.                 *)
THEOREM CloseStores == OSpec => [](kind # "block" /\ ~Threw => CloseMeansStored)
<1>1. OInv => (kind # "block" /\ ~Threw => CloseMeansStored)
  BY AllStored DEF CloseMeansStored
<1> QED
  BY <1>1, StreamInvariant, PTL

(* An append blob holds a prefix of the stream at any moment.              *)
THEOREM AppendStaysPrefix == OSpec => []AppendIsPrefix
<1>1. OInv => AppendIsPrefix
  <2> SUFFICES ASSUME OInv, kind = "append", NEW p \in Positions
               PROVE  service.bytes[p] = IF p <= Length THEN image[p] ELSE 0
    BY DEF AppendIsPrefix, OInv, Members
  <2>1. InStreamOrder /\ Prefixed
    BY DEF OInv, Appended
  <2>2. Length \in Nat /\ written \in Nat /\ p \in Nat /\ Length <= written
    <3>1. m_current_blob_offset \in Nat /\ Len(m_buffer) \in Nat /\ written \in Nat /\ p \in Nat
      BY StreamAssumption, LenProperties DEF OInv, Members, Positions
    <3> QED
      BY <2>1, <3>1 DEF InStreamOrder, Prefixed
  <2>3. service.bytes[p] = (IF p <= Length THEN p ELSE 0) /\ image[p] = (IF p <= written THEN p ELSE 0)
    BY <2>1 DEF Prefixed, Prefix, InStreamOrder
  <2> QED
    BY <2>2, <2>3
<1> QED
  BY <1>1, StreamInvariant, PTL
=============================================================================

------------------------ MODULE ParallelDownloadProofs ------------------------
(***************************************************************************)
(* The parallel download, for every size of blob, segment and range, every *)
(* number of segments and permits, and every order in which they come.     *)
(***************************************************************************)
EXTENDS ParallelDownload, AsyncSemaphoreProofs

(* Where the n-th segment begins, counted from the first.                  *)
Skip(n) == n * Block

LEMMA SkipFacts ==
    /\ Skip(0) = 0
    /\ \A n \in Nat : Skip(n) \in Nat /\ Skip(n + 1) = Skip(n) + Block
    /\ \A m, n \in Nat : m < n => Skip(m) + Block <= Skip(n)
<1>0. Block \in Nat \ {0}
  BY DownloadAssumption
<1>1. \A n \in Nat : n * Block \in Nat /\ (n + 1) * Block = n * Block + Block
  BY <1>0
<1>2. ASSUME NEW m \in Nat, NEW n \in Nat, m < n PROVE m * Block + Block <= n * Block
  <2>1. PICK d \in Nat : n = m + 1 + d
    <3>1. n - m - 1 \in Nat /\ n = m + 1 + (n - m - 1)
      BY <1>2
    <3> QED
      BY <3>1
  <2>2. n * Block = m * Block + Block + d * Block /\ d * Block \in Nat
    BY <1>0, <2>1
  <2>3. m * Block \in Nat
    BY <1>0
  <2> QED
    BY <1>0, <2>2, <2>3
<1> QED
  BY <1>0, <1>1, <1>2 DEF Skip

(* The parts of the inductive invariant.                                   *)
Steps == {"idle", "got", "written", "unwinding", "done", "failed"} \cup Waiting
Buffered == {"got"} \cup Waiting
Put == {"written", "done"}

(* The comparison with a version, for a file that has not changed.         *)
Constant == service = "file" => version = 1

Members ==
    /\ service \in {"blob", "file"} /\ version \in {1, 2} /\ locked \in 0..2
    /\ size \in Nat /\ size <= Threshold + Skip(Cardinality(Tasks))
    /\ request.offset \in Nat /\ request.length \in Nat /\ can_seek \in BOOLEAN
    /\ main \in {"first", "loop", "wait", "join", "ok", "failed"}
    /\ next \in 1..Cardinality(Tasks) + 1
    /\ pc \in [Tasks -> Steps] /\ got \in [Tasks -> 0..2]
    /\ cursor \in Int /\ smallest_offset \in Int

(* How the thread of the operation, the calls of lock_async and the        *)
(* segments stand to each other.                                           *)
Phases ==
    /\ Len(requests) = next - 1 /\ \A i \in 1..next - 1 : requests[i] = i
    /\ main = "first" => locked = 0
    /\ locked = 0 => next = 1 /\ main \in {"first", "ok", "failed"}
    /\ locked # 0 => size > request.offset
    /\ main \in {"loop", "wait", "join"} => Threshold < target_length
    /\ main \in {"wait", "join"} => current_offset(next) >= End
    /\ main = "wait" => waiter # {} /\ owed = Segments
    /\ main \in {"join", "ok", "failed"} => \A t \in Segments : state[t] = "released"
    /\ \A t \in Segments : current_offset(t) < End

Linked ==
    \A t \in Tasks :
        /\ state[t] \in {"idle", "queued", "popped"} => pc[t] = "idle"
        /\ state[t] = "holding" => pc[t] # "done" /\ (pc[t] = "failed" => service = "file")
        /\ pc[t] = "unwinding" => service = "blob"
        /\ state[t] = "released" =>
              /\ pc[t] \in {"done", "failed"} \cup (Waiting \ {"counted"})
              /\ pc[t] = "failed" => service = "blob"
        /\ can_seek => pc[t] \notin Waiting

(* What the buffers hold.                                                  *)
Loaded ==
    /\ service = "file" /\ version = 1 => locked \in {0, 1}
    /\ Constant => \A t \in Tasks : pc[t] \in Buffered => got[t] = locked

(* A target that cannot seek has the first k segments, for some k.         *)
InOrder(k) ==
    /\ smallest_offset = target_offset + Skip(k)
    /\ cursor = StartPosition + Lesser(Threshold + Skip(k), target_length)
    /\ \A t \in Tasks : pc[t] \in Put <=> t <= k
Ordered == ~can_seek /\ locked # 0 => \E k \in 0..next - 1 : InOrder(k)

(* Before the first range the target is as it was.                         *)
Untouched == main = "first" => cursor = StartPosition /\ \A x \in DOMAIN target : target[x] = <<0, 0>>

(* A target that can seek has the first range and the segments put so far. *)
Holds(x) ==
    \/ x \in 0..Lesser(Threshold, target_length) - 1
    \/ \E t \in Tasks : pc[t] \in Put /\ x \in current_offset(t) - request.offset
                                             ..current_offset(t) - request.offset + current_length(t) - 1
Placed ==
    can_seek /\ locked # 0 /\ StartPosition = 0 /\ Constant =>
        \A x \in DOMAIN target : target[x] = IF Holds(x) THEN <<locked, request.offset + x>> ELSE <<0, 0>>

(* The segments leave no gap.                                              *)
NoGap ==
    \A x \in Threshold..Threshold + Skip(next - 1) - 1 :
        \E t \in Segments : x \in Threshold + Skip(t - 1)..Threshold + Skip(t) - 1

(* The counter counts the segments that wait, and those that gave their    *)
(* permit back early are fewer than the permits.                           *)
Writers == {t \in Tasks : pc[t] \in Waiting}
Counted == writer = Cardinality(Writers) /\ Cardinality(Writers \cap In({"released"})) < m_initial_count

(* A download that succeeded has all its segments, one that failed after   *)
(* the first range has one that failed.                                    *)
Complete ==
    /\ main = "ok" /\ locked = 0 => size = 0
    /\ main = "ok" /\ locked # 0 => current_offset(next) >= End /\ \A t \in Segments : pc[t] \in Put
    /\ main = "failed" => next = 1 \/ \E t \in Segments : pc[t] = "failed"

DInv == IInv /\ Members /\ Phases /\ Linked

-----------------------------------------------------------------------------
(* What a segment's step does.  To the others: a notified one waits again, *)
(* a queued one may get the permit.                                        *)
Frame(t) ==
    /\ UNCHANGED <<main_only, requests, waiter, owed>>
    /\ pc' \in [Tasks -> Steps]
    /\ \A u \in Tasks \ {t} : pc'[u] = pc[u] \/ (pc[u] = "blocked" /\ pc'[u] = "waiting")
    /\ \A u \in Tasks \ {t} : state'[u] = state[u] \/ (state[u] = "queued" /\ state'[u] = "popped")

(* To itself: one of these.                                                *)
Stays(t) == UNCHANGED <<stream, got, writer>> /\ state'[t] = state[t]
Fetches(t) ==
    /\ pc[t] = "idle" /\ state[t] = "holding" /\ pc'[t] = "got" /\ state'[t] = "holding"
    /\ etag_matches /\ got' = [got EXCEPT ![t] = version] /\ UNCHANGED <<stream, writer>>
Fails(t) ==
    /\ pc[t] = "idle" /\ state[t] = "holding" /\ Stays(t)
    /\ \/ service = "blob" /\ pc'[t] = "unwinding"
       \/ service = "file" /\ pc'[t] = "failed"
Leaves(t) ==
    /\ state[t] = "holding" /\ state'[t] = "released" /\ UNCHANGED <<stream, got, writer>>
    /\ (pc[t] = "written" /\ pc'[t] = "done") \/ (pc[t] = "unwinding" /\ pc'[t] = "failed")
Starts(t) ==
    /\ state[t] = "popped" /\ state'[t] = "holding" /\ pc'[t] = pc[t] /\ UNCHANGED <<stream, got, writer>>
PutsAnywhere(t) ==
    /\ can_seek /\ pc[t] = "got" /\ pc'[t] = "written" /\ state'[t] = state[t]
    /\ put(t, current_offset(t) - request.offset) /\ UNCHANGED <<got, writer>>
PutsInOrder(t) ==
    /\ smallest_offset = current_offset(t) /\ put(t, cursor) /\ UNCHANGED got
    /\ \/ /\ ~can_seek /\ pc[t] = "got" /\ pc'[t] = "done" /\ state[t] = "holding" /\ state'[t] = "released"
          /\ UNCHANGED writer
       \/ /\ pc[t] = "turn" /\ pc'[t] = (IF state[t] = "holding" THEN "written" ELSE "done")
          /\ state'[t] = state[t] /\ writer' = writer - 1
Queues(t) ==
    /\ ~can_seek /\ pc[t] = "got" /\ pc'[t] = "counted" /\ state'[t] = state[t]
    /\ writer' = writer + 1 /\ UNCHANGED <<stream, got>>
Frees(t) ==
    /\ pc[t] = "counted" /\ pc'[t] = "waiting" /\ UNCHANGED <<stream, got, writer>>
    /\ \/ state[t] = "holding" /\ state'[t] = "released" /\ writer < m_initial_count
       \/ state'[t] = state[t]
Turns(t) ==
    /\ pc[t] \in {"waiting", "evaluated", "blocked"} /\ Stays(t)
    /\ pc'[t] \in {"waiting", "evaluated", "blocked", "turn"}

Effect(t) ==
    \/ Fetches(t) \/ Fails(t) \/ Leaves(t) \/ Starts(t) \/ PutsAnywhere(t) \/ PutsInOrder(t)
    \/ Queues(t) \/ Frees(t) \/ Turns(t)

(* The frame of a step that moves one segment, and of one that writes and  *)
(* notifies the others.                                                    *)
LEMMA MoveFrame ==
    ASSUME Members, NEW t \in Tasks, NEW to \in Steps, UNCHANGED main_only,
           Move(t, to) \/ pc' = Notified([pc EXCEPT ![t] = to]),
           UNCHANGED vars \/ (IInv /\ dequeue_pending(t)) \/ (IInv /\ set(t))
    PROVE  /\ Frame(t)
           /\ to # "blocked" => pc'[t] = to
           /\ Move(t, to) => pc'[t] = to
           /\ UNCHANGED vars => state'[t] = state[t]
<1>1. /\ UNCHANGED <<requests, waiter, owed>>
      /\ \A u \in Tasks \ {t} : state'[u] = state[u] \/ (state[u] = "queued" /\ state'[u] = "popped")
  <2>1. CASE UNCHANGED vars
    BY <2>1 DEF vars, svars
  <2>2. CASE IInv /\ dequeue_pending(t)
    BY <2>2, DequeueEffect
  <2>3. CASE IInv /\ set(t)
    BY <2>3 DEF set, IInv, TypeOK
  <2> QED
    BY <2>1, <2>2, <2>3
<1>2. /\ pc' \in [Tasks -> Steps]
      /\ \A u \in Tasks \ {t} : pc'[u] = pc[u] \/ (pc[u] = "blocked" /\ pc'[u] = "waiting")
      /\ to # "blocked" => pc'[t] = to
      /\ Move(t, to) => pc'[t] = to
  <2>1. pc \in [Tasks -> Steps] /\ "waiting" \in Steps
    BY DEF Members, Steps, Waiting
  <2>2. CASE Move(t, to)
    BY <2>1, <2>2 DEF Move
  <2>3. CASE pc' = Notified([pc EXCEPT ![t] = to]) /\ ~Move(t, to)
    BY <2>1, <2>3 DEF Notified
  <2> QED
    BY <2>2, <2>3
<1>3. UNCHANGED vars => state'[t] = state[t]
  BY DEF vars, svars
<1> QED
  BY <1>1, <1>2, <1>3 DEF Frame

LEMMA SegmentEffect ==
    ASSUME DInv, NEW t \in Tasks, SegmentStep(t) \/ wake_spuriously(t)
    PROVE  Frame(t) /\ Effect(t)
<1> USE DEF DInv
<1>0. Steps = {"idle", "got", "written", "unwinding", "done", "failed", "counted", "waiting", "evaluated", "blocked", "turn"}
  BY DEF Steps, Waiting
<1>1. CASE download_segment(t)
  <2>1. Frame(t) /\ pc'[t] = "got" /\ state'[t] = state[t]
    BY <1>0, <1>1, MoveFrame DEF download_segment
  <2> QED
    BY <1>1, <2>1 DEF download_segment, cond, Effect, Fetches
<1>2. CASE segment_fails(t)
  <2>1. Frame(t) /\ pc'[t] = "unwinding" /\ state'[t] = state[t]
    BY <1>0, <1>2, MoveFrame DEF segment_fails
  <2> QED
    BY <1>2, <2>1 DEF segment_fails, cond, Effect, Fails, Stays
<1>3. CASE file_segment_fails(t)
  <2>1. Frame(t) /\ pc'[t] = "failed" /\ state'[t] = state[t]
    BY <1>0, <1>3, MoveFrame DEF file_segment_fails
  <2> QED
    BY <1>3, <2>1 DEF file_segment_fails, cond, Effect, Fails, Stays
<1>4. CASE release(t)
  <2> DEFINE to == IF pc[t] = "written" THEN "done" ELSE "failed"
  <2>1. Frame(t) /\ pc'[t] = to
    BY <1>0, <1>4, MoveFrame DEF release
  <2>2. state[t] = "holding" /\ state'[t] = "released"
    BY <1>4, DequeueEffect DEF release
  <2> QED
    BY <1>4, <2>1, <2>2 DEF release, cond, Effect, Leaves
<1>5. CASE granted(t)
  <2>1. pc \in [Tasks -> Steps] /\ UNCHANGED <<main_only, pc>> /\ set(t)
    BY <1>5 DEF granted, segment, Members
  <2>2. Move(t, pc[t]) /\ pc[t] \in Steps
    BY <2>1 DEF Move
  <2>3. Frame(t) /\ pc'[t] = pc[t]
    BY <2>1, <2>2, MoveFrame
  <2>4. state[t] = "popped" /\ state'[t] = "holding"
    BY <2>1 DEF set, IInv, TypeOK
  <2> QED
    BY <1>5, <2>3, <2>4 DEF granted, segment, cond, Effect, Starts
<1>6. CASE write_seekable(t)
  <2>1. Frame(t) /\ pc'[t] = "written" /\ state'[t] = state[t]
    BY <1>0, <1>6, MoveFrame DEF write_seekable
  <2> QED
    BY <1>6, <2>1 DEF write_seekable, cond, Effect, PutsAnywhere
<1>7. CASE write_direct(t)
  <2>1. Frame(t) /\ pc'[t] = "done"
    BY <1>0, <1>7, MoveFrame DEF write_direct
  <2>2. state[t] = "holding" /\ state'[t] = "released"
    BY <1>7, DequeueEffect DEF write_direct
  <2> QED
    BY <1>7, <2>1, <2>2 DEF write_direct, cond, Effect, PutsInOrder
<1>8. CASE count_writer(t)
  <2>1. Frame(t) /\ pc'[t] = "counted" /\ state'[t] = state[t]
    BY <1>0, <1>8, MoveFrame DEF count_writer
  <2> QED
    BY <1>8, <2>1 DEF count_writer, Effect, Queues
<1>9. CASE unlock_early(t)
  <2>1. Frame(t) /\ pc'[t] = "waiting" /\ (UNCHANGED vars => state'[t] = state[t])
    BY <1>0, <1>9, MoveFrame DEF unlock_early
  <2>2. \/ state[t] = "holding" /\ state'[t] = "released" /\ writer < m_initial_count
        \/ state'[t] = state[t]
    BY <1>9, <2>1, DequeueEffect DEF unlock_early, early_unlock
  <2> QED
    BY <1>9, <2>1, <2>2 DEF unlock_early, cond, Effect, Frees
<1>10. CASE evaluate_predicate(t)
  <2> DEFINE to == IF my_turn(t) THEN "turn" ELSE "evaluated"
  <2>1. Frame(t) /\ pc'[t] = to /\ state'[t] = state[t]
    BY <1>0, <1>10, MoveFrame DEF evaluate_predicate
  <2> QED
    BY <1>10, <2>1 DEF evaluate_predicate, Effect, Turns, Stays
<1>11. CASE block(t)
  <2>1. Frame(t) /\ pc'[t] = "blocked" /\ state'[t] = state[t]
    BY <1>0, <1>11, MoveFrame DEF block
  <2> QED
    BY <1>11, <2>1 DEF block, Effect, Turns, Stays
<1>12. CASE wake_spuriously(t)
  <2>1. Frame(t) /\ pc'[t] = "waiting" /\ state'[t] = state[t]
    BY <1>0, <1>12, MoveFrame DEF wake_spuriously
  <2> QED
    BY <1>12, <2>1 DEF wake_spuriously, cond, Effect, Turns, Stays
<1>13. CASE write_in_turn(t)
  <2> DEFINE to == IF state[t] = "holding" THEN "written" ELSE "done"
  <2>1. Frame(t) /\ pc'[t] = to /\ state'[t] = state[t]
    BY <1>0, <1>13, MoveFrame DEF write_in_turn
  <2> QED
    BY <1>13, <2>1 DEF write_in_turn, Effect, PutsInOrder
<1> QED
  BY <1>1, <1>2, <1>3, <1>4, <1>5, <1>6, <1>7, <1>8, <1>9, <1>10, <1>11, <1>12, <1>13 DEF SegmentStep

(* Every step of the download uses the semaphore as AsyncSemaphore says.   *)
LEMMA NextIsTask ==
    ASSUME Members, current_offset(next) < End
    PROVE  next \in Tasks
<1> DEFINE n == Cardinality(Tasks)
<1>1. n \in Nat /\ Tasks = 1..n /\ Threshold \in Nat /\ Block \in Nat
  BY DownloadAssumption, FS_CardinalityType
<1>2. next \in 1..n + 1 /\ next - 1 \in Nat /\ Skip(next - 1) \in Nat /\ Skip(n) \in Nat
  <2>1. next \in 1..n + 1 /\ next - 1 \in Nat
    BY <1>1 DEF Members
  <2> QED
    BY <1>1, <2>1, SkipFacts
<1>3. Threshold + Skip(next - 1) < size
  BY <1>1, <1>2 DEF Members, current_offset, target_offset, End, target_length, Lesser, Skip
<1>4. ASSUME next = n + 1 PROVE FALSE
  <2>1. next - 1 = n
    BY <1>1, <1>4
  <2> QED
    BY <1>1, <1>2, <1>3, <2>1 DEF Members
<1> QED
  BY <1>1, <1>2, <1>4

LEMMA SemaphoreStep == DInv /\ [PNext]_pvars => [Next]_vars
<1> SUFFICES ASSUME DInv, [PNext]_pvars PROVE [Next]_vars
  OBVIOUS
<1>1. CASE MainStep
  <2>1. CASE start_segment
    BY <2>1, NextIsTask DEF start_segment, Next, DInv
  <2> QED
    BY <1>1, <2>1 DEF MainStep, first_range, first_range_416, first_range_fails, wait_all, waited, join, file_join, Next
<1>2. ASSUME NEW t \in Tasks, SegmentStep(t) \/ wake_spuriously(t) PROVE [Next]_vars
  BY <1>2 DEF SegmentStep, download_segment, segment_fails, file_segment_fails, release, granted, write_seekable,
    write_direct, count_writer, unlock_early, evaluate_predicate, block, write_in_turn, wake_spuriously, Next
<1> QED
  BY <1>1, <1>2 DEF PNext, overwrite, pvars

(* So its invariant holds throughout the download.                         *)
LEMMA SemaphoreInv == DInv /\ [PNext]_pvars => IInv'
<1> SUFFICES ASSUME DInv, [PNext]_pvars PROVE IInv'
  OBVIOUS
<1>1. IInv /\ [Next]_vars
  BY SemaphoreStep DEF DInv
<1>2. ASSUME NEW t \in Tasks, lock_async(t) PROVE IInv'
  BY <1>1, <1>2, LockIInv
<1>3. ASSUME NEW t \in Tasks, dequeue_pending(t) PROVE IInv'
  BY <1>1, <1>3, FreeIInv, HandOverIInv
<1>4. ASSUME NEW t \in Tasks, set(t) PROVE IInv'
  BY <1>1, <1>4, SetIInv
<1>5. CASE wait_all_async \/ resume \/ UNCHANGED vars
  BY <1>1, <1>5, WaitIInv
<1> QED
  BY <1>1, <1>2, <1>3, <1>4, <1>5 DEF Next
-----------------------------------------------------------------------------
(* Where the segments lie.                                                 *)
LEMMA Geometry ==
    ASSUME Members
    PROVE  /\ target_length \in Int /\ target_length <= size - request.offset
           /\ target_offset \in Nat /\ End \in Int
           /\ \A t \in Nat \ {0} : /\ t - 1 \in Nat /\ Skip(t - 1) \in Nat
                                   /\ current_offset(t) = target_offset + Skip(t - 1)
                                   /\ current_offset(t) \in Nat /\ current_length(t) \in Int
<1>1. Threshold \in Nat \ {0} /\ Block \in Nat \ {0}
  BY DownloadAssumption
<1>2. /\ target_length \in Int /\ target_length <= size - request.offset
      /\ target_offset \in Nat /\ End \in Int
  BY <1>1 DEF Members, target_length, target_offset, End, Lesser
<1>3. ASSUME NEW t \in Nat \ {0}
      PROVE  /\ t - 1 \in Nat /\ Skip(t - 1) \in Nat
             /\ current_offset(t) = target_offset + Skip(t - 1)
             /\ current_offset(t) \in Nat /\ current_length(t) \in Int
  <2>1. t - 1 \in Nat
    OBVIOUS
  <2>2. Skip(t - 1) \in Nat
    BY <2>1, SkipFacts
  <2>3. current_offset(t) = target_offset + Skip(t - 1)
    BY DEF current_offset, Skip
  <2>4. current_offset(t) \in Nat
    BY <1>2, <2>2, <2>3
  <2>5. current_length(t) \in Int
    BY <1>1, <1>2, <2>4 DEF current_length, Lesser
  <2> QED
    BY <2>1, <2>2, <2>3, <2>4, <2>5
<1> QED
  BY <1>2, <1>3

LEMMA TasksAreNumbers ==
    /\ Cardinality(Tasks) \in Nat
    /\ Tasks = 1..Cardinality(Tasks)
    /\ \A t \in Tasks : t \in Nat \ {0}
<1>1. Cardinality(Tasks) \in Nat /\ Tasks = 1..Cardinality(Tasks)
  BY DownloadAssumption, FS_CardinalityType
<1> QED
  BY <1>1

LEMMA MembersNext == DInv /\ [PNext]_pvars => Members'
<1> SUFFICES ASSUME DInv, [PNext]_pvars PROVE Members'
  OBVIOUS
<1> USE DEF DInv
<1>1. CASE first_range
  <2>1. /\ Lesser(Threshold, target_length) \in Int /\ target_offset \in Int
    BY Geometry, DownloadAssumption DEF Lesser
  <2> QED
    BY <1>1, <2>1 DEF first_range, Members, blob, segment
<1>2. CASE first_range_416 \/ first_range_fails \/ wait_all \/ waited \/ join \/ file_join
  BY <1>2 DEF first_range_416, first_range_fails, wait_all, waited, join, file_join, Members, blob, segment, stream
<1>3. CASE start_segment
  <2>1. next \in Tasks
    BY <1>3, NextIsTask DEF start_segment
  <2>2. next + 1 \in 1..Cardinality(Tasks) + 1
    BY <2>1, TasksAreNumbers
  <2> QED
    BY <1>3, <2>2 DEF start_segment, Members, blob, segment, stream
<1>4. ASSUME NEW t \in Tasks, SegmentStep(t) \/ wake_spuriously(t) PROVE Members'
  <2>1. Frame(t) /\ Effect(t)
    BY <1>4, SegmentEffect
  <2>2. got' \in [Tasks -> 0..2]
    BY <2>1 DEF Effect, Fetches, Fails, Leaves, Starts, PutsAnywhere, PutsInOrder, Queues, Frees, Turns, Stays, Members
  <2>3. current_offset(t) \in Int /\ current_length(t) \in Int /\ Block \in Int
    BY TasksAreNumbers, Geometry, DownloadAssumption
  <2>4. cursor' \in Int /\ smallest_offset' \in Int
    BY <2>1, <2>3 DEF Effect, Fetches, Fails, Leaves, Starts, PutsAnywhere, PutsInOrder, Queues, Frees, Turns, Stays,
      Members, stream, put
  <2> QED
    BY <2>1, <2>2, <2>4 DEF Frame, main_only, blob, Members
<1>5. CASE overwrite \/ UNCHANGED pvars
  BY <1>5 DEF overwrite, pvars, Members, blob, segment, stream
<1> QED
  BY <1>1, <1>2, <1>3, <1>4, <1>5 DEF PNext, MainStep

(* What the steps of a segment leave alone, for all segments.              *)
LEMMA SegmentFrame ==
    ASSUME DInv, NEW t \in Tasks, Frame(t), Effect(t)
    PROVE  /\ UNCHANGED <<service, size, version, request, can_seek, main, locked, next, requests, waiter, owed>>
           /\ \A u \in Tasks : state[u] = "released" => state'[u] = "released"
           /\ \A u \in Tasks : state[u] # "idle" => state'[u] # "idle"
<1>1. UNCHANGED <<service, size, version, request, can_seek, main, locked, next, requests, waiter, owed>>
  BY DEF Frame, main_only, blob
<1>2. \A u \in Tasks : (state[u] = "released" => state'[u] = "released") /\ (state[u] # "idle" => state'[u] # "idle")
  BY DEF Frame, Effect, Fetches, Fails, Leaves, Starts, PutsAnywhere, PutsInOrder, Queues, Frees, Turns, Stays
<1> QED
  BY <1>1, <1>2

LEMMA LinkedNext == DInv /\ [PNext]_pvars => Linked'
<1> SUFFICES ASSUME DInv, [PNext]_pvars PROVE Linked'
  OBVIOUS
<1> USE DEF DInv
<1>1. CASE first_range \/ first_range_416 \/ first_range_fails \/ wait_all \/ waited \/ join \/ file_join \/ overwrite \/ UNCHANGED pvars
  <2>1. UNCHANGED <<state, pc, service, can_seek>>
    BY <1>1 DEF first_range, first_range_416, first_range_fails, wait_all, waited, join, file_join, overwrite, pvars,
      wait_all_async, resume, vars, svars, segment, blob
  <2> QED
    BY <2>1 DEF Linked
<1>2. CASE start_segment
  <2>1. next \in Tasks /\ lock_async(next)
    BY <1>2, NextIsTask DEF start_segment
  <2>2. /\ state[next] = "idle" /\ state'[next] \in {"holding", "queued"}
        /\ \A u \in Tasks \ {next} : state'[u] = state[u]
        /\ UNCHANGED <<pc, service, can_seek>>
    BY <1>2, <2>1 DEF lock_async, start_segment, segment, blob, IInv, TypeOK
  <2> QED
    BY <2>1, <2>2 DEF Linked
<1>3. ASSUME NEW t \in Tasks, SegmentStep(t) \/ wake_spuriously(t), NEW u \in Tasks
      PROVE  /\ state'[u] \in {"idle", "queued", "popped"} => pc'[u] = "idle"
             /\ state'[u] = "holding" => pc'[u] # "done" /\ (pc'[u] = "failed" => service' = "file")
             /\ pc'[u] = "unwinding" => service' = "blob"
             /\ state'[u] = "released" =>
                   /\ pc'[u] \in {"done", "failed"} \cup (Waiting \ {"counted"})
                   /\ pc'[u] = "failed" => service' = "blob"
             /\ can_seek' => pc'[u] \notin Waiting
  <2>1. Frame(t) /\ Effect(t) /\ UNCHANGED <<service, can_seek>>
    BY <1>3, SegmentEffect, SegmentFrame
  <2>2. CASE u # t
    BY <2>1, <2>2 DEF Frame, Linked, Waiting
  <2>3. CASE u = t
    <3>1. state[t] \in States /\ service \in {"blob", "file"}
      BY DEF IInv, TypeOK, Members
    <3> QED
      BY <2>1, <2>3, <3>1 DEF Effect, Fetches, Fails, Leaves, Starts, PutsAnywhere, PutsInOrder, Queues, Frees, Turns, Stays,
        Linked, Waiting, States
  <2> QED
    BY <2>2, <2>3
<1>4. ASSUME NEW t \in Tasks, SegmentStep(t) \/ wake_spuriously(t) PROVE Linked'
  BY <1>3, <1>4 DEF Linked
<1> QED
  BY <1>1, <1>2, <1>4 DEF PNext, MainStep

LEMMA PhasesNext == DInv /\ [PNext]_pvars => Phases'
<1> SUFFICES ASSUME DInv, [PNext]_pvars PROVE Phases'
  OBVIOUS
<1> USE DEF DInv
<1>0. /\ next \in Nat \ {0} /\ Segments \subseteq Tasks /\ Segments = 1..next - 1
      /\ version # 0 /\ locked \in 0..2 /\ Threshold \in Nat
  <2>1. next \in 1..Cardinality(Tasks) + 1 /\ version \in {1, 2} /\ locked \in 0..2
    BY DEF Members
  <2>2. next \in Nat \ {0} /\ 1..next - 1 \subseteq Tasks /\ version # 0
    BY <2>1, TasksAreNumbers
  <2> QED
    BY <2>1, <2>2, DownloadAssumption DEF Segments
<1>1. CASE first_range
  <2>1. /\ main = "first" /\ locked = 0 /\ next = 1 /\ size > request.offset /\ locked' = version
        /\ main' = (IF target_length <= Threshold THEN "ok" ELSE "loop")
        /\ UNCHANGED <<vars, service, size, version, request, next>>
    BY <1>1 DEF first_range, blob, Phases
  <2>2. /\ UNCHANGED <<requests, state, waiter, owed, target_length, End, Segments>>
        /\ \A t \in Nat : current_offset(t)' = current_offset(t)
    BY <2>1 DEF vars, svars, target_length, target_offset, End, current_offset, Segments
  <2>3. Segments = {}
    BY <1>0, <2>1
  <2>4. target_length \in Int
    BY Geometry
  <2> QED
    BY <1>0, <2>1, <2>2, <2>3, <2>4 DEF Phases
<1>2. CASE first_range_416 \/ first_range_fails
  <2>1. /\ main = "first" /\ main' \in {"ok", "failed"} /\ locked = 0 /\ next = 1
        /\ UNCHANGED <<vars, service, size, version, request, next, locked>>
    BY <1>2 DEF first_range_416, first_range_fails, blob, Phases
  <2>2. /\ UNCHANGED <<requests, state, waiter, owed, Segments>> /\ Segments = {}
    BY <1>0, <2>1 DEF vars, svars, Segments
  <2> QED
    BY <1>0, <2>1, <2>2 DEF Phases
<1>3. CASE start_segment
  <2>1. /\ main = "loop" /\ current_offset(next) < End /\ next' = next + 1 /\ lock_async(next)
        /\ UNCHANGED <<service, size, version, request, main, locked>>
    BY <1>3 DEF start_segment, blob
  <2>2. /\ UNCHANGED <<target_length, End>>
        /\ \A t \in Nat : current_offset(t)' = current_offset(t)
    BY <2>1 DEF target_length, target_offset, End, current_offset
  <2>3. /\ Len(requests') = next /\ \A i \in 1..next : requests'[i] = i
    <3>1. requests' = Append(requests, next) /\ requests \in Seq(Tasks) /\ next \in Tasks
      BY <2>1, NextIsTask DEF lock_async, IInv, TypeOK
    <3>2. Len(requests) = next - 1 /\ \A i \in 1..next - 1 : requests[i] = i
      BY DEF Phases
    <3>3. /\ Len(requests') = next /\ requests'[next] = next
          /\ \A i \in 1..next - 1 : requests'[i] = requests[i]
      BY <1>0, <3>1, <3>2, AppendProperties
    <3> QED
      BY <1>0, <3>2, <3>3
  <2>4. Segments' = 1..next /\ \A t \in 1..next : t \in Segments \/ t = next
    BY <1>0, <2>1 DEF Segments
  <2>5. next' - 1 = next
    BY <1>0, <2>1
  <2>6. \A t \in Segments' : current_offset(t)' < End'
    BY <1>0, <2>1, <2>2, <2>4 DEF Phases
  <2> QED
    BY <1>0, <2>1, <2>2, <2>3, <2>4, <2>5, <2>6 DEF Phases
<1>4. ASSUME UNCHANGED <<service, size, request, locked, next, requests>>
      PROVE  /\ UNCHANGED <<target_length, End, Segments>>
             /\ \A t \in Nat : current_offset(t)' = current_offset(t)
  BY <1>4 DEF target_length, target_offset, End, current_offset, Segments
<1>5. CASE wait_all
  <2>1. /\ main = "loop" /\ current_offset(next) >= End /\ main' = "wait"
        /\ UNCHANGED <<service, size, version, request, locked, next, requests, state>>
        /\ waiter' # {} /\ owed' = Elements(requests)
    BY <1>5 DEF wait_all, wait_all_async, svars, blob
  <2>2. Elements(requests) = Segments
    BY <1>0 DEF Elements, Phases
  <2> QED
    BY <1>0, <1>4, <2>1, <2>2 DEF Phases
<1>6. CASE waited
  <2>1. /\ main = "wait" /\ main' = "join" /\ waiter # {} /\ waiter \subseteq set_events
        /\ UNCHANGED <<service, size, version, request, locked, next, requests, state>>
    BY <1>6 DEF waited, resume, svars, blob
  <2>2. Segments \subseteq In({"released"})
    BY <2>1 DEF Phases, IInv, WaiterOwed, WaitAllIsBarrier
  <2>3. \A t \in Segments : state[t] = "released"
    BY <2>2 DEF In
  <2> QED
    BY <1>0, <1>4, <2>1, <2>3 DEF Phases
<1>7. CASE join \/ file_join
  <2>1. /\ main = "join" /\ main' \in {"ok", "failed"}
        /\ UNCHANGED <<service, size, version, request, locked, next, requests, state, waiter, owed>>
    BY <1>7 DEF join, file_join, vars, svars, blob
  <2> QED
    BY <1>0, <1>4, <2>1 DEF Phases
<1>8. ASSUME NEW t \in Tasks, SegmentStep(t) \/ wake_spuriously(t) PROVE Phases'
  <2>1. /\ UNCHANGED <<service, size, version, request, main, locked, next, requests, waiter, owed>>
        /\ \A u \in Segments : state[u] = "released" => state'[u] = "released"
    BY <1>0, <1>8, SegmentEffect, SegmentFrame
  <2> QED
    BY <1>0, <1>4, <2>1 DEF Phases
<1>9. CASE overwrite \/ UNCHANGED pvars
  <2>1. UNCHANGED <<service, size, request, main, locked, next, requests, state, waiter, owed>>
    BY <1>9 DEF overwrite, pvars, vars, svars, blob
  <2> QED
    BY <1>0, <1>4, <2>1 DEF Phases
<1> QED
  BY <1>1, <1>2, <1>3, <1>5, <1>6, <1>7, <1>8, <1>9 DEF PNext, MainStep

LEMMA InitDInv == PInit => DInv
<1> SUFFICES ASSUME PInit PROVE DInv
  OBVIOUS
<1>1. IInv
  BY InitIInv DEF PInit
<1>2. Members
  <2>1. size \in Nat /\ size <= Threshold + Skip(Cardinality(Tasks))
    <3>1. size \in SeekableSizes \cup StreamSizes
      BY DEF PInit
    <3>2. Block * Cardinality(Tasks) = Skip(Cardinality(Tasks))
      BY TasksAreNumbers, DownloadAssumption DEF Skip
    <3> QED
      BY <3>1, <3>2, DownloadAssumption
  <2>2. request.offset \in Nat /\ request.length \in Nat
    <3>1. CASE request = [offset |-> 0, length |-> Infinite, whole |-> TRUE]
      BY <3>1 DEF Infinite
    <3>2. CASE request \in [offset : Offsets, length : {Threshold + 1, Infinite}, whole : {FALSE}]
      <4>1. request.offset \in Offsets /\ request.length \in {Threshold + 1, Infinite}
        BY <3>2
      <4> QED
        BY <4>1, DownloadAssumption DEF Infinite
    <3> QED
      BY <3>1, <3>2 DEF PInit
  <2>3. /\ next \in 1..Cardinality(Tasks) + 1 /\ cursor \in Int /\ smallest_offset \in Int
        /\ service \in {"blob", "file"} /\ version \in {1, 2} /\ locked \in 0..2 /\ can_seek \in BOOLEAN
    <3>1. next = 1 /\ cursor = StartPosition /\ smallest_offset = 0 /\ version = 1 /\ locked = 0 /\ service \in Services
      BY DEF PInit
    <3>2. can_seek \in BOOLEAN
      BY DEF PInit
    <3> QED
      BY <3>1, <3>2, TasksAreNumbers, DownloadAssumption
  <2>4. pc \in [Tasks -> Steps] /\ got \in [Tasks -> 0..2] /\ main = "first"
    BY DEF PInit, Steps
  <2> QED
    BY <2>1, <2>2, <2>3, <2>4 DEF Members
<1>3. Phases
  BY DEF PInit, Init, Phases, Segments
<1>4. Linked
  BY DEF PInit, Init, Linked, Waiting
<1> QED
  BY <1>1, <1>2, <1>3, <1>4 DEF DInv

LEMMA DInvNext == DInv /\ [PNext]_pvars => DInv'
BY SemaphoreInv, MembersNext, PhasesNext, LinkedNext DEF DInv

-----------------------------------------------------------------------------
(* A call that has been made belongs to a segment of the loop.             *)
LEMMA ActiveSegments ==
    ASSUME DInv, NEW t \in Tasks
    PROVE  /\ state[t] # "idle" <=> t \in Segments
           /\ pc[t] # "idle" => state[t] \in {"holding", "released"}
           /\ t \in Segments => locked # 0 /\ main # "first"
<1> USE DEF DInv
<1>1. next \in Nat \ {0} /\ t \in Nat
  BY TasksAreNumbers DEF Members
<1>2. state[t] # "idle" <=> t \in Segments
  BY <1>1 DEF Phases, IInv, RequestsListed, Segments
<1>3. pc[t] # "idle" => state[t] \in {"holding", "released"}
  BY DEF Linked, IInv, TypeOK, States
<1>4. t \in Segments => locked # 0 /\ main # "first"
  BY <1>1 DEF Phases, Segments
<1> QED
  BY <1>2, <1>3, <1>4

(* The steps that touch neither the stream nor the segments' steps.        *)
Quiet ==
    \/ first_range_fails \/ start_segment \/ wait_all \/ waited \/ join \/ file_join
    \/ overwrite \/ UNCHANGED pvars

LEMMA QuietSteps ==
    /\ Quiet => UNCHANGED <<service, size, request, can_seek, locked, target, cursor, smallest_offset, pc, got, writer>>
    /\ Quiet /\ ~start_segment => UNCHANGED <<next, state>>
    /\ Quiet /\ ~overwrite => UNCHANGED version
    /\ [PNext]_pvars => \/ first_range \/ first_range_416 \/ Quiet
                        \/ \E t \in Tasks : SegmentStep(t) \/ wake_spuriously(t)
<1>1. Quiet => UNCHANGED <<service, size, request, can_seek, locked, target, cursor, smallest_offset, pc, got, writer>>
  BY DEF Quiet, first_range_fails, start_segment, wait_all, waited, join, file_join, overwrite, pvars, blob, stream, segment, cond
<1>2. Quiet /\ ~start_segment => UNCHANGED <<next, state>>
  BY DEF Quiet, first_range_fails, wait_all, waited, join, file_join, overwrite, pvars, wait_all_async, resume, vars, svars
<1>3. Quiet /\ ~overwrite => UNCHANGED version
  BY DEF Quiet, first_range_fails, start_segment, wait_all, waited, join, file_join, pvars, blob
<1> QED
  BY <1>1, <1>2, <1>3 DEF PNext, MainStep, Quiet

(* Before the first range nothing has begun.                               *)
LEMMA NothingBegun ==
    ASSUME DInv, main = "first"
    PROVE  \A t \in Tasks : pc[t] = "idle" /\ state[t] = "idle"
BY ActiveSegments DEF DInv, Linked

LEMMA LoadedNext == DInv /\ Loaded /\ [PNext]_pvars => Loaded'
<1> SUFFICES ASSUME DInv, Loaded, [PNext]_pvars PROVE Loaded'
  OBVIOUS
<1>0. service \in {"blob", "file"} /\ version \in {1, 2} /\ locked \in 0..2
  BY DEF DInv, Members
<1>1. CASE first_range \/ first_range_416
  <2>1. main = "first" /\ UNCHANGED <<service, version, pc>> /\ (locked' = version \/ locked' = locked)
    BY <1>1 DEF first_range, first_range_416, blob, segment
  <2>2. \A t \in Tasks : pc[t] = "idle"
    BY <2>1, NothingBegun
  <2> QED
    BY <1>0, <2>1, <2>2 DEF Loaded, Buffered, Waiting
<1>2. CASE Quiet
  <2>1. UNCHANGED <<service, locked, pc, got>> /\ (UNCHANGED version \/ (version' = 2 /\ version = 1))
    BY <1>2, QuietSteps DEF overwrite
  <2> QED
    BY <1>0, <2>1 DEF Loaded, Constant
<1>3. ASSUME NEW t \in Tasks, SegmentStep(t) \/ wake_spuriously(t) PROVE Loaded'
  <2>1. Frame(t) /\ Effect(t) /\ UNCHANGED <<service, version, locked>>
    BY <1>3, SegmentEffect, SegmentFrame
  <2>2. ASSUME Constant, NEW u \in Tasks, pc'[u] \in Buffered PROVE got'[u] = locked
    <3>1. CASE u # t
      <4>1. got'[u] = got[u] /\ pc[u] \in Buffered
        BY <2>1, <2>2, <3>1 DEF Frame, Effect, Fetches, Fails, Leaves, Starts, PutsAnywhere, PutsInOrder, Queues,
          Frees, Turns, Stays, Buffered, Waiting, DInv, Members
      <4> QED
        BY <2>2, <4>1 DEF Loaded
    <3>2. CASE u = t /\ Fetches(t)
      <4>1. got'[t] = version /\ etag_matches /\ locked # 0
        BY <3>2, ActiveSegments DEF Fetches, DInv, Members
      <4> QED
        BY <1>0, <2>2, <3>2, <4>1 DEF etag_matches, Loaded, Constant
    <3>3. CASE u = t /\ ~Fetches(t)
      <4>1. got'[u] = got[u] /\ pc[u] \in Buffered
        BY <2>1, <2>2, <3>3 DEF Effect, Fails, Leaves, Starts, PutsAnywhere, PutsInOrder, Queues,
          Frees, Turns, Stays, Buffered, Waiting
      <4> QED
        BY <2>2, <4>1 DEF Loaded
    <3> QED
      BY <3>1, <3>2, <3>3
  <2> QED
    BY <2>1, <2>2 DEF Loaded, Constant
<1> QED
  BY <1>1, <1>2, <1>3, QuietSteps

LEMMA UntouchedNext == DInv /\ Untouched /\ [PNext]_pvars => Untouched'
<1> SUFFICES ASSUME DInv, Untouched, [PNext]_pvars, main' = "first"
             PROVE  main = "first" /\ UNCHANGED <<cursor, target>>
  BY DEF Untouched
<1>1. CASE first_range \/ first_range_416
  BY <1>1 DEF first_range, first_range_416
<1>2. CASE Quiet
  <2>1. UNCHANGED main
    BY <1>2 DEF Quiet, first_range_fails, start_segment, wait_all, waited, join, file_join, overwrite, pvars
  <2> QED
    BY <1>2, <2>1, QuietSteps
<1>3. ASSUME NEW t \in Tasks, SegmentStep(t) \/ wake_spuriously(t) PROVE main = "first" /\ UNCHANGED <<cursor, target>>
  <2>1. Frame(t) /\ Effect(t) /\ main = "first"
    BY <1>3, SegmentEffect, SegmentFrame
  <2>2. pc[t] = "idle"
    BY <2>1, NothingBegun
  <2> QED
    BY <2>1, <2>2 DEF Effect, Fetches, Fails, Leaves, Starts, PutsAnywhere, PutsInOrder, Queues, Frees, Turns, Stays, stream
<1> QED
  BY <1>1, <1>2, <1>3, QuietSteps

-----------------------------------------------------------------------------
(* A segment put in order is the next one, and begins where the stream     *)
(* stands.                                                                 *)
LEMMA NextInOrder ==
    ASSUME DInv, ~can_seek, NEW t \in Tasks, PutsInOrder(t), NEW k \in 0..next - 1, InOrder(k)
    PROVE  /\ t = k + 1 /\ t \in Segments
           /\ cursor = StartPosition + Threshold + Skip(k) /\ current_offset(t) = target_offset + Skip(k)
           /\ current_length(t) \in Nat
           /\ cursor + current_length(t) = StartPosition + Lesser(Threshold + Skip(k + 1), target_length)
<1>0. /\ Members /\ t \in Nat \ {0} /\ t - 1 \in Nat /\ k \in Nat /\ Threshold \in Nat \ {0} /\ Block \in Nat \ {0}
      /\ StartPosition \in Nat
  BY TasksAreNumbers, DownloadAssumption DEF DInv, Members
<1>1. t \in Segments
  BY ActiveSegments DEF PutsInOrder
<1>2. /\ current_offset(t) = target_offset + Skip(t - 1) /\ smallest_offset = target_offset + Skip(k)
      /\ current_offset(t) = smallest_offset /\ target_offset \in Nat
      /\ current_offset(t) < End /\ target_length \in Int
  BY <1>0, <1>1, Geometry DEF InOrder, PutsInOrder, DInv, Phases
<1>3. /\ Skip(t - 1) \in Nat /\ Skip(k) \in Nat /\ Skip(k + 1) = Skip(k) + Block
      /\ (t - 1 < k => Skip(t - 1) + Block <= Skip(k))
      /\ (k < t - 1 => Skip(k) + Block <= Skip(t - 1))
  BY <1>0, SkipFacts
<1>4. t = k + 1
  BY <1>0, <1>2, <1>3
<1>5. target_length > Threshold + Skip(k)
  BY <1>0, <1>2, <1>3 DEF End, target_offset, Members
<1>6. cursor = StartPosition + Threshold + Skip(k)
  BY <1>0, <1>2, <1>3, <1>5 DEF InOrder, Lesser
<1>7. current_length(t) = Lesser(Block, target_length - Threshold - Skip(k))
  BY <1>0, <1>2, <1>3 DEF current_length, End, target_offset, Members
<1>8. /\ current_length(t) \in Nat
      /\ cursor + current_length(t) = StartPosition + Lesser(Threshold + Skip(k + 1), target_length)
  BY <1>0, <1>2, <1>3, <1>5, <1>6, <1>7 DEF Lesser
<1> QED
  BY <1>1, <1>2, <1>4, <1>6, <1>8

LEMMA FirstInOrder ==
    ASSUME DInv, Untouched, first_range
    PROVE  InOrder(0)'
<1>0. /\ Members /\ target_offset \in Nat /\ target_length \in Int /\ Threshold \in Nat \ {0} /\ StartPosition \in Nat
  BY Geometry, DownloadAssumption DEF DInv
<1>1. /\ main = "first" /\ cursor' = cursor + Lesser(Threshold, target_length) /\ smallest_offset' = target_offset
      /\ UNCHANGED <<request, size, pc>>
  BY DEF first_range, blob, segment
<1>2. UNCHANGED <<target_offset, target_length>> /\ cursor = StartPosition /\ Skip(0) = 0
  BY <1>1, SkipFacts DEF target_offset, target_length, Untouched
<1>3. \A t \in Tasks : pc'[t] \notin Put /\ ~(t <= 0)
  BY <1>1, NothingBegun, TasksAreNumbers DEF Put
<1> QED
  BY <1>0, <1>1, <1>2, <1>3 DEF InOrder

(* The segments that are put stay put, and no other is.                    *)
LEMMA PutStays ==
    ASSUME DInv, NEW t \in Tasks, Frame(t), Effect(t), NEW u \in Tasks
    PROVE  /\ ~(PutsAnywhere(t) \/ PutsInOrder(t)) => (pc'[u] \in Put <=> pc[u] \in Put) /\ UNCHANGED stream
           /\ PutsAnywhere(t) \/ PutsInOrder(t) => (pc'[u] \in Put <=> pc[u] \in Put \/ u = t)
           /\ pc[u] = "failed" => pc'[u] = "failed"
<1>1. pc[t] = "failed" => state[t] # "popped"
  BY DEF DInv, Linked
<1>2. CASE u = t
  BY <1>1, <1>2 DEF Frame, Effect, Fetches, Fails, Leaves, Starts, PutsAnywhere, PutsInOrder, Queues, Frees, Turns, Stays, Put
<1>3. CASE u # t
  BY <1>3 DEF Frame, Effect, Fetches, Fails, Leaves, Starts, PutsAnywhere, PutsInOrder, Queues, Frees, Turns, Stays, Put
<1> QED
  BY <1>2, <1>3

LEMMA OrderedNext == DInv /\ Untouched /\ Ordered /\ [PNext]_pvars => Ordered'
<1> SUFFICES ASSUME DInv, Untouched, Ordered, [PNext]_pvars, ~can_seek', locked' # 0
             PROVE  \E k \in 0..next' - 1 : InOrder(k)'
  BY DEF Ordered
<1>0. next \in Nat \ {0}
  BY TasksAreNumbers DEF DInv, Members
<1>1. CASE first_range
  <2>1. next' = next
    BY <1>1 DEF first_range
  <2> QED
    BY <1>0, <1>1, <2>1, FirstInOrder
<1>2. CASE first_range_416
  BY <1>2 DEF first_range_416, DInv, Phases
<1>3. CASE Quiet
  <2>1. UNCHANGED <<size, request, can_seek, locked, cursor, smallest_offset, pc>> /\ (next' = next \/ next' = next + 1)
    BY <1>3, QuietSteps DEF start_segment
  <2>2. PICK k \in 0..next - 1 : InOrder(k)
    BY <2>1 DEF Ordered
  <2>3. k \in 0..next' - 1 /\ InOrder(k)'
    BY <1>0, <2>1, <2>2 DEF InOrder, target_offset, target_length
  <2> QED
    BY <2>3
<1>4. ASSUME NEW t \in Tasks, SegmentStep(t) \/ wake_spuriously(t)
      PROVE  \E k \in 0..next' - 1 : InOrder(k)'
  <2>1. Frame(t) /\ Effect(t) /\ UNCHANGED <<size, request, can_seek, locked, next>>
    BY <1>4, SegmentEffect, SegmentFrame
  <2>2. PICK k \in 0..next - 1 : InOrder(k)
    BY <2>1 DEF Ordered
  <2>3. CASE PutsInOrder(t)
    <3>1. /\ t = k + 1 /\ t \in Segments
          /\ smallest_offset' = target_offset + Skip(k) + Block
          /\ cursor' = StartPosition + Lesser(Threshold + Skip(k + 1), target_length)
      BY <2>1, <2>2, <2>3, NextInOrder DEF PutsInOrder, put, InOrder
    <3>2. \A u \in Tasks : pc'[u] \in Put <=> u <= k \/ u = k + 1
      BY <2>1, <2>2, <2>3, <3>1, PutStays DEF InOrder
    <3>3. /\ Skip(k) \in Nat /\ Skip(k + 1) = Skip(k) + Block /\ target_offset \in Nat /\ Block \in Nat
          /\ k + 1 \in 0..next' - 1
      BY <1>0, <2>1, <3>1, SkipFacts, Geometry, DownloadAssumption DEF Segments, DInv
    <3>4. \A u \in Tasks : u <= k \/ u = k + 1 <=> u <= k + 1
      BY TasksAreNumbers
    <3>5. InOrder(k + 1)'
      BY <2>1, <3>1, <3>2, <3>3, <3>4 DEF InOrder, target_offset, target_length
    <3> QED
      BY <3>3, <3>5
  <2>4. CASE ~PutsInOrder(t)
    <3>1. UNCHANGED stream /\ \A u \in Tasks : pc'[u] \in Put <=> pc[u] \in Put
      BY <2>1, <2>4, PutStays DEF PutsAnywhere
    <3>2. InOrder(k)'
      BY <2>1, <2>2, <3>1 DEF InOrder, stream, target_offset, target_length
    <3> QED
      BY <2>1, <2>2, <3>2
  <2> QED
    BY <2>3, <2>4
<1> QED
  BY <1>1, <1>2, <1>3, <1>4, QuietSteps

(* So what the target holds is a prefix of the range.                      *)
LEMMA WrittenNext ==
    DInv /\ Loaded /\ Untouched /\ Ordered /\ WrittenInOrder /\ [PNext]_pvars => WrittenInOrder'
<1> SUFFICES ASSUME DInv, Loaded, Untouched, Ordered, WrittenInOrder, [PNext]_pvars,
                    ~can_seek', locked' # 0, Constant', NEW x \in DOMAIN target'
             PROVE  target'[x] = IF x \in StartPosition..cursor' - 1
                                 THEN <<locked', request'.offset + x - StartPosition>> ELSE <<0, 0>>
  BY DEF WrittenInOrder, Constant
<1>0. /\ Members /\ StartPosition \in Nat /\ Threshold \in Nat \ {0} /\ request.offset \in Nat /\ cursor \in Int
  BY DownloadAssumption DEF DInv, Members
<1>1. CASE first_range
  <2> DEFINE n == Lesser(Threshold, target_length)
  <2>1. /\ main = "first" /\ target' = Written(cursor, version, request.offset, n) /\ cursor' = cursor + n
        /\ locked' = version /\ request' = request
    BY <1>1 DEF first_range, blob
  <2>2. cursor = StartPosition /\ \A y \in DOMAIN target : target[y] = <<0, 0>>
    BY <2>1 DEF Untouched
  <2>3. n \in Int
    BY <1>0, Geometry DEF Lesser
  <2> QED
    BY <1>0, <2>1, <2>2, <2>3 DEF Written
<1>2. CASE first_range_416
  BY <1>2 DEF first_range_416, DInv, Phases
<1>3. CASE Quiet
  <2>1. UNCHANGED <<service, request, can_seek, locked, target, cursor>> /\ (UNCHANGED version \/ version' = 2)
    BY <1>3, QuietSteps DEF overwrite
  <2> QED
    BY <2>1 DEF WrittenInOrder, Constant
<1>4. ASSUME NEW t \in Tasks, SegmentStep(t) \/ wake_spuriously(t)
      PROVE  target'[x] = IF x \in StartPosition..cursor' - 1
                          THEN <<locked', request'.offset + x - StartPosition>> ELSE <<0, 0>>
  <2>1. Frame(t) /\ Effect(t) /\ UNCHANGED <<service, version, request, can_seek, locked>>
    BY <1>4, SegmentEffect, SegmentFrame
  <2>2. CASE PutsInOrder(t)
    <3>1. PICK k \in 0..next - 1 : InOrder(k)
      BY <2>1 DEF Ordered
    <3>2. /\ cursor = StartPosition + Threshold + Skip(k) /\ current_offset(t) = target_offset + Skip(k)
          /\ current_length(t) \in Nat /\ Skip(k) \in Nat
      BY <2>1, <2>2, <3>1, NextInOrder, SkipFacts
    <3>3. target' = Written(cursor, locked, current_offset(t), current_length(t)) /\ cursor' = cursor + current_length(t)
      <4>1. got[t] = locked
        BY <2>1, <2>2 DEF PutsInOrder, Loaded, Constant, Buffered, Waiting
      <4> QED
        BY <2>2, <4>1 DEF PutsInOrder, put
    <3>4. x \in DOMAIN target /\ target'[x] = IF x \in cursor..cursor + current_length(t) - 1
                                              THEN <<locked, current_offset(t) + x - cursor>> ELSE target[x]
      BY <3>3 DEF Written
    <3>5. target[x] = IF x \in StartPosition..cursor - 1 THEN <<locked, request.offset + x - StartPosition>> ELSE <<0, 0>>
      BY <2>1, <3>4 DEF WrittenInOrder, Constant
    <3>6. x \in cursor..cursor + current_length(t) - 1
            => current_offset(t) + x - cursor = request.offset + x - StartPosition
      BY <1>0, <3>2 DEF target_offset
    <3>7. x \in StartPosition..cursor' - 1 <=> x \in StartPosition..cursor - 1 \/ x \in cursor..cursor + current_length(t) - 1
      BY <1>0, <3>2, <3>3
    <3> QED
      BY <2>1, <3>4, <3>5, <3>6, <3>7
  <2>3. CASE ~PutsInOrder(t)
    <3>1. UNCHANGED stream
      BY <2>1, <2>3, PutStays DEF PutsAnywhere
    <3> QED
      BY <2>1, <3>1 DEF WrittenInOrder, Constant, stream
  <2> QED
    BY <2>2, <2>3
<1> QED
  BY <1>1, <1>2, <1>3, <1>4, QuietSteps

LEMMA PlacedNext ==
    DInv /\ Loaded /\ Untouched /\ Placed /\ [PNext]_pvars => Placed'
<1> SUFFICES ASSUME DInv, Loaded, Untouched, Placed, [PNext]_pvars,
                    can_seek', locked' # 0, StartPosition = 0, Constant', NEW x \in DOMAIN target'
             PROVE  target'[x] = IF Holds(x)' THEN <<locked', request'.offset + x>> ELSE <<0, 0>>
  BY DEF Placed
<1>0. Members /\ Threshold \in Nat \ {0} /\ request.offset \in Nat
  BY DownloadAssumption DEF DInv, Members
<1>1. CASE first_range
  <2> DEFINE n == Lesser(Threshold, target_length)
  <2>1. /\ main = "first" /\ target' = Written(cursor, version, request.offset, n)
        /\ locked' = version /\ UNCHANGED <<request, size, pc>>
    BY <1>1 DEF first_range, blob, segment
  <2>2. cursor = 0 /\ \A y \in DOMAIN target : target[y] = <<0, 0>>
    BY <2>1 DEF Untouched
  <2>3. n \in Int /\ UNCHANGED target_length
    BY <1>0, <2>1, Geometry DEF Lesser, target_length
  <2>4. Holds(x)' <=> x \in 0..n - 1
    BY <2>1, <2>3, NothingBegun DEF Holds, Put
  <2> QED
    BY <1>0, <2>1, <2>2, <2>3, <2>4 DEF Written
<1>2. CASE first_range_416
  BY <1>2 DEF first_range_416, DInv, Phases
<1>3. CASE Quiet
  <2>1. UNCHANGED <<service, request, size, can_seek, locked, target, pc>> /\ (UNCHANGED version \/ version' = 2)
    BY <1>3, QuietSteps DEF overwrite
  <2>2. Holds(x)' <=> Holds(x)
    BY <2>1 DEF Holds, current_offset, current_length, target_offset, target_length, End
  <2> QED
    BY <2>1, <2>2 DEF Placed, Constant
<1>4. ASSUME NEW t \in Tasks, SegmentStep(t) \/ wake_spuriously(t)
      PROVE  target'[x] = IF Holds(x)' THEN <<locked', request'.offset + x>> ELSE <<0, 0>>
  <2> DEFINE p == current_offset(t) - request.offset
             Here(u) == x \in current_offset(u) - request.offset..current_offset(u) - request.offset + current_length(u) - 1
  <2>1. Frame(t) /\ Effect(t) /\ UNCHANGED <<service, version, request, size, can_seek, locked>>
    BY <1>4, SegmentEffect, SegmentFrame
  <2>2. /\ Holds(x)' <=> x \in 0..Lesser(Threshold, target_length) - 1 \/ \E u \in Tasks : pc'[u] \in Put /\ Here(u)
        /\ Holds(x) <=> x \in 0..Lesser(Threshold, target_length) - 1 \/ \E u \in Tasks : pc[u] \in Put /\ Here(u)
    BY <2>1 DEF Holds, current_offset, current_length, target_offset, target_length, End
  <2>3. CASE PutsAnywhere(t)
    <3>1. Holds(x)' <=> Holds(x) \/ Here(t)
      BY <2>1, <2>2, <2>3, PutStays
    <3>2. got[t] = locked
      BY <2>1, <2>3 DEF PutsAnywhere, Loaded, Constant, Buffered
    <3>3. x \in DOMAIN target /\ target'[x] = IF Here(t) THEN <<locked, current_offset(t) + x - p>> ELSE target[x]
      BY <2>3, <3>2 DEF PutsAnywhere, put, Written
    <3>4. Here(t) => current_offset(t) + x - p = request.offset + x
      <4>1. current_offset(t) \in Nat /\ current_length(t) \in Int
        BY <1>0, TasksAreNumbers, Geometry
      <4> QED
        BY <1>0, <4>1
    <3>5. target[x] = IF Holds(x) THEN <<locked, request.offset + x>> ELSE <<0, 0>>
      BY <2>1, <3>3 DEF Placed, Constant
    <3> HIDE DEF Here, p
    <3> QED
      BY <2>1, <3>1, <3>3, <3>4, <3>5
  <2>4. CASE ~PutsAnywhere(t)
    <3>1. ~PutsInOrder(t)
      BY <2>1 DEF PutsInOrder, DInv, Linked, Waiting
    <3>2. UNCHANGED stream /\ \A u \in Tasks : pc'[u] \in Put <=> pc[u] \in Put
      BY <2>1, <2>4, <3>1, PutStays
    <3>3. Holds(x)' <=> Holds(x)
      BY <2>2, <3>2
    <3> QED
      BY <2>1, <3>2, <3>3 DEF Placed, Constant, stream
  <2> QED
    BY <2>3, <2>4
<1> QED
  BY <1>1, <1>2, <1>3, <1>4, QuietSteps

LEMMA NoGapNext == DInv /\ NoGap /\ [PNext]_pvars => NoGap'
<1> SUFFICES ASSUME DInv, NoGap, [PNext]_pvars, NEW x \in Threshold..Threshold + Skip(next' - 1) - 1
             PROVE  \E t \in Segments' : x \in Threshold + Skip(t - 1)..Threshold + Skip(t) - 1
  BY DEF NoGap
<1>0. next \in Nat \ {0} /\ Threshold \in Nat
  BY TasksAreNumbers, DownloadAssumption DEF DInv, Members
<1>1. next' = next \/ next' = next + 1
  <2>1. CASE first_range \/ first_range_416 \/ Quiet
    BY <2>1, QuietSteps DEF first_range, first_range_416, start_segment
  <2>2. ASSUME NEW t \in Tasks, SegmentStep(t) \/ wake_spuriously(t) PROVE next' = next
    BY <2>2, SegmentEffect, SegmentFrame
  <2> QED
    BY <2>1, <2>2, QuietSteps
<1>2. CASE next' = next
  BY <1>2 DEF NoGap, Segments
<1>3. CASE next' = next + 1
  <2>1. /\ next - 1 \in Nat /\ next' - 1 = next /\ Segments' = 1..next /\ Segments = 1..next - 1
        /\ Skip(next - 1) \in Nat /\ Skip(next) = Skip(next - 1) + Block /\ Block \in Nat
    <3>1. next - 1 \in Nat /\ next - 1 + 1 = next /\ next' - 1 = next
      BY <1>0, <1>3
    <3>2. Skip(next - 1) \in Nat /\ Skip(next - 1 + 1) = Skip(next - 1) + Block
      BY <3>1, SkipFacts
    <3> QED
      BY <3>1, <3>2, DownloadAssumption DEF Segments
  <2>2. CASE x <= Threshold + Skip(next - 1) - 1
    <3>1. x \in Threshold..Threshold + Skip(next - 1) - 1
      BY <1>0, <2>1, <2>2
    <3>2. PICK t \in Segments : x \in Threshold + Skip(t - 1)..Threshold + Skip(t) - 1
      BY <3>1 DEF NoGap
    <3>3. t \in Segments'
      BY <1>0, <2>1
    <3> QED
      BY <3>2, <3>3
  <2>3. CASE ~(x <= Threshold + Skip(next - 1) - 1)
    <3>1. x \in Threshold + Skip(next - 1)..Threshold + Skip(next) - 1 /\ next \in Segments'
      BY <1>0, <2>1, <2>3
    <3> QED
      BY <3>1
  <2> QED
    BY <2>2, <2>3
<1> QED
  BY <1>1, <1>2, <1>3

(* On a target that cannot seek, having passed the end means having put    *)
(* every segment, and the other way round.                                 *)
LEMMA AllInOrder ==
    ASSUME DInv, NEW k \in 0..next - 1, InOrder(k)
    PROVE  /\ smallest_offset >= End => \A t \in Segments : pc[t] \in Put
           /\ (\A t \in Segments : pc[t] \in Put) => k = next - 1
<1>0. Members /\ next \in Nat \ {0} /\ k \in Nat /\ Segments = 1..next - 1 /\ Segments \subseteq Tasks
  BY TasksAreNumbers DEF DInv, Members, Segments
<1>1. ASSUME smallest_offset >= End PROVE k = next - 1
  <2>1. SUFFICES ASSUME k # next - 1 PROVE FALSE
    OBVIOUS
  <2>2. k + 1 \in Segments /\ k + 1 \in Nat \ {0} /\ k + 1 - 1 = k
    BY <1>0, <2>1
  <2>3. current_offset(k + 1) < End /\ smallest_offset = target_offset + Skip(k)
    BY <2>2 DEF DInv, Phases, InOrder
  <2>4. current_offset(k + 1) = target_offset + Skip(k) /\ End \in Int /\ current_offset(k + 1) \in Nat
    BY <1>0, <2>2, Geometry
  <2> QED
    BY <1>1, <2>3, <2>4
<1>2. k = next - 1 => \A t \in Segments : pc[t] \in Put
  BY <1>0 DEF InOrder
<1>3. ASSUME \A t \in Segments : pc[t] \in Put PROVE k = next - 1
  <2>1. SUFFICES ASSUME k # next - 1 PROVE FALSE
    OBVIOUS
  <2>2. k + 1 \in Segments /\ k + 1 \in Tasks
    BY <1>0, <2>1
  <2>3. k + 1 <= k
    BY <1>3, <2>2 DEF InOrder
  <2> QED
    BY <1>0, <2>3
<1> QED
  BY <1>1, <1>2, <1>3

LEMMA CompleteNext == DInv /\ Ordered /\ Complete /\ [PNext]_pvars => Complete'
<1> SUFFICES ASSUME DInv, Ordered, Complete, [PNext]_pvars PROVE Complete'
  OBVIOUS
<1>0. /\ Members /\ next \in Nat \ {0} /\ Segments = 1..next - 1 /\ Segments \subseteq Tasks
      /\ version # 0 /\ Threshold \in Nat \ {0} /\ service \in {"blob", "file"}
  BY TasksAreNumbers, DownloadAssumption DEF DInv, Members, Segments
<1>1. CASE first_range
  <2>1. /\ next' = 1 /\ next = 1 /\ main' \in {"ok", "loop"} /\ locked' # 0 /\ (main' = "ok" => target_length <= Threshold)
        /\ UNCHANGED <<request, size>>
    BY <1>0, <1>1 DEF first_range, blob, DInv, Phases
  <2>2. Segments' = {}
    BY <2>1 DEF Segments
  <2>3. main' = "ok" => current_offset(next)' >= End'
    <3>1. UNCHANGED <<End, target_offset>> /\ current_offset(next)' = current_offset(1) /\ End \in Int /\ target_length \in Int
      BY <1>0, <2>1, Geometry DEF End, target_offset, current_offset, target_length
    <3>2. current_offset(1) = target_offset
      <4>1. 1 - 1 = 0 /\ Skip(1 - 1) = 0
        BY SkipFacts
      <4> QED
        BY <1>0, <4>1, Geometry
    <3> QED
      BY <1>0, <2>1, <3>1, <3>2 DEF End, target_offset, Members
  <2> QED
    BY <2>1, <2>2, <2>3 DEF Complete
<1>2. CASE first_range_416
  <2>1. /\ main = "first" /\ UNCHANGED <<size, request, locked, next>> /\ size <= request.offset
        /\ main' = "ok" => request.offset = 0
        /\ main' \in {"ok", "failed"}
    BY <1>2 DEF first_range_416, blob
  <2>2. locked = 0 /\ next = 1
    BY <2>1 DEF DInv, Phases
  <2> QED
    BY <1>0, <2>1, <2>2 DEF Complete, Members
<1>3. ASSUME UNCHANGED <<size, request, locked, next>>
      PROVE  UNCHANGED <<End, Segments>> /\ current_offset(next)' = current_offset(next)
  BY <1>3 DEF End, target_length, target_offset, current_offset, Segments
<1>4. CASE Quiet
  <2>1. UNCHANGED <<size, request, locked, pc, can_seek>>
    BY <1>4, QuietSteps
  <2>2. CASE start_segment
    BY <2>2 DEF start_segment, Complete
  <2>3. CASE first_range_fails
    BY <2>3 DEF first_range_fails, Complete, DInv, Phases
  <2>4. CASE wait_all \/ waited
    BY <2>4 DEF wait_all, waited, Complete
  <2>5. CASE join
    <3>1. main = "join" /\ UNCHANGED next /\ locked # 0 /\ current_offset(next) >= End
      BY <2>5 DEF join, DInv, Phases
    <3>2. \/ main' = "failed" /\ \E t \in Segments : pc[t] = "failed"
          \/ main' = "ok" /\ \A t \in Segments : pc[t] = "done"
      BY <2>5 DEF join
    <3> QED
      BY <1>3, <2>1, <3>1, <3>2 DEF Complete, Put
  <2>6. CASE file_join
    <3>1. /\ main = "join" /\ main' = "ok" /\ UNCHANGED next /\ locked # 0 /\ current_offset(next) >= End
          /\ smallest_offset >= End /\ service = "file"
          /\ \A t \in Segments : state[t] = "released"
      BY <2>6 DEF file_join, DInv, Phases
    <3>2. \A t \in Segments : pc[t] \in Put
      <4>1. CASE can_seek
        BY <1>0, <3>1, <4>1 DEF DInv, Linked, Put
      <4>2. CASE ~can_seek
        BY <3>1, <4>2, AllInOrder DEF Ordered
      <4> QED
        BY <4>1, <4>2
    <3> QED
      BY <1>3, <2>1, <3>1, <3>2 DEF Complete
  <2>7. CASE overwrite \/ UNCHANGED pvars
    <3>1. UNCHANGED <<main, next>>
      BY <2>7 DEF overwrite, pvars
    <3> QED
      BY <1>3, <2>1, <3>1 DEF Complete
  <2> QED
    BY <1>4, <2>2, <2>3, <2>4, <2>5, <2>6, <2>7 DEF Quiet
<1>5. ASSUME NEW t \in Tasks, SegmentStep(t) \/ wake_spuriously(t) PROVE Complete'
  <2>1. Frame(t) /\ Effect(t) /\ UNCHANGED <<size, request, locked, main, next>>
    BY <1>5, SegmentEffect, SegmentFrame
  <2>2. \A u \in Segments : /\ pc[u] \in Put => pc'[u] \in Put
                            /\ pc[u] = "failed" => pc'[u] = "failed"
    BY <1>0, <2>1, PutStays
  <2> QED
    BY <1>3, <2>1, <2>2 DEF Complete
<1> QED
  BY <1>1, <1>2, <1>4, <1>5, QuietSteps

-----------------------------------------------------------------------------
(* Sets of segments are finite.                                            *)
LEMMA SegmentSets ==
    ASSUME NEW S \in SUBSET Tasks
    PROVE  /\ IsFiniteSet(S) /\ Cardinality(S) \in Nat
           /\ \A T \in SUBSET S : Cardinality(T) <= Cardinality(S)
BY DownloadAssumption, FS_Subset, FS_CardinalityType

LEMMA CountedNext == DInv /\ Counted /\ [PNext]_pvars => Counted'
<1> SUFFICES ASSUME DInv, Counted, [PNext]_pvars PROVE Counted'
  OBVIOUS
<1> DEFINE Early == Writers \cap In({"released"})
<1>0. /\ Writers \in SUBSET Tasks /\ Writers' \in SUBSET Tasks
      /\ Early \in SUBSET Tasks /\ Early' \in SUBSET Tasks
      /\ m_initial_count \in Nat /\ writer \in Nat
  <2>1. /\ Writers \in SUBSET Tasks /\ Writers' \in SUBSET Tasks
        /\ Early \in SUBSET Tasks /\ Early' \in SUBSET Tasks
    BY DEF Writers
  <2> QED
    BY <2>1, SegmentSets, CountAssumption DEF Counted
<1>1. ASSUME writer' = writer, Writers' = Writers, Early' \in SUBSET Early PROVE Counted'
  <2>1. Cardinality(Early') <= Cardinality(Early) /\ Cardinality(Early') \in Nat /\ Cardinality(Early) \in Nat
    BY <1>0, <1>1, SegmentSets
  <2> QED
    BY <1>0, <1>1, <2>1 DEF Counted
<1>2. CASE first_range \/ first_range_416 \/ Quiet
  <2>1. UNCHANGED <<pc, writer>>
    BY <1>2, QuietSteps DEF first_range, first_range_416, segment, cond
  <2>2. \A t \in Tasks : state'[t] = "released" => state[t] = "released"
    <3>1. CASE start_segment
      <4>1. next \in Tasks /\ lock_async(next)
        BY <3>1, NextIsTask DEF start_segment, DInv
      <4> QED
        BY <4>1 DEF lock_async, DInv, IInv, TypeOK
    <3>2. CASE ~start_segment
      BY <1>2, <3>2, QuietSteps DEF first_range, first_range_416, vars, svars
    <3> QED
      BY <3>1, <3>2
  <2>3. Writers' = Writers /\ Early' \in SUBSET Early
    BY <2>1, <2>2 DEF Writers, In
  <2> QED
    BY <1>1, <2>1, <2>3
<1>3. ASSUME NEW t \in Tasks, SegmentStep(t) \/ wake_spuriously(t) PROVE Counted'
  <2>1. Frame(t) /\ Effect(t)
    BY <1>3, SegmentEffect
  <2>2. \A u \in Tasks \ {t} : /\ u \in Writers' <=> u \in Writers
                               /\ u \in Early' <=> u \in Early
    BY <2>1 DEF Frame, Writers, Waiting, In
  <2>3. CASE Queues(t)
    <3>1. /\ t \notin Writers /\ t \in Writers' /\ t \notin Early' /\ writer' = writer + 1
      BY <2>1, <2>3, ActiveSegments DEF Queues, Writers, Waiting, In, DInv, Linked
    <3>2. Writers' = Writers \cup {t} /\ Early' = Early
      BY <1>0, <2>2, <3>1
    <3>3. Cardinality(Writers \cup {t}) = Cardinality(Writers) + 1
      BY <1>0, <3>1, SegmentSets, GrantAdd
    <3> QED
      BY <3>1, <3>2, <3>3 DEF Counted
  <2>4. CASE PutsInOrder(t) /\ pc[t] = "turn"
    <3>1. /\ t \in Writers /\ t \notin Writers' /\ writer' = writer - 1
      BY <2>1, <2>4 DEF PutsInOrder, Writers, Waiting
    <3>2. Writers' = Writers \ {t} /\ Early' \in SUBSET Early
      BY <1>0, <2>2, <3>1
    <3>3. Cardinality(Writers \ {t}) = Cardinality(Writers) - 1
      BY <1>0, <3>1, SegmentSets, GrantRemove
    <3>4. Cardinality(Early') <= Cardinality(Early) /\ Cardinality(Early') \in Nat /\ Cardinality(Early) \in Nat
      BY <1>0, <3>2, SegmentSets
    <3> QED
      BY <1>0, <3>1, <3>2, <3>3, <3>4 DEF Counted
  <2>5. CASE Frees(t)
    <3>1. t \in Writers /\ t \in Writers' /\ writer' = writer
      BY <2>5 DEF Frees, Writers, Waiting
    <3>2. Writers' = Writers
      BY <1>0, <2>2, <3>1
    <3>3. CASE writer < m_initial_count
      <4>1. Cardinality(Early') <= Cardinality(Writers) /\ Cardinality(Early') \in Nat
        BY <1>0, <3>2, SegmentSets
      <4> QED
        BY <1>0, <3>1, <3>2, <3>3, <4>1 DEF Counted
    <3>4. CASE state'[t] = state[t]
      <4>1. Early' \in SUBSET Early
        BY <1>0, <2>2, <3>1, <3>4 DEF In
      <4> QED
        BY <1>1, <3>1, <3>2, <4>1
    <3> QED
      BY <2>5, <3>3, <3>4 DEF Frees
  <2>6. CASE ~Queues(t) /\ ~Frees(t) /\ ~(PutsInOrder(t) /\ pc[t] = "turn")
    <3>1. /\ t \in Writers <=> t \in Writers'
          /\ t \in Writers => state'[t] = state[t]
          /\ writer' = writer
      BY <2>1, <2>6, ActiveSegments DEF Effect, Fetches, Fails, Leaves, Starts, PutsAnywhere, PutsInOrder, Turns, Stays,
        Writers, Waiting
    <3>2. Writers' = Writers /\ Early' \in SUBSET Early
      BY <1>0, <2>2, <3>1 DEF In
    <3> QED
      BY <1>1, <3>1, <3>2
  <2> QED
    BY <2>3, <2>4, <2>5, <2>6
<1> QED
  BY <1>2, <1>3, QuietSteps
-----------------------------------------------------------------------------
(* The inductive invariant of the download.                                *)
Content == Loaded /\ Untouched /\ Ordered /\ WrittenInOrder /\ Placed
Full == DInv /\ Content /\ NoGap /\ Complete /\ Counted

LEMMA InitFull == PInit => Full
<1> SUFFICES ASSUME PInit PROVE Full
  OBVIOUS
<1>1. DInv
  BY InitDInv
<1>2. /\ main = "first" /\ locked = 0 /\ next = 1 /\ version = 1 /\ cursor = StartPosition /\ writer = 0
      /\ \A t \in Tasks : pc[t] = "idle"
      /\ \A x \in DOMAIN target : target[x] = <<0, 0>>
  BY DEF PInit
<1>3. Content
  BY <1>2 DEF Content, Loaded, Untouched, Ordered, WrittenInOrder, Placed, Buffered, Waiting
<1>4. NoGap
  <2>1. next - 1 = 0 /\ Skip(0) = 0 /\ Threshold \in Nat
    BY <1>2, SkipFacts, DownloadAssumption
  <2> QED
    BY <2>1 DEF NoGap
<1>5. Complete
  BY <1>2 DEF Complete
<1>6. Counted
  <2>1. Writers = {} /\ Writers \cap In({"released"}) = {}
    BY <1>2 DEF Writers, Waiting
  <2> QED
    BY <1>2, <2>1, FS_EmptySet, CountAssumption DEF Counted
<1> QED
  BY <1>1, <1>3, <1>4, <1>5, <1>6 DEF Full

(* The semaphore, the segments and the target keep to it in every step.    *)
THEOREM DownloadInvariant == PSpec => []Full
<1>1. Full /\ [PNext]_pvars => Full'
  BY DInvNext, LoadedNext, UntouchedNext, OrderedNext, WrittenNext, PlacedNext, NoGapNext, CompleteNext, CountedNext
    DEF Full, Content
<1> QED
  BY InitFull, <1>1, PTL DEF PSpec

(* The bytes of a target that cannot seek come in order.                   *)
THEOREM TargetIsPrefix == PSpec => []WrittenInOrder
BY DownloadInvariant, PTL DEF Full, Content

(* When a download succeeds, the target holds the range that was asked     *)
(* for, of one version of the blob.                                        *)
THEOREM SuccessMeansRange == PSpec => []TargetHoldsRange
<1>1. Full => TargetHoldsRange
  <2> SUFFICES ASSUME Full, main = "ok", size > 0, Constant, can_seek => StartPosition = 0, NEW x \in DOMAIN target
               PROVE  target[x] = IF x \in StartPosition..StartPosition + target_length - 1
                                  THEN <<locked, request.offset + x - StartPosition>> ELSE <<0, 0>>
    BY DEF TargetHoldsRange, Constant
  <2> USE DEF Full, Content
  <2>0. /\ DInv /\ Members /\ next \in Nat \ {0} /\ next - 1 \in Nat /\ Segments \subseteq Tasks /\ StartPosition \in Nat
        /\ Threshold \in Nat \ {0} /\ Block \in Nat \ {0} /\ request.offset \in Nat
    BY TasksAreNumbers, DownloadAssumption DEF DInv, Members, Segments
  <2>1. locked # 0
    BY DEF Complete, DInv, Members
  <2>2. /\ current_offset(next) >= End /\ \A t \in Segments : pc[t] \in Put
    BY <2>1 DEF Complete
  <2>3. target_length <= Threshold + Skip(next - 1) /\ target_length \in Int /\ Skip(next - 1) \in Nat
    <3>1. /\ current_offset(next) = target_offset + Skip(next - 1) /\ Skip(next - 1) \in Nat
          /\ target_length \in Int /\ End \in Int
      BY <2>0, Geometry
    <3> QED
      BY <2>0, <2>2, <3>1 DEF target_offset, End
  <2>4. CASE ~can_seek
    <3>1. PICK k \in 0..next - 1 : InOrder(k)
      BY <2>1, <2>4 DEF Ordered
    <3>2. k = next - 1
      BY <2>0, <2>2, <3>1, AllInOrder
    <3>3. cursor = StartPosition + target_length
      BY <2>0, <2>3, <3>1, <3>2 DEF InOrder, Lesser
    <3>4. target[x] = IF x \in StartPosition..cursor - 1
                      THEN <<locked, request.offset + x - StartPosition>> ELSE <<0, 0>>
      <4>1. WrittenInOrder /\ Constant
        OBVIOUS
      <4> QED
        BY <2>1, <2>4, <4>1 DEF WrittenInOrder, Constant
    <3>5. x \in StartPosition..cursor - 1 <=> x \in StartPosition..StartPosition + target_length - 1
      BY <2>0, <2>3, <3>3
    <3> QED
      BY ONLY <3>4, <3>5
  <2>5. CASE can_seek
    <3>1. Holds(x) <=> x \in 0..target_length - 1
      <4>1. ASSUME NEW t \in Tasks, t \in Segments
            PROVE  /\ Skip(t - 1) \in Nat /\ Skip(t) = Skip(t - 1) + Block
                   /\ current_offset(t) - request.offset = Threshold + Skip(t - 1)
                   /\ current_length(t) = Lesser(Block, target_length - Threshold - Skip(t - 1))
        <5>1. t \in Nat \ {0} /\ t - 1 \in Nat /\ t - 1 + 1 = t
          BY TasksAreNumbers
        <5>2. Skip(t - 1) \in Nat /\ Skip(t - 1 + 1) = Skip(t - 1) + Block
          BY <5>1, SkipFacts
        <5>3. current_offset(t) = target_offset + Skip(t - 1)
          BY <2>0, <5>1, Geometry
        <5> QED
          BY <2>0, <2>3, <5>1, <5>2, <5>3 DEF target_offset, current_length, End
      <4>2. ASSUME NEW t \in Tasks, pc[t] \in Put,
                   x \in current_offset(t) - request.offset..current_offset(t) - request.offset + current_length(t) - 1
            PROVE  x \in 0..target_length - 1
        <5>1. t \in Segments
          BY <2>0, <4>2, ActiveSegments DEF Put
        <5> QED
          BY <2>0, <2>3, <4>1, <4>2, <5>1 DEF Lesser
      <4>3. ASSUME x \in 0..target_length - 1, ~(x \in 0..Lesser(Threshold, target_length) - 1)
            PROVE  \E t \in Tasks : pc[t] \in Put /\ x \in current_offset(t) - request.offset
                                             ..current_offset(t) - request.offset + current_length(t) - 1
        <5>1. x \in Threshold..Threshold + Skip(next - 1) - 1
          BY <2>0, <2>3, <4>3 DEF Lesser
        <5>2. PICK t \in Segments : x \in Threshold + Skip(t - 1)..Threshold + Skip(t) - 1
          BY <5>1 DEF NoGap
        <5>3. x \in Threshold + Skip(t - 1)..Threshold + Skip(t - 1) + current_length(t) - 1
          BY <2>0, <2>3, <4>1, <4>3, <5>2 DEF Lesser
        <5> QED
          BY <2>0, <2>2, <4>1, <5>2, <5>3
      <4>4. x \in 0..Lesser(Threshold, target_length) - 1 => x \in 0..target_length - 1
        BY <2>0, <2>3 DEF Lesser
      <4> QED
        BY <4>2, <4>3, <4>4 DEF Holds
    <3>2. x \in 0..target_length - 1 => request.offset + x - 0 = request.offset + x
      BY <2>0
    <3> QED
      BY <2>1, <2>3, <2>5, <3>1, <3>2 DEF Placed
  <2> QED
    BY <2>4, <2>5
<1> QED
  BY <1>1, DownloadInvariant, PTL

(* No segment is still running when the operation ends, so none touches    *)
(* its locals afterwards.                                                  *)
THEOREM NoSegmentOutlives == PSpec => []LocalsOutliveTasks
<1>1. Full => LocalsOutliveTasks
  <2> SUFFICES ASSUME Full, main \in {"ok", "failed"}, can_seek \/ \A t \in Tasks : pc[t] # "failed", NEW t \in Tasks
               PROVE  pc[t] \notin {"got"} \cup Waiting /\ ~(pc[t] = "idle" /\ state[t] # "idle")
    BY DEF LocalsOutliveTasks
  <2> USE DEF Full
  <2>1. CASE t \notin Segments
    <3>1. state[t] = "idle" /\ pc[t] = "idle"
      BY <2>1, ActiveSegments
    <3> QED
      BY <3>1 DEF Waiting
  <2>2. CASE t \in Segments
    <3>1. state[t] = "released" /\ locked # 0 /\ next # 1
      BY <2>2, ActiveSegments DEF DInv, Phases, Segments
    <3>2. pc[t] \in {"done", "failed"} \cup Waiting /\ (can_seek => pc[t] \notin Waiting)
      BY <3>1 DEF DInv, Linked
    <3>3. ~can_seek => pc[t] \in Put
      <4>1. Segments \subseteq Tasks
        BY TasksAreNumbers DEF DInv, Members, Segments
      <4> QED
        BY <2>2, <3>1, <4>1 DEF Complete
    <3> QED
      BY <3>2, <3>3 DEF Put, Waiting
  <2> QED
    BY <2>1, <2>2
<1> QED
  BY <1>1, DownloadInvariant, PTL

(* The segment whose turn it is never waits for permits that only waiting  *)
(* segments hold.                                                          *)
THEOREM TurnIsNotStarved == PSpec => []NextSegmentGetsPermit
<1>1. Full => NextSegmentGetsPermit
  <2> SUFFICES ASSUME Full, NEW t \in Segments, smallest_offset = current_offset(t), state[t] = "queued"
               PROVE  \E u \in Segments : state[u] \in {"popped", "holding"} /\ pc[u] \notin Waiting
    BY DEF NextSegmentGetsPermit
  <2> USE DEF Full, Content
  <2>0. /\ IInv /\ Members /\ next \in Nat \ {0} /\ Segments = 1..next - 1 /\ Segments \subseteq Tasks /\ t \in Tasks
        /\ Len(requests) = next - 1 /\ \A i \in 1..next - 1 : requests[i] = i
        /\ Len(m_queue) \in Nat
    BY TasksAreNumbers, LenProperties DEF DInv, Members, Segments, Phases, IInv, TypeOK
  <2>1. t > Left /\ Len(m_queue) # 0
    BY <2>0 DEF IInv, QueueIsSuffix, Left
  <2>2. m_count = 0
    BY <2>0, <2>1, EmptySeq DEF IInv, NoIdlePermit
  <2>3. PICK u \in Tasks : state[u] \in {"popped", "holding"}
    <3>1. Cardinality(WithPermit) # 0
      BY <2>0, <2>2, CountAssumption DEF IInv, PermitsConserved, WithPermit
    <3>2. WithPermit # {}
      BY <3>1, FS_EmptySet
    <3> QED
      BY <3>2 DEF WithPermit, In
  <2>4. u \in Segments /\ u < t
    <3>1. u \in Segments
      BY <2>3, ActiveSegments
    <3>2. ~(u > Left)
      BY <2>0, <2>3, <3>1 DEF IInv, QueueIsSuffix
    <3> QED
      BY <2>0, <2>1, <3>1, <3>2 DEF Left
  <2>5. pc[u] \notin Waiting
    <3>1. CASE can_seek
      BY <3>1 DEF DInv, Linked
    <3>2. CASE ~can_seek
      <4>1. PICK k \in 0..next - 1 : InOrder(k)
        BY <2>0, <3>2, ActiveSegments DEF Ordered
      <4>2. t \in Nat \ {0} /\ t - 1 \in Nat /\ k \in Nat /\ u \in Nat
        BY <2>0, <2>4, <4>1
      <4>3. Skip(t - 1) = Skip(k) /\ Skip(k) \in Nat /\ Skip(t - 1) \in Nat
        <5>1. /\ current_offset(t) = target_offset + Skip(t - 1) /\ target_offset \in Nat
              /\ Skip(t - 1) \in Nat /\ Skip(k) \in Nat
          BY <2>0, <4>2, Geometry, SkipFacts
        <5>2. target_offset + Skip(k) = target_offset + Skip(t - 1)
          BY <4>1, <5>1 DEF InOrder
        <5> QED
          BY <5>1, <5>2
      <4>4. ~(t - 1 < k) /\ ~(k < t - 1)
        <5>1. (t - 1 < k => Skip(t - 1) + Block <= Skip(k)) /\ (k < t - 1 => Skip(k) + Block <= Skip(t - 1))
          BY <4>2, SkipFacts
        <5> QED
          BY <4>3, <5>1, DownloadAssumption
      <4>5. u <= k
        BY <2>4, <4>2, <4>4
      <4> QED
        BY <4>1, <4>5 DEF InOrder, Put, Waiting
    <3> QED
      BY <3>1, <3>2
  <2> QED
    BY <2>3, <2>4, <2>5
<1> QED
  BY <1>1, DownloadInvariant, PTL

(* The segments in memory are fewer than twice the parallelism factor.     *)
THEOREM MemoryIsBounded == PSpec => []BuffersBounded
<1>1. Full => BuffersBounded
  <2> SUFFICES ASSUME Full PROVE BuffersBounded
    OBVIOUS
  <2> USE DEF Full
  <2> DEFINE B == {t \in Tasks : pc[t] \in {"got"} \cup Waiting}
             Early == Writers \cap In({"released"})
  <2>1. B \in SUBSET (WithPermit \cup Early)
    <3> SUFFICES ASSUME NEW t \in Tasks, pc[t] \in {"got"} \cup Waiting PROVE t \in WithPermit \cup Early
      OBVIOUS
    <3>1. state[t] \in {"holding", "released"}
      BY ActiveSegments DEF Waiting
    <3>2. state[t] = "released" => pc[t] \in Waiting
      BY DEF DInv, Linked, Waiting
    <3> QED
      BY <3>1, <3>2 DEF WithPermit, In, Writers
  <2>2. WithPermit \in SUBSET Tasks /\ Early \in SUBSET Tasks /\ WithPermit \cup Early \in SUBSET Tasks
    BY DEF WithPermit, In, Writers
  <2>3. /\ Cardinality(B) <= Cardinality(WithPermit \cup Early)
        /\ Cardinality(WithPermit \cup Early) <= Cardinality(WithPermit) + Cardinality(Early)
        /\ Cardinality(B) \in Nat /\ Cardinality(WithPermit \cup Early) \in Nat
        /\ Cardinality(WithPermit) \in Nat /\ Cardinality(Early) \in Nat
    <3>1. /\ Cardinality(WithPermit \cup Early) = Cardinality(WithPermit) + Cardinality(Early) - Cardinality(WithPermit \cap Early)
          /\ Cardinality(WithPermit \cap Early) \in Nat
      BY <2>2, SegmentSets, FS_Union
    <3>2. B \in SUBSET Tasks
      BY <2>1, <2>2
    <3> QED
      BY <2>1, <2>2, <3>1, <3>2, SegmentSets
  <2>4. Cardinality(WithPermit) <= m_initial_count /\ Cardinality(Early) < m_initial_count /\ m_initial_count \in Nat
    <3>1. m_count \in Nat /\ m_count + Cardinality(WithPermit) = m_initial_count /\ m_initial_count \in Nat
      BY CountAssumption DEF DInv, IInv, TypeOK, PermitsConserved, WithPermit
    <3> QED
      BY <2>3, <3>1 DEF Counted
  <2> HIDE DEF B, Early
  <2>5. Cardinality(B) < 2 * m_initial_count
    BY <2>3, <2>4
  <2> QED
    BY <2>5 DEF B, BuffersBounded
<1> QED
  BY <1>1, DownloadInvariant, PTL
=============================================================================

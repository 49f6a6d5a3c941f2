-------------------------- MODULE ParallelDownload --------------------------
(***************************************************************************)
(* cloud_blob::download_range_to_stream_async (src/cloud_blob.cpp) with a  *)
(* parallelism factor: the first range is downloaded into the target       *)
(* stream by itself, the rest in segments that run under an                *)
(* async_semaphore and reach the target under `mutex'; on a target that    *)
(* cannot seek each segment waits on a condition variable for its turn.    *)
(* cloud_file has a copy of it (src/cloud_file.cpp) whose segments carry   *)
(* no etag, lose their permit when they fail, and are not joined.          *)
(*                                                                         *)
(* A byte of the blob is <<version, position>>; lengths are in units of    *)
(* which a segment holds Block.  The steps under `mutex' are atomic.  The  *)
(* condition variable has its own mutex (cv_owner): a waiter tests its     *)
(* predicate and blocks in two steps, and between them a thread without    *)
(* that mutex may notify.  A canceled operation is a failed download.      *)
(***************************************************************************)
EXTENDS AsyncSemaphore, Integers

CONSTANTS
    Services,       \* subset of {"blob", "file"}
    Block,          \* protocol::transactional_md5_block_size
    Threshold,      \* single_blob_download_threshold
    SeekableSizes,  \* the sizes of the blob to try when target.can_seek()
    StreamSizes,    \* and when the target cannot seek
    Offsets,        \* of the range asked for; the whole blob is always tried
    MayFail,        \* the values of target.can_seek() for which downloads may
                    \* fail and somebody may overwrite the blob
    StartPosition   \* of the target stream

ASSUME DownloadAssumption ==
    /\ IsFiniteSet(Tasks) /\ Tasks = 1..Cardinality(Tasks)
    /\ Block \in Nat \ {0} /\ Threshold \in Nat \ {0}
    /\ SeekableSizes \cup StreamSizes \cup Offsets \subseteq Nat /\ StartPosition \in Nat
    /\ \A s \in SeekableSizes \cup StreamSizes : s <= Threshold + Block * Cardinality(Tasks)
    /\ MayFail \subseteq BOOLEAN /\ Services \subseteq {"blob", "file"}

VARIABLES
    service,            \* whose download this is
    size, version,      \* of the blob or file; version 2 after it was overwritten
    request,            \* [offset, length, whole]
    can_seek,           \* of the target
    main,               \* the step of the thread that runs the operation
    locked,             \* the version whose etag the first range returned
    next,               \* the for loop's segment
    target, cursor,     \* the bytes at each position, and the stream's position
    smallest_offset,
    pc, got,            \* per segment: its step, and the version in its buffer
    cv_owner,           \* of condition_variable_mutex, {} if free
    writer

blob == <<service, size, version>>
stream == <<target, cursor, smallest_offset>>
cond == <<cv_owner, writer>>
segment == <<pc, got>>
pvars == <<vars, blob, request, can_seek, main, locked, next, stream, segment, cond>>

Infinite == 1000    \* numeric_limits<size64_t>::max()
Lesser(a, b) == IF a < b THEN a ELSE b

may_fail == can_seek \in MayFail

Segments == 1..next - 1     \* the segments started so far

(* The range that is really there.                                         *)
target_length == Lesser(request.length, size - request.offset)
target_offset == request.offset + Threshold
End == request.offset + target_length
current_offset(t) == target_offset + (t - 1) * Block
current_length(t) == Lesser(Block, End - current_offset(t))

(* The bytes [from, from + n) of version v written at position p.          *)
Written(p, v, from, n) ==
    [x \in DOMAIN target |-> IF x \in p..p + n - 1 THEN <<v, from + x - p>> ELSE target[x]]

PInit ==
    /\ Init
    /\ \/ can_seek = TRUE /\ size \in SeekableSizes
       \/ can_seek = FALSE /\ size \in StreamSizes
    /\ service \in Services /\ version = 1
    /\ request \in [offset : Offsets, length : {Threshold + 1, Infinite}, whole : {FALSE}]
                   \cup {[offset |-> 0, length |-> Infinite, whole |-> TRUE]}
    /\ main = "first"
    /\ locked = 0 /\ next = 1
    /\ target = [x \in 0..StartPosition + Threshold + Block * Cardinality(Tasks) |-> <<0, 0>>]
    /\ cursor = StartPosition
    /\ smallest_offset = 0
    /\ pc = [t \in Tasks |-> "idle"] /\ got = [t \in Tasks |-> 0]
    /\ cv_owner = {} /\ writer = 0

overwrite ==
    /\ may_fail /\ version = 1
    /\ version' = 2
    /\ UNCHANGED <<vars, service, size, request, can_seek, main, locked, next, stream, segment, cond>>

(* The first range, and what follows it in the continuation: the length of *)
(* the rest and the etag that the segments must find.                      *)
first_range ==
    /\ main = "first"
    /\ size > request.offset
    /\ LET n == Lesser(Threshold, target_length) IN
         /\ target' = Written(cursor, version, request.offset, n)
         /\ cursor' = cursor + n
    /\ locked' = version
    /\ main' = IF target_length <= Threshold THEN "ok" ELSE "loop"
    /\ smallest_offset' = target_offset
    /\ UNCHANGED <<vars, blob, request, can_seek, next, segment, cond>>

(* 416: the service's error text ends up in the destination stream.  A     *)
(* whole empty blob is not an error: the operation only asks for the       *)
(* attributes.                                                             *)
first_range_416 ==
    /\ main = "first"
    /\ size <= request.offset
    /\ target' = Written(cursor, 0, 1, 1)
    /\ cursor' = cursor + 1
    /\ main' = IF request.offset = 0 /\ (request.whole \/ service = "file") THEN "ok" ELSE "failed"
    /\ UNCHANGED <<vars, blob, request, can_seek, locked, next, smallest_offset, segment, cond>>

first_range_fails ==
    /\ may_fail /\ main = "first"
    /\ main' = "failed"
    /\ UNCHANGED <<vars, blob, request, can_seek, locked, next, stream, segment, cond>>

(* The loop: one call of lock_async per segment.                           *)
start_segment ==
    /\ main = "loop" /\ current_offset(next) < End
    /\ lock_async(next)
    /\ next' = next + 1
    /\ UNCHANGED <<blob, request, can_seek, main, locked, stream, segment, cond>>

wait_all ==
    /\ main = "loop" /\ current_offset(next) >= End
    /\ wait_all_async
    /\ main' = "wait"
    /\ UNCHANGED <<blob, request, can_seek, locked, next, stream, segment, cond>>

(* wait_all_async().get() returns.  Mutant: nobody waits.                  *)
waited_NotAtAll ==
    /\ main = "wait"
    /\ main' = "join"
    /\ UNCHANGED <<vars, blob, request, can_seek, locked, next, stream, segment, cond>>
waited ==
    /\ main = "wait"
    /\ resume
    /\ main' = "join"
    /\ UNCHANGED <<blob, request, can_seek, locked, next, stream, segment, cond>>

(* when_all: the first exception ends it, otherwise all tasks are done.    *)
(* The last wait is for smallest_offset.                                   *)
join ==
    /\ main = "join" /\ service = "blob"
    /\ \/ /\ \E t \in Segments : pc[t] = "failed"
          /\ main' = "failed"
       \/ /\ \A t \in Segments : pc[t] = "done"
          /\ smallest_offset >= End /\ cv_owner = {}
          /\ main' = "ok"
    /\ UNCHANGED <<vars, blob, request, can_seek, locked, next, stream, segment, cond>>

(* For a file it is the only one.                                          *)
file_join ==
    /\ main = "join" /\ service = "file"
    /\ smallest_offset >= End /\ cv_owner = {}
    /\ main' = "ok"
    /\ UNCHANGED <<vars, blob, request, can_seek, locked, next, stream, segment, cond>>
-----------------------------------------------------------------------------
main_only == <<blob, request, can_seek, main, locked, next>>

Move(t, to) == pc' = [pc EXCEPT ![t] = to]

(* The ETag in If-Match.  Mutant: the condition is the caller's alone, as  *)
(* it is for a file.                                                       *)
etag_matches_Unchecked == TRUE
etag_matches == service = "blob" => version = locked

(* A segment with its permit downloads its range into a buffer of its own. *)
download_segment(t) ==
    /\ state[t] = "holding" /\ pc[t] = "idle"
    /\ etag_matches
    /\ Move(t, "got") /\ got' = [got EXCEPT ![t] = version]
    /\ UNCHANGED <<vars, main_only, stream, cond>>

segment_fails(t) ==
    /\ may_fail /\ service = "blob"
    /\ state[t] = "holding" /\ pc[t] = "idle"
    /\ Move(t, "unwinding")
    /\ UNCHANGED <<vars, main_only, got, stream, cond>>

(* A file's segment throws with its permit, and nobody looks at its task.  *)
file_segment_fails(t) ==
    /\ may_fail /\ service = "file"
    /\ state[t] = "holding" /\ pc[t] = "idle"
    /\ Move(t, "failed")
    /\ UNCHANGED <<vars, main_only, got, stream, cond>>

(* sem_unlocker gives the permit back when the continuation is over, also  *)
(* by an exception; a file's unlocks when it has written.  Mutant: not by  *)
(* an exception.                                                           *)
release_NotUnwinding(t) ==
    /\ pc[t] \in {"written", "unwinding"}
    /\ IF pc[t] = "written" THEN dequeue_pending(t) ELSE UNCHANGED vars
    /\ Move(t, IF pc[t] = "written" THEN "done" ELSE "failed")
    /\ UNCHANGED <<main_only, got, stream, cond>>
release(t) ==
    /\ pc[t] \in {"written", "unwinding"}
    /\ dequeue_pending(t)
    /\ Move(t, IF pc[t] = "written" THEN "done" ELSE "failed")
    /\ UNCHANGED <<main_only, got, stream, cond>>

(* The buffer goes to position p of the stream; a short last segment       *)
(* counts as a whole one.                                                  *)
put(t, p) ==
    /\ target' = Written(p, got[t], current_offset(t), current_length(t))
    /\ cursor' = p + current_length(t)
    /\ smallest_offset' = smallest_offset + Block

(* The target can seek: the segment is written where it belongs, counted   *)
(* from the start of the stream.                                           *)
write_seekable(t) ==
    /\ can_seek /\ pc[t] = "got"
    /\ put(t, current_offset(t) - request.offset)
    /\ Move(t, "written")
    /\ UNCHANGED <<vars, main_only, got, cond>>

(* notify_all, on the function pc0 from segments to their steps.           *)
Notified(pc0) == [t \in Tasks |-> IF pc0[t] = "blocked" THEN "waiting" ELSE pc0[t]]

(* The target cannot seek and it is this segment's turn: written, notified *)
(* and unlocked under `mutex', without condition_variable_mutex.  Mutant:  *)
(* it does not look whose turn it is.                                      *)
write_direct_AnyTime(t) ==
    /\ ~can_seek /\ pc[t] = "got"
    /\ put(t, cursor)
    /\ pc' = Notified([pc EXCEPT ![t] = "done"])
    /\ dequeue_pending(t)
    /\ UNCHANGED <<main_only, got, cond>>
write_direct(t) ==
    /\ ~can_seek /\ pc[t] = "got"
    /\ smallest_offset = current_offset(t)
    /\ put(t, cursor)
    /\ pc' = Notified([pc EXCEPT ![t] = "done"])
    /\ dequeue_pending(t)
    /\ UNCHANGED <<main_only, got, cond>>

(* It is not: one more writer ...                                          *)
count_writer(t) ==
    /\ ~can_seek /\ pc[t] = "got"
    /\ smallest_offset # current_offset(t)
    /\ writer' = writer + 1
    /\ Move(t, "counted")
    /\ UNCHANGED <<vars, main_only, got, stream, cv_owner>>

(* ... that gives its permit back while there are few of them.  Mutant:    *)
(* each of them does.                                                      *)
early_unlock_Always(t) == TRUE
early_unlock(t) == writer < m_initial_count

unlock_early(t) ==
    /\ pc[t] = "counted"
    /\ \/ early_unlock(t) /\ dequeue_pending(t)
       \/ ~early_unlock(t) /\ UNCHANGED vars
    /\ Move(t, "waiting")
    /\ UNCHANGED <<main_only, got, stream, cond>>

(* condition_variable->wait: the predicate under condition_variable_mutex, *)
(* then, if it is false, the thread blocks and lets go of that mutex.      *)
my_turn(t) == smallest_offset = current_offset(t)

evaluate_predicate(t) ==
    /\ pc[t] = "waiting" /\ cv_owner = {}
    /\ cv_owner' = {t}
    /\ Move(t, IF my_turn(t) THEN "turn" ELSE "evaluated")
    /\ UNCHANGED <<vars, main_only, got, stream, writer>>

block(t) ==
    /\ pc[t] = "evaluated"
    /\ cv_owner' = {}
    /\ Move(t, "blocked")
    /\ UNCHANGED <<vars, main_only, got, stream, writer>>

wake_spuriously(t) ==
    /\ pc[t] = "blocked"
    /\ Move(t, "waiting")
    /\ UNCHANGED <<vars, main_only, got, stream, cond>>

(* Its turn, and still under condition_variable_mutex: write, notify and   *)
(* leave; the permit, if it was kept, is returned by release.  That        *)
(* smallest_offset has passed it, where the code throws, cannot happen: no *)
(* other segment has this offset.                                          *)
write_in_turn(t) ==
    /\ pc[t] = "turn" /\ smallest_offset = current_offset(t)
    /\ put(t, cursor)
    /\ pc' = Notified([pc EXCEPT ![t] = IF state[t] = "holding" THEN "written" ELSE "done"])
    /\ writer' = writer - 1
    /\ cv_owner' = {}
    /\ UNCHANGED <<vars, main_only, got>>

(* unlock() of another segment sets this one's event.                      *)
granted(t) ==
    /\ set(t)
    /\ UNCHANGED <<main_only, stream, segment, cond>>

MainStep ==
    \/ first_range \/ first_range_416 \/ first_range_fails
    \/ start_segment \/ wait_all \/ waited \/ join \/ file_join

SegmentStep(t) ==
    \/ download_segment(t) \/ segment_fails(t) \/ file_segment_fails(t) \/ release(t) \/ granted(t)
    \/ write_seekable(t) \/ write_direct(t)
    \/ count_writer(t) \/ unlock_early(t)
    \/ evaluate_predicate(t) \/ block(t) \/ write_in_turn(t)

PNext ==
    \/ MainStep \/ overwrite
    \/ \E t \in Tasks : SegmentStep(t) \/ wake_spuriously(t)

PSpec == PInit /\ [][PNext]_pvars

(* Every thread that can take a step does: the pool has a thread for each, *)
(* downloads end one way or the other, and mutexes are fair.  Nothing is   *)
(* assumed about spurious wake-ups.                                        *)
PFairSpec ==
    /\ PSpec
    /\ WF_pvars(MainStep)
    /\ \A t \in Tasks : WF_pvars(SegmentStep(t)) /\ SF_pvars(evaluate_predicate(t))
-----------------------------------------------------------------------------
(* The steps of a segment that waits for its turn.                         *)
Waiting == {"counted", "waiting", "evaluated", "blocked", "turn"}

(* A download that succeeds has put exactly the bytes of the range, all of *)
(* one version of the blob, into the target from where the stream stood,   *)
(* although segments come in any order and the blob may change meanwhile   *)
(* (a file's must not).  Excepted are an empty blob and a target that can  *)
(* seek and does not stand at its start (see first_range_416 and           *)
(* write_seekable).                                                        *)
TargetHoldsRange ==
    /\ main = "ok" /\ size > 0 /\ (service = "file" => version = 1)
    /\ can_seek => StartPosition = 0
    =>
        \A x \in DOMAIN target :
            target[x] = IF x \in StartPosition..StartPosition + target_length - 1
                        THEN <<locked, request.offset + x - StartPosition>> ELSE <<0, 0>>

(* The operation's locals (mutex, writer, condition_variable_mutex) are    *)
(* captured by reference: it does not end while a segment can touch them.  *)
(* Not so if the target cannot seek and a segment has failed: when_all     *)
(* then leaves the others at the condition variable.                       *)
LocalsOutliveTasks ==
    main \in {"ok", "failed"} /\ (can_seek \/ \A t \in Tasks : pc[t] # "failed") =>
        \A t \in Tasks : pc[t] \notin {"got"} \cup Waiting
                         /\ ~(pc[t] = "idle" /\ state[t] # "idle")

(* A target that cannot seek receives the bytes strictly in order: at any  *)
(* moment it holds a prefix of the range (of a file that does not change). *)
WrittenInOrder ==
    ~can_seek /\ locked # 0 /\ (service = "file" => version = 1) =>
        \A x \in DOMAIN target :
            target[x] = IF x \in StartPosition..cursor - 1
                        THEN <<locked, request.offset + x - StartPosition>> ELSE <<0, 0>>

(* The segments that wait for their turn never hold all permits while the  *)
(* one whose turn it is waits for a permit.                                *)
NextSegmentGetsPermit ==
    \A t \in Segments :
        smallest_offset = current_offset(t) /\ state[t] = "queued"
          => \E u \in Segments : state[u] \in {"popped", "holding"} /\ pc[u] \notin Waiting

(* At most 2 * parallelism_factor - 1 segments are in memory: the writers  *)
(* that gave their permit back early are fewer than the factor.            *)
BuffersBounded ==
    Cardinality({t \in Tasks : pc[t] \in {"got"} \cup Waiting}) < 2 * m_initial_count

(* cloud_blob.cpp:845: a segment that failed "blocks" nobody, and the      *)
(* operation reports the failure.                                          *)
FailureEnds == (\E t \in Tasks : pc[t] = "failed") ~> main \in {"ok", "failed"}

(* A download into a target that can seek comes to an end even if segments *)
(* fail, as every continuation gives its permit back; only a file's with a *)
(* failed segment does not.                                                *)
SeekableDownloadEnds ==
    can_seek ~> main \in {"ok", "failed"} \/ (service = "file" /\ \E t \in Tasks : pc[t] = "failed")
=============================================================================

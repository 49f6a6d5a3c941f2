--------------------------- MODULE AsyncSemaphore ---------------------------
(***************************************************************************)
(* azure::storage::core::_async_semaphore                                  *)
(* (src/async_semaphore.cpp, includes/wascore/async_semaphore.h): the      *)
(* counter, the FIFO of pending task_completion_events and the "empty"     *)
(* event that the parallel downloads and the blob and file output streams  *)
(* use to bound their outstanding requests.                                *)
(*                                                                         *)
(* m_mutex is held for the whole of lock_async and of dequeue_pending, so  *)
(* each of them is one action; unlock() sets the event it popped after the *)
(* mutex is free again, so that is an action of its own (set).  An event   *)
(* is named by a number: lock_async replaces m_empty_event by a fresh one. *)
(***************************************************************************)
EXTENDS Naturals, Sequences, FiniteSets

CONSTANTS Tasks,            \* one element per call of lock_async
          m_initial_count   \* parallelism_factor, at least 1

ASSUME CountAssumption == m_initial_count \in Nat \ {0}

VARIABLES
    m_count,        \* free permits
    m_queue,        \* the calls waiting for a permit
    m_empty_event,  \* the event wait_all_async hands out
    set_events,     \* the events that have been set
    state,          \* how far each call of lock_async is
    waiter,         \* the event the caller of wait_all_async waits for, {} if none
    requests,       \* history: the calls of lock_async in their order
    owed            \* history: the calls made before the pending wait_all_async

svars == <<m_count, m_queue, m_empty_event, set_events, state>>
vars == <<svars, waiter, requests, owed>>

(* "popped": unlock() has taken the call out of the queue and not yet set  *)
(* its event.                                                              *)
States == {"idle", "queued", "popped", "holding", "released"}

In(ss) == {t \in Tasks : state[t] \in ss}
Elements(s) == {s[i] : i \in 1..Len(s)}

(* The constructor: all permits free and m_empty_event set.                *)
Init ==
    /\ m_count = m_initial_count
    /\ m_queue = <<>>
    /\ m_empty_event = 0
    /\ set_events = {0}
    /\ state = [t \in Tasks |-> "idle"]
    /\ waiter = {}
    /\ requests = <<>>
    /\ owed = {}

(* m_queue.push(pending).  Mutant: a stack instead of a queue.             *)
push_Stack(t) == <<t>> \o m_queue
push(t) == Append(m_queue, t)

(* The event after a permit was taken: a fresh one for the first permit.   *)
(* Mutants: never renewed; renewed by every call.                          *)
renewed_Never == m_empty_event
renewed_Always == m_empty_event + 1
renewed == IF m_count = m_initial_count THEN m_empty_event + 1 ELSE m_empty_event

lock_async(t) ==
    /\ state[t] = "idle"
    /\ requests' = Append(requests, t)
    /\ \/ /\ m_count > 0
          /\ m_count' = m_count - 1
          /\ m_empty_event' = renewed
          /\ state' = [state EXCEPT ![t] = "holding"]
          /\ UNCHANGED m_queue
       \/ /\ m_count = 0
          /\ m_queue' = push(t)
          /\ state' = [state EXCEPT ![t] = "queued"]
          /\ UNCHANGED <<m_count, m_empty_event>>
    /\ UNCHANGED <<set_events, waiter, owed>>

(* dequeue_pending with nobody waiting: the permit goes home.              *)
free_permit(t) ==
    /\ m_count' = m_count + 1
    /\ set_events' = IF m_count + 1 = m_initial_count
                     THEN set_events \cup {m_empty_event} ELSE set_events
    /\ state' = [state EXCEPT ![t] = "released"]
    /\ UNCHANGED m_queue

(* dequeue_pending with a call waiting: the permit is handed over and      *)
(* m_count stays.  Mutants: it is counted as free as well; it goes home    *)
(* and the call stays in the queue.                                        *)
hand_over_Counted(t) ==
    /\ m_queue' = Tail(m_queue)
    /\ m_count' = m_count + 1
    /\ state' = [state EXCEPT ![t] = "released", ![Head(m_queue)] = "popped"]
    /\ UNCHANGED set_events
hand_over_Forgotten(t) == free_permit(t)
hand_over(t) ==
    /\ m_queue' = Tail(m_queue)
    /\ state' = [state EXCEPT ![t] = "released", ![Head(m_queue)] = "popped"]
    /\ UNCHANGED <<m_count, set_events>>

(* unlock() up to its return from dequeue_pending.                         *)
dequeue_pending(t) ==
    /\ state[t] = "holding"
    /\ \/ m_queue = <<>> /\ free_permit(t)
       \/ m_queue # <<>> /\ hand_over(t)
    /\ UNCHANGED <<m_empty_event, waiter, requests, owed>>

(* The rest of unlock(): pending.set() lets the popped call's task run.    *)
set(t) ==
    /\ state[t] = "popped"
    /\ state' = [state EXCEPT ![t] = "holding"]
    /\ UNCHANGED <<m_count, m_queue, m_empty_event, set_events, waiter, requests, owed>>

wait_all_async ==
    /\ waiter = {}
    /\ waiter' = {m_empty_event}
    /\ owed' = Elements(requests)
    /\ UNCHANGED <<svars, requests>>

(* The task of wait_all_async completes.                                   *)
resume ==
    /\ waiter # {} /\ waiter \subseteq set_events
    /\ waiter' = {}
    /\ owed' = {}
    /\ UNCHANGED <<svars, requests>>

Next ==
    \/ \E t \in Tasks : lock_async(t) \/ dequeue_pending(t) \/ set(t)
    \/ wait_all_async
    \/ resume

Spec == Init /\ [][Next]_vars

(* The pool runs every continuation that is ready (set, resume), and the   *)
(* clients release what they were granted: each holds its permit for one   *)
(* request of the executor.                                                *)
Fairness ==
    /\ \A t \in Tasks : WF_vars(set(t)) /\ WF_vars(dequeue_pending(t))
    /\ WF_vars(resume)

FairSpec == Spec /\ Fairness
-----------------------------------------------------------------------------
(* Types of the members and of the two history variables.                  *)
TypeOK ==
    /\ m_count \in 0..m_initial_count
    /\ m_queue \in Seq(Tasks)
    /\ m_empty_event \in Nat
    /\ set_events \subseteq Nat
    /\ state \in [Tasks -> States]
    /\ waiter \subseteq Nat
    /\ requests \in Seq(Tasks)
    /\ owed \subseteq Tasks

(* Every permit is free or with exactly one call: what ++m_count and       *)
(* m_count-- and the hand-over through the queue keep between them.        *)
PermitsConserved == m_count + Cardinality(In({"popped", "holding"})) = m_initial_count

(* No call waits in the queue while a permit is free, although lock_async  *)
(* and unlock test different members (m_count and m_queue).                *)
NoIdlePermit == m_queue # <<>> => m_count = 0

(* The event a caller of wait_all_async holds is set only once every call  *)
(* of lock_async made before is released: _sync() relies on it to commit   *)
(* only what is on the server.                                             *)
WaitAllIsBarrier == waiter \subseteq set_events => owed \subseteq In({"released"})

(* With one permit (the append blob stream) calls are granted in the order *)
(* in which they were made, so blocks reach the blob in stream order.      *)
SinglePermitIsFifo ==
    m_initial_count = 1 =>
        \A i, j \in 1..Len(requests) :
            i < j /\ state[requests[j]] \in {"holding", "released"}
              => state[requests[i]] = "released"

(* Granting overtakes only between unlock()s that run at the same time: a  *)
(* call leaves the queue only after every earlier one has left it.         *)
DequeuedInOrder ==
    \A i, j \in 1..Len(requests) :
        i < j /\ state[requests[j]] # "queued" => state[requests[i]] # "queued"

(* Every call of lock_async is granted if the holders release.             *)
EveryLockGranted == \A t \in Tasks : state[t] = "queued" ~> state[t] = "holding"

(* The task of wait_all_async completes: when the last permit comes back   *)
(* the event it was given is the one that is set, even if others have      *)
(* locked since.                                                           *)
WaitAllCompletes == waiter # {} ~> waiter = {}

(* The promise as an abstract specification: a call holds a permit from    *)
(* the moment its event is set.                                            *)
Abstract == INSTANCE Semaphore WITH
    permits <- m_initial_count,
    requested <- In(States \ {"idle"}),
    held <- In({"holding"}),
    released <- In({"released"}),
    owed <- owed

(* The counter, queue and events implement that promise.                   *)
ImplementsSemaphore == Abstract!Spec
-----------------------------------------------------------------------------
(* The inductive invariant of the proofs in AsyncSemaphoreProofs.          *)

(* How many calls of lock_async have left the queue or never entered it.   *)
Left == Len(requests) - Len(m_queue)

(* m_queue is what remains of requests after the first Left of them.       *)
QueueIsSuffix ==
    /\ Len(m_queue) <= Len(requests)
    /\ \A i \in 1..Len(m_queue) : m_queue[i] = requests[Left + i]
    /\ \A i \in 1..Len(requests) : state[requests[i]] = "queued" <=> i > Left

(* requests lists every call that is not idle, once.                       *)
RequestsListed ==
    /\ \A i, j \in 1..Len(requests) : requests[i] = requests[j] => i = j
    /\ \A t \in Tasks : state[t] # "idle" <=> \E i \in 1..Len(requests) : requests[i] = t

(* With one permit only the last call to leave the queue can have it.      *)
LastLeftHasPermit ==
    m_initial_count = 1 =>
        \A i \in 1..Len(requests) : state[requests[i]] \in {"popped", "holding"} => i = Left

(* The current event is set exactly when all permits are free, and every   *)
(* earlier event is set.                                                   *)
EventsSet ==
    /\ set_events \subseteq 0..m_empty_event
    /\ \A e \in 0..m_empty_event : e < m_empty_event => e \in set_events
    /\ m_empty_event \in set_events <=> m_count = m_initial_count

(* What the caller of wait_all_async waits for.                            *)
WaiterOwed ==
    /\ waiter \subseteq 0..m_empty_event
    /\ waiter = {} => owed = {}
    /\ owed \cap In({"idle"}) = {}
    /\ WaitAllIsBarrier

GrantedFinite == IsFiniteSet(In({"popped", "holding"}))

IInv ==
    /\ TypeOK
    /\ GrantedFinite
    /\ PermitsConserved
    /\ NoIdlePermit
    /\ QueueIsSuffix
    /\ RequestsListed
    /\ LastLeftHasPermit
    /\ EventsSet
    /\ WaiterOwed
=============================================================================

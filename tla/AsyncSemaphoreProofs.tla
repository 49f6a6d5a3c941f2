------------------------ MODULE AsyncSemaphoreProofs ------------------------
(***************************************************************************)
(* Proofs about AsyncSemaphore, for every set of calls and every number of *)
(* permits: the inductive invariant IInv, the safety properties that       *)
(* follow from it, and that the semaphore implements its promise.          *)
(***************************************************************************)
EXTENDS AsyncSemaphore, FiniteSetTheorems, SequenceTheorems, TLAPS

WithPermit == In({"popped", "holding"})

(* What a permit leaving or coming home does to the set of granted calls.  *)
LEMMA GrantAdd ==
    ASSUME NEW S, NEW x, IsFiniteSet(S), x \notin S
    PROVE  /\ IsFiniteSet(S \cup {x})
           /\ Cardinality(S) \in Nat
           /\ Cardinality(S \cup {x}) = Cardinality(S) + 1
BY FS_AddElement, FS_CardinalityType

LEMMA GrantRemove ==
    ASSUME NEW S, NEW x, IsFiniteSet(S), x \in S
    PROVE  /\ IsFiniteSet(S \ {x})
           /\ Cardinality(S) \in Nat \ {0}
           /\ Cardinality(S \ {x}) = Cardinality(S) - 1
<1>1. Cardinality(S) \in Nat /\ (Cardinality(S) = 0 <=> S = {})
  BY FS_CardinalityType, FS_EmptySet
<1> QED BY <1>1, FS_RemoveElement

(* The constructor establishes the invariant.                              *)
LEMMA InitIInv == Init => IInv
<1> SUFFICES ASSUME Init PROVE IInv
  OBVIOUS
<1> USE CountAssumption DEF Init
<1>1. TypeOK
  BY DEF TypeOK, States
<1>2. In({"popped", "holding"}) = {}
  BY DEF In
<1>3. GrantedFinite /\ PermitsConserved
  BY <1>2, FS_EmptySet DEF GrantedFinite, PermitsConserved
<1>4. NoIdlePermit /\ QueueIsSuffix /\ RequestsListed /\ LastLeftHasPermit
  BY DEF NoIdlePermit, QueueIsSuffix, RequestsListed, LastLeftHasPermit, Left
<1>5. EventsSet /\ WaiterOwed
  BY DEF EventsSet, WaiterOwed, WaitAllIsBarrier
<1> QED BY <1>1, <1>3, <1>4, <1>5 DEF IInv

(* When all permits are free nothing is queued and every call made is      *)
(* released.                                                               *)
LEMMA AllHome ==
    ASSUME IInv, m_count = m_initial_count
    PROVE  /\ m_queue = <<>>
           /\ \A t \in Tasks : state[t] \in {"idle", "released"}
<1> USE CountAssumption DEF IInv, TypeOK
<1>1. m_queue = <<>>
  BY DEF NoIdlePermit
<1>2. WithPermit = {}
  <2>1. Cardinality(WithPermit) = 0
    BY FS_CardinalityType DEF GrantedFinite, PermitsConserved, WithPermit
  <2> QED BY <2>1, FS_EmptySet DEF GrantedFinite, WithPermit
<1>3. \A t \in Tasks : state[t] # "queued"
  BY <1>1, LenProperties DEF QueueIsSuffix, RequestsListed, Left
<1> QED BY <1>1, <1>2, <1>3 DEF WithPermit, In, States

(* The queue, the requests and the calls' states under lock_async.         *)
LEMMA LockIInv ==
    ASSUME IInv, NEW t \in Tasks, lock_async(t)
    PROVE  IInv'
<1> USE CountAssumption DEF IInv, TypeOK, lock_async
<1>0. /\ Len(requests) \in Nat /\ Len(m_queue) \in Nat
      /\ Len(requests') = Len(requests) + 1
      /\ requests'[Len(requests) + 1] = t
      /\ \A i \in 1..Len(requests) : requests'[i] = requests[i] /\ requests[i] # t
  <2>1. \A i \in 1..Len(requests) : requests[i] # t
    BY DEF RequestsListed
  <2> QED BY <2>1, AppendProperties, LenProperties
<1>1. t \notin In({"popped", "holding"})
  BY DEF In
<1>2. RequestsListed'
  <2>1. \A i, j \in 1..Len(requests') : requests'[i] = requests'[j] => i = j
    BY <1>0 DEF RequestsListed
  <2>2. \A u \in Tasks : state'[u] # "idle" <=> (u = t \/ state[u] # "idle")
    OBVIOUS
  <2>3. \A u \in Tasks : (\E i \in 1..Len(requests') : requests'[i] = u)
                       <=> (u = t \/ \E i \in 1..Len(requests) : requests[i] = u)
    BY <1>0
  <2> QED BY <2>1, <2>2, <2>3 DEF RequestsListed
<1>3. (owed \cap In({"idle"}) = {})'
  BY DEF WaiterOwed, In
<1>4. WaitAllIsBarrier'
  BY DEF WaiterOwed, WaitAllIsBarrier, In
<1>5. CASE m_count > 0
  <2>0. /\ m_count' = m_count - 1
        /\ m_empty_event' \in Nat
        /\ state' = [state EXCEPT ![t] = "holding"]
        /\ UNCHANGED m_queue
    BY <1>5 DEF renewed
  <2>1. /\ m_queue = <<>> /\ Left = Len(requests) /\ Left' = Len(requests) + 1
    BY <1>0, <1>5, EmptySeq DEF NoIdlePermit, Left
  <2>2. TypeOK'
    BY <1>5, <2>0, AppendProperties DEF States
  <2>3. In({"popped", "holding"})' = In({"popped", "holding"}) \cup {t}
    BY <1>5 DEF In
  <2>4. GrantedFinite' /\ PermitsConserved'
    <3>1. /\ IsFiniteSet(In({"popped", "holding"})')
          /\ Cardinality(In({"popped", "holding"})) \in Nat
          /\ Cardinality(In({"popped", "holding"})') = Cardinality(In({"popped", "holding"})) + 1
      BY <1>1, <2>3, GrantAdd DEF GrantedFinite
    <3> QED BY <1>5, <2>0, <3>1 DEF GrantedFinite, PermitsConserved
  <2>5. NoIdlePermit' /\ QueueIsSuffix'
    BY <1>0, <1>5, <2>1 DEF NoIdlePermit, QueueIsSuffix
  <2>6. LastLeftHasPermit'
    <3> SUFFICES ASSUME m_initial_count = 1 PROVE LastLeftHasPermit'
      BY DEF LastLeftHasPermit
    <3>1. \A u \in Tasks : state[u] \notin {"popped", "holding"}
      BY <1>5, AllHome
    <3> QED BY <1>0, <1>5, <2>1, <3>1 DEF LastLeftHasPermit
  <2>7. EventsSet' /\ (waiter \subseteq 0..m_empty_event)'
    BY <1>5 DEF EventsSet, WaiterOwed, renewed
  <2> QED BY <1>2, <1>3, <1>4, <2>2, <2>4, <2>5, <2>6, <2>7 DEF WaiterOwed
<1>6. CASE m_count = 0
  <2>0. /\ m_queue' = Append(m_queue, t)
        /\ state' = [state EXCEPT ![t] = "queued"]
        /\ UNCHANGED <<m_count, m_empty_event>>
    BY <1>6 DEF push
  <2>1. /\ Left' = Left
        /\ Len(m_queue') = Len(m_queue) + 1
        /\ m_queue'[Len(m_queue) + 1] = t
        /\ \A i \in 1..Len(m_queue) : m_queue'[i] = m_queue[i]
    BY <1>0, <2>0, AppendProperties DEF Left
  <2>2. TypeOK'
    BY <2>0, AppendProperties DEF States
  <2>3. In({"popped", "holding"})' = In({"popped", "holding"})
    BY <1>6 DEF In
  <2>4. GrantedFinite' /\ PermitsConserved' /\ NoIdlePermit'
    BY <1>6, <2>3 DEF GrantedFinite, PermitsConserved, NoIdlePermit
  <2>5. Left \in Nat /\ Len(requests) = Left + Len(m_queue)
    BY <1>0 DEF Left, QueueIsSuffix
  <2>6. QueueIsSuffix'
    <3>1. Len(m_queue') <= Len(requests')
      BY <1>0, <2>1, <2>5
    <3>2. \A i \in 1..Len(m_queue') : m_queue'[i] = requests'[Left' + i]
      BY <1>0, <2>1, <2>5 DEF QueueIsSuffix
    <3>3. \A i \in 1..Len(requests') : state'[requests'[i]] = "queued" <=> i > Left'
      BY <1>0, <2>0, <2>1, <2>5, ElementOfSeq DEF QueueIsSuffix
    <3> QED BY <3>1, <3>2, <3>3 DEF QueueIsSuffix
  <2>7. LastLeftHasPermit'
    BY <1>0, <2>0, <2>1, <2>5, ElementOfSeq DEF LastLeftHasPermit
  <2>8. EventsSet' /\ (waiter \subseteq 0..m_empty_event)'
    BY <1>6 DEF EventsSet, WaiterOwed
  <2> QED BY <1>2, <1>3, <1>4, <2>2, <2>4, <2>6, <2>7, <2>8 DEF WaiterOwed
<1> QED BY <1>5, <1>6

(* unlock() with nobody waiting: the last permit home sets the event.      *)
LEMMA FreeIInv ==
    ASSUME IInv, NEW t \in Tasks, dequeue_pending(t), m_queue = <<>>
    PROVE  IInv'
<1> USE CountAssumption DEF IInv, TypeOK
<1>1. /\ state[t] = "holding"
      /\ m_count' = m_count + 1
      /\ set_events' = IF m_count + 1 = m_initial_count
                       THEN set_events \cup {m_empty_event} ELSE set_events
      /\ state' = [state EXCEPT ![t] = "released"]
      /\ UNCHANGED <<m_queue, m_empty_event, waiter, requests, owed>>
  BY DEF dequeue_pending, free_permit
<1>2. In({"popped", "holding"})' = In({"popped", "holding"}) \ {t}
  BY <1>1 DEF In
<1>3. /\ IsFiniteSet(In({"popped", "holding"})')
      /\ Cardinality(In({"popped", "holding"})) \in Nat \ {0}
      /\ Cardinality(In({"popped", "holding"})') = Cardinality(In({"popped", "holding"})) - 1
  <2>1. t \in In({"popped", "holding"})
    BY <1>1 DEF In
  <2> QED BY <1>2, <2>1, GrantRemove DEF GrantedFinite
<1>4. GrantedFinite' /\ PermitsConserved' /\ m_count < m_initial_count
  BY <1>1, <1>3 DEF GrantedFinite, PermitsConserved
<1>5. TypeOK'
  BY <1>1, <1>4 DEF States
<1>6. NoIdlePermit' /\ Left' = Left
  BY <1>1 DEF NoIdlePermit, Left
<1>7. QueueIsSuffix' /\ RequestsListed' /\ LastLeftHasPermit'
  BY <1>1, <1>6, ElementOfSeq DEF QueueIsSuffix, RequestsListed, LastLeftHasPermit
<1>8. EventsSet'
  BY <1>1, <1>4 DEF EventsSet
<1>9. WaiterOwed'
  <2>1. owed' \cap In({"idle"})' = {}
    BY <1>1 DEF WaiterOwed, In
  <2>2. CASE m_count + 1 = m_initial_count
    (* No call is granted or queued any more.                              *)
    <3>1. In({"popped", "holding"})' = {}
      BY <1>1, <1>3, <1>4, <2>2, FS_EmptySet DEF PermitsConserved
    <3>2. \A u \in Tasks : state'[u] # "queued"
      BY <1>1, <1>5, <1>7, LenProperties DEF QueueIsSuffix, RequestsListed, Left
    <3>3. WaitAllIsBarrier'
      BY <1>5, <2>1, <3>1, <3>2 DEF WaitAllIsBarrier, In, States
    <3> QED BY <1>1, <2>1, <3>3 DEF WaiterOwed
  <2>3. CASE m_count + 1 # m_initial_count
    BY <1>1, <2>1, <2>3 DEF WaiterOwed, WaitAllIsBarrier, In
  <2> QED BY <2>2, <2>3
<1> QED BY <1>4, <1>5, <1>6, <1>7, <1>8, <1>9

(* unlock() with a call waiting: the permit moves to the head of the queue.*)
LEMMA HandOverIInv ==
    ASSUME IInv, NEW t \in Tasks, dequeue_pending(t), m_queue # <<>>
    PROVE  IInv'
<1> USE CountAssumption DEF IInv, TypeOK
<1> DEFINE h == Head(m_queue)
<1>0. /\ Len(m_queue) \in Nat \ {0} /\ Len(requests) \in Nat
      /\ h \in Tasks /\ h = m_queue[1]
      /\ Tail(m_queue) \in Seq(Tasks)
      /\ Len(Tail(m_queue)) = Len(m_queue) - 1
      /\ \A i \in 1..Len(Tail(m_queue)) : Tail(m_queue)[i] = m_queue[i + 1]
  BY HeadTailProperties, EmptySeq, LenProperties
<1>1. /\ state[t] = "holding"
      /\ m_queue' = Tail(m_queue)
      /\ state' = [state EXCEPT ![t] = "released", ![h] = "popped"]
      /\ UNCHANGED <<m_count, set_events, m_empty_event, waiter, requests, owed>>
  BY DEF dequeue_pending, hand_over
<1>2. /\ Left \in Nat /\ Len(requests) = Left + Len(m_queue)
      /\ Left' = Left + 1
      /\ requests[Left + 1] = h
      /\ state[h] = "queued" /\ h # t
  <2>1. Left \in Nat /\ Len(requests) = Left + Len(m_queue) /\ Left' = Left + 1
    BY <1>0, <1>1 DEF Left, QueueIsSuffix
  <2>2. requests[Left + 1] = h /\ Left + 1 \in 1..Len(requests)
    BY <1>0, <2>1 DEF QueueIsSuffix
  <2>3. state[h] = "queued"
    BY <2>1, <2>2 DEF QueueIsSuffix
  <2> QED BY <1>1, <2>1, <2>2, <2>3
<1>3. /\ state'[t] = "released" /\ state'[h] = "popped"
      /\ \A u \in Tasks \ {t, h} : state'[u] = state[u]
  BY <1>0, <1>1, <1>2
<1>4. In({"popped", "holding"})' = (In({"popped", "holding"}) \ {t}) \cup {h}
  BY <1>0, <1>1, <1>3 DEF In
<1>5. GrantedFinite' /\ PermitsConserved'
  <2>1. t \in In({"popped", "holding"}) /\ h \notin In({"popped", "holding"}) \ {t}
    BY <1>0, <1>1, <1>2 DEF In
  <2>2. /\ IsFiniteSet(In({"popped", "holding"})')
        /\ Cardinality(In({"popped", "holding"})') = Cardinality(In({"popped", "holding"}))
    <3>1. /\ IsFiniteSet(In({"popped", "holding"}) \ {t})
          /\ Cardinality(In({"popped", "holding"})) \in Nat \ {0}
          /\ Cardinality(In({"popped", "holding"}) \ {t}) = Cardinality(In({"popped", "holding"})) - 1
      BY <2>1, GrantRemove DEF GrantedFinite
    <3>2. /\ IsFiniteSet((In({"popped", "holding"}) \ {t}) \cup {h})
          /\ Cardinality((In({"popped", "holding"}) \ {t}) \cup {h})
               = Cardinality(In({"popped", "holding"}) \ {t}) + 1
      BY <2>1, <3>1, GrantAdd
    <3>3. Cardinality((In({"popped", "holding"}) \ {t}) \cup {h})
            = Cardinality(In({"popped", "holding"}))
      BY ONLY <3>1, <3>2, SMT
    <3> QED BY <1>4, <3>2, <3>3, Zenon
  <2> QED BY <1>1, <2>2 DEF GrantedFinite, PermitsConserved
<1>6. TypeOK'
  BY <1>0, <1>1 DEF States
<1>7. NoIdlePermit'
  BY <1>1 DEF NoIdlePermit
<1>8. RequestsListed'
  BY <1>0, <1>1, <1>2, <1>3 DEF RequestsListed
<1>9. QueueIsSuffix'
  <2>1. Len(m_queue') <= Len(requests')
    BY <1>0, <1>1, <1>2
  <2>2. \A i \in 1..Len(m_queue') : m_queue'[i] = requests'[Left' + i]
    BY <1>0, <1>1, <1>2 DEF QueueIsSuffix
  <2>3. ASSUME NEW i \in 1..Len(requests)
        PROVE  state'[requests[i]] = "queued" <=> i > Left + 1
    <3>1. requests[i] \in Tasks /\ (requests[i] = h => i = Left + 1)
      BY <1>0, <1>2, ElementOfSeq DEF RequestsListed
    <3> QED BY <1>0, <1>1, <1>2, <1>3, <3>1 DEF QueueIsSuffix
  <2> QED BY <1>1, <1>2, <2>1, <2>2, <2>3 DEF QueueIsSuffix
<1>10. LastLeftHasPermit'
  <2> SUFFICES ASSUME m_initial_count = 1, NEW i \in 1..Len(requests),
                      state'[requests[i]] \in {"popped", "holding"}
               PROVE  i = Left + 1
    BY <1>1, <1>2 DEF LastLeftHasPermit
  <2>1. PICK k \in 1..Len(requests) : requests[k] = t
    BY <1>1 DEF RequestsListed
  <2>2. k = Left
    BY <1>1, <2>1 DEF LastLeftHasPermit
  <2>3. CASE requests[i] = h
    BY <1>0, <1>2, <2>3 DEF RequestsListed
  <2>4. CASE requests[i] # h
    BY <1>1, <1>3, <2>1, <2>2, <2>4, ElementOfSeq DEF LastLeftHasPermit
  <2> QED BY <2>3, <2>4
<1>11. EventsSet'
  BY <1>1 DEF EventsSet
<1>12. WaiterOwed'
  BY <1>0, <1>1, <1>2, <1>3 DEF WaiterOwed, WaitAllIsBarrier, In
<1> QED BY <1>5, <1>6, <1>7, <1>8, <1>9, <1>10, <1>11, <1>12

(* unlock(): the permit goes to the head of the queue or home.             *)
LEMMA DequeueEffect ==
    ASSUME IInv, NEW t \in Tasks, dequeue_pending(t)
    PROVE  /\ state[t] = "holding" /\ state'[t] = "released" /\ UNCHANGED <<requests, waiter, owed>>
           /\ \A u \in Tasks \ {t} : state'[u] = state[u] \/ (state[u] = "queued" /\ state'[u] = "popped")
<1> USE DEF IInv, TypeOK
<1>1. state[t] = "holding" /\ UNCHANGED <<requests, waiter, owed>>
  BY DEF dequeue_pending
<1>2. CASE m_queue = <<>>
  BY <1>1, <1>2 DEF dequeue_pending, free_permit
<1>3. CASE m_queue # <<>>
  <2>1. state' = [state EXCEPT ![t] = "released", ![Head(m_queue)] = "popped"]
    BY <1>3 DEF dequeue_pending, hand_over
  <2>2. /\ Len(m_queue) \in Nat \ {0} /\ Len(requests) \in Nat
        /\ Head(m_queue) \in Tasks /\ Head(m_queue) = m_queue[1]
    BY <1>3, HeadTailProperties, EmptySeq, LenProperties
  <2>3. Left + 1 \in 1..Len(requests) /\ Left + 1 > Left
    BY <2>2 DEF Left, QueueIsSuffix
  <2>4. state[Head(m_queue)] = "queued"
    BY <2>2, <2>3 DEF QueueIsSuffix
  <2> QED
    BY <1>1, <2>1, <2>2, <2>4
<1> QED
  BY <1>2, <1>3

LEMMA DequeueIInv ==
    ASSUME IInv, NEW t \in Tasks, dequeue_pending(t)
    PROVE  IInv'
BY FreeIInv, HandOverIInv

(* pending.set(): only the popped call's state changes.                    *)
LEMMA SetIInv ==
    ASSUME IInv, NEW t \in Tasks, set(t)
    PROVE  IInv'
<1> USE DEF IInv, TypeOK, set
<1>1. In({"popped", "holding"})' = In({"popped", "holding"})
  BY DEF In
<1>2. GrantedFinite' /\ PermitsConserved' /\ NoIdlePermit' /\ EventsSet'
  BY <1>1 DEF GrantedFinite, PermitsConserved, NoIdlePermit, EventsSet
<1>3. TypeOK'
  BY DEF States
<1>4. QueueIsSuffix' /\ RequestsListed' /\ LastLeftHasPermit'
  BY ElementOfSeq DEF QueueIsSuffix, RequestsListed, LastLeftHasPermit, Left
<1>5. WaiterOwed'
  BY DEF WaiterOwed, WaitAllIsBarrier, In
<1> QED BY <1>2, <1>3, <1>4, <1>5

(* wait_all_async, its completion, and steps that change nothing.          *)
LEMMA WaitIInv ==
    ASSUME IInv, wait_all_async \/ resume \/ UNCHANGED vars
    PROVE  IInv'
<1> USE DEF IInv
<1>1. UNCHANGED <<m_count, m_queue, m_empty_event, set_events, state, requests>>
  BY DEF wait_all_async, resume, vars, svars
<1>2. /\ GrantedFinite' /\ PermitsConserved' /\ NoIdlePermit' /\ EventsSet'
      /\ QueueIsSuffix' /\ RequestsListed' /\ LastLeftHasPermit'
  BY <1>1 DEF GrantedFinite, PermitsConserved, NoIdlePermit, EventsSet, In,
              QueueIsSuffix, RequestsListed, LastLeftHasPermit, Left
<1>3. CASE wait_all_async
  <2>1. Elements(requests) \subseteq Tasks /\ Elements(requests) \cap In({"idle"}) = {}
    BY ElementOfSeq DEF Elements, TypeOK, RequestsListed, In
  <2>2. TypeOK'
    BY <1>1, <1>3, <2>1 DEF TypeOK, wait_all_async
  <2>3. m_count = m_initial_count => Elements(requests) \subseteq In({"released"})
    BY <2>1, AllHome DEF In
  <2>4. WaiterOwed'
    BY <1>1, <1>3, <2>1, <2>3 DEF WaiterOwed, WaitAllIsBarrier, EventsSet, TypeOK, wait_all_async, In
  <2> QED BY <1>2, <2>2, <2>4
<1>4. CASE resume
  BY <1>1, <1>2, <1>4 DEF resume, TypeOK, WaiterOwed, WaitAllIsBarrier
<1>5. CASE UNCHANGED vars
  BY <1>1, <1>2, <1>5 DEF vars, svars, TypeOK, WaiterOwed, WaitAllIsBarrier, In
<1> QED BY <1>3, <1>4, <1>5

(* IInv is an invariant of the semaphore.                                  *)
THEOREM Invariance == Spec => []IInv
<1>1. Init => IInv
  BY InitIInv
<1>2. IInv /\ [Next]_vars => IInv'
  <2> SUFFICES ASSUME IInv, [Next]_vars PROVE IInv'
    OBVIOUS
  <2>1. ASSUME NEW t \in Tasks, lock_async(t) PROVE IInv'
    BY <2>1, LockIInv
  <2>2. ASSUME NEW t \in Tasks, dequeue_pending(t) PROVE IInv'
    BY <2>2, FreeIInv, HandOverIInv
  <2>3. ASSUME NEW t \in Tasks, set(t) PROVE IInv'
    BY <2>3, SetIInv
  <2>4. CASE wait_all_async \/ resume \/ UNCHANGED vars
    BY <2>4, WaitIInv
  <2> QED BY <2>1, <2>2, <2>3, <2>4 DEF Next
<1> QED BY <1>1, <1>2, PTL DEF Spec

(* The members keep their types: m_count stays within 0..m_initial_count.  *)
THEOREM TypeCorrect == Spec => []TypeOK
BY Invariance, PTL DEF IInv

(* Every permit is free or with exactly one call, and no call waits while  *)
(* a permit is free, for any number of permits and calls.                  *)
THEOREM PermitsSafe == Spec => [](PermitsConserved /\ NoIdlePermit)
BY Invariance, PTL DEF IInv

(* wait_all_async is a barrier for the calls made before it.               *)
THEOREM WaitAllSafe == Spec => []WaitAllIsBarrier
BY Invariance, PTL DEF IInv, WaiterOwed

(* Calls leave the queue in the order they entered it.                     *)
THEOREM QueueOrder == Spec => []DequeuedInOrder
<1>1. IInv => DequeuedInOrder
  BY LenProperties DEF IInv, TypeOK, QueueIsSuffix, DequeuedInOrder, Left
<1> QED BY <1>1, Invariance, PTL

LEMMA IInvFifo == IInv => SinglePermitIsFifo
<1> SUFFICES ASSUME IInv, m_initial_count = 1,
                    NEW i \in 1..Len(requests), NEW j \in 1..Len(requests),
                    i < j, state[requests[j]] \in {"holding", "released"}
             PROVE  state[requests[i]] = "released"
  BY DEF SinglePermitIsFifo
<1>1. requests[i] \in Tasks /\ Len(requests) \in Nat /\ Len(m_queue) \in Nat
  BY LenProperties, ElementOfSeq DEF IInv, TypeOK
<1>2. j <= Left /\ i < Left
  BY <1>1 DEF IInv, QueueIsSuffix, Left
<1>3. state[requests[i]] \notin {"queued", "popped", "holding"}
  BY <1>1, <1>2 DEF IInv, QueueIsSuffix, LastLeftHasPermit, Left
<1>4. state[requests[i]] # "idle"
  BY <1>1 DEF IInv, RequestsListed
<1> QED BY <1>1, <1>3, <1>4 DEF IInv, TypeOK, States

(* A semaphore with one permit is fair and keeps the callers' order.       *)
THEOREM SinglePermitOrder == Spec => []SinglePermitIsFifo
BY IInvFifo, Invariance, PTL

(* Semaphore reaches FiniteSets by its own EXTENDS; the two definitions of *)
(* Cardinality agree.                                                      *)
LEMMA SameCardinality == \A S : Abstract!Cardinality(S) = Cardinality(S)
BY DEF Abstract!Cardinality, Cardinality

(* The semaphore implements its promise: a direct grant is a Request that  *)
(* is granted at once, unlock() is a Release, and set() is the Grant of    *)
(* the call that inherits the permit.                                      *)
THEOREM Refinement == Spec => ImplementsSemaphore
<1>1. Init => Abstract!Init
  BY DEF Init, Abstract!Init, In, States
<1>2. IInv /\ [Next]_vars => [Abstract!Next]_Abstract!vars
  <2> SUFFICES ASSUME IInv, [Next]_vars
               PROVE  Abstract!Next \/ UNCHANGED Abstract!vars
    OBVIOUS
  <2> USE DEF IInv, TypeOK
  <2>0. /\ IsFiniteSet(In({"holding"}))
        /\ Cardinality(In({"holding"})) \in Nat
        /\ Cardinality(In({"popped", "holding"})) \in Nat
        /\ Cardinality(In({"holding"})) <= Cardinality(In({"popped", "holding"}))
    <3>1. In({"holding"}) \in SUBSET In({"popped", "holding"})
      BY DEF In
    <3> QED BY <3>1, FS_Subset, FS_CardinalityType DEF GrantedFinite
  <2>1. ASSUME NEW t \in Tasks, lock_async(t) PROVE Abstract!Next
    <3>1. t \notin In(States \ {"idle"})
      BY <2>1 DEF lock_async, In
    <3>2. In(States \ {"idle"})' = In(States \ {"idle"}) \cup {t}
      BY <2>1 DEF lock_async, In, States
    <3>3. In({"released"})' = In({"released"}) /\ owed' = owed
      BY <2>1 DEF lock_async, In
    <3>4. CASE m_count > 0
      <4>1. In({"holding"})' = In({"holding"}) \cup {t}
        BY <2>1, <3>4 DEF lock_async, In
      <4>2. Cardinality(In({"holding"})) < m_initial_count
        BY <2>0, <3>4, CountAssumption DEF PermitsConserved
      <4>3. Abstract!Request(t)
        BY <3>1, <3>2, <3>3, <4>1, <4>2, SameCardinality, Zenon DEF Abstract!Request
      <4> QED BY <4>3, Zenon DEF Abstract!Next
    <3>5. CASE m_count = 0
      <4>1. In({"holding"})' = In({"holding"})
        BY <2>1, <3>5 DEF lock_async, In
      <4> QED BY <3>1, <3>2, <3>3, <4>1 DEF Abstract!Next, Abstract!Request
    <3> QED BY <3>4, <3>5, CountAssumption
  <2>2. ASSUME NEW t \in Tasks, dequeue_pending(t) PROVE Abstract!Next
    <3>1. PICK S \in SUBSET Tasks :
            /\ S \cap In({"idle", "holding", "released"}) = {}
            /\ state[t] = "holding"
            /\ state'[t] = "released"
            /\ \A u \in S : state'[u] = "popped"
            /\ \A u \in Tasks \ (S \cup {t}) : state'[u] = state[u]
      <4>1. CASE m_queue = <<>>
        <5>1. state[t] = "holding" /\ state' = [state EXCEPT ![t] = "released"]
          BY <2>2, <4>1 DEF dequeue_pending, free_permit
        <5> WITNESS {} \in SUBSET Tasks
        <5> QED BY <5>1
      <4>2. CASE m_queue # <<>>
        <5>1. /\ state[t] = "holding"
              /\ state' = [state EXCEPT ![t] = "released", ![Head(m_queue)] = "popped"]
          BY <2>2, <4>2 DEF dequeue_pending, hand_over
        <5>2. Head(m_queue) \in Tasks /\ state[Head(m_queue)] = "queued"
          <6>1. /\ Len(m_queue) \in Nat \ {0} /\ Len(requests) \in Nat
                /\ Head(m_queue) \in Tasks /\ Head(m_queue) = m_queue[1]
            BY <4>2, HeadTailProperties, EmptySeq, LenProperties
          <6>2. Left + 1 \in 1..Len(requests) /\ Left + 1 > Left
            BY <6>1 DEF Left, QueueIsSuffix
          <6> QED BY <6>1, <6>2 DEF QueueIsSuffix
        <5>3. {Head(m_queue)} \in SUBSET Tasks
          BY <5>2
        <5> WITNESS {Head(m_queue)} \in SUBSET Tasks
        <5> QED BY <5>1, <5>2 DEF In
      <4> QED BY <4>1, <4>2
    <3>2. /\ In({"holding"})' = In({"holding"}) \ {t} /\ t \in In({"holding"})
          /\ In({"released"})' = In({"released"}) \cup {t}
          /\ In(States \ {"idle"})' = In(States \ {"idle"})
      BY <3>1 DEF In, States
    <3>3. owed' = owed
      BY <2>2 DEF dequeue_pending
    <3> QED BY <3>2, <3>3 DEF Abstract!Next, Abstract!Release
  <2>3. ASSUME NEW t \in Tasks, set(t) PROVE Abstract!Next
    <3>1. /\ In({"holding"})' = In({"holding"}) \cup {t}
          /\ In({"released"})' = In({"released"}) /\ owed' = owed
          /\ In(States \ {"idle"})' = In(States \ {"idle"})
          /\ t \in In(States \ {"idle"}) \ (In({"holding"}) \cup In({"released"}))
      BY <2>3 DEF set, In, States
    <3>2. Cardinality(In({"holding"})) < m_initial_count
      <4>1. In({"holding"}) \in SUBSET In({"popped", "holding"})
            /\ In({"holding"}) # In({"popped", "holding"})
        BY <2>3 DEF set, In
      <4>2. Cardinality(In({"holding"})) # Cardinality(In({"popped", "holding"}))
        BY <4>1, FS_Subset DEF GrantedFinite
      <4> QED BY <2>0, <4>2, CountAssumption DEF PermitsConserved
    <3>3. Abstract!Grant(t)
      BY <3>1, <3>2, SameCardinality, Zenon DEF Abstract!Grant
    <3> QED BY <3>3, Zenon DEF Abstract!Next
  <2>4. CASE wait_all_async
    <3>1. /\ UNCHANGED state /\ owed = {}
          /\ owed' = Elements(requests)
      BY <2>4 DEF wait_all_async, svars, WaiterOwed
    <3>2. Elements(requests) = In(States \ {"idle"})
      BY ElementOfSeq DEF Elements, In, RequestsListed, States
    <3> QED BY <3>1, <3>2 DEF Abstract!Next, Abstract!WaitAll, In
  <2>5. CASE resume
    BY <2>5 DEF Abstract!Next, Abstract!Resume, In, resume, svars, WaiterOwed, WaitAllIsBarrier
  <2>6. CASE UNCHANGED vars
    BY <2>6 DEF vars, svars, Abstract!vars, In
  <2> QED BY <2>1, <2>2, <2>3, <2>4, <2>5, <2>6 DEF Next
<1> QED BY <1>1, <1>2, Invariance, PTL DEF Spec, ImplementsSemaphore, Abstract!Spec
=============================================================================

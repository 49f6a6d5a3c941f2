---------------------------- MODULE ExecutorProofs ----------------------------
(***************************************************************************)
(* What the timer_handler promises, for every interleaving of its owner,   *)
(* the user, the timer's thread and the pool; then how often the executor  *)
(* asks, and that it records every answer, for every retry policy's        *)
(* m_max_attempts, every set of status codes, every location mode and      *)
(* every moment of cancellation or timeout.                                *)
(***************************************************************************)
EXTENDS Executor, TLAPS

-----------------------------------------------------------------------------
(* The timer_handler, alone: TSpec is its own specification.               *)

(* The inductive invariant: who has run leaves its mark before it touches  *)
(* the worker's token, and a timer that was stopped has its event decided. *)
MarksFirst ==
    /\ callback # "idle" => user_canceled
    /\ continuation # "idle" => m_is_canceled_by_timeout
    /\ continuation = "idle" => ~m_is_canceled_by_timeout
EventDecided == m_timer_started /\ ~m_timer => m_tce # "unset"
TInv == TTypeOK /\ MarksFirst /\ EventDecided /\ CancelHasReason /\ NoUseAfterDestroy

(* The constructor leaves the members consistent.                          *)
LEMMA TInitInv == TInit => TInv
  BY DEF TInit, TInv, TTypeOK, MarksFirst, EventDecided, CancelHasReason, NoUseAfterDestroy, flags

(* Every step of every thread, start_timer and stop_timer included, keeps  *)
(* them so.                                                                *)
LEMMA TNextInv == TInv /\ [TNext]_tvars => TInv'
<1> SUFFICES ASSUME TInv, [TNext]_tvars PROVE TInv'
  OBVIOUS
<1> USE DEF TInv, TTypeOK, MarksFirst, EventDecided, CancelHasReason, NoUseAfterDestroy, flags, timer
<1>1. CASE user_cancel
  BY <1>1 DEF user_cancel
<1>2. CASE callback_cancel
  BY <1>2 DEF callback_cancel
<1>3. CASE callback_stop
  BY <1>3 DEF callback_stop, stop_timer
<1>4. CASE expire
  BY <1>4 DEF expire
<1>5. CASE timer_callback_lock
  BY <1>5 DEF timer_callback_lock
<1>6. CASE timer_callback
  BY <1>6 DEF timer_callback
<1>7. CASE continue_flag
  BY <1>7 DEF continue_flag
<1>8. CASE continue_cancel
  BY <1>8 DEF continue_cancel
<1>9. CASE destroy
  BY <1>9 DEF destroy
<1>10. CASE destroy_stop
  BY <1>10 DEF destroy_stop, stop_timer
<1>11. CASE owner_start
  BY <1>11 DEF owner_start, start_timer
<1>12. CASE owner_release
  BY <1>12 DEF owner_release
<1>13. CASE UNCHANGED tvars
  BY <1>13 DEF tvars
<1> QED
  BY <1>1, <1>2, <1>3, <1>4, <1>5, <1>6, <1>7, <1>8, <1>9, <1>10, <1>11, <1>12, <1>13
  DEF TNext, TimerThreads

(* The invariant holds in every state.                                     *)
LEMMA TInvariant == TSpec => []TInv
<1>1. TInit => TInv
  BY TInitInv
<1>2. TInv /\ [TNext]_tvars => TInv'
  BY TNextInv
<1> QED
  BY <1>1, <1>2, PTL DEF TSpec

(* start_timer, stop_timer and the three threads keep the members' types,  *)
(* and the timer's event is set only by a handler that ran.                *)
THEOREM TimerTypes == TSpec => []TTypeOK
  BY TInvariant, PTL DEF TInv

(* A canceled worker token always has its reason: the continuation stores  *)
(* m_is_canceled_by_timeout before it cancels.                             *)
THEOREM CancellationHasReason == TSpec => []CancelHasReason
  BY TInvariant, PTL DEF TInv

(* The raw `this' of the callback and the locked pointers of handler and   *)
(* continuation never meet a destroyed timer_handler.                      *)
THEOREM DestructionIsSafe == TSpec => []NoUseAfterDestroy
  BY TInvariant, PTL DEF TInv

(* stop_timer wins for good: its canceled event is never set, and no       *)
(* timeout is reported after it.                                           *)
THEOREM StopIsFinal == TSpec => StoppedTimerIsSilent
<1> DEFINE Silent == m_timer_started /\ ~m_timer /\ m_tce # "set"
                       => m_tce' # "set" /\ m_is_canceled_by_timeout' = m_is_canceled_by_timeout
<1>1. TInv /\ [TNext]_tvars => [Silent]_tvars
  <2> SUFFICES ASSUME TInv, [TNext]_tvars, m_timer_started, ~m_timer, m_tce # "set"
               PROVE  m_tce' # "set" /\ m_is_canceled_by_timeout' = m_is_canceled_by_timeout
    OBVIOUS
  <2>1. m_tce = "canceled"
    BY DEF TInv, TTypeOK, EventDecided
  <2> QED
    BY <2>1 DEF TNext, TimerThreads, user_cancel, callback_cancel, callback_stop, expire,
       timer_callback_lock, timer_callback, continue_flag, continue_cancel, destroy, destroy_stop,
       owner_start, owner_release, start_timer, stop_timer, flags, timer, tvars
<1> QED
  BY <1>1, TInvariant, PTL DEF TSpec, StoppedTimerIsSilent

-----------------------------------------------------------------------------
(* The executor.                                                           *)

Waiting == {"waiting", "error_body", "body", "final"}
Steps == SyncSteps \cup Waiting \cup {"start", "delay", "done"}
Requests == [location: Locations, since: Int, early: BOOLEAN]
Answers == [status: Nat, location: Locations]

(* Types of what the counting is about.                                    *)
Members ==
    /\ pc \in Steps /\ m_retry_count \in Nat
    /\ m_current_location \in Locations
    /\ m_request_result \in Answers
    /\ sent \in Seq(Requests) /\ request_results \in Seq(Answers)

(* The inductive invariant: m_retry_count is the number of attempts that   *)
(* ended; between the request and the final handler there is one more      *)
(* request than results, and its result will be of its location.           *)
Counted ==
    /\ pc # "done" => m_retry_count <= m_max_attempts
    /\ pc \in SyncSteps \cup {"start", "delay"} =>
          Len(sent) = m_retry_count /\ Len(request_results) = m_retry_count
    /\ pc \in Waiting =>
          Len(sent) = m_retry_count + 1 /\ Len(request_results) = m_retry_count
    /\ pc = "done" => Len(sent) <= m_max_attempts + 1 /\ Len(request_results) = Len(sent)
    /\ pc \in Waiting \cup {"prepare", "send"} => m_request_result.location = m_current_location
    /\ pc \in Waiting => sent[Len(sent)].location = m_current_location
Matched == \A i \in DOMAIN request_results : request_results[i].location = sent[i].location
EInv == Members /\ Counted /\ Matched

(* Time changes neither how many requests were sent nor where to.          *)
LEMMA ElapseKeeps ==
    ASSUME Backoff \in Int, sent \in Seq(Requests), NEW d \in Int,
           sent' = Aged(d)
    PROVE  /\ sent' \in Seq(Requests) /\ Len(sent') = Len(sent)
           /\ \A i \in DOMAIN sent : sent'[i].location = sent[i].location
<1>1. DOMAIN sent = 1..Len(sent) /\ Len(sent) \in Nat
  OBVIOUS
<1>2. \A i \in DOMAIN sent : sent'[i] \in Requests /\ sent'[i].location = sent[i].location
  <2> TAKE i \in DOMAIN sent
  <2>1. sent[i] \in Requests
    BY <1>1
  <2>2. sent'[i] = [sent[i] EXCEPT !.since = Later(sent[i].since, d)]
    BY DEF Aged
  <2>3. Later(sent[i].since, d) \in Int
    BY <2>1 DEF Later, Requests
  <2> QED
    BY <2>1, <2>2, <2>3 DEF Requests
<1>3. sent' \in [1..Len(sent) -> Requests]
  BY <1>1, <1>2 DEF Aged
<1>4. sent' \in Seq(Requests) /\ Len(sent') = Len(sent)
  BY <1>1, <1>3
<1> QED
  BY <1>2, <1>4

(* The location of the next attempt is one of the two.                     *)
LEMMA NextLocation ==
    ASSUME m_current_location \in Locations, NEW max, NEW mode,
           NEW info, info = evaluate(m_retry_count, max, m_request_result,
                                     get_next_location(mode, m_current_location), mode),
           info.should_retry, m_retry_count \in Nat, max \in Nat
    PROVE  info.target_location \in Locations /\ m_retry_count < max
  BY DEF evaluate, get_next_location, Other, Locations, no_retry, retry_info

(* The operation starts with nothing sent.                                 *)
LEMMA EInit == Init => EInv
<1> SUFFICES ASSUME Init PROVE EInv
  OBVIOUS
<1>1. m_current_location \in Locations
  BY DEF Init, get_first_location, Locations
<1>2. sent \in Seq(Requests) /\ Len(sent) = 0 /\ request_results \in Seq(Answers) /\ Len(request_results) = 0
  BY DEF Init
<1>3. Members
  BY <1>1, <1>2 DEF Init, Members, Steps, Answers
<1>4. Counted
  BY <1>2, ExecutorAssumption DEF Init, Counted, SyncSteps, Waiting
<1>5. Matched
  BY <1>2 DEF Init, Matched
<1> QED
  BY <1>3, <1>4, <1>5 DEF EInv

(* A step that leaves the counters, the requests and the results alone.    *)
counting == <<m_retry_count, m_current_location, m_request_result, request_results, sent>>

(* Throwing out of a synchronous step, or passing from one to the next.    *)
LEMMA SyncKeeps ==
    ASSUME EInv, UNCHANGED counting, pc \in SyncSteps \cup {"start"},
           \/ pc' = "done"
           \/ pc' \in SyncSteps /\ (pc' \in {"prepare", "send"} => pc \in {"prepare", "send"})
    PROVE  EInv'
<1>1. Members'
  BY DEF EInv, Members, counting, Steps, SyncSteps
<1>2. Counted'
  BY ExecutorAssumption DEF EInv, Members, Counted, counting, SyncSteps, Waiting
<1>3. Matched'
  BY DEF EInv, Matched, counting
<1> QED
  BY <1>1, <1>2, <1>3 DEF EInv

(* Where an attempt stands while its answer is awaited: a step that goes   *)
(* on with it and at most lets time pass.                                  *)
LEMMA WaitingKeeps ==
    ASSUME EInv, pc \in Waiting, pc' \in Waiting,
           UNCHANGED <<m_retry_count, m_current_location, request_results>>,
           m_request_result' \in Answers, m_request_result'.location = m_current_location,
           sent' \in Seq(Requests), Len(sent') = Len(sent),
           \A i \in DOMAIN sent : sent'[i].location = sent[i].location
    PROVE  EInv'
<1>1. Members'
  BY DEF EInv, Members, Steps
<1>2. Counted'
  BY DEF EInv, Members, Counted, Waiting, SyncSteps
<1>3. Matched'
  <2>1. DOMAIN request_results \subseteq DOMAIN sent
    BY DEF EInv, Members, Counted
  <2> QED
    BY <2>1 DEF EInv, Matched
<1> QED
  BY <1>1, <1>2, <1>3 DEF EInv

(* The final handler adds the result of the request sent last.             *)
LEMMA FinalKeeps == EInv /\ final => EInv'
<1> SUFFICES ASSUME EInv, final PROVE EInv'
  OBVIOUS
<1>1. /\ pc = "final" /\ request_results' = Append(request_results, m_request_result)
      /\ UNCHANGED <<m_request_result, sent>>
  BY DEF final, record
<1>2. /\ Len(sent) = m_retry_count + 1 /\ Len(request_results) = m_retry_count
      /\ m_retry_count <= m_max_attempts /\ m_retry_count \in Nat
      /\ m_request_result.location = sent[Len(sent)].location
  BY <1>1 DEF EInv, Members, Counted, Waiting
<1>3. /\ request_results' \in Seq(Answers) /\ Len(request_results') = m_retry_count + 1
      /\ \A i \in 1..m_retry_count : request_results'[i] = request_results[i]
      /\ request_results'[m_retry_count + 1] = m_request_result
  BY <1>1, <1>2 DEF EInv, Members
<1>4. Matched'
  BY <1>1, <1>2, <1>3 DEF EInv, Members, Matched
<1>5. \/ pc' = "done" /\ m_retry_count' \in Nat /\ m_current_location' \in Locations
      \/ /\ pc' = "delay" /\ m_retry_count' = m_retry_count + 1 /\ m_retry_count < m_max_attempts
         /\ m_current_location' \in Locations
  <2> DEFINE info == evaluate(m_retry_count, m_max_attempts, m_request_result,
                              get_next_location(m_current_location_mode, m_current_location),
                              m_current_location_mode)
  <2>1. info.should_retry => info.target_location \in Locations /\ m_retry_count < m_max_attempts
    BY <1>2, NextLocation, ExecutorAssumption DEF EInv, Members
  <2>2. m_current_location \in Locations
    BY DEF EInv, Members
  <2> HIDE DEF info
  <2>3. \/ pc' = "done" /\ UNCHANGED <<m_retry_count, m_current_location>>
        \/ pc' = "done" /\ m_retry_count' = m_retry_count + 1 /\ UNCHANGED m_current_location
        \/ /\ info.should_retry /\ pc' \in {"done", "delay"}
           /\ m_retry_count' = m_retry_count + 1 /\ m_current_location' = info.target_location
    BY DEF final, Finish, Goto, retry, policy, where, info
  <2> QED
    BY <1>2, <2>1, <2>2, <2>3
<1>6. Members'
  BY <1>1, <1>3, <1>5 DEF EInv, Members, Steps
<1>7. Counted'
  BY <1>1, <1>2, <1>3, <1>5, ExecutorAssumption DEF EInv, Members, Counted, Waiting, SyncSteps
<1> QED
  BY <1>4, <1>6, <1>7 DEF EInv

(* The clocks are numbers.                                                 *)
Clocks == last_attempt \in [Locations -> Int] /\ since_result \in Int /\ interval \in Int

LEMMA LaterType == ASSUME Backoff \in Int, NEW x \in Int, NEW d \in Int PROVE Later(x, d) \in Int
  BY DEF Later

(* Every step keeps the clocks numbers.                                    *)
LEMMA ClocksNext == Clocks /\ EInv /\ [Next]_vars => Clocks'
<1> SUFFICES ASSUME Clocks, EInv, [Next]_vars PROVE Clocks'
  OBVIOUS
<1>0. Backoff \in Int
  BY ExecutorAssumption
<1>1. CASE UNCHANGED <<last_attempt, since_result, interval>>
  BY <1>1 DEF Clocks
<1>2. ASSUME NEW d \in Int, last_attempt' = [l \in Locations |-> Later(last_attempt[l], d)],
             since_result' \in {0, Later(since_result, d)}, UNCHANGED interval
      PROVE  Clocks'
  BY <1>0, <1>2, LaterType DEF Clocks
<1>3. CASE connection_lost
  BY <1>2, <1>3 DEF connection_lost, Ticks, Elapse
<1>4. ASSUME NEW status \in Statuses, response(status) PROVE Clocks'
  BY <1>2, <1>4 DEF response, response_as, Ticks
<1>5. CASE delay
  BY <1>2, <1>5 DEF delay, Elapse, Clocks
<1>6. CASE build
  BY <1>6 DEF build, policy, Clocks
<1>7. CASE final
  <2>1. CASE UNCHANGED <<last_attempt, interval>>
    BY <1>7, <2>1 DEF final, Clocks
  <2>2. CASE \E l \in Locations :
               /\ last_attempt' = [last_attempt EXCEPT ![m_request_result.location] = since_result]
               /\ interval' = align_retry_interval(Backoff, last_attempt'[l])
    <3>1. PICK l \in Locations : interval' = align_retry_interval(Backoff, last_attempt'[l])
      BY <2>2
    <3>2. last_attempt' \in [Locations -> Int]
      BY <2>2 DEF Clocks
    <3>3. interval' \in Int
      BY <1>0, <3>1, <3>2 DEF align_retry_interval
    <3> QED
      BY <1>7, <3>2, <3>3 DEF final, Clocks
  <2> QED
    <3> DEFINE info == evaluate(m_retry_count, m_max_attempts, m_request_result,
                                get_next_location(m_current_location_mode, m_current_location),
                                m_current_location_mode)
    <3>1. info.should_retry => info.target_location \in Locations
      BY NextLocation, ExecutorAssumption DEF EInv, Members
    <3> HIDE DEF info
    <3>2. UNCHANGED <<last_attempt, interval>> \/ (info.should_retry /\ retry(info))
      BY <1>7 DEF final, policy, info
    <3> QED
      BY <2>1, <2>2, <3>1, <3>2 DEF retry
<1> QED
  BY <1>1, <1>3, <1>4, <1>5, <1>6, <1>7
  DEF Next, Operation, start, assert_timed_out, assert_canceled, begin, prepare, send, error_body,
      body_received, expiry, Release, policy, evars, vars

(* Every step of the operation, of its timer and of its user.              *)
LEMMA ENext == EInv /\ Clocks /\ [Next]_vars => EInv'
<1> SUFFICES ASSUME EInv, Clocks, [Next]_vars PROVE EInv'
  OBVIOUS
<1>0. UNCHANGED <<pc, counting>> => EInv'
  BY DEF EInv, Members, Counted, Matched, counting
<1>1. CASE start
  BY <1>1, SyncKeeps DEF start, where, attempt, policy, counting, SyncSteps
<1>2. CASE assert_timed_out
  BY <1>2, SyncKeeps DEF assert_timed_out, Throw, Finish, where, attempt, policy, counting, SyncSteps
<1>3. CASE assert_canceled
  BY <1>3, SyncKeeps DEF assert_canceled, Throw, Finish, where, attempt, policy, counting
<1>4. CASE begin
  <2>1. CASE pc' = "done" /\ UNCHANGED m_current_location
    BY <1>4, <2>1, SyncKeeps DEF begin, At, attempt, policy, counting, SyncSteps
  <2>2. CASE pc' = "build" /\ m_current_location' = NarrowedLocation(m_location_mode, m_current_location)
    <3>1. m_current_location' \in Locations
      BY <2>2 DEF EInv, Members, NarrowedLocation, Locations
    <3>2. pc = "begin" /\ UNCHANGED <<m_retry_count, m_request_result, request_results, sent>>
      BY <1>4 DEF begin, At, attempt, policy
    <3> QED
      BY <2>2, <3>1, <3>2 DEF EInv, Members, Counted, Matched, Steps, SyncSteps, Waiting
  <2> QED
    BY <1>4, <2>1, <2>2 DEF begin, Throw, Finish, Goto, where
<1>5. CASE build
  <2>1. pc = "build" /\ UNCHANGED <<m_retry_count, m_current_location, request_results, sent>>
    BY <1>5 DEF build, At, where, policy
  <2>2. CASE pc' = "done" /\ UNCHANGED m_request_result
    BY <2>1, <2>2, SyncKeeps DEF counting, SyncSteps
  <2>3. CASE pc' = "prepare" /\ m_request_result' = [status |-> 0, location |-> m_current_location]
    <3>1. m_request_result' \in Answers /\ m_request_result'.location = m_current_location
      BY <2>3 DEF EInv, Members, Answers
    <3> QED
      BY <2>1, <2>3, <3>1 DEF EInv, Members, Counted, Matched, Steps, SyncSteps, Waiting
  <2> QED
    BY <1>5, <2>2, <2>3 DEF build, Throw, Finish, Goto
<1>6. CASE prepare
  BY <1>6, SyncKeeps DEF prepare, At, Goto, where, attempt, policy, counting, SyncSteps
<1>7. CASE send
  <2>1. pc = "send" /\ UNCHANGED <<m_retry_count, m_current_location, m_request_result, request_results>>
    BY <1>7 DEF send, At, where, attempt, policy
  <2>2. CASE pc' = "done" /\ UNCHANGED sent
    BY <2>1, <2>2, SyncKeeps DEF counting, SyncSteps
  <2>3. CASE /\ pc' = "waiting"
             /\ \E early \in BOOLEAN :
                    sent' = Append(sent, [location |-> m_current_location, since |-> 0, early |-> early])
    <3>1. PICK early \in BOOLEAN :
               sent' = Append(sent, [location |-> m_current_location, since |-> 0, early |-> early])
      BY <2>3
    <3>2. [location |-> m_current_location, since |-> 0, early |-> early] \in Requests
      BY DEF EInv, Members, Requests
    <3>3. /\ sent' \in Seq(Requests) /\ Len(sent') = Len(sent) + 1
          /\ \A i \in 1..Len(sent) : sent'[i] = sent[i]
          /\ sent'[Len(sent) + 1].location = m_current_location
      BY <3>1, <3>2 DEF EInv, Members
    <3>4. Members'
      BY <2>1, <2>3, <3>3 DEF EInv, Members, Steps, Waiting
    <3>5. Counted'
      BY <2>1, <2>3, <3>3 DEF EInv, Members, Counted, SyncSteps, Waiting
    <3>6. Matched'
      BY <2>1, <3>3 DEF EInv, Members, Counted, Matched, SyncSteps
    <3> QED
      BY <3>4, <3>5, <3>6 DEF EInv
  <2> QED
    BY <1>7, <2>2, <2>3 DEF send, Throw, Finish, Goto
<1>8. CASE connection_lost
  <2>1. /\ pc \in Waiting /\ pc' = "final"
        /\ UNCHANGED <<m_retry_count, m_current_location, m_request_result, request_results>>
    BY <1>8 DEF connection_lost, Fail, Goto, where, Waiting
  <2>2. PICK d \in Int : sent' = Aged(d)
    BY <1>8 DEF connection_lost, Ticks, Elapse
  <2>3. /\ sent' \in Seq(Requests) /\ Len(sent') = Len(sent)
        /\ \A i \in DOMAIN sent : sent'[i].location = sent[i].location
    BY <2>2, ElapseKeeps, ExecutorAssumption DEF EInv, Members
  <2>4. m_request_result \in Answers /\ m_request_result.location = m_current_location
    BY <2>1 DEF EInv, Members, Counted
  <2> QED
    BY <2>1, <2>3, <2>4, WaitingKeeps DEF Waiting
<1>9. ASSUME NEW status \in Statuses, response(status) PROVE EInv'
  <2>1. /\ pc = "waiting" /\ pc' \in Waiting
        /\ UNCHANGED <<m_retry_count, m_current_location, request_results>>
        /\ m_request_result' = [status |-> status, location |-> m_current_location]
    BY <1>9 DEF response, response_as, AssertThenFail, Fail, Goto, Waiting
  <2>2. m_request_result' \in Answers /\ m_request_result'.location = m_current_location
    BY <2>1, ExecutorAssumption DEF EInv, Members, Answers
  <2>3. PICK d \in Int : sent' = Aged(d)
    BY <1>9 DEF response, response_as, Ticks
  <2>4. /\ sent' \in Seq(Requests) /\ Len(sent') = Len(sent)
        /\ \A i \in DOMAIN sent : sent'[i].location = sent[i].location
    BY <2>3, ElapseKeeps, ExecutorAssumption DEF EInv, Members
  <2> QED
    BY <2>1, <2>2, <2>4, WaitingKeeps DEF Waiting
<1>10. CASE error_body
  <2>1. pc = "error_body" /\ pc' = "final" /\ UNCHANGED counting
    BY <1>10 DEF error_body, AssertThenFail, Fail, Goto, where, policy, counting
  <2> QED
    BY <2>1, WaitingKeeps DEF EInv, Members, Counted, counting, Waiting
<1>11. CASE body_received
  <2>1. /\ pc = "body" /\ pc' = "final"
        /\ UNCHANGED <<m_retry_count, m_current_location, request_results, sent>>
    BY <1>11 DEF body_received, AssertThenFail, Fail, Goto, policy
  <2>2. m_request_result \in Answers /\ m_request_result.location = m_current_location
    BY <2>1 DEF EInv, Members, Counted, Waiting
  <2>3. m_request_result' \in Answers /\ m_request_result'.location = m_current_location
    BY <1>11, <2>2, ExecutorAssumption DEF body_received, Answers
  <2> QED
    BY <2>1, <2>3, WaitingKeeps DEF EInv, Members, Counted, Waiting
<1>12. CASE final
  BY <1>12, FinalKeeps
<1>13. CASE delay
  <2>1. /\ pc = "delay" /\ pc' = "begin"
        /\ UNCHANGED <<m_retry_count, m_current_location, m_request_result, request_results>>
        /\ sent' = Aged(interval)
    BY <1>13 DEF delay, Goto, Elapse, where, attempt
  <2>2. /\ sent' \in Seq(Requests) /\ Len(sent') = Len(sent)
        /\ \A i \in DOMAIN sent : sent'[i].location = sent[i].location
    BY <2>1, ElapseKeeps, ExecutorAssumption DEF EInv, Members, Clocks
  <2>3. DOMAIN request_results \subseteq DOMAIN sent
    BY <2>1 DEF EInv, Members, Counted
  <2> QED
    BY <2>1, <2>2, <2>3 DEF EInv, Members, Counted, Matched, Steps, SyncSteps, Waiting
<1>14. CASE expiry \/ Release \/ (TimerThreads /\ UNCHANGED evars) \/ UNCHANGED vars
  BY <1>0, <1>14 DEF expiry, Release, evars, vars, control, where, attempt, policy, counting
<1> QED
  BY <1>1, <1>2, <1>3, <1>4, <1>5, <1>6, <1>7, <1>8, <1>9, <1>10, <1>11, <1>12, <1>13, <1>14
  DEF Next, Operation

(* The invariant holds in every state.                                     *)
LEMMA EInvariant == Spec => []EInv
<1>1. Init => EInv /\ Clocks
  BY EInit DEF Init, Clocks
<1>2. EInv /\ Clocks /\ [Next]_vars => EInv' /\ Clocks'
  BY ENext, ClocksNext
<1> QED
  BY <1>1, <1>2, PTL DEF Spec

-----------------------------------------------------------------------------
(* Where the requests go.                                                  *)

(* The operation is under way, and past validate_location_mode of one of   *)
(* its attempts.                                                           *)
Running == pc # "done"
Validated == Running /\ (pc \notin {"start", "begin"} \/ m_retry_count > 0)

Options ==
    [mode: LocationModes, command: {"primary_only", "primary_or_secondary"},
     has_secondary: BOOLEAN, download: BOOLEAN]

(* The location follows the mode, and the mode what the caller, the        *)
(* command and the lock allow.                                             *)
Placed ==
    /\ options \in Options
    /\ options.download => options.command = "primary_or_secondary"
    /\ m_current_location_mode \in LocationModes /\ m_location_mode \in CommandModes
    /\ ~options.download => m_location_mode = options.command
    /\ pc = "delay" => m_retry_count > 0
    /\ pc = "start" => m_retry_count = 0
    /\ Running =>
          /\ m_current_location_mode = "primary_only" => m_current_location = "primary"
          /\ m_current_location_mode = "secondary_only" => m_current_location = "secondary"
          /\ options.mode = "primary_only" => m_current_location_mode = "primary_only"
          /\ options.mode = "secondary_only" /\ options.command # "primary_only"
               => m_current_location_mode = "secondary_only" /\ m_location_mode # "primary_only"
    /\ Validated /\ options.command = "primary_only" => m_current_location_mode = "primary_only"
    /\ pc \in {"build", "prepare", "send"} /\ m_current_location = "secondary" => options.has_secondary
    /\ pc \in SyncSteps \cup {"start"} /\ m_retry_count = 0 =>
          /\ m_location_mode = options.command
          /\ \/ m_current_location = get_first_location(options.mode)
             \/ options.command = "primary_only" /\ m_current_location = "primary"

(* Only a lock narrows the mode to the secondary, and after a 404 of a     *)
(* secondary that holds no lock it is narrowed to the primary.             *)
Leaving ==
    Running /\ options.mode # "secondary_only" =>
        /\ m_location_mode = "secondary_only" =>
              \/ LockedToSecondary(Len(request_results))
              \/ /\ Resumable /\ pc \in {"body", "final"}
                 /\ m_request_result.location = "secondary" /\ m_request_result.status \in Success
        /\ m_current_location_mode = "secondary_only" => LockedToSecondary(Len(request_results))
        /\ \A i \in DOMAIN request_results :
              secondary_not_found(request_results[i])
                => LockedToSecondary(i - 1) \/ m_current_location_mode = "primary_only"

(* The ages of the requests: earlier ones are older, a finished one is at  *)
(* least as old as the policy's clock for its location says, and a         *)
(* location that is asked again has rested for the interval.               *)
Ages ==
    /\ \A i \in DOMAIN sent : sent[i].since \in 0..Backoff
    /\ \A i, j \in DOMAIN sent : i < j => sent[j].since <= sent[i].since
    /\ since_result \in 0..Backoff /\ last_attempt \in [Locations -> -1..Backoff]
    /\ pc \in {"prepare", "send"} => since_result = 0
    /\ pc \in Waiting => since_result <= sent[Len(sent)].since
    /\ Running => \A i \in 1..m_retry_count : last_attempt[sent[i].location] \in 0..sent[i].since
    /\ pc = "delay" => interval = align_retry_interval(Backoff, last_attempt[m_current_location])
    /\ ~Resumable /\ pc \in SyncSteps =>
          \A i \in DOMAIN sent : sent[i].location = m_current_location => sent[i].since = Backoff

(* Whoever reports a timeout has seen one.                                 *)
TimedOut == ex.what = "client_timeout" \/ outcome.what = "client_timeout"
Seen == TimedOut => expired \/ m_is_canceled_by_timeout

(* What the final handler does with the attempt: it ends the operation or  *)
(* plans another one, away from a secondary that answered 404.             *)
LEMMA FinalEffect ==
    ASSUME EInv, final
    PROVE  \/ pc' = "done"
           \/ /\ pc' = "delay" /\ UNCHANGED <<m_location_mode, outcome>>
              /\ m_retry_count' = m_retry_count + 1
              /\ last_attempt' = [last_attempt EXCEPT ![m_request_result.location] = since_result]
              /\ interval' = align_retry_interval(Backoff, last_attempt'[m_current_location'])
              /\ \/ /\ secondary_not_found(m_request_result) /\ m_current_location_mode # "secondary_only"
                    /\ m_current_location' = "primary" /\ m_current_location_mode' = "primary_only"
                 \/ /\ secondary_not_found(m_request_result) => m_current_location_mode = "secondary_only"
                    /\ m_current_location' = get_next_location(m_current_location_mode, m_current_location)
                    /\ UNCHANGED m_current_location_mode
<1> DEFINE next == get_next_location(m_current_location_mode, m_current_location)
           info == evaluate(m_retry_count, m_max_attempts, m_request_result, next, m_current_location_mode)
<1>1. info.should_retry =>
         \/ /\ secondary_not_found(m_request_result) /\ m_current_location_mode # "secondary_only"
            /\ info.target_location = "primary" /\ info.updated_location_mode = "primary_only"
         \/ /\ secondary_not_found(m_request_result) => m_current_location_mode = "secondary_only"
            /\ info.target_location = next /\ info.updated_location_mode = m_current_location_mode
  <2> HIDE DEF next
  <2> QED
    BY DEF evaluate, no_retry, retry_info
<1> HIDE DEF info
<1>2. \/ pc' = "done"
      \/ info.should_retry /\ retry(info) /\ pc' = "delay" /\ UNCHANGED <<m_location_mode, outcome>>
  BY DEF final, Finish, Goto, info
<1> QED
  BY <1>1, <1>2 DEF retry

(* Timeout flags only go up, and both places that report a timeout look at *)
(* them first.                                                             *)
LEMMA SeenNext == Seen /\ [Next]_vars => Seen'
<1> SUFFICES ASSUME Seen, [Next]_vars PROVE Seen'
  OBVIOUS
<1>1. UNCHANGED <<ex, outcome, expired, m_is_canceled_by_timeout>> => Seen'
  BY DEF Seen, TimedOut
<1>2. CASE start
  BY <1>1, <1>2 DEF start, flags, attempt, chosen
<1>3. CASE assert_timed_out
  BY <1>3 DEF assert_timed_out, Throw, Finish, tvars, flags, attempt, chosen, Seen, TimedOut
<1>4. CASE assert_canceled
  BY <1>4 DEF assert_canceled, Throw, Finish, tvars, flags, attempt, chosen, Seen, TimedOut
<1>5. CASE begin
  BY <1>5 DEF begin, Throw, Finish, Goto, tvars, flags, attempt, chosen, Seen, TimedOut
<1>6. CASE build
  BY <1>6 DEF build, Throw, Finish, Goto, tvars, flags, chosen, Seen, TimedOut
<1>7. CASE prepare
  BY <1>1, <1>7 DEF prepare, Goto, tvars, flags, attempt, chosen
<1>8. CASE send
  BY <1>8 DEF send, Throw, Finish, Goto, tvars, flags, attempt, chosen, Seen, TimedOut
<1>9. CASE connection_lost
  BY <1>9 DEF connection_lost, Fail, Goto, tvars, flags, chosen, Seen, TimedOut
<1>10. ASSUME NEW status \in Statuses, response(status) PROVE Seen'
  BY <1>10 DEF response, response_as, AssertThenFail, Fail, Goto, tvars, flags, chosen, Seen, TimedOut
<1>11. CASE error_body
  BY <1>11 DEF error_body, AssertThenFail, Fail, Goto, tvars, flags, chosen, Seen, TimedOut
<1>12. CASE body_received
  <2>1. UNCHANGED <<outcome, expired, m_is_canceled_by_timeout>>
    BY <1>12 DEF body_received, AssertThenFail, Fail, Goto, tvars, flags, chosen
  <2>2. ex'.what = "client_timeout" => m_is_canceled_by_timeout
    <3>1. NoException.what # "client_timeout"
      BY Zenon DEF NoException
    <3> QED
      BY <1>12, <3>1 DEF body_received, AssertThenFail, Fail
  <2> QED
    BY <2>1, <2>2 DEF Seen, TimedOut
<1>13. CASE final
  <2> DEFINE Nothing == ""
  <2>0. NoException.what # "client_timeout" /\ Nothing # "client_timeout"
    BY Zenon DEF NoException
  <2> HIDE DEF Nothing
  <2>1. ex' = NoException /\ UNCHANGED <<expired, m_is_canceled_by_timeout>>
    BY <1>13 DEF final, tvars, flags, chosen
  <2>2. \/ \E how, what : /\ outcome' = [how |-> how, what |-> what]
                          /\ what \in {Nothing, ex.what} \/ m_is_canceled_by_timeout
        \/ UNCHANGED outcome
    BY <1>13 DEF final, Finish, Goto, Nothing
  <2>3. outcome'.what = "client_timeout" =>
           \/ ex.what = "client_timeout" \/ outcome.what = "client_timeout"
           \/ m_is_canceled_by_timeout
    BY <2>0, <2>2
  <2> QED
    BY <2>0, <2>1, <2>3 DEF Seen, TimedOut
<1>14. CASE delay
  BY <1>1, <1>14 DEF delay, Goto, tvars, flags, attempt, chosen
<1>15. CASE expiry
  BY <1>15 DEF expiry, Seen
<1>16. CASE Release \/ (TimerThreads /\ UNCHANGED evars)
  <2>1. m_is_canceled_by_timeout => m_is_canceled_by_timeout'
    BY <1>16 DEF Release, owner_release, TimerThreads, user_cancel, callback_cancel, callback_stop, expire,
      timer_callback_lock, timer_callback, continue_flag, continue_cancel, destroy, destroy_stop, flags
  <2>2. UNCHANGED <<ex, outcome, expired>>
    BY <1>16 DEF Release, evars, control, attempt, chosen
  <2> QED
    BY <2>1, <2>2 DEF Seen, TimedOut
<1>17. CASE UNCHANGED vars
  BY <1>1, <1>17 DEF vars, tvars, flags, evars, control, attempt, chosen
<1> QED
  BY <1>2, <1>3, <1>4, <1>5, <1>6, <1>7, <1>8, <1>9, <1>10, <1>11, <1>12, <1>13, <1>14, <1>15, <1>16, <1>17
  DEF Next, Operation

(* A step that keeps the location, its mode and the lock, and goes on with *)
(* the attempt or ends the operation.                                      *)
LEMMA PlacedKeeps ==
    ASSUME Placed, UNCHANGED <<options, where, m_retry_count>>,
           \/ pc' \in {pc, "done"} \cup Waiting
           \/ pc = "start" /\ pc' = "begin"
           \/ pc = "build" /\ pc' = "prepare"
           \/ pc = "prepare" /\ pc' = "send",
           pc \in {"start", "begin", "done"} => pc' \notin Waiting
    PROVE  Placed'
  BY DEF Placed, Running, Validated, where, Waiting, SyncSteps

(* The operation starts at the first location of its mode.                 *)
LEMMA PlacedInit == Init => Placed
  BY ExecutorAssumption DEF Init, Placed, Options, Running, Validated, SyncSteps, get_first_location,
    LocationModes, CommandModes

(* validate_location_mode, the locks of a download and the retries keep    *)
(* the location where the caller, the command and the account allow it.    *)
LEMMA PlacedNext == EInv /\ Placed /\ [Next]_vars => Placed'
<1> SUFFICES ASSUME EInv, Placed, [Next]_vars PROVE Placed'
  OBVIOUS
<1>1. CASE start
  BY <1>1, PlacedKeeps DEF start, policy, chosen, Waiting
<1>2. CASE assert_timed_out
  BY <1>2, PlacedKeeps DEF assert_timed_out, Throw, Finish, policy, chosen, Waiting, SyncSteps
<1>3. CASE assert_canceled
  BY <1>3, PlacedKeeps DEF assert_canceled, Throw, Finish, policy, chosen, Waiting
<1>4. CASE begin
  <2>1. CASE pc' = "done" /\ UNCHANGED where
    BY <1>4, <2>1, PlacedKeeps DEF begin, policy, chosen, Waiting
  <2>2. CASE /\ pc' = "build"
             /\ HasUri(m_current_location_mode, options.has_secondary)
             /\ CommandAllows(m_location_mode, m_current_location_mode)
             /\ m_current_location_mode' = Narrowed(m_location_mode, m_current_location_mode)
             /\ m_current_location' = NarrowedLocation(m_location_mode, m_current_location)
             /\ UNCHANGED m_location_mode
    <3>1. pc = "begin" /\ UNCHANGED <<options, m_retry_count>>
      BY <1>4 DEF begin, At, policy, chosen
    <3>2. m_current_location \in Locations
      BY DEF EInv, Members
    <3> QED
      BY <2>2, <3>1, <3>2 DEF Placed, Options, Running, Validated, Waiting, SyncSteps, Locations, LocationModes,
        CommandModes, HasUri, CommandAllows, Narrowed, NarrowedLocation
  <2> QED
    BY <1>4, <2>1, <2>2 DEF begin, Throw, Finish, Goto
<1>5. CASE build
  BY <1>5, PlacedKeeps DEF build, At, Throw, Finish, Goto, policy, chosen, Waiting
<1>6. CASE prepare
  BY <1>6, PlacedKeeps DEF prepare, At, Goto, policy, chosen, Waiting
<1>7. CASE send
  BY <1>7, PlacedKeeps DEF send, At, Throw, Finish, Goto, policy, chosen, Waiting
<1>8. CASE connection_lost
  BY <1>8, PlacedKeeps DEF connection_lost, Fail, Goto, policy, chosen, Waiting
<1>9. ASSUME pc \in Waiting, pc' \in Waiting, UNCHANGED <<options, m_current_location, m_current_location_mode, m_retry_count>>,
             \/ UNCHANGED m_location_mode
             \/ options.download /\ m_location_mode' \in {"primary_or_secondary", LockedTo(m_current_location)}
      PROVE  Placed'
  BY <1>9 DEF Placed, Options, Running, Validated, Waiting, SyncSteps, LockedTo, CommandModes, EInv, Members, Locations
<1>10. ASSUME NEW status \in Statuses, response(status) PROVE Placed'
  BY <1>9, <1>10 DEF response, response_as, AssertThenFail, Fail, Goto, Resumable, chosen, Waiting
<1>11. CASE error_body
  BY <1>11, PlacedKeeps DEF error_body, AssertThenFail, Fail, Goto, policy, chosen, Waiting
<1>12. CASE body_received
  BY <1>9, <1>12 DEF body_received, AssertThenFail, Fail, Goto, Resumable, policy, chosen, Waiting
<1>13. CASE final
  <2>1. pc = "final" /\ UNCHANGED options
    BY <1>13 DEF final, chosen
  <2>2. m_location_mode' = m_location_mode
    BY <1>13 DEF final, where
  <2>3. CASE pc' = "done"
    <3>1. m_current_location_mode' \in LocationModes
      <4> DEFINE info == evaluate(m_retry_count, m_max_attempts, m_request_result,
                                  get_next_location(m_current_location_mode, m_current_location),
                                  m_current_location_mode)
      <4>1. info.should_retry => info.updated_location_mode \in LocationModes
        BY DEF evaluate, no_retry, retry_info, Placed, LocationModes
      <4> HIDE DEF info
      <4>2. UNCHANGED m_current_location_mode \/ (info.should_retry /\ m_current_location_mode' = info.updated_location_mode)
        BY <1>13 DEF final, where, retry, info
      <4> QED
        BY <4>1, <4>2 DEF Placed
    <3> QED
      BY <2>1, <2>2, <2>3, <3>1 DEF Placed, Running, Validated, SyncSteps
  <2>4. CASE pc' # "done"
    <3>1. m_current_location \in Locations /\ m_retry_count \in Nat
      BY DEF EInv, Members
    <3> QED
      BY <1>13, <2>1, <2>2, <2>4, <3>1, FinalEffect DEF Placed, Options, Running, Validated, SyncSteps,
        Locations, LocationModes, get_next_location
  <2> QED
    BY <2>3, <2>4
<1>14. CASE delay
  <2>1. pc = "delay" /\ pc' = "begin" /\ UNCHANGED <<options, where, m_retry_count>>
    BY <1>14 DEF delay, Goto, chosen
  <2> QED
    BY <2>1 DEF Placed, Running, Validated, SyncSteps, where, EInv, Members
<1>15. CASE expiry \/ Release \/ (TimerThreads /\ UNCHANGED evars) \/ UNCHANGED vars
  <2>1. UNCHANGED <<pc, options, where, m_retry_count>>
    BY <1>15 DEF expiry, Release, evars, vars, control, where, policy, chosen
  <2> QED
    BY <2>1 DEF Placed, Running, Validated, SyncSteps, where
<1> QED
  BY <1>1, <1>2, <1>3, <1>4, <1>5, <1>6, <1>7, <1>8, <1>10, <1>11, <1>12, <1>13, <1>14, <1>15
  DEF Next, Operation

(* What a step does to the requests: send adds one to the current          *)
(* location, and nothing else changes where they went.                     *)
SameTargets == Len(sent') = Len(sent) /\ \A i \in DOMAIN sent : sent'[i].location = sent[i].location
NewRequest ==
    /\ pc = "send" /\ UNCHANGED <<where, request_results, m_retry_count>>
    /\ Len(sent') = Len(sent) + 1 /\ sent'[Len(sent) + 1].location = m_current_location
    /\ \A i \in DOMAIN sent : sent'[i] = sent[i]

LEMMA SentEffect ==
    ASSUME EInv, Clocks, [Next]_vars
    PROVE  options' = options /\ (SameTargets \/ NewRequest)
<1>0. Backoff \in Int /\ sent \in Seq(Requests)
  BY ExecutorAssumption DEF EInv, Members
<1>1. options' = options
  BY DEF Next, Operation, start, assert_timed_out, assert_canceled, begin, build, prepare, send, connection_lost,
    response, response_as, error_body, body_received, final, delay, expiry, Release, evars, vars, chosen
<1>2. CASE UNCHANGED sent
  BY <1>1, <1>2 DEF SameTargets
<1>3. CASE \E d \in Int : sent' = Aged(d)
  BY <1>0, <1>1, <1>3, ElapseKeeps DEF SameTargets
<1>4. CASE send
  <2>1. CASE \E r : r.location = m_current_location /\ sent' = Append(sent, r)
    BY <1>0, <1>1, <1>4, <2>1 DEF send, At, attempt, policy, NewRequest
  <2> QED
    BY <1>2, <1>4, <2>1 DEF send
<1>5. CASE connection_lost \/ (\E status \in Statuses : response(status)) \/ delay
  <2>1. connection_lost \/ (\E status \in Statuses : response(status)) => \E d \in Ticks : sent' = Aged(d)
    BY DEF connection_lost, response, response_as, Elapse
  <2>2. delay => sent' = Aged(interval) /\ interval \in Int
    BY DEF delay, Elapse, Clocks
  <2> QED
    BY <1>3, <1>5, <2>1, <2>2 DEF Ticks
<1> QED
  BY <1>2, <1>4, <1>5 DEF Next, Operation, start, assert_timed_out, assert_canceled, begin, build, prepare,
    error_body, body_received, final, expiry, Release, evars, vars

(* The first request goes where the options and the command say, and the   *)
(* others only where they allow.                                           *)
LEMMA LocationsNext == EInv /\ Clocks /\ Placed /\ LocationsPermitted /\ [Next]_vars => LocationsPermitted'
<1> SUFFICES ASSUME EInv, Clocks, Placed, LocationsPermitted, [Next]_vars PROVE LocationsPermitted'
  OBVIOUS
<1>1. options' = options /\ sent \in Seq(Requests) /\ sent' \in Seq(Requests)
  BY SentEffect, ENext DEF EInv, Members
<1>2. CASE SameTargets
  <2>1. DOMAIN sent' = DOMAIN sent
    BY <1>1, <1>2 DEF SameTargets
  <2>2. DOMAIN sent # {} => 1 \in DOMAIN sent
    BY <1>1
  <2>3. \A i \in DOMAIN sent : sent'[i].location = sent[i].location
    BY <1>2 DEF SameTargets
  <2> QED
    BY <1>1, <2>1, <2>2, <2>3 DEF LocationsPermitted
<1>3. CASE NewRequest
  <2>1. /\ DOMAIN sent' = 1..(m_retry_count + 1) /\ DOMAIN sent = 1..m_retry_count /\ m_retry_count \in Nat
        /\ m_current_location \in Locations
    BY <1>1, <1>3 DEF NewRequest, EInv, Members, Counted, SyncSteps
  <2>2. m_retry_count > 0 => sent'[1] = sent[1]
    BY <2>1, <1>3 DEF NewRequest
  <2>3. /\ options.mode \in LocationModes /\ options.command \in {"primary_only", "primary_or_secondary"}
        /\ options.mode = "primary_only" => m_current_location = "primary"
        /\ options.mode = "secondary_only" /\ options.command # "primary_only" => m_current_location = "secondary"
        /\ options.command = "primary_only" => m_current_location = "primary"
        /\ m_current_location = "secondary" => options.has_secondary
        /\ m_retry_count = 0 => options.command = "primary_only" \/ m_current_location = get_first_location(options.mode)
    BY <1>3 DEF NewRequest, Placed, Options, Running, Validated, SyncSteps
  <2>4. sent'[m_retry_count + 1].location = m_current_location /\ \A i \in 1..m_retry_count : sent'[i] = sent[i]
    BY <1>1, <1>3, <2>1 DEF NewRequest
  <2>5. sent'[1].location = IF options.command = "primary_only" THEN "primary" ELSE get_first_location(options.mode)
    BY <2>1, <2>2, <2>3, <2>4 DEF LocationsPermitted
  <2>6. ASSUME NEW i \in 1..(m_retry_count + 1)
        PROVE  /\ options.mode \in {"primary_only", "secondary_only"} \/ options.command = "primary_only"
                     => sent'[i].location = sent'[1].location
               /\ sent'[i].location = "secondary" => options.has_secondary
    <3>1. CASE i = m_retry_count + 1
      BY <2>3, <2>4, <2>5, <3>1 DEF get_first_location
    <3>2. CASE i \in 1..m_retry_count
      BY <2>1, <2>2, <2>4, <3>2 DEF LocationsPermitted
    <3> QED
      BY <2>1, <3>1, <3>2
  <2> QED
    BY <1>1, <2>1, <2>5, <2>6 DEF LocationsPermitted
<1> QED
  BY <1>2, <1>3, SentEffect

(* A recorded answer that locked the download keeps its place.             *)
LEMMA LocksRecorded ==
    ASSUME NEW r, request_results \in Seq(Answers), r \in Answers,
           request_results' = Append(request_results, r), options' = options
    PROVE  /\ \A n \in 0..Len(request_results) : LockedToSecondary(n)' <=> LockedToSecondary(n)
           /\ LockedToSecondary(Len(request_results)) => LockedToSecondary(Len(request_results))'
           /\ Resumable /\ r.location = "secondary" /\ r.status \in Success
                => LockedToSecondary(Len(request_results))'
<1>1. /\ Len(request_results') = Len(request_results) + 1 /\ Len(request_results) \in Nat
      /\ \A k \in 1..Len(request_results) : request_results'[k] = request_results[k]
      /\ request_results'[Len(request_results) + 1] = r
  OBVIOUS
<1> QED
  BY <1>1 DEF LockedToSecondary, Resumable, Success

(* The lock is the only way into secondary_only, and evaluate the way out  *)
(* of a secondary that has nothing.                                        *)
LEMMA LeavingNext == EInv /\ Placed /\ Leaving /\ [Next]_vars => Leaving'
<1> SUFFICES ASSUME EInv, Placed, Leaving, [Next]_vars PROVE Leaving'
  OBVIOUS
<1>1. ASSUME UNCHANGED <<options, where, request_results>>, pc' # "done" => pc # "done",
             pc' # "done" /\ pc \in {"body", "final"} => pc' \in {"body", "final"} /\ UNCHANGED m_request_result
      PROVE  Leaving'
  BY <1>1 DEF Leaving, Running, where, LockedToSecondary, Resumable
<1>2. CASE start \/ assert_timed_out \/ assert_canceled \/ prepare \/ send \/ build
  BY <1>1, <1>2 DEF start, assert_timed_out, assert_canceled, prepare, send, build, At, Goto, Throw, Finish,
    attempt, chosen, SyncSteps
<1>3. CASE begin
  <2>1. CASE pc' = "done"
    BY <2>1 DEF Leaving, Running
  <2>2. CASE /\ CommandAllows(m_location_mode, m_current_location_mode)
             /\ m_current_location_mode' = Narrowed(m_location_mode, m_current_location_mode)
             /\ UNCHANGED m_location_mode
    <3>1. pc = "begin" /\ UNCHANGED <<options, request_results>>
      BY <1>3 DEF begin, At, attempt, chosen
    <3> QED
      BY <2>2, <3>1 DEF Leaving, Running, LockedToSecondary, Resumable, CommandAllows, Narrowed, Placed, CommandModes
  <2> QED
    BY <1>3, <2>1, <2>2 DEF begin, Throw, Finish
<1>4. CASE connection_lost
  BY <1>1, <1>4 DEF connection_lost, Fail, Goto, chosen
<1>5. ASSUME NEW status \in Statuses, response(status) PROVE Leaving'
  <2>1. pc = "waiting" /\ UNCHANGED <<options, m_current_location_mode, request_results>>
    BY <1>5 DEF response, response_as, chosen
  <2>2. \/ m_location_mode' # "secondary_only" \/ UNCHANGED m_location_mode
        \/ /\ Resumable /\ pc' = "body" /\ m_location_mode' = LockedTo(m_current_location)
           /\ status \in Success /\ m_request_result' = [status |-> status, location |-> m_current_location]
    BY <1>5 DEF response, response_as, Goto
  <2>3. m_current_location \in Locations
    BY DEF EInv, Members
  <2> QED
    BY <2>1, <2>2, <2>3 DEF Leaving, Running, LockedToSecondary, Resumable, LockedTo, Locations
<1>6. CASE error_body
  BY <1>1, <1>6 DEF error_body, AssertThenFail, Fail, Goto, chosen
<1>7. CASE body_received
  <2>1. /\ pc = "body" /\ pc' = "final"
        /\ UNCHANGED <<options, m_current_location_mode, request_results>>
        /\ Resumable => UNCHANGED m_request_result
        /\ m_location_mode' # "secondary_only" \/ UNCHANGED m_location_mode
    BY <1>7 DEF body_received, AssertThenFail, Fail, Goto, chosen
  <2> QED
    BY <2>1 DEF Leaving, Running, LockedToSecondary, Resumable
<1>8. CASE final
  <2>1. CASE pc' = "done"
    BY <2>1 DEF Leaving, Running
  <2>2. CASE pc' # "done"
    <3>1. /\ pc = "final" /\ options' = options /\ request_results' = Append(request_results, m_request_result)
          /\ request_results \in Seq(Answers) /\ m_request_result \in Answers
      BY <1>8 DEF final, record, chosen, EInv, Members
    <3>2. /\ Len(request_results') = Len(request_results) + 1 /\ Len(request_results) \in Nat
          /\ \A i \in 1..Len(request_results) : request_results'[i] = request_results[i]
          /\ request_results'[Len(request_results) + 1] = m_request_result
          /\ DOMAIN request_results' = 1..(Len(request_results) + 1)
          /\ DOMAIN request_results = 1..Len(request_results)
      BY <3>1
    <3> DEFINE n == Len(request_results)
    <3>3. /\ \A k \in 0..n : LockedToSecondary(k)' <=> LockedToSecondary(k)
          /\ LockedToSecondary(n) => LockedToSecondary(Len(request_results))'
          /\ Resumable /\ m_request_result.location = "secondary" /\ m_request_result.status \in Success
               => LockedToSecondary(Len(request_results))'
      BY <3>1, LocksRecorded
    <3>4. /\ UNCHANGED m_location_mode
          /\ m_current_location_mode' = "primary_only" \/ UNCHANGED m_current_location_mode
          /\ secondary_not_found(m_request_result)
               => m_current_location_mode' = "primary_only" \/ m_current_location_mode = "secondary_only"
      BY <1>8, <2>2, FinalEffect
    <3> SUFFICES ASSUME options.mode # "secondary_only" PROVE Leaving'
      BY <3>1 DEF Leaving
    <3>5. m_location_mode' = "secondary_only" => LockedToSecondary(Len(request_results))'
      BY <3>1, <3>3, <3>4 DEF Leaving, Running
    <3>6. m_current_location_mode' = "secondary_only" => LockedToSecondary(Len(request_results))'
      BY <3>1, <3>3, <3>4 DEF Leaving, Running
    <3>7. ASSUME NEW i \in DOMAIN request_results', secondary_not_found(request_results'[i])
          PROVE  LockedToSecondary(i - 1)' \/ m_current_location_mode' = "primary_only"
      <4>1. i - 1 \in 0..n
        BY <3>2, <3>7
      <4>2. LockedToSecondary(i - 1)' <=> LockedToSecondary(i - 1)
        BY <3>3, <4>1
      <4>3. CASE i \in DOMAIN request_results
        BY <3>1, <3>2, <3>4, <3>7, <4>2, <4>3 DEF Leaving, Running
      <4>4. CASE i = n + 1
        <5>1. i - 1 = n /\ secondary_not_found(m_request_result)
          BY <3>2, <3>7, <4>4
        <5>2. m_current_location_mode = "secondary_only" => LockedToSecondary(n)
          BY <3>1 DEF Leaving, Running
        <5> QED
          BY <3>4, <4>2, <5>1, <5>2
      <4> QED
        BY <3>2, <3>7, <4>3, <4>4
    <3> QED
      BY <3>5, <3>6, <3>7 DEF Leaving
  <2> QED
    BY <2>1, <2>2
<1>9. CASE delay
  BY <1>1, <1>9 DEF delay, Goto, attempt, chosen
<1>10. CASE expiry \/ Release \/ (TimerThreads /\ UNCHANGED evars) \/ UNCHANGED vars
  BY <1>1, <1>10 DEF expiry, Release, evars, vars, control, attempt, chosen
<1> QED
  BY <1>2, <1>3, <1>4, <1>5, <1>6, <1>7, <1>8, <1>9, <1>10 DEF Next, Operation

(* Results are added by the final handler only.                            *)
LEMMA ResultsEffect ==
    ASSUME EInv, [Next]_vars
    PROVE  UNCHANGED request_results \/ (final /\ request_results' = Append(request_results, m_request_result))
  BY DEF Next, Operation, start, assert_timed_out, assert_canceled, begin, build, prepare, send, connection_lost,
    response, response_as, error_body, body_received, final, record, delay, expiry, Release, evars, vars, attempt

(* A request that follows a secondary's 404 goes to the primary.           *)
LEMMA NotFoundNext ==
    EInv /\ Clocks /\ Placed /\ Leaving /\ NotFoundLeavesSecondary /\ [Next]_vars => NotFoundLeavesSecondary'
<1> SUFFICES ASSUME EInv, Clocks, Placed, Leaving, NotFoundLeavesSecondary, [Next]_vars,
                    NEW i \in DOMAIN request_results', NEW j \in DOMAIN sent', i < j,
                    secondary_not_found(request_results'[i]),
                    options.mode # "secondary_only", ~LockedToSecondary(i - 1)'
             PROVE  sent'[j].location = "primary"
  BY SentEffect DEF NotFoundLeavesSecondary
<1>1. /\ options' = options /\ sent \in Seq(Requests) /\ sent' \in Seq(Requests)
      /\ request_results \in Seq(Answers) /\ m_request_result \in Answers /\ m_retry_count \in Nat
  BY SentEffect, ENext DEF EInv, Members
<1>2. CASE UNCHANGED request_results
  <2>1. i \in DOMAIN request_results /\ secondary_not_found(request_results[i]) /\ ~LockedToSecondary(i - 1)
    BY <1>1, <1>2 DEF LockedToSecondary, Resumable
  <2>2. CASE SameTargets
    <3>1. j \in DOMAIN sent /\ sent'[j].location = sent[j].location
      BY <1>1, <2>2 DEF SameTargets
    <3> QED
      BY <1>1, <2>1, <3>1 DEF NotFoundLeavesSecondary
  <2>3. CASE NewRequest
    <3>1. CASE j \in DOMAIN sent
      BY <2>1, <2>3, <3>1 DEF NewRequest, NotFoundLeavesSecondary
    <3>2. CASE j = Len(sent) + 1
      <4>1. m_current_location_mode = "primary_only"
        BY <2>1, <2>3 DEF Leaving, Running, NewRequest
      <4> QED
        BY <2>3, <3>2, <4>1 DEF Placed, Running, NewRequest
    <3> QED
      BY <1>1, <2>3, <3>1, <3>2 DEF NewRequest
  <2> QED
    BY <2>2, <2>3, SentEffect
<1>3. CASE final /\ request_results' = Append(request_results, m_request_result)
  <2>1. UNCHANGED sent /\ Len(sent) = m_retry_count + 1 /\ Len(request_results) = m_retry_count
    BY <1>3 DEF final, EInv, Counted, Waiting
  <2>2. i \in DOMAIN request_results /\ i - 1 \in 0..Len(request_results) /\ request_results'[i] = request_results[i]
    BY <1>1, <1>3, <2>1
  <2>3. ~LockedToSecondary(i - 1)
    BY <1>1, <1>3, <2>2, LocksRecorded
  <2> QED
    BY <2>1, <2>2, <2>3 DEF NotFoundLeavesSecondary
<1> QED
  BY <1>2, <1>3, ResultsEffect

(* Capped clocks keep their order, and one that gets what is missing to    *)
(* the cap is there.                                                       *)
LEMMA LaterFacts ==
    ASSUME Backoff \in Nat, NEW d \in Nat
    PROVE  /\ \A x \in 0..Backoff : Later(x, d) \in 0..Backoff
           /\ \A x \in -1..Backoff : Later(x, d) \in -1..Backoff /\ (x >= 0 => Later(x, d) \in 0..Backoff)
           /\ \A x, y \in 0..Backoff : x <= y => Later(x, d) <= Later(y, d)
           /\ \A x, y \in 0..Backoff : x <= y /\ d >= Backoff - x => Later(y, d) = Backoff
  BY DEF Later

(* Time passes while nothing else happens to the requests.                 *)
Passing(d) ==
    /\ sent' = Aged(d)
    /\ last_attempt' = [l \in Locations |-> Later(last_attempt[l], d)]
    /\ since_result' \in {0, Later(since_result, d)}

LEMMA PassingKeeps ==
    ASSUME EInv, Ages, NEW d \in Nat, Passing(d), UNCHANGED m_retry_count, pc # "done",
           (pc \in Waiting /\ pc' \in Waiting) \/ (pc = "delay" /\ pc' = "begin")
    PROVE  /\ Len(sent') = Len(sent)
           /\ \A i \in DOMAIN sent : /\ sent'[i].location = sent[i].location /\ sent'[i].early = sent[i].early
                                     /\ sent'[i].since = Later(sent[i].since, d)
           /\ \A i \in DOMAIN sent' : sent'[i].since \in 0..Backoff
           /\ \A i, j \in DOMAIN sent' : i < j => sent'[j].since <= sent'[i].since
           /\ since_result' \in 0..Backoff /\ last_attempt' \in [Locations -> -1..Backoff]
           /\ pc \in Waiting => since_result' <= sent'[Len(sent)].since
           /\ \A i \in 1..m_retry_count : last_attempt'[sent'[i].location] \in 0..sent'[i].since
<1>0. Backoff \in Nat
  BY ExecutorAssumption
<1> DEFINE n == Len(sent)
<1>1. sent \in Seq(Requests) /\ n \in Nat /\ DOMAIN sent = 1..n /\ m_retry_count \in 0..n
  BY DEF EInv, Members, Counted, Waiting, SyncSteps
<1>2. Len(sent') = n /\ DOMAIN sent' = 1..n
  <2>1. sent' = [i \in 1..n |-> [sent[i] EXCEPT !.since = Later(@, d)]]
    BY <1>1 DEF Passing, Aged
  <2> QED
    BY <1>1, <2>1
<1>3. ASSUME NEW i \in 1..n
      PROVE  /\ sent'[i].location = sent[i].location /\ sent'[i].early = sent[i].early
             /\ sent'[i].since = Later(sent[i].since, d)
             /\ sent[i].since \in 0..Backoff /\ sent[i].location \in Locations
  <2>1. sent[i] \in Requests
    BY <1>1
  <2>2. sent'[i] = [sent[i] EXCEPT !.since = Later(sent[i].since, d)]
    BY <1>1 DEF Passing, Aged
  <2> QED
    BY <1>1, <2>1, <2>2 DEF Requests, Ages
<1>4. \A i \in 1..n : sent'[i].since \in 0..Backoff
  BY <1>0, <1>3, LaterFacts
<1>5. ASSUME NEW i \in 1..n, NEW j \in 1..n, i < j PROVE sent'[j].since <= sent'[i].since
  <2>1. sent[j].since <= sent[i].since
    BY <1>1, <1>5 DEF Ages
  <2> QED
    BY <1>0, <1>3, <2>1, LaterFacts
<1>6. since_result' \in 0..Backoff /\ last_attempt' \in [Locations -> -1..Backoff]
  <2>1. since_result \in 0..Backoff /\ since_result' \in {0, Later(since_result, d)}
    BY DEF Ages, Passing
  <2>2. since_result' \in 0..Backoff
    BY <1>0, <2>1, LaterFacts
  <2>3. \A l \in Locations : Later(last_attempt[l], d) \in -1..Backoff
    <3> TAKE l \in Locations
    <3>1. last_attempt[l] \in -1..Backoff
      BY DEF Ages
    <3> QED
      BY <1>0, <3>1, LaterFacts
  <2> QED
    BY <2>2, <2>3 DEF Passing
<1>7. pc \in Waiting => since_result' <= sent'[n].since
  <2> SUFFICES ASSUME pc \in Waiting PROVE since_result' <= sent'[n].since
    OBVIOUS
  <2>1. n \in 1..n /\ since_result \in 0..Backoff /\ since_result <= sent[n].since
    BY <1>1 DEF EInv, Members, Counted, Ages
  <2>2. Later(since_result, d) <= Later(sent[n].since, d)
    BY <1>0, <1>3, <2>1, LaterFacts
  <2>3. since_result' \in {0, Later(since_result, d)}
    BY DEF Passing
  <2> QED
    BY <1>3, <1>4, <2>1, <2>2, <2>3
<1>8. ASSUME NEW i \in 1..m_retry_count PROVE last_attempt'[sent'[i].location] \in 0..sent'[i].since
  <2>1. i \in 1..n
    BY <1>1
  <2>2. /\ last_attempt[sent[i].location] \in 0..Backoff /\ last_attempt[sent[i].location] <= sent[i].since
        /\ sent[i].since \in 0..Backoff
    <3>1. last_attempt[sent[i].location] \in 0..sent[i].since /\ sent[i].since \in 0..Backoff
      BY <1>3, <2>1 DEF Ages, Running
    <3> QED
      BY <1>0, <3>1
  <2>3. last_attempt'[sent'[i].location] = Later(last_attempt[sent[i].location], d)
    BY <1>3, <2>1 DEF Passing
  <2>4. /\ Later(last_attempt[sent[i].location], d) \in 0..Backoff
        /\ Later(last_attempt[sent[i].location], d) <= Later(sent[i].since, d)
    BY <1>0, <2>2, LaterFacts
  <2>5. sent'[i].since = Later(sent[i].since, d) /\ sent'[i].since \in 0..Backoff
    BY <1>3, <1>4, <2>1
  <2> QED
    BY <1>0, <2>3, <2>4, <2>5
<1> QED
  BY <1>1, <1>2, <1>3, <1>4, <1>5, <1>6, <1>7, <1>8

(* The interval that the policy aligns to the last attempt at the target   *)
(* makes up what the requests to that location still lack.                 *)
LEMMA DelayRests ==
    ASSUME EInv, Ages, delay
    PROVE  /\ interval \in Nat /\ Passing(interval)
           /\ \A i \in DOMAIN sent : sent[i].location = m_current_location
                 => Later(sent[i].since, interval) = Backoff
<1>0. Backoff \in Nat /\ pc = "delay" /\ m_current_location \in Locations /\ sent \in Seq(Requests)
  BY ExecutorAssumption DEF delay, EInv, Members
<1>1. last_attempt[m_current_location] \in -1..Backoff
  BY <1>0 DEF Ages
<1>2. interval = align_retry_interval(Backoff, last_attempt[m_current_location])
  BY <1>0 DEF Ages
<1>3. interval \in Nat
  BY <1>0, <1>1, <1>2 DEF align_retry_interval
<1>4. ASSUME NEW i \in DOMAIN sent, sent[i].location = m_current_location
      PROVE  Later(sent[i].since, interval) = Backoff
  <2>1. i \in 1..m_retry_count
    BY <1>0 DEF EInv, Members, Counted
  <2>2. last_attempt[m_current_location] \in 0..sent[i].since /\ sent[i].since \in 0..Backoff
    BY <1>0, <1>4, <2>1 DEF Ages, Running
  <2>3. interval = Backoff - last_attempt[m_current_location]
    BY <1>0, <1>2, <2>2 DEF align_retry_interval
  <2>4. /\ last_attempt[m_current_location] \in 0..Backoff /\ last_attempt[m_current_location] <= sent[i].since
        /\ interval >= Backoff - last_attempt[m_current_location] /\ sent[i].since \in 0..Backoff
    BY <1>0, <2>2, <2>3
  <2> QED
    BY <1>0, <1>3, <2>4, LaterFacts
<1>5. Passing(interval)
  BY DEF delay, Elapse, Passing
<1> QED
  BY <1>3, <1>4, <1>5

(* A step that touches neither the clocks nor the requests.                *)
LEMMA AgesKeep ==
    ASSUME Ages, UNCHANGED <<options, sent, last_attempt, m_retry_count>>,
           pc' # "done" => pc # "done" /\ UNCHANGED since_result,
           since_result' \in 0..Backoff,
           pc' = "delay" => pc = "delay" /\ UNCHANGED <<interval, m_current_location>>,
           pc' \in {"prepare", "send"} => pc \in {"prepare", "send"},
           pc' \in Waiting => pc \in Waiting,
           pc' \in SyncSteps => pc \in SyncSteps /\ UNCHANGED m_current_location
    PROVE  Ages'
  BY DEF Ages, Running, Resumable, Waiting

(* The clocks of the policy and the ages of the requests, step by step.    *)
LEMMA AgesNext == EInv /\ Placed /\ Ages /\ [Next]_vars => Ages'
<1> SUFFICES ASSUME EInv, Placed, Ages, [Next]_vars PROVE Ages'
  OBVIOUS
<1>0. /\ Backoff \in Nat /\ sent \in Seq(Requests) /\ m_retry_count \in Nat /\ since_result \in 0..Backoff
      /\ Len(sent) \in Nat /\ DOMAIN sent = 1..Len(sent)
  BY ExecutorAssumption DEF EInv, Members, Ages
<1>1. CASE start
  <2>1. pc = "start" /\ pc' = "begin" /\ UNCHANGED <<options, sent, last_attempt, m_retry_count, since_result>>
    BY <1>1 DEF start, policy, chosen
  <2>2. m_retry_count = 0 /\ DOMAIN sent = {}
    BY <1>0, <2>1 DEF Placed, EInv, Counted
  <2> QED
    BY <1>0, <2>1, <2>2 DEF Ages, Running, Resumable, Waiting, SyncSteps
<1>2. CASE assert_timed_out
  BY <1>0, <1>2, AgesKeep DEF assert_timed_out, Throw, Finish, where, policy, chosen, SyncSteps, Waiting
<1>3. CASE assert_canceled
  BY <1>0, <1>3, AgesKeep DEF assert_canceled, Throw, Finish, policy, chosen, SyncSteps, Waiting
<1>4. CASE begin
  <2>0. pc = "begin" /\ UNCHANGED <<options, sent, last_attempt, m_retry_count, since_result>>
    BY <1>4 DEF begin, At, policy, chosen
  <2>1. CASE pc' = "done"
    BY <1>0, <2>0, <2>1, AgesKeep DEF SyncSteps, Waiting
  <2>2. CASE pc' = "build" /\ m_current_location' = NarrowedLocation(m_location_mode, m_current_location)
    <3>1. CASE UNCHANGED m_current_location
      BY <1>0, <2>0, <2>2, <3>1, AgesKeep DEF SyncSteps, Waiting
    <3>2. CASE m_retry_count = 0
      <4>1. DOMAIN sent = {}
        BY <1>0, <2>0, <3>2 DEF EInv, Counted, SyncSteps
      <4> QED
        BY <1>0, <2>0, <2>2, <3>2, <4>1 DEF Ages, Running, Resumable, Waiting, SyncSteps
    <3>3. CASE Resumable
      BY <1>0, <2>0, <2>2, <3>3 DEF Ages, Running, Resumable, Waiting, SyncSteps
    <3>4. CASE ~Resumable /\ m_retry_count # 0
      <4>1. m_location_mode = options.command /\ options.command \in {"primary_only", "primary_or_secondary"}
        BY <3>4 DEF Placed, Options, Resumable
      <4>2. options.command = "primary_only" => m_current_location = "primary"
        BY <1>0, <2>0, <3>4 DEF Placed, Running, Validated
      <4> QED
        BY <2>2, <3>1, <4>1, <4>2 DEF NarrowedLocation
    <3> QED
      BY <3>1, <3>2, <3>3, <3>4
  <2> QED
    BY <1>4, <2>1, <2>2 DEF begin, Throw, Finish, Goto
<1>5. CASE build
  <2>1. pc = "build" /\ UNCHANGED <<options, sent, last_attempt, m_retry_count, m_current_location>>
    BY <1>5 DEF build, At, where, policy, chosen
  <2>2. (pc' = "done" /\ UNCHANGED since_result) \/ (pc' = "prepare" /\ since_result' = 0)
    BY <1>5 DEF build, Throw, Finish, Goto
  <2> QED
    BY <1>0, <2>1, <2>2 DEF Ages, Running, Resumable, Waiting, SyncSteps
<1>6. CASE prepare
  BY <1>0, <1>6, AgesKeep DEF prepare, At, Goto, where, policy, chosen, SyncSteps, Waiting
<1>7. CASE send
  <2>0. pc = "send" /\ UNCHANGED <<options, last_attempt, m_retry_count, since_result, m_current_location>>
    BY <1>7 DEF send, At, where, policy, chosen
  <2>1. CASE pc' = "done" /\ UNCHANGED sent
    BY <1>0, <2>0, <2>1, AgesKeep DEF SyncSteps, Waiting
  <2>2. CASE pc' = "waiting" /\ \E r : r.since = 0 /\ sent' = Append(sent, r)
    <3> DEFINE n == Len(sent)
    <3>1. /\ Len(sent') = n + 1 /\ DOMAIN sent' = 1..(n + 1) /\ sent'[n + 1].since = 0
          /\ \A i \in 1..n : sent'[i] = sent[i]
      BY <1>0, <2>2
    <3>2. n = m_retry_count /\ since_result = 0
      BY <2>0 DEF EInv, Counted, Ages, SyncSteps
    <3>3. \A i \in 1..(n + 1) : sent'[i].since \in 0..Backoff
      BY <1>0, <3>1 DEF Ages
    <3>4. ASSUME NEW i \in 1..(n + 1), NEW j \in 1..(n + 1), i < j PROVE sent'[j].since <= sent'[i].since
      <4>1. i \in 1..n /\ sent'[i] = sent[i]
        BY <1>0, <3>1, <3>4
      <4>2. CASE j \in 1..n
        BY <1>0, <3>1, <3>4, <4>1, <4>2 DEF Ages
      <4>3. CASE j = n + 1
        <5>1. sent'[i].since \in 0..Backoff /\ sent'[j].since = 0
          BY <3>1, <3>3, <4>3
        <5> QED
          BY <1>0, <5>1
      <4> QED
        BY <1>0, <3>4, <4>2, <4>3
    <3>5. \A i \in 1..m_retry_count : last_attempt[sent'[i].location] \in 0..sent'[i].since
      BY <2>0, <3>1, <3>2 DEF Ages, Running
    <3> QED
      BY <2>0, <2>2, <3>1, <3>2, <3>3, <3>4, <3>5 DEF Ages, Running, Resumable, Waiting, SyncSteps
  <2> QED
    BY <1>7, <2>1, <2>2 DEF send, Throw, Finish, Goto
<1>8. ASSUME NEW d \in Nat, Passing(d), pc \in Waiting, pc' \in Waiting, UNCHANGED <<options, m_retry_count>>
      PROVE  Ages'
  <2>1. /\ Len(sent') = Len(sent)
        /\ \A i \in DOMAIN sent' : sent'[i].since \in 0..Backoff
        /\ \A i, j \in DOMAIN sent' : i < j => sent'[j].since <= sent'[i].since
        /\ since_result' \in 0..Backoff /\ last_attempt' \in [Locations -> -1..Backoff]
        /\ since_result' <= sent'[Len(sent)].since
        /\ \A i \in 1..m_retry_count : last_attempt'[sent'[i].location] \in 0..sent'[i].since
    <3>1. pc # "done" /\ m_retry_count' = m_retry_count
      BY <1>8 DEF Waiting
    <3> QED
      BY <1>8, <3>1, PassingKeeps
  <2> QED
    BY <1>8, <2>1 DEF Ages, Running, Waiting, SyncSteps
<1>9. CASE connection_lost
  <2>1. \E d \in Nat : Passing(d)
    BY <1>9 DEF connection_lost, Ticks, Elapse, Passing
  <2>2. pc \in Waiting /\ pc' = "final" /\ UNCHANGED <<options, m_retry_count>>
    BY <1>9 DEF connection_lost, Fail, Goto, Waiting, chosen
  <2> QED
    BY <1>8, <2>1, <2>2 DEF Waiting
<1>10. ASSUME NEW status \in Statuses, response(status) PROVE Ages'
  <2>1. \E d \in Nat : Passing(d)
    BY <1>10 DEF response, response_as, Ticks, Passing
  <2>2. pc \in Waiting /\ pc' \in Waiting /\ UNCHANGED <<options, m_retry_count>>
    BY <1>10 DEF response, response_as, AssertThenFail, Fail, Goto, Waiting, chosen
  <2> QED
    BY <1>8, <2>1, <2>2
<1>11. CASE error_body
  BY <1>0, <1>11, AgesKeep DEF error_body, AssertThenFail, Fail, Goto, policy, chosen, SyncSteps, Waiting
<1>12. CASE body_received
  BY <1>0, <1>12, AgesKeep DEF body_received, AssertThenFail, Fail, Goto, policy, chosen, SyncSteps, Waiting
<1>13. CASE final
  <2>0. /\ pc = "final" /\ UNCHANGED <<options, sent, since_result>>
        /\ Len(sent) = m_retry_count + 1 /\ m_request_result.location = sent[Len(sent)].location
        /\ m_request_result.location \in Locations
    BY <1>13 DEF final, chosen, EInv, Members, Counted, Waiting
  <2>1. CASE pc' = "done"
    <3>1. last_attempt' \in [Locations -> -1..Backoff]
      <4>1. last_attempt' \in {last_attempt, [last_attempt EXCEPT ![m_request_result.location] = since_result]}
        BY <1>13 DEF final, policy, retry
      <4> QED
        BY <1>0, <4>1 DEF Ages
    <3> QED
      BY <2>0, <2>1, <3>1 DEF Ages, Running, Waiting, SyncSteps
  <2>2. CASE pc' # "done"
    <3>1. /\ pc' = "delay" /\ m_retry_count' = m_retry_count + 1
          /\ last_attempt' = [last_attempt EXCEPT ![m_request_result.location] = since_result]
          /\ interval' = align_retry_interval(Backoff, last_attempt'[m_current_location'])
      BY <1>13, <2>2, FinalEffect
    <3>2. last_attempt' \in [Locations -> -1..Backoff]
      <4>1. since_result \in -1..Backoff /\ last_attempt \in [Locations -> -1..Backoff]
        BY <1>0 DEF Ages
      <4> QED
        BY <3>1, <4>1
    <3>3. ASSUME NEW i \in 1..(m_retry_count + 1) PROVE last_attempt'[sent[i].location] \in 0..sent[i].since
      <4>0. /\ i \in DOMAIN sent /\ sent[i] \in Requests /\ sent[i].location \in Locations
            /\ Len(sent) \in DOMAIN sent
        <5>1. i \in DOMAIN sent /\ Len(sent) \in DOMAIN sent
          BY <1>0, <2>0
        <5>2. sent[i] \in Requests
          BY <1>0, <5>1
        <5> QED
          BY <5>1, <5>2 DEF Requests
      <4>1. CASE sent[i].location = m_request_result.location
        <5>1. /\ since_result <= sent[Len(sent)].since /\ sent[Len(sent)].since \in 0..Backoff
              /\ sent[i].since \in 0..Backoff /\ sent[Len(sent)].since <= sent[i].since
          <6>1. i = Len(sent) \/ i < Len(sent)
            BY <1>0, <2>0
          <6>2. sent[Len(sent)].since \in 0..Backoff
            BY <4>0 DEF Ages
          <6> QED
            BY <1>0, <2>0, <4>0, <6>1, <6>2 DEF Ages, Waiting
        <5>2. last_attempt'[sent[i].location] = since_result
          BY <2>0, <3>1, <4>1 DEF Ages
        <5> QED
          BY <1>0, <5>1, <5>2
      <4>2. CASE sent[i].location # m_request_result.location
        <5>1. i \in 1..m_retry_count
          BY <1>0, <2>0, <4>2
        <5>2. last_attempt'[sent[i].location] = last_attempt[sent[i].location]
          BY <3>1, <4>0, <4>2 DEF Ages
        <5> QED
          BY <2>0, <5>1, <5>2 DEF Ages, Running
      <4> QED
        BY <4>1, <4>2
    <3> QED
      BY <2>0, <3>1, <3>2, <3>3 DEF Ages, Running, Waiting, SyncSteps
  <2> QED
    BY <2>1, <2>2
<1>14. CASE delay
  <2>0. pc = "delay" /\ pc' = "begin" /\ UNCHANGED <<options, m_retry_count, m_current_location>>
    BY <1>14 DEF delay, Goto, where, chosen
  <2>1. /\ interval \in Nat /\ Passing(interval)
        /\ \A i \in DOMAIN sent : sent[i].location = m_current_location => Later(sent[i].since, interval) = Backoff
    BY <1>14, DelayRests
  <2>2. /\ Len(sent') = Len(sent)
        /\ \A i \in DOMAIN sent : /\ sent'[i].location = sent[i].location
                                  /\ sent'[i].since = Later(sent[i].since, interval)
        /\ \A i \in DOMAIN sent' : sent'[i].since \in 0..Backoff
        /\ \A i, j \in DOMAIN sent' : i < j => sent'[j].since <= sent'[i].since
        /\ since_result' \in 0..Backoff /\ last_attempt' \in [Locations -> -1..Backoff]
        /\ \A i \in 1..m_retry_count : last_attempt'[sent'[i].location] \in 0..sent'[i].since
    BY <2>0, <2>1, PassingKeeps
  <2>3. DOMAIN sent' = DOMAIN sent
    BY <2>1 DEF Passing, Aged
  <2>4. \A i \in DOMAIN sent' : sent'[i].location = m_current_location => sent'[i].since = Backoff
    BY <2>1, <2>2, <2>3
  <2> QED
    BY <2>0, <2>2, <2>4 DEF Ages, Running, Waiting
<1>15. CASE expiry \/ Release \/ (TimerThreads /\ UNCHANGED evars) \/ UNCHANGED vars
  <2>1. UNCHANGED <<pc, options, sent, since_result, last_attempt, interval, m_retry_count, m_current_location>>
    BY <1>15 DEF expiry, Release, evars, vars, control, where, policy, chosen
  <2> QED
    BY <2>1 DEF Ages, Running, Resumable, Waiting, SyncSteps
<1> QED
  BY <1>1, <1>2, <1>3, <1>4, <1>5, <1>6, <1>7, <1>9, <1>10, <1>11, <1>12, <1>13, <1>14, <1>15
  DEF Next, Operation

(* A request is sent only when all earlier ones to its location have       *)
(* rested for the interval.                                                *)
LEMMA SpacedNext == EInv /\ Clocks /\ Ages /\ AttemptsSpaced /\ [Next]_vars => AttemptsSpaced'
<1> SUFFICES ASSUME EInv, Clocks, Ages, AttemptsSpaced, [Next]_vars, ~Resumable PROVE \A i \in DOMAIN sent' : ~sent'[i].early
  BY SentEffect DEF AttemptsSpaced, Resumable
<1>0. sent \in Seq(Requests) /\ \A i \in DOMAIN sent : ~sent[i].early
  BY DEF EInv, Members, AttemptsSpaced
<1>1. CASE \E d : sent' = Aged(d)
  <2>1. PICK d : sent' = Aged(d)
    BY <1>1
  <2>2. ASSUME NEW i \in DOMAIN sent PROVE sent'[i].early = sent[i].early
    <3>1. sent[i] \in Requests
      BY <1>0
    <3>2. sent'[i] = [sent[i] EXCEPT !.since = Later(sent[i].since, d)]
      BY <2>1 DEF Aged
    <3> QED
      BY <3>1, <3>2 DEF Requests
  <2> QED
    BY <1>0, <2>1, <2>2 DEF Aged
<1>2. CASE send
  <2>1. ~\E i \in DOMAIN sent : sent[i].location = m_current_location /\ sent[i].since < Backoff
    BY <1>2, ExecutorAssumption DEF send, At, Ages, SyncSteps
  <2>2. CASE UNCHANGED sent
    BY <1>0, <2>2
  <2>3. CASE sent' = Append(sent, [location |-> m_current_location, since |-> 0, early |-> FALSE])
    BY <1>0, <2>3
  <2> QED
    BY <1>2, <2>1, <2>2, <2>3 DEF send
<1>3. CASE UNCHANGED sent
  BY <1>0, <1>3
<1>4. CASE connection_lost \/ (\E status \in Statuses : response(status)) \/ delay
  BY <1>1, <1>4 DEF connection_lost, response, response_as, delay, Elapse
<1> QED
  BY <1>2, <1>3, <1>4 DEF Next, Operation, start, assert_timed_out, assert_canceled, begin, build, prepare,
    error_body, body_received, final, expiry, Release, evars, vars

(* evaluate's limit is kept by the whole loop: never more than             *)
(* m_max_attempts + 1 requests, whatever happens to them.                  *)
THEOREM AttemptsAreBounded == Spec => []AttemptsBounded
<1>1. EInv => AttemptsBounded
  BY ExecutorAssumption DEF EInv, Members, Counted, AttemptsBounded, Steps
<1> QED
  BY <1>1, EInvariant, PTL

(* The operation context gets exactly one request_result for each request, *)
(* in order and of its location, on every path that ends an attempt.       *)
THEOREM AttemptsAreRecorded == Spec => []EveryAttemptRecorded
<1>1. EInv => EveryAttemptRecorded
  BY DEF EInv, Members, Counted, Matched, EveryAttemptRecorded
<1> QED
  BY <1>1, EInvariant, PTL

(* A timeout is reported only by who found the flag up or the expiry time  *)
(* passed: a canceled token alone is never taken for one.                  *)
THEOREM TimeoutsAreReal == Spec => []TimeoutIsReal
<1>1. Init => Seen
  <2>1. Init => ex = NoException /\ outcome = NoOutcome
    BY Zenon DEF Init
  <2>2. NoException.what # "client_timeout" /\ NoOutcome.what # "client_timeout"
    BY Zenon DEF NoException, NoOutcome
  <2> QED
    BY <2>1, <2>2, Zenon DEF Seen, TimedOut
<1>2. Seen => TimeoutIsReal
  BY DEF Seen, TimedOut, TimeoutIsReal
<1> QED
  BY <1>1, <1>2, SeenNext, PTL DEF Spec

(* Where the loop sends its requests, however the modes of the caller, the *)
(* command, the account and a download's lock meet.                        *)
THEOREM LocationsArePermitted == Spec => []LocationsPermitted
<1>1. Init => EInv /\ Clocks /\ Placed /\ LocationsPermitted
  BY EInit, PlacedInit DEF Init, Clocks, LocationsPermitted
<1>2. EInv /\ Clocks /\ Placed /\ LocationsPermitted /\ [Next]_vars
        => EInv' /\ Clocks' /\ Placed' /\ LocationsPermitted'
  BY ENext, ClocksNext, PlacedNext, LocationsNext
<1> QED
  BY <1>1, <1>2, PTL DEF Spec

(* A resource that the secondary does not have yet is then asked of the    *)
(* primary, however many attempts and lost connections lie between.        *)
THEOREM NotFoundLeaves == Spec => []NotFoundLeavesSecondary
<1> DEFINE I == EInv /\ Clocks /\ Placed /\ Leaving /\ NotFoundLeavesSecondary
<1>1. Init => Leaving
  <2> SUFFICES ASSUME Init PROVE Leaving
    OBVIOUS
  <2>1. /\ m_current_location_mode = options.mode /\ m_location_mode = options.command /\ options.command \in InitialModes
        /\ DOMAIN request_results = {}
    BY DEF Init
  <2> QED
    BY <2>1, ExecutorAssumption DEF Leaving
<1>2. Init => I
  BY <1>1, EInit, PlacedInit DEF Init, Clocks, NotFoundLeavesSecondary
<1>3. I /\ [Next]_vars => I'
  BY ENext, ClocksNext, PlacedNext, LeavingNext, NotFoundNext
<1> QED
  BY <1>2, <1>3, PTL DEF Spec

(* The interval that align_retry_interval leaves is enough for every       *)
(* earlier request to the same location, for every number of attempts and  *)
(* however long each of them took.                                         *)
THEOREM AttemptsAreSpaced == Spec => []AttemptsSpaced
<1> DEFINE I == EInv /\ Clocks /\ Placed /\ Ages /\ AttemptsSpaced
<1>1. Init => Ages
  <2> SUFFICES ASSUME Init PROVE Ages
    OBVIOUS
  <2>1. /\ DOMAIN sent = {} /\ m_retry_count = 0 /\ pc = "start" /\ since_result = 0
        /\ last_attempt = [l \in Locations |-> -1]
    BY DEF Init
  <2> QED
    BY <2>1, ExecutorAssumption DEF Ages, Waiting, SyncSteps
<1>2. Init => I
  BY <1>1, EInit, PlacedInit DEF Init, Clocks, AttemptsSpaced
<1>3. I /\ [Next]_vars => I'
  BY ENext, ClocksNext, PlacedNext, AgesNext, SpacedNext
<1> QED
  BY <1>2, <1>3, PTL DEF Spec

-----------------------------------------------------------------------------
(* The executor uses its timer_handler as TimerHandler says its owner      *)
(* does, so what is proved of it alone holds inside every operation.       *)
Held == pc # "done" /\ HasTimer => owned

LEMMA TimerStep == Held /\ [Next]_vars => Held' /\ [TNext]_tvars
<1> SUFFICES ASSUME Held, [Next]_vars PROVE Held' /\ [TNext]_tvars
  OBVIOUS
<1>1. CASE start
  <2>1. pc = "start" /\ UNCHANGED <<owned, options>>
    BY <1>1 DEF start, chosen
  <2>2. owner_start \/ UNCHANGED tvars
    BY <1>1, <2>1 DEF start, owner_start, Held, tvars
  <2> QED
    BY <2>1, <2>2 DEF Held, HasTimer, TNext
<1>2. CASE UNCHANGED <<tvars, options>> /\ (pc = "done" => pc' = "done")
  BY <1>2 DEF Held, HasTimer, tvars
<1>3. CASE assert_timed_out \/ assert_canceled \/ begin \/ build \/ prepare \/ send \/ connection_lost
           \/ (\E status \in Statuses : response(status)) \/ error_body \/ body_received \/ final \/ delay \/ expiry
  <2>1. UNCHANGED <<tvars, options>>
    BY <1>3 DEF assert_timed_out, assert_canceled, begin, build, prepare, send, connection_lost, response, response_as,
      error_body, body_received, final, delay, expiry, chosen
  <2>2. pc # "done"
    BY <1>3 DEF assert_timed_out, assert_canceled, begin, build, prepare, send, connection_lost, response, response_as,
      error_body, body_received, final, delay, expiry, At, SyncSteps
  <2> QED
    BY <1>2, <2>1, <2>2
<1>4. CASE Release
  BY <1>4 DEF Release, Held, TNext, evars, control
<1>5. CASE TimerThreads /\ UNCHANGED evars
  <2>1. UNCHANGED <<pc, owned, options>>
    BY <1>5 DEF evars, control, chosen, TimerThreads, user_cancel, callback_cancel, callback_stop, expire,
      timer_callback_lock, timer_callback, continue_flag, continue_cancel, destroy, destroy_stop
  <2> QED
    BY <1>5, <2>1 DEF Held, HasTimer, TNext
<1>6. CASE UNCHANGED vars
  BY <1>2, <1>6 DEF vars, evars, control, chosen
<1> QED
  BY <1>1, <1>3, <1>4, <1>5, <1>6 DEF Next, Operation

(* Every step of an operation is a step of its timer_handler or leaves it  *)
(* alone: execute_async starts it while it holds it and lets it go once.   *)
THEOREM TimerIsUsedAsSpecified == Spec => TInit /\ [][TNext]_tvars
<1>1. Init => TInit /\ Held
  BY DEF Init, TInit, Held, HasTimer
<1> QED
  BY <1>1, TimerStep, PTL DEF Spec

(* So the token that cancels a storage operation always has its reason,    *)
(* and no callback of it outlives its timer_handler.                       *)
THEOREM OperationsAreCanceledForAReason == Spec => [](CancelHasReason /\ NoUseAfterDestroy)
<1>1. TInv => CancelHasReason /\ NoUseAfterDestroy
  BY DEF TInv
<1> QED
  BY <1>1, TInitInv, TNextInv, TimerIsUsedAsSpecified, PTL
=============================================================================

------------------------------ MODULE Executor ------------------------------
(***************************************************************************)
(* executor_impl::execute_async (src/executor.cpp): one storage operation, *)
(* its attempts, its retries and its cancellation, composed with the       *)
(* timer_handler that may cancel it at any moment (TimerHandler) and the   *)
(* retry policy (RetryPolicy).                                             *)
(*                                                                         *)
(* An iteration of the do_while loop runs synchronously up to              *)
(* client->request, then in continuations.  assert_canceled reads the      *)
(* timeout flag and then the token, two reads that other threads get       *)
(* between; in the synchronous steps, where nothing looks again, they are  *)
(* two actions.  The continuations' asserts are one read each: the final   *)
(* handler repeats them before anything leaves the operation.              *)
(*                                                                         *)
(* Time is counted in ticks and only as far as the retry interval needs:   *)
(* elapsed times are capped at Backoff.                                    *)
(***************************************************************************)
EXTENDS TimerHandler, RetryPolicy, Sequences

CONSTANTS
    m_max_attempts,     \* of the retry policy
    Backoff,            \* m_delta_backoff of the linear policy, in ticks
    Statuses,           \* the HTTP status codes the service may answer
    OptionModes,        \* options.location_mode()
    InitialModes,       \* the command's location mode
    DownloadModes       \* the modes tried for a download under a maximum
                        \* execution time; other commands run without one

ASSUME ExecutorAssumption ==
    /\ m_max_attempts \in Nat /\ Backoff \in Nat
    /\ Statuses \subseteq Nat /\ OptionModes \subseteq LocationModes
    /\ InitialModes \subseteq CommandModes \ {"secondary_only"}
    /\ DownloadModes \subseteq OptionModes

VARIABLES
    options,            \* [mode, command, has_secondary, download]: what the caller chose
    pc, asserted,       \* the next step, and whether its first read is done
    m_retry_count, m_current_location, m_current_location_mode,
    m_location_mode,    \* of the command
    m_request_result,   \* [status, location]
    request_results,    \* of the operation_context
    ex,                 \* the exception of final_task: [what, retryable]
    outcome,            \* [how, what]
    expired,            \* operation_expiry_time has passed
    last_attempt,       \* of the policy: ticks since, -1 if none
    since_result,       \* ticks since m_request_result.end_time
    interval,           \* of the retry_info
    sent                \* history: per request its location, the ticks since, and
                        \* whether it came too early

control == <<pc, asserted, outcome>>
where == <<m_current_location, m_current_location_mode, m_location_mode>>
attempt == <<m_request_result, request_results, ex>>
policy == <<m_retry_count, last_attempt, interval>>
chosen == <<options, expired>>
evars == <<control, where, attempt, policy, chosen, since_result, sent>>
vars == <<tvars, evars>>

Success == {200}
NoException == [what |-> "", retryable |-> TRUE]
NoOutcome == [how |-> "running", what |-> ""]
SyncSteps == {"begin", "build", "prepare", "send"}

(* A download can be resumed and locks its location.  It runs under a      *)
(* timer_handler, as every command with m_use_timeout does; then the token *)
(* of the command is the timer_handler's.  Without a maximum execution     *)
(* time no timer_handler is made: the command has the user's own token.    *)
Resumable == options.download
HasTimer == options.download

IsCanceled == IF HasTimer THEN worker_canceled ELSE user_canceled

Init ==
    /\ TInit
    /\ options \in [mode: OptionModes, command: InitialModes, has_secondary: BOOLEAN, download: BOOLEAN]
    /\ HasTimer = (life = "alive")
    /\ options.download => options.mode \in DownloadModes /\ options.command = "primary_or_secondary"
    /\ pc = "start" /\ asserted = FALSE
    /\ m_retry_count = 0
    /\ m_current_location = get_first_location(options.mode)
    /\ m_current_location_mode = options.mode
    /\ m_location_mode = options.command
    /\ m_request_result = [status |-> 0, location |-> m_current_location]
    /\ request_results = <<>>
    /\ ex = NoException /\ outcome = NoOutcome
    /\ expired = FALSE
    /\ last_attempt = [l \in Locations |-> -1]
    /\ since_result = 0 /\ interval = 0
    /\ sent = <<>>

(* The operation ends.  What the first iteration throws synchronously      *)
(* leaves execute_async itself, anything else its task.                    *)
Finish(how, what) ==
    /\ pc' = "done" /\ asserted' = FALSE
    /\ outcome' = [how |-> how, what |-> what]

Throw(what) == Finish(IF m_retry_count = 0 THEN "thrown" ELSE "faulted", what)

(* Time passes: every clock that runs, capped.  It decides nothing but the *)
(* interval, of which no property is stated for downloads.                 *)
Ticks == IF Resumable THEN {0} ELSE 0..1
Later(x, d) == IF x < 0 THEN x ELSE IF x + d > Backoff THEN Backoff ELSE x + d
Aged(d) == [i \in DOMAIN sent |-> [sent[i] EXCEPT !.since = Later(@, d)]]
Elapse(d) ==
    /\ last_attempt' = [l \in Locations |-> Later(last_attempt[l], d)]
    /\ since_result' = Later(since_result, d)
    /\ sent' = Aged(d)

(* The timer starts before the first attempt: in the loop's first turn, or *)
(* in download_range_to_stream_async for all the ranges of one download.   *)
start ==
    /\ pc = "start"
    /\ IF HasTimer THEN start_timer ELSE UNCHANGED timer
    /\ pc' = "begin"
    /\ UNCHANGED <<flags, callback, continuation, owned, life, asserted, outcome>>
    /\ UNCHANGED <<where, attempt, policy, chosen, since_result, sent>>

(* assert_canceled, first read.                                            *)
assert_timed_out ==
    /\ pc \in SyncSteps /\ ~asserted
    /\ \/ m_is_canceled_by_timeout /\ Throw("client_timeout")
       \/ /\ ~m_is_canceled_by_timeout
          /\ asserted' = TRUE
          /\ UNCHANGED <<pc, outcome>>
    /\ UNCHANGED <<tvars, where, attempt, policy, chosen, since_result, sent>>

(* assert_canceled, second read.                                           *)
assert_canceled ==
    /\ pc \in SyncSteps /\ asserted
    /\ IsCanceled
    /\ Throw("operation_canceled")
    /\ UNCHANGED <<tvars, where, attempt, policy, chosen, since_result, sent>>

(* A synchronous step whose assert_canceled has passed.                    *)
At(step) == pc = step /\ asserted /\ ~IsCanceled
Goto(step) == pc' = step /\ asserted' = FALSE /\ UNCHANGED outcome

(* 0. validate_location_mode.                                              *)
begin ==
    /\ At("begin")
    /\ LET uri == HasUri(m_current_location_mode, options.has_secondary)
           allowed == CommandAllows(m_location_mode, m_current_location_mode)
       IN  \/ ~uri /\ Throw("uri_missing_location") /\ UNCHANGED where
           \/ uri /\ ~allowed /\ Throw("command_location") /\ UNCHANGED where
           \/ /\ uri /\ allowed
              /\ Goto("build")
              /\ m_current_location_mode' = Narrowed(m_location_mode, m_current_location_mode)
              /\ m_current_location' = NarrowedLocation(m_location_mode, m_current_location)
              /\ UNCHANGED m_location_mode
    /\ UNCHANGED <<tvars, attempt, policy, chosen, since_result, sent>>

(* 1. m_build_request (a resumed download refuses an empty range) and the  *)
(* request_result without a response.                                      *)
build ==
    /\ At("build")
    /\ \/ /\ Resumable /\ m_retry_count > 0
          /\ Throw("invalid_argument")
          /\ UNCHANGED <<m_request_result, since_result>>
       \/ /\ Goto("prepare")
          /\ m_request_result' = [status |-> 0, location |-> m_current_location]
          /\ since_result' = 0
    /\ UNCHANGED <<tvars, where, request_results, ex, policy, chosen, sent>>

(* 2-3. Headers, the body rewound to its start, the signature.             *)
prepare ==
    /\ At("prepare") /\ Goto("send")
    /\ UNCHANGED <<tvars, where, attempt, policy, chosen, since_result, sent>>

(* 4-5. remaining_time, then client->request.                              *)
send ==
    /\ At("send")
    /\ \/ expired /\ Throw("client_timeout") /\ UNCHANGED sent
       \/ /\ ~expired /\ Goto("waiting")
          /\ sent' = Append(sent, [location |-> m_current_location, since |-> 0,
                early |-> \E i \in DOMAIN sent : sent[i].location = m_current_location /\ sent[i].since < Backoff])
    /\ UNCHANGED <<tvars, where, attempt, policy, chosen, since_result>>

(* An exception of a continuation: what the tasks pass on to final_task.   *)
Fail(what, retryable) == Goto("final") /\ ex' = [what |-> what, retryable |-> retryable]

(* assert_canceled; throw e.  Mutant: a canceled token counts as timeout.  *)
AssertThenFail_Timeout(what, retryable) ==
    IF IsCanceled THEN Fail("client_timeout", FALSE) ELSE Fail(what, retryable)
AssertThenFail(what, retryable) ==
    CASE m_is_canceled_by_timeout -> Fail("client_timeout", FALSE)
      [] IsCanceled /\ ~m_is_canceled_by_timeout -> Fail("operation_canceled", TRUE)
      [] OTHER -> Fail(what, retryable)

(* The http_client gives up, because it was canceled or on its own.        *)
connection_lost ==
    /\ pc \in {"waiting", "error_body", "body"}
    /\ \/ IsCanceled /\ Fail("operation_canceled", TRUE)
       \/ Fail("http_exception", TRUE)
    /\ \E d \in Ticks : Elapse(d)
    /\ UNCHANGED <<tvars, where, m_request_result, request_results, m_retry_count, interval, chosen>>

(* 7. The headers: preprocess_response throws an empty message for an      *)
(* error status, or finds a header missing; a download locks its location  *)
(* on success and lets it go on an error.                                  *)
response_as(status, ok) ==
    /\ pc = "waiting"
    /\ m_request_result' = [status |-> status, location |-> m_current_location]
    /\ \E d \in Ticks :
          /\ last_attempt' = [l \in Locations |-> Later(last_attempt[l], d)]
          /\ sent' = Aged(d)
    /\ since_result' = 0
    /\ \/ /\ ok
          /\ m_location_mode' = IF Resumable THEN LockedTo(m_current_location) ELSE m_location_mode
          /\ Goto("body") /\ UNCHANGED ex
       \/ /\ ok
          /\ Resumable => m_location_mode = "primary_or_secondary"
          /\ AssertThenFail("missing_header", FALSE)
          /\ UNCHANGED m_location_mode
       \/ /\ ~ok
          /\ m_location_mode' = IF Resumable THEN "primary_or_secondary" ELSE m_location_mode
          /\ Goto("error_body") /\ UNCHANGED ex
    /\ UNCHANGED <<tvars, m_current_location, m_current_location_mode, request_results,
                   m_retry_count, interval, chosen>>

response(status) == response_as(status, status \in Success)

(* The error body has arrived.                                             *)
error_body ==
    /\ pc = "error_body"
    /\ AssertThenFail("error_status", TRUE)
    /\ UNCHANGED <<tvars, where, m_request_result, request_results, policy, chosen, since_result, sent>>

(* 8-9. The body has arrived: too short, or postprocess_response accepts   *)
(* or rejects it; a download lets its location go before it decides.  What *)
(* rejects a batch is the status of one of its parts, which the result of  *)
(* the request takes over.                                                 *)
body_received ==
    /\ pc = "body"
    /\ \/ /\ AssertThenFail("incorrect_length", TRUE)
          /\ UNCHANGED <<m_location_mode, m_request_result>>
       \/ /\ m_location_mode' = IF Resumable THEN "primary_or_secondary" ELSE m_location_mode
          /\ \/ Goto("final") /\ ex' = NoException
             \/ \E retryable \in BOOLEAN : Fail("postprocess", retryable)
          /\ UNCHANGED m_request_result
       \/ /\ ~Resumable
          /\ Fail("postprocess", TRUE)
          /\ \E status \in Statuses \ Success :
               m_request_result' = [m_request_result EXCEPT !.status = status]
          /\ UNCHANGED m_location_mode
    /\ UNCHANGED <<tvars, m_current_location, m_current_location_mode, request_results,
                   policy, chosen, since_result, sent>>

(* What the final handler makes of an exception that may be retried.       *)
(* Mutant: the policy is asked without noting the attempt.                 *)
retry_Unnoted(info) ==
    /\ m_retry_count' = m_retry_count + 1
    /\ m_current_location' = info.target_location
    /\ m_current_location_mode' = info.updated_location_mode
    /\ interval' = align_retry_interval(Backoff, last_attempt[info.target_location])
    /\ UNCHANGED last_attempt
retry(info) ==
    /\ m_retry_count' = m_retry_count + 1
    /\ last_attempt' = [last_attempt EXCEPT ![m_request_result.location] = since_result]
    /\ m_current_location' = info.target_location
    /\ m_current_location_mode' = info.updated_location_mode
    /\ interval' = align_retry_interval(Backoff, last_attempt'[info.target_location])

(* The final handler: record the result, and return, rethrow or retry.     *)
(* Mutant: a retried attempt is not recorded.                              *)
record_Last == IF ex = NoException THEN Append(request_results, m_request_result) ELSE request_results
record == Append(request_results, m_request_result)

final ==
    /\ pc = "final"
    /\ request_results' = record
    /\ LET info == evaluate(m_retry_count, m_max_attempts, m_request_result,
                            get_next_location(m_current_location_mode, m_current_location),
                            m_current_location_mode)
       IN  CASE ex = NoException ->
                  Finish("returned", "") /\ UNCHANGED <<policy, where>>
             [] ~ex.retryable ->
                  Finish("faulted", ex.what) /\ UNCHANGED <<policy, where>>
             [] ex.retryable /\ ex # NoException /\ IsCanceled ->
                  /\ Finish("faulted", IF ex.what = "operation_canceled" /\ m_is_canceled_by_timeout
                                       THEN "client_timeout" ELSE ex.what)
                  /\ UNCHANGED <<policy, where>>
             [] ex.retryable /\ ex # NoException /\ ~IsCanceled /\ ~info.should_retry ->
                  /\ Finish("faulted", ex.what)
                  /\ m_retry_count' = m_retry_count + 1
                  /\ UNCHANGED <<last_attempt, interval, where>>
             [] OTHER ->
                  /\ retry(info) /\ UNCHANGED m_location_mode
                  /\ \/ Goto("delay")
                     \/ Resumable /\ Finish("faulted", ex.what)  \* m_recover_request refuses
    /\ ex' = NoException
    /\ UNCHANGED <<tvars, m_request_result, chosen, since_result, sent>>

(* complete_after(interval) and the next turn of the loop.  Mutant: the    *)
(* event of a delay of no length is never set.                             *)
delay_NeverForZero ==
    /\ pc = "delay" /\ interval > 0
    /\ Goto("begin")
    /\ Elapse(interval)
    /\ UNCHANGED <<tvars, where, attempt, m_retry_count, interval, chosen>>
delay ==
    /\ pc = "delay"
    /\ Goto("begin")
    /\ Elapse(interval)
    /\ UNCHANGED <<tvars, where, attempt, m_retry_count, interval, chosen>>

(* operation_expiry_time passes; the finished command lets its timer go.   *)
expiry ==
    /\ HasTimer /\ ~expired /\ pc # "done"
    /\ expired' = TRUE
    /\ UNCHANGED <<tvars, control, where, attempt, policy, options, since_result, sent>>

Release == pc = "done" /\ owner_release /\ UNCHANGED evars

Operation ==
    \/ start \/ assert_timed_out \/ assert_canceled \/ begin \/ build \/ prepare \/ send
    \/ connection_lost \/ (\E status \in Statuses : response(status)) \/ error_body \/ body_received
    \/ final \/ delay

Next ==
    \/ Operation
    \/ expiry
    \/ Release
    \/ TimerThreads /\ UNCHANGED evars

(* The pool runs what is ready, and the http_client answers or gives up    *)
(* (noactivity_timeout).                                                   *)
Spec == Init /\ [][Next]_vars /\ WF_vars(Operation) /\ TFairness
-----------------------------------------------------------------------------
(* "The maximum number of retries to attempt" (retry_policies.h) is kept   *)
(* whatever mix of lost connections, error answers, bad bodies and         *)
(* location changes the attempts meet.                                     *)
AttemptsBounded == Len(sent) <= m_max_attempts + 1

(* One request_result per request sent, in order and with its location:    *)
(* the append blob counts them to tell its own retry from a stranger.      *)
EveryAttemptRecorded ==
    /\ pc \in {"delay", "done"} => Len(request_results) = Len(sent)
    /\ \A i \in DOMAIN request_results : request_results[i].location = sent[i].location

(* No request goes to a location that the caller's options or the command  *)
(* exclude, and the first one goes where the options say.                  *)
LocationsPermitted ==
    \A i \in DOMAIN sent :
        /\ options.mode \in {"primary_only", "secondary_only"} \/ options.command = "primary_only"
             => sent[i].location = sent[1].location
        /\ sent[1].location = IF options.command = "primary_only" THEN "primary"
                              ELSE get_first_location(options.mode)
        /\ sent[i].location = "secondary" => options.has_secondary

(* A download that one of its first n answers has locked to the secondary. *)
LockedToSecondary(n) ==
    /\ Resumable
    /\ \E k \in 1..n : request_results[k].location = "secondary" /\ request_results[k].status \in Success

(* A secondary that does not have the resource yet is not asked again,     *)
(* unless it is the only location the options allow or the one a download  *)
(* was locked to before: that lock narrows the mode for good.              *)
NotFoundLeavesSecondary ==
    \A i \in DOMAIN request_results, j \in DOMAIN sent :
        /\ i < j /\ secondary_not_found(request_results[i])
        /\ options.mode # "secondary_only" /\ ~LockedToSecondary(i - 1)
        => sent[j].location = "primary"

(* An operation that says it timed out did: the flag or the expiry time    *)
(* was there when it was thrown, and a user's cancellation alone never     *)
(* produces it.                                                            *)
TimeoutIsReal == outcome.what = "client_timeout" => expired \/ m_is_canceled_by_timeout

(* The operation ends, whatever the service and the timer do.              *)
Terminates == <>(pc = "done")

(* retry_policies.cpp: the requests to one location are the retry interval *)
(* apart "from the primary locations' point of view"; not so for a         *)
(* download, whose lock moves the request after the interval was chosen.   *)
AttemptsSpaced == ~Resumable => \A i \in DOMAIN sent : ~sent[i].early
=============================================================================

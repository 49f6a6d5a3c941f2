---------------------------- MODULE TimerHandler ----------------------------
(***************************************************************************)
(* azure::storage::core::timer_handler (src/timer_handler.cpp,             *)
(* includes/wascore/timer_handler.h): the client-side timeout of an        *)
(* operation.  Three threads meet here: the one that cancels the user's    *)
(* token (it runs the registered callback), the timer's thread, and the    *)
(* pool thread that runs the continuation of m_timeout_task.  m_mutex      *)
(* covers start_timer, stop_timer and the timer's callback; everything     *)
(* else interleaves.                                                       *)
(***************************************************************************)
EXTENDS Naturals

VARIABLES
    user_canceled,      \* m_cancellation_token, the caller's
    worker_canceled,    \* m_worker_cancellation_token_source
    m_is_canceled_by_timeout,
    m_timer_started,
    m_timer,            \* the pointer is not null
    wait,               \* async_wait: none, pending, due (handler queued), aborted,
                        \* locked (the handler has its shared_ptr), ran
    m_tce,              \* unset, set, canceled
    callback,           \* of the user's token: idle, entered, canceled, done
    continuation,       \* of m_timeout_task: idle, flagged, done
    owned,              \* a command still holds the shared_ptr
    life                \* alive, destroying (deregistered), destroyed; none for a
                        \* command that has the user's token and no timer_handler

flags == <<user_canceled, worker_canceled, m_is_canceled_by_timeout>>
timer == <<m_timer_started, m_timer, wait, m_tce>>
tvars == <<flags, timer, callback, continuation, owned, life>>

TInit ==
    /\ user_canceled = FALSE /\ worker_canceled = FALSE /\ m_is_canceled_by_timeout = FALSE
    /\ m_timer_started = FALSE /\ m_timer = FALSE /\ wait = "none" /\ m_tce = "unset"
    /\ callback = "idle" /\ continuation = "idle"
    /\ life \in {"alive", "none"} /\ owned = (life = "alive")

(* start_timer with timeout_after; a second call returns at once.          *)
start_timer ==
    /\ m_timer_started' = TRUE
    /\ IF m_timer_started
       THEN UNCHANGED <<m_timer, wait, m_tce>>
       ELSE m_timer' = TRUE /\ wait' = "pending" /\ UNCHANGED m_tce

(* stop_timer: a handler that is already queued cannot be aborted any      *)
(* more, so the event behind it is canceled.  Mutant: it is not.           *)
stop_timer_KeepEvent ==
    /\ m_timer' = FALSE
    /\ wait' = IF m_timer /\ wait = "pending" THEN "aborted" ELSE wait
    /\ UNCHANGED <<m_timer_started, m_tce>>
stop_timer ==
    /\ UNCHANGED m_timer_started
    /\ IF m_timer_started /\ m_timer
       THEN /\ m_timer' = FALSE
            /\ wait' = IF wait = "pending" THEN "aborted" ELSE wait
            /\ m_tce' = IF m_tce = "set" THEN m_tce ELSE "canceled"
       ELSE UNCHANGED <<m_timer, wait, m_tce>>

(* The user cancels; the callback of a timer_handler runs while it is      *)
(* registered.                                                             *)
user_cancel ==
    /\ ~user_canceled
    /\ user_canceled' = TRUE
    /\ callback' = IF life = "alive" THEN "entered" ELSE callback
    /\ UNCHANGED <<worker_canceled, m_is_canceled_by_timeout, timer, continuation, owned, life>>

callback_cancel ==
    /\ callback = "entered"
    /\ worker_canceled' = TRUE
    /\ callback' = "canceled"
    /\ UNCHANGED <<user_canceled, m_is_canceled_by_timeout, timer, continuation, owned, life>>

callback_stop ==
    /\ callback = "canceled"
    /\ stop_timer
    /\ callback' = "done"
    /\ UNCHANGED <<flags, continuation, owned, life>>

(* The timer expires: boost queues the handler without operation_aborted.  *)
expire ==
    /\ wait = "pending"
    /\ wait' = "due"
    /\ UNCHANGED <<flags, m_timer_started, m_timer, m_tce, callback, continuation, owned, life>>

(* The handler: it needs the object, then m_mutex.  A canceled event has   *)
(* no task left that set() could run.                                      *)
timer_callback_lock ==
    /\ wait = "due"
    /\ wait' = IF life = "alive" THEN "locked" ELSE "ran"
    /\ UNCHANGED <<flags, m_timer_started, m_timer, m_tce, callback, continuation, owned, life>>

timer_callback ==
    /\ wait = "locked"
    /\ wait' = "ran"
    /\ m_tce' = IF m_tce = "unset" THEN "set" ELSE m_tce
    /\ UNCHANGED <<flags, m_timer_started, m_timer, callback, continuation, owned, life>>

(* The continuation of m_timeout_task in its two steps; it holds a         *)
(* shared_ptr between them.  Mutants: the two steps in the other order.    *)
continue_flag_Swapped ==
    /\ m_tce = "set" /\ continuation = "idle" /\ life = "alive"
    /\ worker_canceled' = TRUE
    /\ continuation' = "flagged"
    /\ UNCHANGED <<user_canceled, m_is_canceled_by_timeout, timer, callback, owned, life>>
continue_flag ==
    /\ m_tce = "set" /\ continuation = "idle" /\ life = "alive"
    /\ m_is_canceled_by_timeout' = TRUE
    /\ continuation' = "flagged"
    /\ UNCHANGED <<user_canceled, worker_canceled, timer, callback, owned, life>>

continue_cancel_Missing ==
    /\ continuation = "flagged"
    /\ continuation' = "done"
    /\ UNCHANGED <<flags, timer, callback, owned, life>>
continue_cancel ==
    /\ continuation = "flagged"
    /\ worker_canceled' = TRUE
    /\ continuation' = "done"
    /\ UNCHANGED <<user_canceled, m_is_canceled_by_timeout, timer, callback, owned, life>>

(* ~timer_handler, when no shared_ptr is left: deregister_callback waits   *)
(* for a callback that runs, then the timer is stopped.  Mutant: the       *)
(* destructor does not wait.                                               *)
destroy_NoWait ==
    /\ life = "alive" /\ ~owned /\ continuation # "flagged" /\ wait # "locked"
    /\ life' = "destroying"
    /\ UNCHANGED <<flags, timer, callback, continuation, owned>>
destroy ==
    /\ life = "alive" /\ ~owned /\ continuation # "flagged" /\ wait # "locked"
    /\ callback \notin {"entered", "canceled"}
    /\ life' = "destroying"
    /\ UNCHANGED <<flags, timer, callback, continuation, owned>>

destroy_stop ==
    /\ life = "destroying"
    /\ stop_timer
    /\ life' = "destroyed"
    /\ UNCHANGED <<flags, callback, continuation, owned>>

(* Every step that is not its owner's.                                     *)
TimerThreads ==
    \/ user_cancel \/ callback_cancel \/ callback_stop
    \/ expire \/ timer_callback_lock \/ timer_callback \/ continue_flag \/ continue_cancel
    \/ destroy \/ destroy_stop

(* Its owner starts it and in the end lets it go.                          *)
owner_start ==
    /\ owned
    /\ start_timer
    /\ UNCHANGED <<flags, callback, continuation, owned, life>>

owner_release ==
    /\ owned
    /\ owned' = FALSE
    /\ UNCHANGED <<flags, timer, callback, continuation, life>>

TNext == TimerThreads \/ owner_start \/ owner_release

TFairness ==
    /\ WF_tvars(callback_cancel) /\ WF_tvars(callback_stop)
    /\ WF_tvars(timer_callback_lock) /\ WF_tvars(timer_callback)
    /\ WF_tvars(continue_flag) /\ WF_tvars(continue_cancel)

TSpec == TInit /\ [][TNext]_tvars /\ TFairness
-----------------------------------------------------------------------------
(* Types, and which combinations of the timer's members exist: start_timer *)
(* arms it once, and its event is set only by its handler.                 *)
TTypeOK ==
    /\ flags \in BOOLEAN \X BOOLEAN \X BOOLEAN
    /\ m_timer_started = (wait # "none") /\ m_timer \in BOOLEAN
    /\ m_tce = "set" => wait = "ran"
    /\ wait \in {"none", "pending", "due", "aborted", "locked", "ran"}
    /\ m_tce \in {"unset", "set", "canceled"}
    /\ callback \in {"idle", "entered", "canceled", "done"}
    /\ continuation \in {"idle", "flagged", "done"}
    /\ owned \in BOOLEAN /\ life \in {"none", "alive", "destroying", "destroyed"}

(* Whoever sees the worker's token canceled can find out why: the timeout  *)
(* flag is up before the token, so a cancellation that nobody asked for is *)
(* always reported as a timeout.                                           *)
CancelHasReason == worker_canceled => user_canceled \/ m_is_canceled_by_timeout

(* A timer that was stopped before its event was set never reports a       *)
(* timeout, although its handler may already be queued at that time.       *)
StoppedTimerIsSilent ==
    [][m_timer_started /\ ~m_timer /\ m_tce # "set"
         => m_tce' # "set" /\ m_is_canceled_by_timeout' = m_is_canceled_by_timeout]_tvars

(* The callback captures a raw `this' and the continuation a weak pointer: *)
(* neither runs on a timer_handler that is destroyed or was never made.    *)
NoUseAfterDestroy ==
    callback \in {"entered", "canceled"} \/ continuation = "flagged" \/ wait = "locked" => life = "alive"

(* A timer that fires while the operation is under way cancels its worker  *)
(* token; when it is gone there is nobody left to cancel.                  *)
TimeoutCancels == m_tce = "set" ~> worker_canceled \/ life # "alive"
=============================================================================

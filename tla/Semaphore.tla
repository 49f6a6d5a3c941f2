------------------------------ MODULE Semaphore ------------------------------
(***************************************************************************)
(* What azure::storage::core::async_semaphore promises its clients         *)
(* (src/Microsoft.WindowsAzure.Storage/includes/wascore/async_semaphore.h),*)
(* without the counter, the queue and the events it is made of: at most    *)
(* `permits' requests are granted and not yet released, and the task of    *)
(* wait_all_async completes only when every request made before the call   *)
(* has been released.                                                      *)
(***************************************************************************)
EXTENDS Naturals, FiniteSets

CONSTANTS Tasks,        \* one element per call of lock_async
          permits       \* the constructor's `count'

VARIABLES requested,    \* the calls of lock_async made so far
          held,         \* the requests granted and not released
          released,     \* the requests released
          owed          \* what a pending wait_all_async waits for, {} when idle

vars == <<requested, held, released, owed>>

Init == requested = {} /\ held = {} /\ released = {} /\ owed = {}

(* A request; it is granted at once or later.                              *)
Request(t) ==
    /\ t \notin requested
    /\ requested' = requested \cup {t}
    /\ \/ UNCHANGED held
       \/ Cardinality(held) < permits /\ held' = held \cup {t}
    /\ UNCHANGED <<released, owed>>

Grant(t) ==
    /\ t \in requested \ (held \cup released)
    /\ Cardinality(held) < permits
    /\ held' = held \cup {t}
    /\ UNCHANGED <<requested, released, owed>>

Release(t) ==
    /\ t \in held
    /\ held' = held \ {t}
    /\ released' = released \cup {t}
    /\ UNCHANGED <<requested, owed>>

(* wait_all_async called, and its task completing.                         *)
WaitAll ==
    /\ owed = {}
    /\ owed' = requested
    /\ UNCHANGED <<requested, held, released>>

Resume ==
    /\ owed \subseteq released
    /\ owed' = {}
    /\ UNCHANGED <<requested, held, released>>

Next == (\E t \in Tasks : Request(t) \/ Grant(t) \/ Release(t)) \/ WaitAll \/ Resume

Spec == Init /\ [][Next]_vars
=============================================================================

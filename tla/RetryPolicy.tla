----------------------------- MODULE RetryPolicy -----------------------------
(***************************************************************************)
(* Which location the executor asks (includes/wascore/executor.h) and      *)
(* whether, where and when it asks again (src/retry_policies.cpp), as      *)
(* operators.  Status 0 is a request_result without a response.            *)
(***************************************************************************)
EXTENDS Integers

Locations == {"primary", "secondary"}
LocationModes == {"primary_only", "primary_then_secondary", "secondary_only", "secondary_then_primary"}
CommandModes == {"primary_only", "secondary_only", "primary_or_secondary"}

get_first_location(mode) ==
    IF mode \in {"primary_only", "primary_then_secondary"} THEN "primary" ELSE "secondary"

Other(location) == IF location = "primary" THEN "secondary" ELSE "primary"

(* Mutant: every mode alternates.                                          *)
get_next_location_Alternate(mode, location) == Other(location)
get_next_location(mode, location) ==
    CASE mode = "primary_only" -> "primary"
      [] mode = "secondary_only" -> "secondary"
      [] OTHER -> Other(location)

(* validate_location_mode: does the storage_uri have the location, does    *)
(* the command allow it, and the mode it narrows the operation to.         *)
HasUri(mode, has_secondary) == mode = "primary_only" \/ has_secondary

CommandAllows(command, mode) ==
    /\ command = "primary_only" => mode # "secondary_only"
    /\ command = "secondary_only" => mode # "primary_only"

Narrowed(command, mode) == IF command = "primary_or_secondary" THEN mode ELSE command

NarrowedLocation(command, location) ==
    CASE command = "primary_only" -> "primary"
      [] command = "secondary_only" -> "secondary"
      [] OTHER -> location

(* set_location_mode(primary_or_secondary, lock).                          *)
LockedTo(location) == IF location = "primary" THEN "primary_only" ELSE "secondary_only"

secondary_not_found(result) == result.status = 404 /\ result.location = "secondary"

(* The answers basic_common_retry_policy::evaluate never asks again after. *)
definitive(result) ==
    \/ /\ result.status >= 300 /\ result.status < 500
       /\ result.status # 408 /\ ~secondary_not_found(result)
    \/ result.status \in {501, 505}

(* basic_common_retry_policy::evaluate: the retry_info.  Mutants: one      *)
(* retry too many; a secondary 404 does not leave the secondary.           *)
retry_info(retry, location, mode) ==
    [should_retry |-> retry, target_location |-> location, updated_location_mode |-> mode]
no_retry == retry_info(FALSE, "unspecified", "unspecified")

evaluate_OneMore(count, max, result, next, mode) ==
    IF count > max \/ definitive(result) THEN no_retry ELSE retry_info(TRUE, next, mode)
evaluate_StaySecondary(count, max, result, next, mode) ==
    IF count >= max \/ definitive(result) THEN no_retry ELSE retry_info(TRUE, next, mode)
evaluate(count, max, result, next, mode) ==
    IF count >= max \/ definitive(result) THEN no_retry
    ELSE IF secondary_not_found(result) /\ mode # "secondary_only"
         THEN retry_info(TRUE, "primary", "primary_only")
         ELSE retry_info(TRUE, next, mode)

(* align_retry_interval: what is left of the interval since the last       *)
(* attempt at the target location (-1: none yet).                          *)
align_retry_interval(interval, since_last_attempt) ==
    IF since_last_attempt < 0 \/ since_last_attempt > interval THEN 0
    ELSE interval - since_last_attempt
=============================================================================

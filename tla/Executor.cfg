CONSTANTS
    m_max_attempts = 2
    Backoff = 1
    Statuses = {200, 404, 408, 501}
    OptionModes = {"primary_only", "primary_then_secondary", "secondary_only", "secondary_then_primary"}
    InitialModes = {"primary_only", "primary_or_secondary"}
    DownloadModes = {"primary_then_secondary", "secondary_then_primary"}
SPECIFICATION Spec
INVARIANTS
    AttemptsBounded
    EveryAttemptRecorded
    LocationsPermitted
    NotFoundLeavesSecondary
    TimeoutIsReal
    AttemptsSpaced
    CancelHasReason
    NoUseAfterDestroy
PROPERTIES
    Terminates
    StoppedTimerIsSilent
    TimeoutCancels
CHECK_DEADLOCK FALSE

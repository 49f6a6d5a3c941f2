CONSTANTS
    Tasks = {t1, t2, t3, t4}
    m_initial_count = 2
SPECIFICATION FairSpec
INVARIANTS
    PermitsConserved
    WaitAllIsBarrier
PROPERTIES
    ImplementsSemaphore
    EveryLockGranted
    WaitAllCompletes
CHECK_DEADLOCK FALSE

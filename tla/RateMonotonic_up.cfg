\* One processor: two threads, two periods.
SPECIFICATION FairSpec
CONSTANTS
    Threads = {"t", "u"}
    Periods = {"p", "q"}
    SMP = FALSE
    AnyDelete = FALSE
    UINT32_MAX = 2
    NULL = "NULL"
INVARIANTS
    JobsAreConserved
    HookBeforeRelease
    CancelStops
    

\* Several processors.
SPECIFICATION FairSpec
CONSTANTS
    Threads = {"t"}
    Periods = {"p", "q"}
    SMP = TRUE
    AnyDelete = FALSE
    UINT32_MAX = 2
    NULL = "NULL"
INVARIANTS
    NoLostWakeup
PROPERTY
    BlockedWakes

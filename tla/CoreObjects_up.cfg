SPECIFICATION Spec
CONSTANTS
    t1 = t1  t2 = t2  t3 = t3
    Threads = {t1, t2, t3}
    Isr = isr
    Prio <- Mixed
    Users <- UsersUp
    UINT32_MAX = 2
    MaximumCount = 2
    U32 = 4
    MaxPending = 2
    Messages = {1, 2, 3, 4, 5, 6}
    PosixTypes = {0, 1}
    MaxOpen = 1
    Builds = {FALSE}
    Kinds = {"binary", "automatic", "manual", "classic", "posix"}
INVARIANTS
    TimeoutWasAsked
    NoIdleToken
    BarrierNeverFull
    PendingOrdered
PROPERTY
    DecidesAtomically
CHECK_DEADLOCK FALSE

SPECIFICATION Spec
CONSTANTS
    t1 = t1  t2 = t2  t3 = t3
    Threads = {t1, t2}
    Isr = isr
    Prio <- Fifo
    Users <- UsersSmp
    UINT32_MAX = 2
    MaximumCount = 2
    U32 = 4
    MaxPending = 1
    Messages = {1, 2, 3, 4}
    PosixTypes = {0}
    MaxOpen = 1
    Builds = {TRUE}
    Kinds = {"counting", "automatic", "classic", "posix"}
INVARIANTS
    WaitsAreOver
    TokensConserved
    WaitersAreOfOneKind
    MessagesConserved
    GoneIsEmpty
PROPERTY
    ImplementsAtomicWait
CHECK_DEADLOCK FALSE

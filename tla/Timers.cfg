\* Both builds; the tick and the server take their steps in every order.
SPECIFICATION Spec
CONSTANTS
    Timer = {"t1", "t2"}
    Cpus = {"c0"}
    Boot = "c0"
    Intervals = {1, 2}
    Builds = {FALSE, TRUE}
INVARIANTS
    StateIsPlace
    NoLostWakeup
PROPERTY
    KeepsPromise
CHECK_DEADLOCK FALSE

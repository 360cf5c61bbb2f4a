\* A period is signed off.
SPECIFICATION AdminSpec
CONSTANTS
    Ids = {"p1", "p2"}
    Args <- MC_Small
    P_TASKS = 2
    PATTERN_PARTITIONS = 2
    U16 = 65536
    MaxOffs = 1
    NewTechs = {}
INVARIANT
    ListIsProtected

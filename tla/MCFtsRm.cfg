SPECIFICATION RmSpec
CONSTANTS
    Ids = {"p1", "p2"}
    Args <- MC_TwoParts
    P_TASKS = 2
    PATTERN_PARTITIONS = 2
    U16 = 5
    MaxOffs = 1
    MaxDels = 2
    NewTechs = {"DDR"}
VIEW MC_View
INVARIANTS
    PartitionInRange
    OneEntryPerId
    UndisturbedFirm

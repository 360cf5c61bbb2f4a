\* Three periods compete for a list of two entries and run their jobs.
SPECIFICATION Spec
CONSTANTS
    Ids = {"p1", "p2", "p3"}
    Args <- MC_AllTechs
    P_TASKS = 2
    PATTERN_PARTITIONS = 2
    U16 = 65536
    MaxOffs = 0
    NewTechs = {}
INVARIANTS
    WindowsAreFirm
    
    

SPECIFICATION Spec
CONSTANTS
    Periods = {"p", "q"}
    N = 4
    Usages <- MC_Both
INVARIANTS
    PoolIsPartitioned
    
    NoVersionLeft

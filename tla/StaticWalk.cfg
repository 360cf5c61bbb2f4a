SPECIFICATION Spec
CONSTANTS
    MaxK = 18
    Types = {"R_PATTERN", "E_PATTERN"}
INVARIANTS
    WalkIsCyclic
    StaticMKFirm
    TolCountersSound

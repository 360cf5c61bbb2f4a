\* The constraint and pattern of FTS_RM/fts_c/test.c: m = 12, k = 16, E_PATTERN,
\* DDR.
SPECIFICATION Spec
CONSTANTS
    MC_m = 12
    K = 16
    MC_type = "E_PATTERN"
    Tech = "DDR"
    U16 = 65536
    M <- MC_M
    NP <- MC_NP
    O <- MC_O
    A <- MC_A
    ZB <- MC_ZB
    JB <- MC_JB
    Z <- MC_Z
INVARIANTS
    
    CountersInRange
PROPERTY
    KeepsMKFirm

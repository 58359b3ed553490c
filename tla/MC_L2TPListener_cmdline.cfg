CONSTANTS
    c1 = c1  c2 = c2  d1 = d1  d2 = d2
    None = None
    Calls <- MCCalls
    MaxSends = 2
    ListenBufCap = 2
    Configs <- MCConfigs
    ListenSetups = {TRUE}
SYMMETRY MCSymmetry
SPECIFICATION Spec
INVARIANTS NoCrash
CHECK_DEADLOCK FALSE

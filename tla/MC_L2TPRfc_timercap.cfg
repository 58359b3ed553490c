CONSTANTS
    a = a
    b = b
    Ends <- MCEnds
    SeqSpace <- MCSeqSpace
    CounterSpace <- MCCounterSpace
    StartSeq <- MCStartSeq
    MaxMsgs <- MCMaxMsgs
    Closers = {}
    PeerWindow = 3
    InitialTimeout = 1
    TimeoutCap = 2
    MaxRetries = 3
    AdaptTimer = TRUE
    FreeTicks = 2
    NetCap = 3
    RecvQueueCap = 2
SPECIFICATION Spec
CHECK_DEADLOCK FALSE
INVARIANT RetransWithinCap

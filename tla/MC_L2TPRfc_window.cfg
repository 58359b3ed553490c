CONSTANTS
    a = a
    b = b
    Ends <- MCEnds
    SeqSpace <- MCSeqSpace
    CounterSpace <- MCCounterSpace
    StartSeq <- MCStartSeq
    MaxMsgs <- MCMaxMsgs
    Closers = {}
    PeerWindow = 1
    InitialTimeout = 1
    TimeoutCap = 2
    MaxRetries = 3
    AdaptTimer = TRUE
    FreeTicks = 2
    NetCap = 2
    RecvQueueCap = 2
SPECIFICATION Spec
PROPERTY WindowRespected
CHECK_DEADLOCK FALSE

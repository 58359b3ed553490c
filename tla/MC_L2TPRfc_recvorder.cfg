CONSTANTS
    a = a
    b = b
    Ends <- MCEnds
    SeqSpace <- MCSeqSpace
    CounterSpace <- MCCounterSpace
    StartSeq <- MCStartSeq
    MaxMsgs <- MCMaxMsgsBurst
    Closers = {}
    PeerWindow = 3
    InitialTimeout = 1
    TimeoutCap = 2
    MaxRetries = 3
    AdaptTimer = TRUE
    FreeTicks = 2
    NetCap = 2
    RecvQueueCap = 3
SPECIFICATION Spec
INVARIANT RecvQueueOrdered
CHECK_DEADLOCK FALSE

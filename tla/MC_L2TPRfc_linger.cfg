CONSTANTS
    a = a
    b = b
    Ends <- MCEnds
    SeqSpace <- MCSeqSpace
    CounterSpace <- MCCounterSpace
    StartSeq <- MCStartSeq
    MaxMsgs <- MCMaxMsgsOne
    Closers = {b}
    PeerWindow = 2
    InitialTimeout = 1
    TimeoutCap = 2
    MaxRetries = 2
    AdaptTimer = TRUE
    FreeTicks = 1
    NetCap = 2
    RecvQueueCap = 2
SPECIFICATION Spec
INVARIANT InOrderDelivery
INVARIANT SendQueueInWindow
INVARIANT AckedMeansReceived
PROPERTY AckedOrFailed
CHECK_DEADLOCK FALSE

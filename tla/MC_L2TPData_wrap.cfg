CONSTANTS
    SeqSpace <- MCSeqSpace
    SeqReqChoices = {TRUE}
    DataStart <- MCDataStartWrap
    MaxFrames = 3
    NetCap = 2
    MaxDups = 1
SPECIFICATION Spec
INVARIANTS InputErrorOnlyAfterGap
CHECK_DEADLOCK FALSE

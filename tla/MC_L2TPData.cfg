CONSTANTS
    SeqSpace <- MCSeqSpace
    SeqReqChoices = {TRUE, FALSE}
    DataStart <- MCDataStart
    MaxFrames = 3
    NetCap = 2
    MaxDups = 1
SPECIFICATION Spec
INVARIANTS TypeOK CleanDeliveriesInOrder
CHECK_DEADLOCK FALSE

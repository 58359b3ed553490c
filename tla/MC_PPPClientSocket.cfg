CONSTANTS
    HdrSize = 2
    Word <- MCWord
    LastRequest = 18
    USE_SERVICEID <- MCUseServiceId
    Requests <- MCRequests
    Privileged = {TRUE, FALSE}
    Orders = {"host", "net"}
    MaxMsgs = 3
    MaxBody = 2
    MaxChunk = 2
    AllocFails = {FALSE}
    None = None
SPECIFICATION Spec
INVARIANTS TypeOK FramingPreserved
PROPERTY RequestsProcessed
CHECK_DEADLOCK FALSE

CONSTANTS
    HdrSize = 2
    Word <- MCWord
    LastRequest = 18
    USE_SERVICEID <- MCUseServiceId
    Requests <- MCRequestsNoBody
    Privileged = {FALSE}
    Orders = {"host"}
    MaxMsgs = 2
    MaxBody = 2
    MaxChunk = 2
    AllocFails = {TRUE, FALSE}
    None = None
SPECIFICATION Spec
INVARIANT NoMemoryCorruption
CHECK_DEADLOCK FALSE

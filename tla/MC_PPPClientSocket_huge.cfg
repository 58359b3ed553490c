CONSTANTS
    HdrSize = 2
    Word <- MCWord
    LastRequest = 18
    USE_SERVICEID <- MCUseServiceId
    Requests <- MCRequestsHuge
    Privileged = {FALSE}
    Orders = {"host"}
    MaxMsgs = 2
    MaxBody = 2
    MaxChunk = 2
    AllocFails = {FALSE}
    None = None
SPECIFICATION Spec
INVARIANT NoMemoryCorruption
CHECK_DEADLOCK FALSE

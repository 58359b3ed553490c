CONSTANTS
    c1 = c1
    Clients = {c1}
    Sessions <- MCSessions
    Requests <- MCRequests
    PppdMsgs <- MCPppdMsgs
    HdrBytes = 20
    StatusBytes = 40
    OptReplyBytes = 12
    PPP_VERSION = 1
    PPP_STATUS = 2
    PPP_CONNECT = 3
    PPP_DISCONNECT = 5
    PPP_GETOPTION = 6
    PPP_SETOPTION = 7
    PPP_ENABLE_EVENT = 8
    PPP_DISABLE_EVENT = 9
    PPP_EVENT = 10
    PPP_GETNBLINKS = 11
    PPP_GETLINKBYINDEX = 12
    PPP_GETLINKBYSERVICEID = 13
    PPP_GETLINKBYIFNAME = 14
    PPP_SUSPEND = 15
    PPP_RESUME = 16
    PPP_EXTENDEDSTATUS = 17
    PPP_GETCONNECTDATA = 18
    LAST_REQUEST = 18
    PPPD_EVENT <- MCPppdEvent
    PPPD_STATUS <- MCPppdStatus
    PPPD_PHASE <- MCPppdPhase
    PPP_EVT_DISCONNECTED = 5
    CURRENT_VERSION = 3
    USE_SERVICEID <- MCUseServiceId
    CLIENT_FLAG_NOTIFY_EVENT <- MCNotifyEvent
    CLIENT_FLAG_NOTIFY_STATUS <- MCNotifyStatus
    CLIENT_FLAG_SWAP_BYTES <- MCSwapBytes
    ENODEV = 19
    ENOMEM = 12
    EINVAL = 22
    EOPNOTSUPP = 45
    ManagerErrors = {5}
    TranslateError <- MCTranslate
    AnyLink <- MCAnyLink
    NameLen <- MCNameLen
    MaxReqs <- MCMaxReqs
    MaxPppd = 2
    WriteStalls = FALSE
    None = None
SPECIFICATION Spec
INVARIANT FilterKeptWhileEnabled
CHECK_DEADLOCK FALSE

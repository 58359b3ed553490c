CONSTANTS
    HdrBytes = 12
    BodyBytes <- MCBodyBytes
    CallId <- MCCallId
    Window <- MCWindow
    Ppd <- MCPpd
    StaleErrno = {0, 4}
    EINTR = 4
    PPTP_START_CONTROL_CONNECTION_REQUEST = 1
    PPTP_START_CONTROL_CONNECTION_REPLY = 2
    PPTP_ECHO_REQUEST = 5
    PPTP_ECHO_REPLY = 6
    PPTP_OUTGOING_CALL_REQUEST = 7
    PPTP_OUTGOING_CALL_REPLY = 8
    PPTP_SET_LINK_INFO = 15
    KnownTypes = {3, 4, 9, 10, 11, 12, 13, 14}
    ForeignTypes = {14}
    ForeignSenders = {"in"}
    ForeignCloses = FALSE
    PPTP_RESULT_SUCCESS = 1
    PPTP_OUTGOING_CALL_RESULT_CONNECTED = 1
    EXIT_PPTP_PROTOCOLERROR = 20
    EXIT_PPTP_STARTFAILED = 21
    MaxEchoes = 1
    None = None
SPECIFICATION Spec
INVARIANTS TypeOK
PROPERTIES EchoAnswered
CHECK_DEADLOCK FALSE

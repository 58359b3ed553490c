CONSTANTS
    Opts <- MCOpts
    Inputs <- MCInputs
    Setups <- MCSetups
    Swaps = {FALSE, TRUE}
    Def <- MCDef
    Subtype = "serial"
    OptStrLen = 3
    PPP_AUTH_NONE = 0
    PPP_AUTH_PAP = 1
    PPP_AUTH_CHAP = 2
    PPP_AUTH_PAPCHAP = 3
    EINVAL = 22
    EOPNOTSUPP = 45
    DirLogs <- MCDirLogs
    ServiceID <- MCServiceID
    IfName = 0
    PPP_LCP_HDRCOMP_ADDR <- MCHdrCompAddr
    PPP_LCP_HDRCOMP_PROTO <- MCHdrCompProto
    PPP_COMM_TERM_NONE = 0
    PPP_COMM_TERM_SCRIPT = 1
    PPP_COMM_TERM_WINDOW = 2
    PPP_DEV_WAITFORDIALTONE = 0
    PPP_DEV_IGNOREDIALTONE = 1
    PPP_DEV_MANUALDIAL = 2
    Missing = Missing
    None = None
SPECIFICATION Spec
INVARIANT RoundTrip
CHECK_DEADLOCK FALSE

---------------------------- MODULE MC_PPPOptions ----------------------------
(* PPPOptions for TLC: a serial service, every modelled option with a few  *)
(* (strings over the characters 1 and 2, with 0 the NUL; buffers of 3),   *)
(* values the client may send, a service with an empty setup and one with *)
(* a setup that holds a value under every key, and both client byte orders. *)
EXTENDS PPPOptions

\* ppp_msg.h
MCHdrCompAddr == 1
MCHdrCompProto == 2

\* The OPT_..._DEF values of ppp_option.h.
MCDef == [DEV_SPEED |-> 115200, COMM_TERMINALMODE |-> 0, COMM_IDLETIMER |-> 1800,
          COMM_SESSIONTIMER |-> 3600, COMM_REMINDERTIMER |-> 1800, COMM_CONNECTDELAY |-> 0,
          LCP_PCOMP |-> 1, LCP_ACCOMP |-> 1, LCP_ECHOINTERVAL |-> 10, LCP_ECHOFAILURE |-> 4,
          LCP_MRU |-> 1500, LCP_MRU_PPPoE |-> 1492, LCP_MRU_PPTP |-> 1500, LCP_MRU_L2TP |-> 1500,
          LCP_MTU |-> 1500, LCP_MTU_PPPoE |-> 1492, LCP_MTU_PPTP |-> 1448, LCP_MTU_L2TP |-> 1280,
          LCP_RCACCM |-> 0, LCP_TXACCM |-> 0, IPCP_HDRCOMP |-> 1, AUTH_PROTO |-> 0,
          DEV_NAME |-> <<2, 2>>, DEV_NAME_PPPoE |-> <<1, 1>>, DEV_CONNECTSCRIPT |-> <<2, 1>>]

MCOpts == {"DEV_SPEED", "DEV_DIALMODE", "COMM_TERMINALMODE", "COMM_IDLETIMER",
           "COMM_SESSIONTIMER", "COMM_REMINDERTIMER", "COMM_CONNECTDELAY",
           "LCP_HDRCOMP", "LCP_MRU", "LCP_MTU", "LCP_RCACCM", "LCP_TXACCM", "LCP_ECHO",
           "AUTH_PROTO", "AUTH_NAME", "AUTH_PASSWD",
           "IPCP_HDRCOMP", "IPCP_LOCALADDR", "IPCP_REMOTEADDR", "ALERTENABLE",
           "DEV_NAME", "DEV_CONNECTSCRIPT", "COMM_TERMINALSCRIPT", "COMM_REMOTEADDR",
           "LOGFILE", "DEV_CONNECTSPEED", "DIALONDEMAND", "SERVICEID", "IFNAME"}

\* DIR_LOGS, one character long here, so that a two-character log file name
\* makes the strncpy of PPP_OPT_LOGFILE overlap.
MCDirLogs == <<Slash>>
MCServiceID == <<1, 2>>

\* 10.0.0.1 and 10.0.0.2.
MCAddr1 == 167772161
MCAddr2 == 167772162

MCInputs == [o \in MCOpts |->
    CASE o = "DEV_SPEED" -> {1000, 9600, 70000}
      [] o = "DEV_DIALMODE" -> {0, 1, 2}
      [] o = "COMM_TERMINALMODE" -> {0, 1, 2}
      [] o = "COMM_IDLETIMER" -> {0, 300}
      [] o = "LCP_HDRCOMP" -> {0, 1, 2, 3}
      [] o = "COMM_SESSIONTIMER" -> {0, 60}
      [] o = "COMM_REMINDERTIMER" -> {0, 60}
      [] o = "COMM_CONNECTDELAY" -> {5}
      [] o = "LCP_MRU" -> {1400}
      [] o = "LCP_MTU" -> {1400}
      [] o = "LCP_RCACCM" -> {10}
      [] o = "LCP_TXACCM" -> {10}
      [] o = "LCP_ECHO" -> {[interval |-> 5, failure |-> 3]}
      [] o = "AUTH_PROTO" -> {0, 1, 3, 9}
      [] o = "AUTH_NAME" -> {<<1, 2>>, <<1, 0, 2>>, <<1, 2, 1>>}
      [] o = "AUTH_PASSWD" -> {<<>>, <<1>>, <<0, 1>>}
      [] o = "IPCP_HDRCOMP" -> {0, 2}
      [] o = "IPCP_LOCALADDR" -> {MCAddr1}
      [] o = "IPCP_REMOTEADDR" -> {MCAddr1}
      [] o = "ALERTENABLE" -> {0, 7}
      [] o = "DEV_NAME" -> {<<1, 2, 1>>}
      [] o = "DEV_CONNECTSCRIPT" -> {<<1>>}
      [] o = "COMM_TERMINALSCRIPT" -> {<<2, 0>>}
      [] o = "COMM_REMOTEADDR" -> {<<1, 2>>}
      [] o = "LOGFILE" -> {<<1>>}
      [] o \in {"SERVICEID", "IFNAME"} -> {<<1>>}
      [] o \in {"DEV_CONNECTSPEED", "DIALONDEMAND"} -> {1}]

\* A service with nothing in its setup, and one whose setup (as the
\* preferences would hold it) has a value under every key.
MCFullSetup ==
    [Speed |-> 9600, DialMode |-> "Manual", DisplayTerminalWindow |-> 1,
     UseTerminalScript |-> 0, DisconnectOnIdleTimer |-> 600, DisconnectOnIdle |-> 1,
     PField |-> 0, ACField |-> 0, EchoEnabled |-> 1, EchoInterval |-> 20,
     EchoFailure |-> 5, Addresses |-> <<AddrString(MCAddr2)>>,
     SessionTimer |-> 120, UseSessionTimer |-> 1, IdleReminderTimer |-> 120,
     IdleReminder |-> 1, ConnectDelay |-> 2, MRU |-> 1200, MTU |-> 1200,
     ReceiveACCM |-> 3, TransmitACCM |-> 3, CompressionVJ |-> 0,
     DestAddresses |-> <<AddrString(MCAddr2)>>, AlertEnable |-> 1,
     AuthProtocol |-> <<"CHAP">>, AuthName |-> <<2>>, AuthPassword |-> <<2>>,
     DeviceName |-> <<2>>, ConnectionScript |-> <<2>>, TerminalScript |-> <<2>>,
     RemoteAddress |-> <<2>>, Logfile |-> <<1, 2>>, ConnectSpeed |-> 28800,
     DialOnDemand |-> 1]
MCSetups == {[k \in Keys |-> Missing], MCFullSetup}

====

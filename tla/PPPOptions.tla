----------------------------- MODULE PPPOptions -----------------------------
(***************************************************************************)
(* The option store of the PPP controller as one client of the local      *)
(* socket sees it: PPP_SETOPTION (socket_setoption) writes the client's    *)
(* private option set for the service, PPP_GETOPTION (socket_getoption,    *)
(* ppp_getoptval in ppp_getoption.c) reads an option back through the      *)
(* tiers: the option set, then the service's persisted setup, then the    *)
(* default.  The session stays idle (phase PPP_IDLE), so the live-state   *)
(* tier is not consulted and GETOPTION reads the client's own set.         *)
(*                                                                         *)
(* An option set maps a key (one entity/property pair of the code, such as *)
(* PPP/DisconnectOnIdle) to a value or to Missing.  A string option is a  *)
(* sequence of characters, 0 being the NUL; an address string "a.b.c.d" is *)
(* the tuple <<a, b, c, d>>; a value the code formats as a constant string  *)
(* (a dial mode, an authentication protocol) is a model string.            *)
(***************************************************************************)
EXTENDS Integers, Sequences, SequencesExt, Bitwise

CONSTANTS
    Opts,        \* the option types (o_type) the client uses
    Inputs,      \* Inputs[o]: the values the client sends for option o
    Setups,      \* the persisted setups the service may have
    Swaps,       \* the choices of CLIENT_FLAG_SWAP_BYTES for the client
    Def,         \* the OPT_..._DEF defaults of ppp_option.h, by name
    Subtype,     \* ppp->subtype: "serial", "PPPoE", "PPTP" or "L2TP"
    OptStrLen,   \* OPT_STR_LEN: the buffer of a string option's value
    PPP_AUTH_NONE, PPP_AUTH_PAP, PPP_AUTH_CHAP, PPP_AUTH_PAPCHAP,
    EINVAL, EOPNOTSUPP,
    DirLogs,     \* DIR_LOGS, the directory a relative log file name is put in
    ServiceID,   \* ppp->serviceID, as a string
    IfName,      \* ppp->name and ppp->ifunit as "%s%d", or 0 without an interface
    PPP_LCP_HDRCOMP_ADDR, PPP_LCP_HDRCOMP_PROTO,
    PPP_COMM_TERM_NONE, PPP_COMM_TERM_SCRIPT, PPP_COMM_TERM_WINDOW,
    PPP_DEV_WAITFORDIALTONE, PPP_DEV_IGNOREDIALTONE, PPP_DEV_MANUALDIAL,
    Missing,     \* no value under a key
    None

Keys == {"Speed", "DialMode", "DisplayTerminalWindow", "UseTerminalScript",
         "DisconnectOnIdleTimer", "DisconnectOnIdle", "PField", "ACField",
         "EchoEnabled", "EchoInterval", "EchoFailure", "Addresses",
         "SessionTimer", "UseSessionTimer", "IdleReminderTimer", "IdleReminder",
         "ConnectDelay", "MRU", "MTU", "ReceiveACCM", "TransmitACCM",
         "CompressionVJ", "DestAddresses", "AlertEnable", "AuthProtocol",
         "AuthName", "AuthPassword", "DeviceName", "ConnectionScript",
         "TerminalScript", "RemoteAddress", "Logfile", "ConnectSpeed", "DialOnDemand"}

VARIABLES
    swap,      \* CLIENT_FLAG_SWAP_BYTES: the client writes in network order
    setup,     \* the service's persisted setup
    optset,    \* the client's option set for the service (None: not created)
    lastset,   \* lastset[o]: the value of the client's last successful set of o
    reply      \* the last GETOPTION answer, as the client reads it

vars == <<swap, setup, optset, lastset, reply>>

EmptySet == [k \in Keys |-> Missing]

\* A u_int16_t read in the other byte order.
Swap16(x) == (x % 256) * 256 + x \div 256

\* The dotted-quad string of CFStringCreateWithFormat("%d.%d.%d.%d",
\* optint >> 24, ...) and CFStringAddrToLong reading it back.
AddrString(x) == <<x \div 2^24, (x \div 2^16) % 256, (x \div 2^8) % 256, x % 256>>
AddrToLong(q) == ((q[1] * 256 + q[2]) * 256 + q[3]) * 256 + q[4]

Init ==
    /\ swap \in Swaps
    /\ setup \in Setups
    /\ optset = None
    /\ lastset = [o \in Opts |-> None]
    /\ reply = None

TypeOK ==
    /\ swap \in BOOLEAN
    /\ setup \in Setups
    /\ optset = None \/ DOMAIN optset = Keys
    /\ lastset \in [Opts -> UNION {Inputs[o] : o \in Opts} \cup {None}]
    /\ reply = None \/ (reply.opt \in Opts /\ (reply.val \in Nat \/ reply.val \in Seq(Nat \cup {"*"})))

-----------------------------------------------------------------------------
(* socket_setoption.                                                       *)

\* set_long_opt with limit set: the value clamped into mini .. maxi (a maxi
\* of 0xFFFFFFFF is above every u_int32_t and is left out), stored under k
\* by prepare_entity, which first removes what was there.  (A failed
\* allocation returns ENOMEM, or leaves the key removed: not modelled.)
Clamp01(v) == IF v > 1 THEN 1 ELSE v
prepare_entity(s, k) == [s EXCEPT ![k] = Missing]
SetLongOpt(s, k, v) == [prepare_entity(s, k) EXCEPT ![k] = v]

\* set_str_opt: the string optref when given; else o_data[len] = 0 and
\* CFStringCreateWithCString, so the string stored is the bytes of o_data
\* before the first NUL.
CString(str) ==
    LET nul == SelectInSeq(str, LAMBDA ch : ch = 0)
    IN  IF nul = 0 THEN str ELSE SubSeq(str, 1, nul - 1)
SetStrOpt(s, k, str, optref) == [prepare_entity(s, k) EXCEPT ![k] = IF optref # None THEN optref ELSE CString(str)]

\* set_array_opt: an array of the one or two strings given.
SetArrayOpt(s, k, str1, str2) ==
    [prepare_entity(s, k) EXCEPT ![k] = (IF str1 = None THEN <<>> ELSE <<str1>>)
                     \o (IF str2 = None THEN <<>> ELSE <<str2>>)]

\* remove_opt.
RemoveOpt(s, k) == [s EXCEPT ![k] = Missing]

\* The speed ladder of PPP_OPT_DEV_SPEED: the next higher standard speed.
\* Its repeated test of 38400 < speed <= 57600 is never reached.
SpeedLadder(v) ==
    CASE v <= 1200  -> 1200  [] v <= 2400  -> 2400  [] v <= 9600 -> 9600
      [] v <= 19200 -> 19200 [] v <= 38400 -> 38400 [] v <= 57600 -> 57600
      [] OTHER -> 115200

\* The two strings of PPP_OPT_AUTH_PROTO (None: no string; an unknown
\* value is EINVAL and stores nothing).
AuthStrings(v) ==
    CASE v = PPP_AUTH_NONE -> <<"None", None>>
      [] v = PPP_AUTH_PAP -> <<"PAP", None>>
      [] v = PPP_AUTH_CHAP -> <<None, "CHAP">>
      [] v = PPP_AUTH_PAPCHAP -> <<"PAP", "CHAP">>
      [] OTHER -> <<None, None>>

\* The option types the switch of socket_setoption stores; PPP_OPT_LOGFILE
\* and every other type are EOPNOTSUPP.
Settable == {"DEV_NAME", "DEV_SPEED", "DEV_CONNECTSCRIPT", "DEV_DIALMODE",
             "COMM_TERMINALMODE", "COMM_TERMINALSCRIPT", "COMM_REMOTEADDR",
             "COMM_IDLETIMER", "COMM_SESSIONTIMER", "COMM_REMINDERTIMER",
             "COMM_CONNECTDELAY", "LCP_HDRCOMP", "LCP_MRU", "LCP_MTU", "LCP_RCACCM",
             "LCP_TXACCM", "LCP_ECHO", "AUTH_PROTO", "AUTH_NAME", "AUTH_PASSWD",
             "IPCP_HDRCOMP", "IPCP_REMOTEADDR", "IPCP_LOCALADDR", "ALERTENABLE"}

\* The m_result of socket_setoption for option o and value v.
SetErr(o, v) ==
    CASE o \notin Settable -> EOPNOTSUPP
      [] o = "AUTH_PROTO" /\ AuthStrings(v) = <<None, None>> -> EINVAL
      [] OTHER -> 0

\* One case of the switch on o_type: the option set after it.  optint has
\* been swapped back for a network-order client; the two u_int16_t fields
\* of struct ppp_opt_echo are read from o_data as they came.  "a || b" of
\* two set_long_opt calls runs both when the first succeeds.
SetOpt(s, o, v) ==
    CASE o = "DEV_NAME" -> SetStrOpt(s, "DeviceName", v, None)
      [] o = "DEV_SPEED" -> SetLongOpt(s, "Speed", SpeedLadder(v))
      [] o = "DEV_CONNECTSCRIPT" -> SetStrOpt(s, "ConnectionScript", v, None)
      [] o = "DEV_DIALMODE" ->
            SetStrOpt(s, "DialMode", <<>>, CASE v = PPP_DEV_IGNOREDIALTONE -> "IgnoreDialTone"
                                           [] v = PPP_DEV_MANUALDIAL -> "Manual"
                                           [] OTHER -> "WaitForDialTone")
      [] o = "COMM_TERMINALMODE" ->
            CASE v = PPP_COMM_TERM_NONE ->
                    RemoveOpt(RemoveOpt(s, "DisplayTerminalWindow"), "UseTerminalScript")
              [] v = PPP_COMM_TERM_SCRIPT ->
                    SetLongOpt(SetLongOpt(s, "UseTerminalScript", 1), "DisplayTerminalWindow", 0)
              [] v = PPP_COMM_TERM_WINDOW ->
                    SetLongOpt(SetLongOpt(s, "UseTerminalScript", 0), "DisplayTerminalWindow", 1)
              [] OTHER -> s
      [] o = "COMM_TERMINALSCRIPT" -> SetStrOpt(s, "TerminalScript", v, None)
      [] o = "COMM_REMOTEADDR" -> SetStrOpt(s, "RemoteAddress", v, None)
      [] o = "COMM_IDLETIMER" ->
            SetLongOpt(SetLongOpt(s, "DisconnectOnIdleTimer", v), "DisconnectOnIdle", Clamp01(v))
      [] o = "COMM_SESSIONTIMER" ->
            SetLongOpt(SetLongOpt(s, "SessionTimer", v), "UseSessionTimer", Clamp01(v))
      [] o = "COMM_REMINDERTIMER" ->
            SetLongOpt(SetLongOpt(s, "IdleReminderTimer", v), "IdleReminder", Clamp01(v))
      [] o = "COMM_CONNECTDELAY" -> SetLongOpt(s, "ConnectDelay", v)
      [] o = "LCP_HDRCOMP" ->
            SetLongOpt(SetLongOpt(s, "PField", Clamp01(v & PPP_LCP_HDRCOMP_PROTO)),
                       "ACField", Clamp01(v & PPP_LCP_HDRCOMP_ADDR))
      [] o = "LCP_MRU" -> SetLongOpt(s, "MRU", v)
      [] o = "LCP_MTU" -> SetLongOpt(s, "MTU", v)
      [] o = "LCP_RCACCM" -> SetLongOpt(s, "ReceiveACCM", v)
      [] o = "LCP_TXACCM" -> SetLongOpt(s, "TransmitACCM", v)
      [] o = "LCP_ECHO" ->
            LET raw(x) == IF swap THEN Swap16(x) ELSE x
            IN  SetLongOpt(SetLongOpt(s, "EchoInterval", raw(v.interval)), "EchoFailure", raw(v.failure))
      [] o = "AUTH_PROTO" ->
            IF AuthStrings(v) = <<None, None>> THEN s
            ELSE SetArrayOpt(s, "AuthProtocol", AuthStrings(v)[1], AuthStrings(v)[2])
      [] o = "AUTH_NAME" -> SetStrOpt(s, "AuthName", v, None)
      [] o = "AUTH_PASSWD" -> SetStrOpt(s, "AuthPassword", v, None)
      [] o = "IPCP_HDRCOMP" -> SetLongOpt(s, "CompressionVJ", Clamp01(v))
      [] o = "IPCP_REMOTEADDR" -> SetArrayOpt(s, "DestAddresses", AddrString(v), None)
      [] o = "IPCP_LOCALADDR" -> SetArrayOpt(s, "Addresses", AddrString(v), None)
      [] o = "ALERTENABLE" -> SetLongOpt(s, "AlertEnable", v)
      [] OTHER -> s

\* PPP_SETOPTION: the client's set is found, or created empty on its first
\* option, and the option stored; m_result is SetErr.  (A failed
\* allocation of the set stores nothing and returns ENOMEM: a step that
\* changes no state.)
socket_setoption(o, v) ==
    /\ optset' = SetOpt(IF optset = None THEN EmptySet ELSE optset, o, v)
    /\ lastset' = IF SetErr(o, v) = 0 THEN [lastset EXCEPT ![o] = v] ELSE lastset
    /\ UNCHANGED <<swap, setup, reply>>

-----------------------------------------------------------------------------
(* socket_getoption and ppp_getoptval.                                     *)

\* The value under key k in the option set, if there is one.
InSet(k) == optset # None /\ optset[k] # Missing

\* get_int_option and get_str_option while idle: the option set, then the
\* setup (getNumberFromEntity in the setup domain), then the default.
GetOption(k, default) ==
    IF InSet(k) THEN optset[k] ELSE IF setup[k] # Missing THEN setup[k] ELSE default

\* get_addr_option: the first address of the array in the option set, then
\* the setup's, then 0.
GetAddrOption(k) ==
    IF InSet(k) /\ Len(optset[k]) > 0 THEN AddrToLong(Head(optset[k]))
    ELSE IF setup[k] # Missing THEN AddrToLong(Head(setup[k])) ELSE 0

\* get_str_option: the same tiers; getString and getStringFromEntity copy
\* at most OPT_STR_LEN - 1 characters into the caller's buffer.
Bounded(str) == IF Len(str) < OptStrLen THEN str ELSE SubSeq(str, 1, OptStrLen - 1)
GetStrOption(k, default) == Bounded(GetOption(k, default))

\* The character '/'.
Slash == 47

\* PPP_OPT_LOGFILE reads the persisted setup only, never the option set.  A
\* relative name is moved up by strncpy(popt + lval, popt, *plen) and
\* DIR_LOGS copied in front.  The two regions of that strncpy overlap once
\* the name is longer than DIR_LOGS, which is undefined: the build may copy
\* as memmove would, or byte by byte forwards, which repeats the name's
\* first lval characters.  (A name and DIR_LOGS longer together than
\* OPT_STR_LEN + 1 run past optdata.)
LogfileVals ==
    LET name == IF setup["Logfile"] # Missing THEN Bounded(setup["Logfile"]) ELSE <<>>
        lval == Len(DirLogs)
        forward == [i \in 1 .. Len(name) |-> name[((i - 1) % lval) + 1]]
    IN  IF name = <<>> \/ name[1] = Slash THEN {name}
        ELSE {DirLogs \o name, DirLogs \o forward}

\* The default MRU and MTU of ppp_getoptval for the service's subtype.
LinkDefault(kind) ==
    IF Subtype \in {"PPPoE", "PPTP", "L2TP"} THEN Def[kind \o "_" \o Subtype] ELSE Def[kind]

\* A pair of get_int_option calls: the value of k when the switch key
\* "on" is set, else 0 (the *lopt = 0 ppp_getoptval starts from).
Switched(on, k, default) == IF GetOption(on, 0) # 0 THEN GetOption(k, default) ELSE 0

\* The second half of the switch of ppp_getoptval: LCP echo, the AUTH,
\* IPCP and miscellaneous options.  A password is never returned: its
\* reply is "*" when one is known, else empty.
GetOptValRest(o) ==
    CASE o = "LCP_ECHO" ->
            IF GetOption("EchoEnabled", 0) # 0
            THEN GetOption("EchoInterval", Def["LCP_ECHOINTERVAL"]) * 2^16
                   + GetOption("EchoFailure", Def["LCP_ECHOFAILURE"])
            ELSE 0
      [] o = "AUTH_PROTO" -> Def["AUTH_PROTO"]
      [] o = "AUTH_NAME" -> GetStrOption("AuthName", <<>>)
      [] o = "AUTH_PASSWD" -> IF GetStrOption("AuthPassword", <<>>) # <<>> THEN <<"*">> ELSE <<>>
      [] o = "IPCP_HDRCOMP" -> GetOption("CompressionVJ", Def["IPCP_HDRCOMP"])
      [] o = "IPCP_LOCALADDR" -> GetAddrOption("Addresses")
      [] o = "IPCP_REMOTEADDR" -> GetAddrOption("DestAddresses")
      [] o = "ALERTENABLE" -> GetOption("AlertEnable", 2^32 - 1)
      [] o = "DIALONDEMAND" -> GetOption("DialOnDemand", 0)
      [] o = "SERVICEID" -> ServiceID
      [] o = "IFNAME" -> IfName

\* ppp_getoptval: the value the reply carries for option o.
GetOptVal(o) ==
    CASE o = "DEV_NAME" ->
            GetStrOption("DeviceName", CASE Subtype = "serial" -> Def["DEV_NAME"]
                                         [] Subtype = "PPPoE" -> Def["DEV_NAME_PPPoE"]
                                         [] OTHER -> <<>>)
      [] o = "DEV_SPEED" ->
            IF Subtype = "serial" THEN GetOption("Speed", Def["DEV_SPEED"]) ELSE 0
      [] o = "DEV_CONNECTSCRIPT" ->
            GetStrOption("ConnectionScript", IF Subtype = "serial" THEN Def["DEV_CONNECTSCRIPT"] ELSE <<>>)
      [] o = "DEV_CONNECTSPEED" ->
            IF Subtype = "serial" THEN GetOption("ConnectSpeed", 0) ELSE 0
      [] o = "DEV_DIALMODE" ->
            LET str == GetOption("DialMode", "")
            IN  CASE str = "IgnoreDialTone" -> PPP_DEV_IGNOREDIALTONE
                  [] str = "Manual" -> PPP_DEV_MANUALDIAL
                  [] OTHER -> PPP_DEV_WAITFORDIALTONE
      [] o = "COMM_TERMINALMODE" ->
            IF GetOption("DisplayTerminalWindow", 0) # 0 THEN PPP_COMM_TERM_WINDOW
            ELSE IF GetOption("UseTerminalScript", 0) # 0 THEN PPP_COMM_TERM_SCRIPT
            ELSE Def["COMM_TERMINALMODE"]
      [] o = "COMM_TERMINALSCRIPT" -> GetStrOption("TerminalScript", <<>>)
      [] o = "COMM_REMOTEADDR" -> GetStrOption("RemoteAddress", <<>>)
      [] o = "COMM_IDLETIMER" ->
            Switched("DisconnectOnIdle", "DisconnectOnIdleTimer", Def["COMM_IDLETIMER"])
      [] o = "COMM_SESSIONTIMER" ->
            Switched("UseSessionTimer", "SessionTimer", Def["COMM_SESSIONTIMER"])
      [] o = "COMM_REMINDERTIMER" ->
            Switched("IdleReminder", "IdleReminderTimer", Def["COMM_REMINDERTIMER"])
      [] o = "COMM_CONNECTDELAY" -> GetOption("ConnectDelay", Def["COMM_CONNECTDELAY"])
      [] o = "LCP_HDRCOMP" ->
            GetOption("ACField", Def["LCP_PCOMP"]) + 2 * GetOption("PField", Def["LCP_ACCOMP"])
      [] o = "LCP_MRU" -> GetOption("MRU", LinkDefault("LCP_MRU"))
      [] o = "LCP_MTU" -> GetOption("MTU", LinkDefault("LCP_MTU"))
      [] o = "LCP_RCACCM" -> GetOption("ReceiveACCM", Def["LCP_RCACCM"])
      [] o = "LCP_TXACCM" -> GetOption("TransmitACCM", Def["LCP_TXACCM"])
      [] OTHER -> GetOptValRest(o)

\* PPP_GETOPTION while idle: the client's set (or none) is read through
\* ppp_getoptval.  The reply swaps every 4-byte option for a network-order
\* client, who swaps it back, and copies strings as they are: the client
\* reads the value itself.
socket_getoption(o) ==
    /\ \E val \in (IF o = "LOGFILE" THEN LogfileVals ELSE {GetOptVal(o)}) :
          reply' = [opt |-> o, val |-> val]
    /\ UNCHANGED <<swap, setup, optset, lastset>>

Next ==
    \E o \in Opts :
        \/ \E v \in Inputs[o] : socket_setoption(o, v)
        \/ socket_getoption(o)

Spec == Init /\ [][Next]_vars

-----------------------------------------------------------------------------
(* Properties.                                                             *)

\* The serial speeds the spec lists; a set speed is snapped to the least of
\* them at or above it, or to 115200.
SpecSpeeds == {1200, 2400, 9600, 19200, 38400, 57600}
Snapped(v) ==
    LET above == {l \in SpecSpeeds : v <= l}
    IN  IF above = {} THEN 115200 ELSE CHOOSE l \in above : \A m \in above : l <= m

\* What the spec says a lookup returns after a set of v: the value set, as
\* the setter validates it (the speed snapped, a flag clamped to 0 .. 1, a
\* string bounded to its buffer); for a password, only whether one is set.
Expected(o, v) ==
    CASE o = "DEV_SPEED" -> Snapped(v)
      [] o = "LCP_ECHO" -> v.interval * 2^16 + v.failure
      [] o = "IPCP_HDRCOMP" -> Clamp01(v)
      [] o \in {"AUTH_NAME", "DEV_NAME", "DEV_CONNECTSCRIPT", "COMM_TERMINALSCRIPT", "COMM_REMOTEADDR"} ->
            IF Len(CString(v)) < OptStrLen THEN CString(v) ELSE SubSeq(CString(v), 1, OptStrLen - 1)
      [] o = "AUTH_PASSWD" -> IF CString(v) # <<>> THEN <<"*">> ELSE <<>>
      [] OTHER -> v

\* Round trip of the option store (spec section 8): while the session is
\* idle, once the client has set an option with PPP_SETOPTION, PPP_GETOPTION
\* of it answers the value the client last set, whatever the service's
\* setup holds and in either byte order of the client.
RoundTrip ==
    \A o \in Opts : lastset[o] # None => GetOptVal(o) = Expected(o, lastset[o])

====

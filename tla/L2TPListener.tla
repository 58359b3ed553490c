---------------------------- MODULE L2TPListener ----------------------------
(***************************************************************************)
(* How an L2TP server takes in a new tunnel.  vpnd's L2TP plugin           *)
(* (L2TP-vpn/main.c) opens a listening rfc with tunnel id 0.  Each         *)
(* initial request (SCCRQ, ns 0, tunnel id 0) that l2tp_rfc_lower_input    *)
(* routes to it is kept twice by the listener case of l2tp_handle_control: *)
(* a copy on the listener's recv_queue, and the frame itself in the        *)
(* listening socket's receive buffer.  When the socket turns readable      *)
(* vpnd either accepts (l2tpvpn_accept) or refuses (l2tpvpn_refuse): it    *)
(* opens a new socket, moves the queued copy to it with L2TP_OPT_ACCEPT    *)
(* (l2tp_rfc_accept), and reads the duplicate from the listening socket.   *)
(* The kernel runs the input path between these two system calls.          *)
(*                                                                         *)
(* Peers are the L2TP clients; each call's SCCRQ may be retransmitted,    *)
(* which also stands for a datagram UDP duplicated.                       *)
(*                                                                         *)
(* Before that, vpnd loads the plugin (start, which opens listen_sockfd,   *)
(* loading the kext if need be), reads the server's settings              *)
(* (l2tpvpn_get_pppd_args, again on every reload) and calls              *)
(* l2tpvpn_listen, which installs the IPSec policies unless the transport *)
(* is plain IP.  The order of these calls is vpnd's (not in the           *)
(* repository): phase.  A settings dictionary is a model value.          *)
(***************************************************************************)
EXTENDS Integers, Sequences, FiniteSets

CONSTANTS
    Calls,         \* the tunnels peers try to set up (model values)
    MaxSends,      \* bound: SCCRQ transmissions per call (first + retries)
    ListenBufCap,  \* datagrams the listening socket's buffer holds
    Configs,       \* server settings vpnd may pass: [server, ip, dict]
    ListenSetups,  \* outcomes of set_flag and l2tp_set_ouraddress in
                   \* l2tpvpn_listen: TRUE both took effect, FALSE one failed
    None           \* no datagram, no dictionary

ASSUME /\ MaxSends \in Nat \ {0} /\ ListenBufCap \in Nat \ {0}
       /\ ListenSetups \subseteq BOOLEAN

VARIABLES
    net,          \* SCCRQ datagrams in flight to the server
    sends,        \* sends[c]: SCCRQ transmissions of call c so far
    listening,    \* the listening rfc exists (l2tpvpn_listen .. l2tpvpn_close)
    recv_queue,   \* the listener rfc's recv_queue
    listen_buf,   \* the listening socket's receive buffer
    vpnd,         \* where vpnd is: "idle", or between L2TP_OPT_ACCEPT and recvfrom
    moved,        \* the frame l2tp_rfc_accept gave the new socket (or None)
    launched,     \* accepted sockets vpnd returned, in order: the frame each
                  \* holds and the duplicate read off the listening socket
    phase,        \* vpnd's use of the plugin: "start", "args", "listen",
                  \* "serving", "closed", "dead" (a call returned -1) or "crashed"
    sockfd,       \* listen_sockfd is open
    opt_noipsec,  \* opt_noipsec
    ipsec_settings, \* ipsec_settings: a dictionary or None
    ipsec_dict    \* ipsec_dict: the policies installed, or None

vars == <<net, sends, listening, recv_queue, listen_buf, vpnd, moved, launched,
          phase, sockfd, opt_noipsec, ipsec_settings, ipsec_dict>>
plugin == <<phase, sockfd, opt_noipsec, ipsec_settings, ipsec_dict>>

\* An SCCRQ: the call it opens and which transmission it is.
Datagram == [call : Calls, copy : 1 .. MaxSends]

-----------------------------------------------------------------------------
\* The plugin is loaded, nothing received.
Init ==
    /\ net = {}
    /\ sends = [c \in Calls |-> 0]
    /\ listening = FALSE
    /\ recv_queue = <<>>
    /\ listen_buf = <<>>
    /\ vpnd = "idle"
    /\ moved = None
    /\ launched = <<>>
    /\ phase = "start"
    /\ sockfd = FALSE
    /\ opt_noipsec = FALSE
    /\ ipsec_settings = None
    /\ ipsec_dict = None

TypeOK ==
    /\ net \subseteq Datagram
    /\ sends \in [Calls -> 0 .. MaxSends]
    /\ listening \in BOOLEAN
    /\ recv_queue \in Seq(Datagram) /\ listen_buf \in Seq(Datagram)
    /\ Len(listen_buf) <= ListenBufCap
    /\ vpnd \in {"idle", "accepting", "refusing"}
    /\ moved \in Datagram \cup {None}
    /\ launched \in Seq([sccrq : Datagram \cup {None}, dup : Datagram])
    /\ phase \in {"start", "args", "listen", "serving", "closed", "dead", "crashed"}
    /\ sockfd \in BOOLEAN /\ opt_noipsec \in BOOLEAN
    /\ ipsec_settings \in {cf.dict : cf \in Configs} \cup {None}
    /\ ipsec_dict \in {cf.dict : cf \in Configs} \cup {None}

-----------------------------------------------------------------------------
(* The peers.                                                              *)

\* A peer sends, or retransmits after its timeout, the SCCRQ of call c.
PeerSendSCCRQ(c) ==
    /\ sends[c] < MaxSends
    /\ sends' = [sends EXCEPT ![c] = @ + 1]
    /\ net' = net \cup {[call |-> c, copy |-> sends[c] + 1]}
    /\ UNCHANGED <<listening, recv_queue, listen_buf, vpnd, moved, launched, plugin>>

Lose(d) ==
    /\ d \in net
    /\ net' = net \ {d}
    /\ UNCHANGED <<sends, listening, recv_queue, listen_buf, vpnd, moved, launched, plugin>>

-----------------------------------------------------------------------------
(* The kernel.                                                             *)

InputAcceptedAtCap == Len(listen_buf) <= ListenBufCap

\* The input callback of the listening socket: the frame goes to the socket
\* buffer, or is refused when the buffer is full.
InputAccepted == Len(listen_buf) < ListenBufCap

RefusedCopyKept(q, d) == Append(q, d)

\* Queueing the copy and then, the socket having refused the frame, taking
\* it back off the tail of recv_queue.
RefusedCopyRemoved(q, d) == SubSeq(Append(q, d), 1, Len(q))

\* The listener case of l2tp_handle_control (tunnel id 0, ns 0; the listener
\* has no peer address): a copy is queued at the tail of recv_queue and the
\* frame handed up; if the socket refuses it, the copy is removed again.  A
\* failed M_DONTWAIT allocation of the element or of the copy drops the frame.
l2tp_handle_control_listener(d) ==
    \/ /\ InputAccepted
       /\ recv_queue' = Append(recv_queue, d)
       /\ listen_buf' = Append(listen_buf, d)
    \/ /\ ~InputAccepted
       /\ recv_queue' = RefusedCopyRemoved(recv_queue, d)
       /\ UNCHANGED listen_buf
    \/ /\ UNCHANGED <<recv_queue, listen_buf>>     \* _MALLOC or m_copy failed

\* l2tp_rfc_lower_input: a control frame goes to the first control rfc whose
\* l2tp_handle_control takes it; for tunnel id 0 that is the listener.  With
\* no listener the frame matches no rfc and is dropped.
l2tp_rfc_lower_input(d) ==
    /\ d \in net
    /\ net' = net \ {d}
    /\ \/ listening /\ l2tp_handle_control_listener(d)
       \/ ~listening /\ UNCHANGED <<recv_queue, listen_buf>>
    /\ UNCHANGED <<sends, listening, vpnd, moved, launched, plugin>>

\* l2tp_rfc_accept on the new rfc: the head of the first control rfc with
\* tunnel id 0 and a non-empty recv_queue (the listener) goes up to the new
\* socket, with our_nr = 1 and NEW_SEQUENCE set.
l2tp_rfc_accept ==
    IF recv_queue # <<>> THEN [frame |-> Head(recv_queue), rest |-> Tail(recv_queue)]
                         ELSE [frame |-> None, rest |-> recv_queue]

-----------------------------------------------------------------------------
(* Loading the plugin and setting up the listener.                         *)

\* load_kext: 1 when fork or waitpid fails; 0 otherwise, whatever kextload
\* did (the child's exit status is not looked at).
load_kext == {0, 1}

\* start: as part of a ppp bundle (pppref), socket(PF_PPP) is opened,
\* retrying on EINTR; if it fails, the kext is loaded and, if load_kext
\* returns 0, socket is tried again; still no socket returns -1.  As a
\* simple vpn bundle nothing is opened and start returns 0.
start ==
    /\ phase = "start"
    /\ \E pppref \in BOOLEAN, first \in BOOLEAN, k \in load_kext, second \in BOOLEAN :
          LET opened == pppref /\ (first \/ (k = 0 /\ second))
          IN  /\ sockfd' = opened
              /\ phase' = IF pppref /\ ~opened THEN "dead" ELSE "args"
    /\ UNCHANGED <<net, sends, listening, recv_queue, listen_buf, vpnd, moved, launched,
                   opt_noipsec, ipsec_settings, ipsec_dict>>

ReloadRefusedFlagOnly(noipsec, opt, dict) == noipsec # opt

\* The reload check: opt_noipsec changed, or the dictionary is not CFEqual
\* to ipsec_settings.
ReloadRefused(noipsec, opt, dict) == noipsec # opt \/ dict # ipsec_settings

\* l2tpvpn_get_pppd_args: with the server's settings (serverRef), a plain
\* IP transport sets opt_noipsec (nothing ever clears it) and the dictionary
\* is the IPSec one or is built from the L2TP entries (cf.dict); from the
\* command line the dictionary stays NULL.  A reload is refused (-1) when
\* opt_noipsec differs from its value before the call or the dictionary
\* from ipsec_settings; otherwise the dictionary becomes ipsec_settings.
\* vpnd reads the settings once before listening, and again on a reload.
l2tpvpn_get_pppd_args(cf, reload) ==
    /\ \/ phase = "args" /\ ~reload /\ phase' = "listen"
       \/ phase = "serving" /\ reload /\ UNCHANGED phase
    /\ LET noipsec == IF reload THEN opt_noipsec ELSE FALSE
           opt == opt_noipsec \/ (cf.server /\ cf.ip)
           dict == IF cf.server THEN cf.dict ELSE None
           refused == reload /\ ReloadRefused(noipsec, opt, dict)
       IN  /\ opt_noipsec' = opt
           /\ ipsec_settings' = IF refused THEN ipsec_settings ELSE dict
    /\ UNCHANGED <<net, sends, listening, recv_queue, listen_buf, vpnd, moved, launched,
                   sockfd, ipsec_dict>>

\* set_flag (getsockopt then setsockopt of L2TP_OPT_FLAGS, each retried on
\* EINTR, -1 on any other error) makes the socket a control rfc, and
\* l2tp_set_ouraddress binds it to the L2TP port (its setsockopt result not
\* looked at, 0 returned).  Only with both does the rfc take tunnel-id-0
\* frames: the outcome is one of ListenSetups.
set_flag_and_bind == ListenSetups

\* l2tpvpn_listen: -1 without a socket (listen_sockfd <= 0).  Otherwise
\* set_flag and l2tp_set_ouraddress, both results ignored: the rfc is the
\* listener if they took effect.
\* Unless opt_noipsec, the policies are made from ipsec_settings, read
\* with CFDictionaryGetValue, which crashes on NULL; applying or installing
\* them may fail, which removes them and returns -1.
l2tpvpn_listen ==
    /\ phase = "listen"
    /\ IF ~sockfd
       THEN /\ phase' = "dead" /\ UNCHANGED <<listening, ipsec_dict>>
       ELSE /\ listening' \in set_flag_and_bind
            /\ IF opt_noipsec THEN phase' = "serving" /\ UNCHANGED ipsec_dict
               ELSE IF ipsec_settings = None THEN phase' = "crashed" /\ UNCHANGED ipsec_dict
               ELSE \E installed \in BOOLEAN :
                       /\ phase' = IF installed THEN "serving" ELSE "dead"
                       /\ ipsec_dict' = IF installed THEN ipsec_settings ELSE None
    /\ UNCHANGED <<net, sends, recv_queue, listen_buf, vpnd, moved, launched,
                   sockfd, opt_noipsec, ipsec_settings>>

-----------------------------------------------------------------------------
(* vpnd's plugin.  vpnd calls accept or refuse when the listening socket   *)
(* is readable.  socket() failing returns -1 before any change.            *)

\* l2tpvpn_accept up to setsockopt(L2TP_OPT_ACCEPT); l2tpvpn_refuse up to
\* that call and the close of the new socket, which frees the new rfc (a
\* data rfc) at once together with the frame it got.
l2tpvpn_accept_or_refuse ==
    /\ phase = "serving" /\ vpnd = "idle" /\ listen_buf # <<>>
    /\ recv_queue' = l2tp_rfc_accept.rest
    /\ moved' = l2tp_rfc_accept.frame
    /\ vpnd' \in {"accepting", "refusing"}
    /\ UNCHANGED <<net, sends, listening, listen_buf, launched, plugin>>

\* The recvfrom(MSG_DONTWAIT) that reads the duplicate off the listening
\* socket; l2tpvpn_accept then returns the new socket, and vpnd launches
\* pppd on it.  The failure branch (both return -1, and l2tpvpn_accept does
\* not close the new socket) needs an empty buffer: vpnd is the socket's
\* only reader and found it readable, so it is not reached here.
l2tpvpn_recv_duplicate ==
    /\ vpnd \in {"accepting", "refusing"}
    /\ listen_buf # <<>>
    /\ listen_buf' = Tail(listen_buf)
    /\ launched' = IF vpnd = "accepting"
                   THEN Append(launched, [sccrq |-> moved, dup |-> Head(listen_buf)])
                   ELSE launched
    /\ vpnd' = "idle"
    /\ moved' = None
    /\ UNCHANGED <<net, sends, listening, recv_queue, plugin>>

\* l2tpvpn_close: the listening socket is closed (a close failing with
\* another error than EINTR loops as well); l2tp_rfc_free_client frees the
\* listener at once, with its queue.  The IPSec policies are removed and
\* ipsec_settings released.
l2tpvpn_close ==
    /\ phase = "serving" /\ vpnd = "idle"
    /\ phase' = "closed"
    /\ listening' = FALSE
    /\ recv_queue' = <<>>
    /\ listen_buf' = <<>>
    /\ sockfd' = FALSE
    /\ ipsec_dict' = None
    /\ ipsec_settings' = None
    /\ UNCHANGED <<net, sends, vpnd, moved, launched, opt_noipsec>>

Next ==
    \/ \E c \in Calls : PeerSendSCCRQ(c)
    \/ \E d \in net : l2tp_rfc_lower_input(d) \/ Lose(d)
    \/ l2tpvpn_accept_or_refuse
    \/ l2tpvpn_recv_duplicate
    \/ l2tpvpn_close
    \/ start
    \/ \E cf \in Configs, reload \in BOOLEAN : l2tpvpn_get_pppd_args(cf, reload)
    \/ l2tpvpn_listen

Spec == Init /\ [][Next]_vars

\* vpnd watches listen_sockfd, which l2tpvpn_listen returns, and calls the
\* plugin's accept or refuse whenever it is readable; each of those goes on
\* to its recvfrom in the same call.  The peers, the network, the kernel's
\* allocations and vpnd's reloads and close get no fairness.
FairSpec == Spec /\ WF_vars(l2tpvpn_accept_or_refuse) /\ WF_vars(l2tpvpn_recv_duplicate)

-----------------------------------------------------------------------------
(* Properties.                                                             *)

\* The IPSec policies follow the listener: while vpnd serves calls, the
\* listener exists and is protected by the policies of the settings in
\* force, unless opt_noipsec says the transport is plain IP; once the
\* plugin is closed or has failed, no policy is left installed.  At stake:
\* the reload check of l2tpvpn_get_pppd_args and the clean-up paths of
\* l2tpvpn_listen and l2tpvpn_close.
PoliciesFollowListener ==
    /\ phase = "serving" =>
          /\ listening
          /\ ipsec_dict = None => opt_noipsec
          /\ ipsec_dict # None => ipsec_dict = ipsec_settings
    /\ phase \in {"closed", "dead"} => ipsec_dict = None

\* l2tpvpn_listen never reads a NULL ipsec_settings: vpnd's reading of the
\* settings always leaves a dictionary, or opt_noipsec, before it listens.
NoCrash == phase # "crashed"

\* Every socket vpnd launches pppd on holds an initial request, and it is
\* the very request whose duplicate vpnd read off the listening socket for
\* it: recv_queue of the listener and the socket buffer stay in step
\* through refusals by a full buffer, failed allocations, refusals by vpnd
\* and kernel input arriving between L2TP_OPT_ACCEPT and recvfrom.
AcceptedMatchesDuplicate ==
    \A i \in DOMAIN launched :
        launched[i].sccrq # None /\ launched[i].sccrq = launched[i].dup

\* One tunnel per call: no two sockets vpnd launches pppd on were given an
\* initial request of the same call (RFC 2661 peers retransmit SCCRQ until
\* they get an answer).
OneTunnelPerCall ==
    \A i, j \in DOMAIN launched :
        i # j /\ launched[i].sccrq # None /\ launched[j].sccrq # None
            => launched[i].sccrq.call # launched[j].sccrq.call

InQueue(d) == \E i \in DOMAIN recv_queue : recv_queue[i] = d

\* Every copy the listener case of l2tp_handle_control queues on the
\* listener's recv_queue is eventually taken by an l2tp_rfc_accept or freed
\* with the listener.  vpnd is woken by the socket buffer, never by the
\* queue, so a copy kept without its frame in the buffer (the refused-input
\* path) would be held by the kernel for as long as the listener lives.
\* A plugin that failed or crashed ends vpnd's use of it: what becomes of
\* the listener then is the process's exit, which is not modelled.
QueuedCopiesTaken ==
    \A d \in Datagram : InQueue(d) ~> (~InQueue(d) \/ phase \in {"dead", "crashed"})

====

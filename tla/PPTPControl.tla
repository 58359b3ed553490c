---------------------------- MODULE PPTPControl ----------------------------
(***************************************************************************)
(* The PPTP control connection of the PPTP plugin (PPTP-plugin/pptp.c)    *)
(* between two hosts that both run it: the caller ("out") runs           *)
(* pptp_outgoing_call, the answering host ("in") pptp_incoming_call, over  *)
(* one TCP connection.  Once set up, each host's plugin calls             *)
(* pptp_data_in when the socket is readable and pptp_echo when its echo    *)
(* timer fires.                                                            *)
(*                                                                         *)
(* Each direction of the connection is the sequence of messages written   *)
(* to it; a reader's position is a byte offset into it, so a read that    *)
(* does not start at a message boundary decodes bytes of some other        *)
(* message.  pptp_send writes a whole message (its loop retries short      *)
(* writes), and TCP delivers the bytes in order.                           *)
(*                                                                         *)
(* The plugin that calls these functions (its connect, echo timer,         *)
(* hangup and pptp_received_echo_reply) is not in the repository: what it *)
(* does with their results is modelled from the spec and marked so.       *)
(***************************************************************************)
EXTENDS Integers, Sequences, SequencesExt, FiniteSets

CONSTANTS
    HdrBytes,      \* sizeof(struct pptp_header)
    BodyBytes,     \* BodyBytes[t]: the size of the struct of message type t
    CallId,        \* CallId[e]: ourcallid of host e
    Window,        \* Window[e]: ourwindow of host e
    Ppd,           \* Ppd[e]: ourppd of host e
    StaleErrno,    \* the values errno may hold when read returns 0
    EINTR,
    PPTP_START_CONTROL_CONNECTION_REQUEST, PPTP_START_CONTROL_CONNECTION_REPLY,
    PPTP_ECHO_REQUEST, PPTP_ECHO_REPLY,
    PPTP_OUTGOING_CALL_REQUEST, PPTP_OUTGOING_CALL_REPLY, PPTP_SET_LINK_INFO,
    KnownTypes,    \* the other types pptp_data_in names (3, 4, 9 .. 14)
    ForeignTypes,  \* those of KnownTypes a peer of another make sends in a call
    ForeignSenders, \* the hosts whose PPTP peer is of another make
    ForeignCloses, \* whether that peer closes the connection right after it
    PPTP_RESULT_SUCCESS, PPTP_OUTGOING_CALL_RESULT_CONNECTED,
    EXIT_PPTP_PROTOCOLERROR, EXIT_PPTP_STARTFAILED,
    MaxEchoes,     \* bound: echo requests each host sends
    None

Hosts == {"out", "in"}
Peer(e) == IF e = "out" THEN "in" ELSE "out"

ASSUME /\ HdrBytes \in Nat \ {0} /\ MaxEchoes \in Nat
       /\ CallId \in [Hosts -> Nat] /\ Window \in [Hosts -> Nat] /\ Ppd \in [Hosts -> Nat]

VARIABLES
    pc,        \* pc[e]: the step host e is at
    ret,       \* ret[e]: what its call setup returned (None while running)
    peer,      \* peer[e]: peercallid, peerwindow and peerppd as host e stored them
    wire,      \* wire[e]: the messages host e has written, in order
    pos,       \* pos[e]: the bytes of wire[Peer(e)] host e has read
    closed,    \* closed[e]: host e's plugin has closed the socket
    kill_link, \* kill_link[e]: set by the signal that cancels host e's pppd
    echoes,    \* echoes[e]: the identifiers of the echo requests e sent
    replies,   \* replies[e]: the identifiers pptp_received_echo_reply got at e
    desync     \* some read decoded a header that was not at a message boundary

vars == <<pc, ret, peer, wire, pos, closed, kill_link, echoes, replies, desync>>

-----------------------------------------------------------------------------
(* The byte stream.                                                        *)

Msg(t, f) == [type |-> t, f |-> f]
Size(m) == HdrBytes + BodyBytes[m.type]
StreamLen(s) == FoldLeft(LAMBDA n, m : n + Size(m), 0, s)

\* The message of stream s that starts at byte off, or None.
MsgAt(s, off) ==
    LET k == SelectInSeq([i \in 1 .. Len(s) |-> StreamLen(SubSeq(s, 1, i - 1))],
                         LAMBDA st : st = off)
    IN  IF k = 0 THEN None ELSE s[k]

Incoming(e) == wire[Peer(e)]
Avail(e) == StreamLen(Incoming(e)) - pos[e]

\* pptp_send: the header (len, types, magic cookie) and the request, in
\* one write loop.  A write to a socket whose peer has closed fails (-1).
pptp_send(e, t, f) ==
    IF closed[Peer(e)] THEN wire ELSE [wire EXCEPT ![e] = Append(@, Msg(t, f))]
SendFails(e) == closed[Peer(e)]

\* pptp_recv(fd, msg, rep, replen) from host e: the outcomes of reading a
\* header and then the replen bytes of the body, as records of the return
\* value (0, -1, -2 or -3), the message read, the new position and whether
\* the header was read off a message boundary.  No outcome means the call
\* is blocked.  A read that gets fewer bytes than it asked for (the end of
\* the stream, or a partial header) does not set errno, so what errno held
\* decides: EINTR loops (and returns -2 once kill_link is set), anything
\* else returns -1.  A blocked read is interrupted by the signal that sets
\* kill_link and returns -2.  Neither pptp_recv nor pptp_data_in looks at
\* hdr.len or the magic cookie.
RecvOutcomes(e, t) ==
    LET m == MsgAt(Incoming(e), pos[e])
        Out(r, msg, p, d) == [r |-> r, m |-> msg, pos |-> p, desync |-> d]
    IN
    IF Avail(e) >= HdrBytes
    THEN IF m # None /\ m.type = t
         THEN {Out(0, m, pos[e] + Size(m), FALSE)}
         ELSE {Out(-3, None, pos[e] + HdrBytes, m = None)}
    ELSE IF Avail(e) = 0 /\ ~closed[Peer(e)]
    THEN IF kill_link[e] THEN {Out(-2, None, pos[e], FALSE)} ELSE {}
    ELSE {Out(IF err # EINTR THEN -1 ELSE -2, None, pos[e], FALSE) :
            err \in {x \in StaleErrno : x # EINTR \/ kill_link[e]}}

\* What the plugin does with the return value of a call setup: on 0 the
\* data phase begins, otherwise it closes the socket.
Finish(e, r) ==
    /\ ret' = [ret EXCEPT ![e] = r]
    /\ pc' = [pc EXCEPT ![e] = IF r = 0 THEN "data" ELSE "closed"]
    /\ closed' = [closed EXCEPT ![e] = r # 0]

Init ==
    /\ pc = [e \in Hosts |-> IF e = "out" THEN "send_sccrq" ELSE "recv_sccrq"]
    /\ ret = [e \in Hosts |-> None]
    /\ peer = [e \in Hosts |-> None]
    /\ wire = [e \in Hosts |-> <<>>]
    /\ pos = [e \in Hosts |-> 0]
    /\ closed = [e \in Hosts |-> FALSE]
    /\ kill_link = [e \in Hosts |-> FALSE]
    /\ echoes = [e \in Hosts |-> {}]
    /\ replies = [e \in Hosts |-> {}]
    /\ desync = FALSE

-----------------------------------------------------------------------------
(* pptp_outgoing_call, one action per read it blocks in.  The writes do  *)
(* not block: each is done in the action of the read before it.          *)

Own(e) == [call_id |-> CallId[e], window |-> Window[e], ppd |-> Ppd[e]]

\* The start: the Start-Control-Connection-Request.
out_send_sccrq ==
    /\ pc["out"] = "send_sccrq"
    /\ wire' = pptp_send("out", PPTP_START_CONTROL_CONNECTION_REQUEST, [none |-> 0])
    /\ IF SendFails("out") THEN Finish("out", -1)
       ELSE pc' = [pc EXCEPT !["out"] = "recv_sccrp"] /\ UNCHANGED <<ret, closed>>
    /\ UNCHANGED <<peer, pos, kill_link, echoes, replies, desync>>

\* A failed read of pptp_recv mapped as pptp_outgoing_call maps it.
OutRecvErr(r) == IF r = -2 THEN -2 ELSE IF r = -3 THEN EXIT_PPTP_PROTOCOLERROR ELSE -1

\* The Start-Control-Connection-Reply: on success, send the
\* Outgoing-Call-Request with our call id, window and processing delay.
out_recv_sccrp ==
    /\ pc["out"] = "recv_sccrp"
    /\ \E o \in RecvOutcomes("out", PPTP_START_CONTROL_CONNECTION_REPLY) :
          /\ pos' = [pos EXCEPT !["out"] = o.pos]
          /\ desync' = (desync \/ o.desync)
          /\ IF o.r # 0 THEN Finish("out", OutRecvErr(o.r)) /\ UNCHANGED wire
             ELSE IF o.m.f.result # PPTP_RESULT_SUCCESS
             THEN Finish("out", EXIT_PPTP_STARTFAILED) /\ UNCHANGED wire
             ELSE /\ wire' = pptp_send("out", PPTP_OUTGOING_CALL_REQUEST, Own("out"))
                  /\ IF SendFails("out") THEN Finish("out", -1)
                     ELSE pc' = [pc EXCEPT !["out"] = "recv_ocrp"] /\ UNCHANGED <<ret, closed>>
    /\ UNCHANGED <<peer, kill_link, echoes, replies>>

\* *peercallid, *peerwindow and *peerppd from an Outgoing-Call-Reply.
PeerFromReplyPeerId(f) == [call_id |-> f.peer_call_id, window |-> f.window, ppd |-> f.ppd]
PeerFromReply(f) == [call_id |-> f.call_id, window |-> f.window, ppd |-> f.ppd]

\* The Outgoing-Call-Reply: on CONNECTED, store the peer's call id, window
\* and delay, and send the Set-Link-Info naming the peer's call id.
out_recv_ocrp ==
    /\ pc["out"] = "recv_ocrp"
    /\ \E o \in RecvOutcomes("out", PPTP_OUTGOING_CALL_REPLY) :
          /\ pos' = [pos EXCEPT !["out"] = o.pos]
          /\ desync' = (desync \/ o.desync)
          /\ IF o.r # 0 THEN Finish("out", OutRecvErr(o.r)) /\ UNCHANGED <<wire, peer>>
             ELSE IF o.m.f.result # PPTP_OUTGOING_CALL_RESULT_CONNECTED
             THEN Finish("out", EXIT_PPTP_STARTFAILED) /\ UNCHANGED <<wire, peer>>
             ELSE /\ peer' = [peer EXCEPT !["out"] = PeerFromReply(o.m.f)]
                  /\ wire' = pptp_send("out", PPTP_SET_LINK_INFO,
                                       [peer_call_id |-> peer'["out"].call_id])
                  /\ Finish("out", IF SendFails("out") THEN -1 ELSE 0)
    /\ UNCHANGED <<kill_link, echoes, replies>>

-----------------------------------------------------------------------------
(* pptp_incoming_call: every failure returns -1.                          *)

\* The Start-Control-Connection-Request: answer with a successful reply.
in_recv_sccrq ==
    /\ pc["in"] = "recv_sccrq"
    /\ \E o \in RecvOutcomes("in", PPTP_START_CONTROL_CONNECTION_REQUEST) :
          /\ pos' = [pos EXCEPT !["in"] = o.pos]
          /\ desync' = (desync \/ o.desync)
          /\ IF o.r # 0 THEN Finish("in", -1) /\ UNCHANGED wire
             ELSE /\ wire' = pptp_send("in", PPTP_START_CONTROL_CONNECTION_REPLY,
                                       [result |-> PPTP_RESULT_SUCCESS])
                  /\ IF SendFails("in") THEN Finish("in", -1)
                     ELSE pc' = [pc EXCEPT !["in"] = "recv_ocrq"] /\ UNCHANGED <<ret, closed>>
    /\ UNCHANGED <<peer, kill_link, echoes, replies>>

\* The Outgoing-Call-Request: store the caller's call id, window and delay,
\* and answer CONNECTED with our own and the caller's call id.
in_recv_ocrq ==
    /\ pc["in"] = "recv_ocrq"
    /\ \E o \in RecvOutcomes("in", PPTP_OUTGOING_CALL_REQUEST) :
          /\ pos' = [pos EXCEPT !["in"] = o.pos]
          /\ desync' = (desync \/ o.desync)
          /\ IF o.r # 0 THEN Finish("in", -1) /\ UNCHANGED <<wire, peer>>
             ELSE /\ peer' = [peer EXCEPT !["in"] = o.m.f]
                  /\ wire' = pptp_send("in", PPTP_OUTGOING_CALL_REPLY,
                                       [result |-> PPTP_OUTGOING_CALL_RESULT_CONNECTED,
                                        call_id |-> CallId["in"], peer_call_id |-> o.m.f.call_id,
                                        window |-> Window["in"], ppd |-> Ppd["in"]])
                  /\ Finish("in", IF SendFails("in") THEN -1 ELSE 0)
    /\ UNCHANGED <<kill_link, echoes, replies>>

-----------------------------------------------------------------------------
(* The data phase.                                                         *)

\* pptp_echo(fd, identifier), called by the plugin's echo timer with the
\* next identifier; the plugin closes the link when it fails.
pptp_echo(e) ==
    /\ pc[e] = "data" /\ ~closed[e]
    /\ Cardinality(echoes[e]) < MaxEchoes
    /\ LET id == Cardinality(echoes[e]) + 1
       IN  /\ wire' = pptp_send(e, PPTP_ECHO_REQUEST, [identifier |-> id])
           /\ echoes' = [echoes EXCEPT ![e] = @ \cup {id}]
    /\ closed' = [closed EXCEPT ![e] = SendFails(e)]
    /\ UNCHANGED <<pc, ret, peer, pos, kill_link, replies, desync>>

\* The reply pptp_data_in sends to an Echo-Request.
EchoReplyNoId(req) == [identifier |-> 0, result |-> PPTP_RESULT_SUCCESS]
EchoReply(req) == [identifier |-> req.f.identifier, result |-> PPTP_RESULT_SUCCESS]

\* The header read of pptp_data_in returns fewer bytes than a header.
HeaderShortAtEOF(e) == Avail(e) = 0
HeaderShort(e) == Avail(e) < HdrBytes

\* The size of the struct pptp_data_in reads the body of a message into.
BodyLenLinkInfoIgnored(t) == IF t = PPTP_SET_LINK_INFO THEN 0 ELSE BodyBytes[t]
BodyLen(t) == BodyBytes[t]

\* pptp_data_in(fd), called by the plugin when the socket is readable.  A
\* short read returns -1, on which the plugin closes the link.  An
\* Echo-Request is answered, an Echo-Reply is given to
\* pptp_received_echo_reply, the body of a Set-Link-Info is read and
\* ignored; of any other type only the header is read.
pptp_data_in(e) ==
    /\ pc[e] = "data" /\ ~closed[e]
    /\ Avail(e) > 0 \/ closed[Peer(e)]
    /\ LET m == MsgAt(Incoming(e), pos[e])
           type == IF m = None THEN None ELSE m.type
           Close == closed' = [closed EXCEPT ![e] = TRUE]
           BodyShort == Avail(e) < HdrBytes + BodyLen(type)
           Consume(n) == pos' = [pos EXCEPT ![e] = @ + n]
       IN
       \/ /\ HeaderShort(e)
          /\ Close
          /\ UNCHANGED <<wire, pos, replies, desync>>
       \/ /\ ~HeaderShort(e) /\ type = PPTP_ECHO_REQUEST
          /\ Consume(IF BodyShort THEN HdrBytes ELSE HdrBytes + BodyLen(type))
          /\ IF BodyShort THEN Close /\ UNCHANGED wire
             ELSE /\ wire' = pptp_send(e, PPTP_ECHO_REPLY, EchoReply(m))
                  /\ closed' = [closed EXCEPT ![e] = SendFails(e)]
          /\ UNCHANGED <<replies, desync>>
       \/ /\ ~HeaderShort(e) /\ type = PPTP_ECHO_REPLY
          /\ Consume(IF BodyShort THEN HdrBytes ELSE HdrBytes + BodyLen(type))
          /\ IF BodyShort THEN Close /\ UNCHANGED replies
             ELSE replies' = [replies EXCEPT ![e] = @ \cup {m.f.identifier}] /\ UNCHANGED closed
          /\ UNCHANGED <<wire, desync>>
       \/ /\ ~HeaderShort(e) /\ type = PPTP_SET_LINK_INFO
          /\ Consume(IF BodyShort THEN HdrBytes ELSE HdrBytes + BodyLen(type))
          /\ IF BodyShort THEN Close ELSE UNCHANGED closed
          /\ UNCHANGED <<wire, replies, desync>>
       \/ /\ ~HeaderShort(e)
          /\ type \notin {PPTP_ECHO_REQUEST, PPTP_ECHO_REPLY, PPTP_SET_LINK_INFO}
          /\ Consume(HdrBytes)
          /\ desync' = (desync \/ m = None)
          /\ UNCHANGED <<wire, closed, replies>>
    /\ UNCHANGED <<pc, ret, peer, kill_link, echoes>>

\* The plugin hangs up: it closes the socket of an established call.
Hangup(e) ==
    /\ pc[e] = "data" /\ ~closed[e]
    /\ closed' = [closed EXCEPT ![e] = TRUE]
    /\ UNCHANGED <<pc, ret, peer, wire, pos, kill_link, echoes, replies, desync>>

\* A peer of another make (RFC 2637) may send, during the call, a message
\* this plugin never sends: a Call-Disconnect-Notify before it closes the
\* connection, or a WAN-Error-Notify; once per call here.
ForeignMsg(e) ==
    /\ e \in ForeignSenders /\ pc[e] = "data" /\ ~closed[e]
    /\ \A i \in DOMAIN wire[e] : wire[e][i].type \notin ForeignTypes
    /\ \E t \in ForeignTypes : wire' = pptp_send(e, t, [none |-> 0])
    /\ closed' = [closed EXCEPT ![e] = ForeignCloses]
    /\ UNCHANGED <<pc, ret, peer, pos, kill_link, echoes, replies, desync>>

\* A signal cancels pppd while its call is being set up.
Cancel(e) ==
    /\ pc[e] \notin {"data", "closed"} /\ ~kill_link[e]
    /\ kill_link' = [kill_link EXCEPT ![e] = TRUE]
    /\ UNCHANGED <<pc, ret, peer, wire, pos, closed, echoes, replies, desync>>

Setup ==
    \/ out_send_sccrq \/ out_recv_sccrp \/ out_recv_ocrp
    \/ in_recv_sccrq \/ in_recv_ocrq

Next ==
    \/ Setup
    \/ \E e \in Hosts : pptp_data_in(e) \/ pptp_echo(e) \/ Hangup(e) \/ Cancel(e)
                       \/ ForeignMsg(e)

\* The setup runs while it can; the plugin's select loop calls pptp_data_in
\* whenever the socket is readable.  The echo timer, a hangup and a signal
\* may never happen.
Fairness ==
    /\ WF_vars(Setup)
    /\ \A e \in Hosts : WF_vars(pptp_data_in(e))

Spec == Init /\ [][Next]_vars /\ Fairness

-----------------------------------------------------------------------------
(* Properties.                                                             *)

TypeOK ==
    /\ pc \in [Hosts -> {"send_sccrq", "recv_sccrp", "recv_ocrp", "recv_sccrq",
                         "recv_ocrq", "data", "closed"}]
    /\ \A e \in Hosts : pos[e] \in 0 .. StreamLen(Incoming(e))
    /\ closed \in [Hosts -> BOOLEAN] /\ kill_link \in [Hosts -> BOOLEAN]
    /\ echoes \in [Hosts -> SUBSET (1 .. MaxEchoes)]
    /\ replies \in [Hosts -> SUBSET Nat]
    /\ desync \in BOOLEAN

\* Once a host's call setup has returned 0, it holds the peer's own call
\* id, receive window and processing delay: pptp_outgoing_call takes them
\* from the Outgoing-Call-Reply, pptp_incoming_call from the request, and
\* each side fills its message from its own values.
CallIdsAgree ==
    \A e \in Hosts : pc[e] = "data" => peer[e] = Own(Peer(e))

\* Every header either host decodes starts at a message boundary of the
\* stream, unless a peer of another make sent a message whose body
\* pptp_data_in leaves unread: between two hosts running this plugin the
\* setup reads and pptp_data_in consume exactly the messages written,
\* whatever the interleaving of echoes, setup and Set-Link-Info.
NoDesync ==
    desync => \E e \in Hosts : \E i \in DOMAIN wire[e] : wire[e][i].type \in ForeignTypes

\* The same without the exception: pptp_data_in stays aligned on every
\* message a peer may send.
StrictNoDesync == ~desync

\* Every echo request is eventually answered with its own identifier
\* (pptp_data_in of the peer copies it into the reply), unless one of the
\* hosts closes the connection.
EchoAnswered ==
    \A e \in Hosts, id \in 1 .. MaxEchoes :
        id \in echoes[e] ~> (id \in replies[e] \/ closed[e] \/ closed[Peer(e)])

====

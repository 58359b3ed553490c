---------------------------- MODULE PPPController ----------------------------
(***************************************************************************)
(* The request dispatcher of the PPP controller (ppp_socket_server.c) and  *)
(* what its clients read back.  Each client's messages are taken whole     *)
(* (the framing of the way in is PPPClientSocket's); processRequest runs   *)
(* the handler of the message's type and writes the reply, header first,  *)
(* on the client's stream.  pppd, the privileged client, posts events      *)
(* (PPPD_EVENT), which client_notify fans out to the clients that enabled  *)
(* them; socket_client_notify writes each as a header-only PPP_EVENT       *)
(* message on the same stream, between replies.                            *)
(*                                                                         *)
(* A u_int32_t is the pair <<high, low>> of its 16-bit halves, so that     *)
(* htonl is exact (the halves swapped and each byte-swapped) and           *)
(* m_link >> 16 is the high half.  The session list (ppp_head) and the     *)
(* effects of ppp_manager's calls (ppp_getstatus, ppp_connect, ...) are   *)
(* outside this module: their results are a choice among the codes they  *)
(* return.  The clients' streams hold whole writen() calls (pieces); with  *)
(* WriteStalls a write to a non-blocking socket may fail part-way.  A      *)
(* client is served once listenCallBack has made it a client.             *)
(***************************************************************************)
EXTENDS Integers, Sequences, SequencesExt, FiniteSets, Bitwise

CONSTANTS
    Clients,       \* the API clients (unprivileged) of the control socket
    Sessions,      \* ppp_head: a sequence of [ref, sid, ifname]
    Requests,      \* the messages a client may send
    PppdMsgs,      \* the messages pppd may send
    HdrBytes,      \* sizeof(struct ppp_msg_hdr)
    StatusBytes,   \* the body length of a status, extended status or connect data reply
    OptReplyBytes, \* the body length of a GETOPTION reply
    PPP_VERSION, PPP_STATUS, PPP_CONNECT, PPP_DISCONNECT, PPP_GETOPTION,
    PPP_SETOPTION, PPP_ENABLE_EVENT, PPP_DISABLE_EVENT, PPP_EVENT,
    PPP_GETNBLINKS, PPP_GETLINKBYINDEX, PPP_GETLINKBYSERVICEID,
    PPP_GETLINKBYIFNAME, PPP_SUSPEND, PPP_RESUME, PPP_EXTENDEDSTATUS,
    PPP_GETCONNECTDATA, LAST_REQUEST,
    PPPD_EVENT, PPPD_STATUS, PPPD_PHASE, PPP_EVT_DISCONNECTED,
    CURRENT_VERSION,
    USE_SERVICEID,
    CLIENT_FLAG_NOTIFY_EVENT, CLIENT_FLAG_NOTIFY_STATUS, CLIENT_FLAG_SWAP_BYTES,
    ENODEV, ENOMEM, EINVAL, EOPNOTSUPP,
    ManagerErrors, \* the error codes ppp_manager's calls may return
    TranslateError,\* ppp_translate_error, by subtype and pppd exit code
    AnyLink,       \* the notify_link that selects every session
    NameLen,       \* NameLen[n]: strlen of a service id or interface name
    MaxReqs,       \* bound: MaxReqs[c] messages client c sends
    MaxPppd,       \* bound: messages pppd sends
    WriteStalls,   \* whether a client's socket buffer may be full when written
    None

ASSUME /\ MaxReqs \in [Clients -> Nat] /\ MaxPppd \in Nat

VARIABLES
    netorder,  \* the clients that write in network byte order
    client,    \* client[c]: [flags, link, sid] (flags, notify_link, notify_serviceid)
    stream,    \* stream[c]: the pieces written on c's socket, in order
    sent,      \* sent[c]: the requests c has sent, in order
    npppd,     \* messages pppd has sent
    raised,    \* the events client_notify posted: [sess, event, error, to]
    server,    \* the listening socket: "down", "up" or "failed"
    conn,      \* conn[c]: c's connection: "none", "leaked", "closed" or "client"
    nonblock   \* the clients whose socket was put in non-blocking mode

vars == <<netorder, client, stream, sent, npppd, raised, server, conn, nonblock>>
acc == <<server, conn, nonblock>>

\* A u_int32_t as <<high, low>>; ntohs/htons; ntohl/htonl.
N32(k) == <<0, k>>
Val32(p) == p[1] * 65536 + p[2]
Swap16(x) == (x % 256) * 256 + x \div 256
Swap32(p) == <<Swap16(p[2]), Swap16(p[1])>>

SwapHdr(h) ==
    [flags |-> Swap16(h.flags), type |-> Swap16(h.type), result |-> Swap32(h.result),
     cookie |-> Swap32(h.cookie), link |-> Swap32(h.link), len |-> Swap32(h.len)]

HasSid(h) == (h.flags \div USE_SERVICEID) % 2 = 1
FlagSet(f, bit) == (f & bit) # 0

\* flags &= ~bits.
ClearNoMask(f, bits) == f - bits
Clear(f, bits) == f - (f & bits)

\* A piece: one writen() call, its header if it starts with one, its length
\* and the value of the body or service id it carries.
Piece(hdr, n, val) == [hdr |-> hdr, n |-> n, val |-> val]

SessionNo == 1 .. Len(Sessions)
SubtypeOf(s) == s.ref[1]
AllSubtypes == 65535

-----------------------------------------------------------------------------
Init ==
    /\ netorder \in SUBSET Clients
    /\ client = [c \in Clients |-> [flags |-> 0, link |-> N32(0), sid |-> None]]
    /\ stream = [c \in Clients |-> <<>>]
    /\ sent = [c \in Clients |-> <<>>]
    /\ npppd = 0
    /\ raised = <<>>
    /\ server = "down"
    /\ conn = [c \in Clients |-> "none"]
    /\ nonblock = {}

-----------------------------------------------------------------------------
(* The listening socket and the accept path.                               *)

\* ppp_socket_start_server: socket, bind to PPP_PATH, the CFSocket and its
\* run loop source; a failure of any of them closes what was made and
\* returns 1, and no client is ever accepted.
ppp_socket_start_server ==
    /\ server = "down"
    /\ server' \in {"up", "failed"}
    /\ UNCHANGED <<netorder, client, stream, sent, npppd, raised, conn, nonblock>>

\* ppp_socket_create_client: fcntl(O_NONBLOCK) may fail, which is only
\* logged; a failed CFSocketCreateWithNative closes s; a failed run loop
\* source or client_new_socket invalidates the CFSocket, which closes s.
CreateClientOutcomes ==
    {[conn |-> "client", nb |-> nb] : nb \in BOOLEAN} \cup
    {[conn |-> "closed", nb |-> nb] : nb \in BOOLEAN}

\* listenCallBack: accept (a failure returns with nothing done), then
\* getsockopt(LOCAL_PEERCRED), whose failure returns without closing s,
\* then ppp_socket_create_client(s, 0, 0, 0).
listenCallBack(c) ==
    /\ server = "up"
    /\ conn[c] = "none"
    /\ \/ conn' = [conn EXCEPT ![c] = "leaked"] /\ UNCHANGED nonblock
       \/ \E o \in CreateClientOutcomes :
             /\ conn' = [conn EXCEPT ![c] = o.conn]
             /\ nonblock' = IF o.nb THEN nonblock \cup {c} ELSE nonblock
    /\ UNCHANGED <<netorder, client, stream, sent, npppd, raised, server>>

\* writen: write until the piece is out, retrying on EINTR; any other
\* failure returns -1 with what was already written left on the stream.
\* On a non-blocking socket whose buffer is full, write fails with
\* EWOULDBLOCK, after nothing or after a part of the piece.
writen(c, p) ==
    {[out |-> << p >>, ok |-> TRUE]} \cup
    (IF WriteStalls /\ c \in nonblock
     THEN {[out |-> << >>, ok |-> FALSE], [out |-> << Piece(None, p.n - 1, None) >>, ok |-> FALSE]}
     ELSE {})

\* processRequest ignores what writen returns: every piece is tried.
RECURSIVE WriteAll(_, _)
WriteAll(c, ps) ==
    IF ps = << >> THEN {<< >>}
    ELSE {w.out \o rest : w \in writen(c, Head(ps)), rest \in WriteAll(c, Tail(ps))}

\* socket_client_notify returns at the first writen that fails.
RECURSIVE WriteUntilFail(_, _)
WriteUntilFail(c, ps) ==
    IF ps = << >> THEN {<< >>}
    ELSE UNION {IF w.ok THEN {w.out \o rest : rest \in WriteUntilFail(c, Tail(ps))} ELSE {w.out}
                : w \in writen(c, Head(ps))}

-----------------------------------------------------------------------------
(* The handlers.  Each takes the client record cl (its flags already carry *)
(* this message's byte-order guess) and the request r, and gives the       *)
(* outcomes it may have: m_result, m_len, the reply body (None when no     *)
(* buffer was allocated, Opaque when its value is not looked at), and the  *)
(* client record after it.  A my_Allocate that fails answers ENOMEM.       *)

Opaque == "body"

Out(res, len, body, cl) == [result |-> N32(res), len |-> len, body |-> body, cl |-> cl]

\* *(u_int32_t *)*reply = x, swapped back for a network-order client.
Reply32(cl, x) ==
    IF FlagSet(cl.flags, CLIENT_FLAG_SWAP_BYTES) THEN Swap32(x) ELSE x

\* ppp_find: by the service id that precedes the body when USE_SERVICEID is
\* set (ppp_findbysid), else by the reference in m_link (ppp_findbyref).
ppp_find(r) ==
    LET hits == {i \in SessionNo : IF HasSid(r) THEN Sessions[i].sid = r.sid
                                                 ELSE Sessions[i].ref = r.link}
    IN  IF hits = {} THEN None ELSE CHOOSE i \in hits : \A j \in hits : i <= j

NoDevice(cl) == {Out(ENODEV, 0, None, cl)}

socket_version(cl, r) ==
    {Out(0, 4, Reply32(cl, N32(CURRENT_VERSION)), cl), Out(ENOMEM, 0, None, cl)}

\* socket_status, socket_extendedstatus and socket_getconnectdata: the
\* record ppp_manager fills (its fields swapped for a network-order client
\* by socket_status), or the error it returns.
socket_status(cl, r) ==
    IF ppp_find(r) = None THEN NoDevice(cl)
    ELSE {Out(e, 0, None, cl) : e \in ManagerErrors} \cup {Out(0, StatusBytes, Opaque, cl)}
socket_extendedstatus(cl, r) == socket_status(cl, r)
socket_getconnectdata(cl, r) == socket_status(cl, r)

\* socket_connect: the client's option set, or the dictionary the body
\* serializes (Unserialize may fail: ENOMEM); m_result is ppp_connect's.
socket_connect(cl, r) ==
    IF ppp_find(r) = None THEN NoDevice(cl)
    ELSE IF r.len # 0 /\ r.data # "dict" THEN {Out(ENOMEM, 0, None, cl)}
    ELSE {Out(e, 0, None, cl) : e \in {0} \cup ManagerErrors}

\* socket_disconnect, socket_suspend, socket_resume: the session is told
\* and the answer is 0.
socket_disconnect(cl, r) == IF ppp_find(r) = None THEN NoDevice(cl) ELSE {Out(0, 0, None, cl)}
socket_suspend(cl, r) == socket_disconnect(cl, r)
socket_resume(cl, r) == socket_disconnect(cl, r)

\* The replies of socket_setoption and socket_getoption (the option store
\* itself is PPPOptions): ENODEV; ENOMEM for the client's new option set or
\* the reply; EOPNOTSUPP for an option the switch or ppp_getoptval does
\* not know.
ReplySetOption(cl, r) ==
    IF ppp_find(r) = None THEN NoDevice(cl)
    ELSE {Out(ENOMEM, 0, None, cl)} \cup
         IF r.data = "known" THEN {Out(0, 0, None, cl)} ELSE {Out(EOPNOTSUPP, 0, None, cl)}
ReplyGetOption(cl, r) ==
    IF ppp_find(r) = None THEN NoDevice(cl)
    ELSE IF r.data # "known" THEN {Out(EOPNOTSUPP, 0, None, cl)}
    ELSE {Out(0, OptReplyBytes, Opaque, cl), Out(ENOMEM, 0, None, cl)}

\* The notification kinds of ENABLE_EVENT and DISABLE_EVENT: the u_int32_t
\* body when m_len is 4, else 1 (events).
Notification(r) == IF r.len = 4 THEN r.data ELSE 1
BadNotification(r) == r.len = 4 /\ (r.data < 1 \/ r.data > 3)
KindBits(n) ==
    (IF (n & 1) # 0 THEN CLIENT_FLAG_NOTIFY_EVENT ELSE 0)
  + (IF (n & 2) # 0 THEN CLIENT_FLAG_NOTIFY_STATUS ELSE 0)

\* socket_enable_event: the kinds replace the client's; the target is the
\* service id (strncpy into a malloc'd copy, ENOMEM if that fails, the
\* flags being set already) or the reference in m_link.
socket_enable_event(cl, r) ==
    LET f == Clear(cl.flags, CLIENT_FLAG_NOTIFY_EVENT + CLIENT_FLAG_NOTIFY_STATUS)
                | KindBits(Notification(r))
    IN  IF BadNotification(r) THEN {Out(EINVAL, 0, None, cl)}
        ELSE IF HasSid(r)
             THEN {Out(0, 0, None, [flags |-> f, link |-> N32(0), sid |-> r.sid]),
                   Out(ENOMEM, 0, None, [flags |-> f, link |-> N32(0), sid |-> None])}
             ELSE {Out(0, 0, None, [flags |-> f, link |-> r.link, sid |-> None])}

\* socket_disable_event: the kinds are cleared; the target is reset when
\* flags & (CLIENT_FLAG_NOTIFY_EVENT + CLIENT_FLAG_NOTIFY_EVENT) is 0.
socket_disable_event(cl, r) ==
    LET f == Clear(cl.flags, KindBits(Notification(r)))
        reset == (f & (CLIENT_FLAG_NOTIFY_EVENT + CLIENT_FLAG_NOTIFY_EVENT)) = 0
    IN  IF BadNotification(r) THEN {Out(EINVAL, 0, None, cl)}
        ELSE {Out(0, 0, None, [flags |-> f,
                               link |-> IF reset THEN N32(0) ELSE cl.link,
                               sid |-> IF reset THEN None ELSE cl.sid])}

\* The family of m_link >> 16: a subtype, or 0xFFFF for all.
InFamily(s, sub) == sub = AllSubtypes \/ sub = SubtypeOf(s)

socket_getnblinks(cl, r) ==
    LET nb == Cardinality({i \in SessionNo : InFamily(Sessions[i], r.link[1])})
    IN  {Out(0, 4, Reply32(cl, N32(nb)), cl), Out(ENOMEM, 0, None, cl)}

RECURSIVE LinkAtLate(_, _, _, _)
LinkAtLate(sub, index, i, nb) ==
    IF i > Len(Sessions) THEN None
    ELSE IF InFamily(Sessions[i], sub)
         THEN IF nb + 1 = index THEN i ELSE LinkAtLate(sub, index, i + 1, nb + 1)
         ELSE LinkAtLate(sub, index, i + 1, nb)

\* The TAILQ_FOREACH of socket_getlinkbyindex from the i-th session, nb
\* sessions of the family having been passed: the index-th of the family.
RECURSIVE LinkAt(_, _, _, _)
LinkAt(sub, index, i, nb) ==
    IF i > Len(Sessions) THEN None
    ELSE IF InFamily(Sessions[i], sub)
         THEN IF nb = index THEN i ELSE LinkAt(sub, index, i + 1, nb + 1)
         ELSE LinkAt(sub, index, i + 1, nb)

\* The index is the u_long at msg->data[0], swapped back for a
\* network-order client (r.data is its value).
socket_getlinkbyindex(cl, r) ==
    LET i == LinkAt(r.link[1], r.data, 1, 0)
    IN  IF i = None THEN NoDevice(cl)
        ELSE {Out(0, 4, Reply32(cl, Sessions[i].ref), cl), Out(ENOMEM, 0, None, cl)}

\* The body, a service id, becomes a CFString (ENOMEM if that fails) that
\* ppp_findbyserviceID looks up.
socket_getlinkbyserviceid(cl, r) ==
    LET hits == {i \in SessionNo : Sessions[i].sid = r.data}
    IN  {Out(ENOMEM, 0, None, cl)} \cup
        IF hits = {} THEN NoDevice(cl)
        ELSE LET i == CHOOSE i \in hits : \A j \in hits : i <= j
             IN  {Out(0, 4, Reply32(cl, Sessions[i].ref), cl), Out(ENOMEM, 0, None, cl)}

\* The interface name is read at msg->data[0]: the bytes after the header,
\* which are the service id part when USE_SERVICEID is set.  The first
\* session with that name answers its service id (USE_SERVICEID) or its
\* reference.
socket_getlinkbyifname(cl, r) ==
    LET name == IF HasSid(r) THEN r.sid ELSE r.data
        hits == {i \in SessionNo : Sessions[i].ifname = name}
    IN  IF hits = {} THEN NoDevice(cl)
        ELSE LET i == CHOOSE i \in hits : \A j \in hits : i <= j
             IN  IF HasSid(r)
                 THEN {Out(0, NameLen[Sessions[i].sid], Sessions[i].sid, cl), Out(ENOMEM, 0, None, cl)}
                 ELSE {Out(0, 4, Reply32(cl, Sessions[i].ref), cl), Out(ENOMEM, 0, None, cl)}

\* The requests[] table: a NULL entry (types 0, 4 and PPP_EVENT) leaves
\* the header as it came and allocates no reply.
Handle(cl, r) ==
    CASE r.type = PPP_VERSION -> socket_version(cl, r)
      [] r.type = PPP_STATUS -> socket_status(cl, r)
      [] r.type = PPP_CONNECT -> socket_connect(cl, r)
      [] r.type = PPP_DISCONNECT -> socket_disconnect(cl, r)
      [] r.type = PPP_GETOPTION -> ReplyGetOption(cl, r)
      [] r.type = PPP_SETOPTION -> ReplySetOption(cl, r)
      [] r.type = PPP_ENABLE_EVENT -> socket_enable_event(cl, r)
      [] r.type = PPP_DISABLE_EVENT -> socket_disable_event(cl, r)
      [] r.type = PPP_GETNBLINKS -> socket_getnblinks(cl, r)
      [] r.type = PPP_GETLINKBYINDEX -> socket_getlinkbyindex(cl, r)
      [] r.type = PPP_GETLINKBYSERVICEID -> socket_getlinkbyserviceid(cl, r)
      [] r.type = PPP_GETLINKBYIFNAME -> socket_getlinkbyifname(cl, r)
      [] r.type = PPP_SUSPEND -> socket_suspend(cl, r)
      [] r.type = PPP_RESUME -> socket_resume(cl, r)
      [] r.type = PPP_EXTENDEDSTATUS -> socket_extendedstatus(cl, r)
      [] r.type = PPP_GETCONNECTDATA -> socket_getconnectdata(cl, r)
      [] OTHER -> {[result |-> N32(0), len |-> r.len, body |-> None, cl |-> cl]}

-----------------------------------------------------------------------------
(* processRequest.                                                         *)

ReplyHdrCookieUnswapped(cl, r, o) ==
    LET h == [flags |-> r.flags, type |-> r.type, result |-> o.result,
              cookie |-> N32(r.cookie), link |-> r.link, len |-> N32(o.len)]
    IN  IF FlagSet(cl.flags, CLIENT_FLAG_SWAP_BYTES) THEN [SwapHdr(h) EXCEPT !.cookie = h.cookie] ELSE h

\* The reply header: the request's, with m_result and m_len of the handler,
\* swapped back field by field for a network-order client.
ReplyHdr(cl, r, o) ==
    LET h == [flags |-> r.flags, type |-> r.type, result |-> o.result,
              cookie |-> N32(r.cookie), link |-> r.link, len |-> N32(o.len)]
    IN  IF FlagSet(cl.flags, CLIENT_FLAG_SWAP_BYTES) THEN SwapHdr(h) ELSE h

\* The two writen calls: the header with the service id it echoes, then
\* the reply body if m_len is not 0.  writen of a NULL reply fails (EFAULT)
\* and writes nothing.
ReplyPieces(cl, r, o) ==
    << Piece(ReplyHdr(cl, r, o), HdrBytes + (IF HasSid(r) THEN Val32(r.link) ELSE 0),
             IF HasSid(r) THEN r.sid ELSE None) >>
    \o (IF o.len # 0 /\ o.body # None THEN << Piece(None, o.len, o.body) >> ELSE << >>)

\* A complete message of client c (a regular request: its type is at most
\* LAST_REQUEST) reaches processRequest.  clientCallBack has set
\* CLIENT_FLAG_SWAP_BYTES from its guess, which is right for these types
\* (FramingPreserved of PPPClientSocket).
processRequest(c, r) ==
    /\ conn[c] = "client"
    /\ Len(sent[c]) < MaxReqs[c]
    /\ LET cl == [client[c] EXCEPT !.flags =
                     IF c \in netorder THEN @ | CLIENT_FLAG_SWAP_BYTES
                     ELSE Clear(@, CLIENT_FLAG_SWAP_BYTES)]
       IN  \E o \in Handle(cl, r) :
              /\ client' = [client EXCEPT ![c] = o.cl]
              /\ \E w \in WriteAll(c, ReplyPieces(cl, r, o)) :
                    stream' = [stream EXCEPT ![c] = @ \o w]
    /\ sent' = [sent EXCEPT ![c] = Append(@, r)]
    /\ UNCHANGED <<netorder, npppd, raised, server, conn, nonblock>>

-----------------------------------------------------------------------------
(* pppd's messages and the event fan-out.                                  *)

\* socket_client_notify's header: PPP_EVENT, m_result the event, m_cookie
\* the error, and m_link the reference, or, with a service id, its length
\* (saved before the swap).
NotifyHdr(sid, link, event, error) ==
    [flags |-> IF sid # None THEN USE_SERVICEID ELSE 0, type |-> PPP_EVENT,
     result |-> N32(event), cookie |-> N32(error),
     link |-> IF sid # None THEN N32(NameLen[sid]) ELSE link, len |-> N32(0)]

socket_client_notify_unswapped(cl, sid, link, event, error) ==
    << Piece(NotifyHdr(sid, link, event, error), HdrBytes, None) >>
    \o (IF sid # None THEN << Piece(None, NameLen[sid], sid) >> ELSE << >>)

\* socket_client_notify: the header, swapped for a network-order client,
\* then the service id.
socket_client_notify(cl, sid, link, event, error) ==
    LET h == NotifyHdr(sid, link, event, error)
    IN  << Piece(IF FlagSet(cl.flags, CLIENT_FLAG_SWAP_BYTES) THEN SwapHdr(h) ELSE h,
                 HdrBytes, None) >>
        \o (IF sid # None THEN << Piece(None, NameLen[sid], sid) >> ELSE << >>)

\* Whether a client's target selects session s: its service id, or its
\* reference, AnyLink selecting every session.
Targets(cl, s) == IF cl.sid # None THEN cl.sid = s.sid ELSE cl.link \in {s.ref, AnyLink}

\* client_notify: every client that enabled the kind, and whose target
\* selects the session, is written the event, with the session's service
\* id if it chose its target by service id.
client_notify(i, event, error, kind) ==
    LET s == Sessions[i]
        to == {c \in Clients : conn[c] = "client" /\ FlagSet(client[c].flags, kind) /\ Targets(client[c], s)}
        opts(c) == IF c \in to
                   THEN {stream[c] \o w : w \in WriteUntilFail(c, socket_client_notify(client[c],
                            IF client[c].sid # None THEN s.sid ELSE None, s.ref, event, error))}
                   ELSE {stream[c]}
    IN  /\ stream' \in {f \in [Clients -> UNION {opts(c) : c \in Clients}] : \A c \in Clients : f[c] \in opts(c)}
        /\ raised' = Append(raised, [sess |-> i, event |-> event, error |-> error, to |-> to])

\* socket_pppd_event: m_len is set to 0xFFFFFFFF (no reply); the session
\* is found by reference; a PPP_EVT_DISCONNECTED carries the translated
\* exit code, any other event the error 0.
socket_pppd_event(m) ==
    LET i == ppp_find(m)
    IN  IF i = None THEN UNCHANGED <<stream, raised>>
        ELSE client_notify(i, m.event,
                 IF m.event = PPP_EVT_DISCONNECTED
                 THEN TranslateError[SubtypeOf(Sessions[i])][m.error] ELSE 0,
                 CLIENT_FLAG_NOTIFY_EVENT)

\* socket_pppd_status and socket_pppd_phase: no reply either; the status
\* or phase goes to the session record (ppp_updatestatus,
\* ppp_updatephase), which is not modelled.
socket_pppd_status(m) == UNCHANGED <<stream, raised>>
socket_pppd_phase(m) == UNCHANGED <<stream, raised>>

\* processRequest of pppd's message: a type above LAST_REQUEST from the
\* privileged client goes to its handler; each sets m_len to 0xFFFFFFFF,
\* so nothing is written back.  (pppd sends only these three.)
processPppd(m) ==
    /\ npppd < MaxPppd
    /\ npppd' = npppd + 1
    /\ CASE m.type = PPPD_EVENT -> socket_pppd_event(m)
          [] m.type = PPPD_STATUS -> socket_pppd_status(m)
          [] m.type = PPPD_PHASE -> socket_pppd_phase(m)
    /\ UNCHANGED <<netorder, client, sent, server, conn, nonblock>>

-----------------------------------------------------------------------------
(* How the client library reads its stream: a header, decoded in its own  *)
(* byte order, says how many bytes follow (the service id, m_link bytes,  *)
(* when USE_SERVICEID is set, and m_len bytes of body).  Read(c) is what  *)
(* the client has made of everything written to it: the whole messages,   *)
(* [hdr, tail], and whether a piece came that it did not expect.           *)

Decode(c, h) == IF c \in netorder THEN SwapHdr(h) ELSE h
Announced(h) == Val32(h.len) + (IF HasSid(h) THEN Val32(h.link) ELSE 0)

ReadPiece(c, st, p) ==
    IF st.desync THEN st
    ELSE IF st.rem = 0
    THEN IF p.hdr = None THEN [st EXCEPT !.desync = TRUE]
         ELSE LET h == Decode(c, p.hdr)
                  left == Announced(h) - (p.n - HdrBytes)
                  m == [hdr |-> h, tail |-> IF p.val # None THEN << p.val >> ELSE << >>]
              IN  IF left < 0 THEN [st EXCEPT !.desync = TRUE]
                  ELSE IF left = 0 THEN [st EXCEPT !.got = Append(@, m)]
                  ELSE [st EXCEPT !.rem = left, !.cur = m]
    ELSE IF p.hdr # None \/ p.n > st.rem THEN [st EXCEPT !.desync = TRUE]
    ELSE LET m == [st.cur EXCEPT !.tail = Append(@, p.val)]
         IN  IF p.n = st.rem THEN [st EXCEPT !.rem = 0, !.cur = None, !.got = Append(@, m)]
             ELSE [st EXCEPT !.rem = @ - p.n, !.cur = m]

Read(c) ==
    FoldLeft(LAMBDA st, p : ReadPiece(c, st, p),
             [rem |-> 0, cur |-> None, got |-> << >>, desync |-> FALSE], stream[c])

Next ==
    \/ ppp_socket_start_server
    \/ \E c \in Clients : listenCallBack(c)
    \/ \E c \in Clients, r \in Requests : processRequest(c, r)
    \/ \E m \in PppdMsgs : processPppd(m)

Spec == Init /\ [][Next]_vars

-----------------------------------------------------------------------------
(* Properties.                                                             *)

U32 == (0 .. 65535) \X (0 .. 65535)
ClientRec == [flags : 0 .. 255, link : U32, sid : {None} \cup {s.sid : s \in Range(Sessions)}]

TypeOK ==
    /\ client \in [Clients -> ClientRec]
    /\ netorder \subseteq Clients
    /\ \A c \in Clients : Len(sent[c]) <= MaxReqs[c]
    /\ npppd \in 0 .. MaxPppd
    /\ server \in {"down", "up", "failed"}
    /\ conn \in [Clients -> {"none", "leaked", "closed", "client"}]
    /\ nonblock \subseteq {c \in Clients : conn[c] # "none"}

\* The replies a client reads, apart from the events between them.
Replies(c) == SelectSeq(Read(c).got, LAMBDA m : m.hdr.type # PPP_EVENT)

\* The u_int32_t body of a reply as the client reads it.
Body32(c, m) == IF c \in netorder THEN Swap32(m.tail[Len(m.tail)]) ELSE m.tail[Len(m.tail)]

\* Every client reads its stream as whole messages, and the replies among
\* them answer its requests one by one, in order, each carrying the type
\* and the cookie of its request in the client's byte order: processRequest
\* writes exactly one reply per request, its header swapped back and its
\* length announcing what follows, and socket_client_notify slips events
\* only between messages.
RepliesMatchRequests ==
    \A c \in Clients :
        LET rs == Replies(c)
        IN  /\ ~Read(c).desync
            /\ Len(rs) <= Len(sent[c])
            /\ \A i \in DOMAIN rs :
                  rs[i].hdr.type = sent[c][i].type /\ rs[i].hdr.cookie = N32(sent[c][i].cookie)

\* What the link queries must answer, from the session list itself: the
\* sessions of a family in list order.
Family(sub) == SelectSeq(Sessions, LAMBDA s : InFamily(s, sub))
Named(f, v) == SelectSeq(Sessions, LAMBDA s : s[f] = v)

\* The link queries agree with the session list as the client decodes
\* their answers: GETNBLINKS counts the family of m_link >> 16,
\* GETLINKBYINDEX gives the index-th member of it in list order (ENODEV
\* past the end), GETLINKBYSERVICEID the session of the id, and
\* GETLINKBYIFNAME the reference, or the service id, of the session of the
\* interface.  At stake: the loop of socket_getlinkbyindex and the htonl
\* of every answer.
LinkAnswersAgree ==
    \A c \in Clients : LET rs == Replies(c) IN \A i \in DOMAIN rs :
        LET m == rs[i]
            q == sent[c][i]
            ok == m.hdr.result = N32(0)
        IN  /\ q.type = PPP_GETNBLINKS /\ ok => Body32(c, m) = N32(Len(Family(q.link[1])))
            /\ q.type = PPP_GETLINKBYINDEX /\ ok =>
                  q.data < Len(Family(q.link[1])) /\ Body32(c, m) = Family(q.link[1])[q.data + 1].ref
            /\ q.type = PPP_GETLINKBYINDEX /\ q.data >= Len(Family(q.link[1])) =>
                  m.hdr.result = N32(ENODEV)
            /\ q.type = PPP_GETLINKBYSERVICEID /\ ok =>
                  Body32(c, m) = Head(Named("sid", q.data)).ref
            /\ q.type = PPP_GETLINKBYIFNAME /\ ok /\ ~HasSid(q) =>
                  Body32(c, m) = Head(Named("ifname", q.data)).ref
            /\ q.type = PPP_GETLINKBYIFNAME /\ ok /\ HasSid(q) =>
                  m.tail[Len(m.tail)] = Head(Named("ifname", q.sid)).sid

\* The events a client reads are, in order and each once, all the events
\* posted to it while it had them enabled, with the event in m_result, the
\* error in m_cookie and the session named by its reference or by the
\* service-id tail: socket_client_notify's header in the client's byte
\* order, interleaved with the replies.
EventsInOrder ==
    \A c \in Clients :
        LET ev == SelectSeq(Read(c).got, LAMBDA m : m.hdr.type = PPP_EVENT)
            mine == SelectSeq(raised, LAMBDA e : c \in e.to)
        IN  /\ Len(ev) = Len(mine)
            /\ \A i \in DOMAIN ev :
                  LET s == Sessions[mine[i].sess]
                  IN  /\ ev[i].hdr.result = N32(mine[i].event)
                      /\ ev[i].hdr.cookie = N32(mine[i].error)
                      /\ IF HasSid(ev[i].hdr) THEN ev[i].tail = << s.sid >>
                                              ELSE ev[i].hdr.link = s.ref

\* The sessions an ENABLE_EVENT request r asks the events of: those of its
\* service id, or of the reference in m_link (0 for every session).
Asked(r, s) == IF HasSid(r) THEN r.sid = s.sid ELSE r.link \in {s.ref, AnyLink}

\* A client keeps the target it chose for as long as it has events enabled:
\* after its last ENABLE_EVENT that was answered 0, and while
\* CLIENT_FLAG_NOTIFY_EVENT is still set, client_notify selects exactly the
\* sessions that request asked for, whatever DISABLE_EVENT of the status
\* kind came in between.  At stake: socket_disable_event's test of which
\* kinds remain before it drops notify_link and notify_serviceid.
FilterKeptWhileEnabled ==
    \A c \in Clients :
        LET rs == Replies(c)
            en == {i \in DOMAIN rs : sent[c][i].type = PPP_ENABLE_EVENT
                                     /\ ~BadNotification(sent[c][i])}
            last == Max(en)
        IN  /\ en # {}
            /\ rs[last].hdr.result = N32(0)
            /\ FlagSet(client[c].flags, CLIENT_FLAG_NOTIFY_EVENT)
            => \A s \in Range(Sessions) : Targets(client[c], s) = Asked(sent[c][last], s)

====

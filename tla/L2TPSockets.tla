---------------------------- MODULE L2TPSockets ----------------------------
(***************************************************************************)
(* The tunnel registry of l2tp_rfc.c (the list l2tp_rfc_head) and the UDP  *)
(* endpoints its rfcs share.  A control rfc binds its own socket when its  *)
(* local address is set; a data rfc borrows the socket of the control rfc  *)
(* with the same tunnel id; a control rfc whose 4-tuple is already in use  *)
(* takes over the socket of the rfc that owns it.  The reliable channel of *)
(* each rfc is modelled by L2TPRfc; here only the fields that decide who   *)
(* owns which socket are kept.                                             *)
(*                                                                         *)
(* The UDP adapter (l2tp_udp_attach, l2tp_udp_setpeer, l2tp_udp_detach) is *)
(* not part of this repository's sources; it is modelled from the          *)
(* specification (section 4.B).                                            *)
(*                                                                         *)
(* The kernel module's start and stop (l2tp_domain.c) are composed in: the *)
(* registry exists only between l2tp_rfc_init and a successful             *)
(* l2tp_rfc_dispose, and sockets are created only while the protocol is    *)
(* registered in the PF_PPP domain.  What the module calls outside this    *)
(* repository (pffinddomain, l2tp_add, l2tp_remove, l2tp_udp_dispose,      *)
(* l2tp_wan_dispose) succeeds or fails by a nondeterministic choice.       *)
(***************************************************************************)
EXTENDS Integers, Sequences, SequencesExt, FiniteSets

CONSTANTS
    Rfcs,        \* the struct l2tp_rfc allocations (model values)
    ControlRfcs, \* those the host sets L2TP_FLAG_CONTROL on
    Socks,       \* the UDP sockets the adapter can create (model values)
    OurAddrs,    \* local addresses a host may bind
    PeerAddrs,   \* peer addresses a host may connect to
    NoAddr,      \* a null address pointer
    NoSock,      \* a null socket pointer
    TidSpace     \* the modulus of the tunnel id counter (2^16 in the code)

ASSUME /\ NoAddr \notin OurAddrs \cup PeerAddrs
       /\ NoSock \notin Socks
       /\ ControlRfcs \subseteq Rfcs
       /\ TidSpace \in Nat /\ TidSpace >= 2

VARIABLES
    head,              \* l2tp_rfc_head, in list order
    rfc,               \* rfc[r]: the fields of struct l2tp_rfc kept here
    unique_tunnel_id,  \* the static counter of L2TP_CMD_GETNEWTUNNELID
    sock_local,        \* the address each socket is bound to (NoAddr: closed)
    sock_peer,         \* the address each socket is connected to
    domain_inited,     \* l2tp_domain_inited
    proto_added,       \* the L2TP protosw is in the PF_PPP domain
    udp_up             \* the UDP adapter is between l2tp_udp_init and _dispose

domain_vars == <<domain_inited, proto_added, udp_up>>

vars == <<head, rfc, unique_tunnel_id, sock_local, sock_peer, domain_vars>>

\* The sockets the UDP adapter holds open.
attached == {s \in Socks : sock_local[s] # NoAddr}

TunnelIds == 0 .. TidSpace - 1

RfcState == [control : BOOLEAN, our_tunnel_id : TunnelIds,
             peer_tunnel_id : BOOLEAN, our_address : OurAddrs \cup {NoAddr},
             peer_address : PeerAddrs \cup {NoAddr},
             socket : Socks \cup {NoSock}, freeing : BOOLEAN]

\* bzero followed by flags = L2TP_FLAG_ADAPT_TIMER: not a control rfc.
Zeroed == [control |-> FALSE, our_tunnel_id |-> 0, peer_tunnel_id |-> FALSE,
           our_address |-> NoAddr, peer_address |-> NoAddr,
           socket |-> NoSock, freeing |-> FALSE]

Live == Range(head)

Controls == {r \in Live : rfc[r].control}

\* The first element of head satisfying P, or the empty set (TAILQ_FOREACH
\* that breaks at the first match).
FirstIn(P(_)) ==
    LET i == SelectInSeq(head, P) IN IF i = 0 THEN {} ELSE {head[i]}

SharedByControlInclSelf(r) ==
    \E r1 \in Controls : rfc[r1].socket = rfc[r].socket

\* Another control rfc holds the same socket as r.
SharedByControl(r) ==
    \E r1 \in Controls \ {r} : rfc[r1].socket = rfc[r].socket

-----------------------------------------------------------------------------
(* The UDP adapter, from the specification.                                *)

\* A detached socket is closed: it keeps no address.
l2tp_udp_detach(s) ==
    /\ sock_local' = [sock_local EXCEPT ![s] = NoAddr]
    /\ sock_peer' = [sock_peer EXCEPT ![s] = NoAddr]

\* Connecting socket s to p fails with EADDRINUSE when another open socket
\* already carries the same local/peer pair.
AddrInUse(s, p) ==
    \E s2 \in attached \ {s} : sock_local[s2] = sock_local[s] /\ sock_peer[s2] = p

-----------------------------------------------------------------------------
(* The control half of l2tp_rfc_lower_input: the rfc a control frame with *)
(* tunnel id t from peer address a is handed to, as a set of at most one. *)

ControlDemuxNoPeerCheck(t, a) ==
    FirstIn(LAMBDA x : rfc[x].control /\ rfc[x].our_tunnel_id = t)

\* TAILQ_FOREACH over the control rfcs, each asked by l2tp_handle_control:
\* the first with the frame's tunnel id takes it and, when its peer address
\* is set and differs from a, drops it (returning 1, so the walk ends).
ControlDemux(t, a) ==
    {x \in FirstIn(LAMBDA y : rfc[y].control /\ rfc[y].our_tunnel_id = t) :
        rfc[x].peer_address \in {NoAddr, a}}

-----------------------------------------------------------------------------
Init ==
    /\ head = <<>>
    /\ rfc = [r \in Rfcs |-> Zeroed]
    /\ unique_tunnel_id = 0
    /\ sock_local = [s \in Socks |-> NoAddr]
    /\ sock_peer = [s \in Socks |-> NoAddr]
    /\ domain_inited = FALSE
    /\ proto_added = FALSE
    /\ udp_up = FALSE

TypeOK ==
    /\ head \in Seq(Rfcs) /\ Len(head) = Cardinality(Live)
    /\ rfc \in [Rfcs -> RfcState]
    /\ unique_tunnel_id \in TunnelIds
    /\ sock_local \in [Socks -> OurAddrs \cup {NoAddr}]
    /\ sock_peer \in [Socks -> PeerAddrs \cup {NoAddr}]
    /\ {domain_inited, proto_added, udp_up} \subseteq BOOLEAN

-----------------------------------------------------------------------------
(* Allocation and teardown.                                                *)

\* l2tp_rfc_new_client: a zeroed rfc appended to the tail of the list.
l2tp_rfc_new_client(r) ==
    /\ proto_added
    /\ r \notin Live
    /\ head' = Append(head, r)
    /\ rfc' = [rfc EXCEPT ![r] = Zeroed]
    /\ UNCHANGED <<unique_tunnel_id, sock_local, sock_peer>>

\* l2tp_rfc_free_now: a control rfc detaches its socket unless another
\* control rfc holds the same one; the rfc leaves the list.
l2tp_rfc_free_now(r) ==
    /\ IF rfc[r].socket # NoSock /\ rfc[r].control /\ ~SharedByControl(r)
       THEN l2tp_udp_detach(rfc[r].socket)
       ELSE UNCHANGED <<sock_local, sock_peer>>
    /\ head' = SelectSeq(head, LAMBDA x : x # r)
    /\ rfc' = [rfc EXCEPT ![r] = Zeroed]
    /\ UNCHANGED unique_tunnel_id

\* l2tp_rfc_free_client: a control rfc with both tunnel ids lingers in
\* FREEING; any other rfc is freed at once.
l2tp_rfc_free_client(r) ==
    /\ r \in Live /\ ~rfc[r].freeing
    /\ IF rfc[r].control /\ rfc[r].our_tunnel_id # 0 /\ rfc[r].peer_tunnel_id
       THEN /\ rfc' = [rfc EXCEPT ![r].freeing = TRUE]
            /\ UNCHANGED <<head, unique_tunnel_id, sock_local, sock_peer>>
       ELSE l2tp_rfc_free_now(r)

\* The FREEING branch of l2tp_rfc_slowtimer once free_time_remain reaches 0.
LingerExpire(r) ==
    /\ r \in Live /\ rfc[r].freeing
    /\ l2tp_rfc_free_now(r)

-----------------------------------------------------------------------------
(* l2tp_rfc_command.  The host issues commands only on an rfc it has not   *)
(* closed (a FREEING rfc has host = 0).                                    *)

Open(r) == r \in Live /\ ~rfc[r].freeing

\* L2TP_CMD_SETFLAGS, issued by the host right after creating the socket,
\* before any address or tunnel id is set.  Whether the flags include
\* L2TP_FLAG_CONTROL is the host's role for that rfc.
CMD_SETFLAGS(r) ==
    /\ Open(r) /\ rfc[r].socket = NoSock /\ rfc[r].our_tunnel_id = 0
    /\ rfc[r].control # (r \in ControlRfcs)
    /\ rfc' = [rfc EXCEPT ![r].control = (r \in ControlRfcs)]
    /\ UNCHANGED <<head, unique_tunnel_id, sock_local, sock_peer>>

\* The do/while loop of L2TP_CMD_GETNEWTUNNELID: increment (u_int16_t, so
\* modulo TidSpace), skip 0, repeat while any rfc of the list holds the id.
NextTunnelIdNoCheck(u, used) ==
    LET n == (u + 1) % TidSpace IN IF n = 0 THEN n + 1 ELSE n

NextTunnelIdNoWrap(u, used) ==
    LET n == u + 1 IN IF n \in used THEN n + 1 ELSE n

RECURSIVE NextTunnelId(_, _)
NextTunnelId(u, used) ==
    LET n == (u + 1) % TidSpace
        id == IF n = 0 THEN n + 1 ELSE n
    IN  IF id \in used THEN NextTunnelId(id, used) ELSE id

\* L2TP_CMD_GETNEWTUNNELID, issued for control rfcs.  When every nonzero id
\* is held the loop of the code never ends; that state is excluded.
CMD_GETNEWTUNNELID(r) ==
    LET used == {rfc[x].our_tunnel_id : x \in Live}
        id == NextTunnelId(unique_tunnel_id, used)
    IN  /\ Open(r) /\ rfc[r].control
        /\ (1 .. TidSpace - 1) \ used # {}
        /\ unique_tunnel_id' = id
        /\ rfc' = [rfc EXCEPT ![r].our_tunnel_id = id]
        /\ UNCHANGED <<head, sock_local, sock_peer>>

\* L2TP_CMD_SETTUNNELID, issued for data rfcs with the tunnel id of their
\* control connection: the data rfc borrows the socket of the first control
\* rfc with that id.
CMD_SETTUNNELID(r, id) ==
    LET owner == FirstIn(LAMBDA x : rfc[x].control /\ rfc[x].our_tunnel_id = id)
        sock == IF owner = {} THEN NoSock ELSE rfc[CHOOSE o \in owner : TRUE].socket
    IN  /\ Open(r) /\ ~rfc[r].control
        /\ rfc' = [rfc EXCEPT ![r].our_tunnel_id = id, ![r].socket = sock]
        /\ UNCHANGED <<head, unique_tunnel_id, sock_local, sock_peer>>

\* L2TP_CMD_SETPEERTUNNELID.
CMD_SETPEERTUNNELID(r) ==
    /\ Open(r) /\ ~rfc[r].peer_tunnel_id
    /\ rfc' = [rfc EXCEPT ![r].peer_tunnel_id = TRUE]
    /\ UNCHANGED <<head, unique_tunnel_id, sock_local, sock_peer>>

\* L2TP_CMD_SETOURADDR.  The old socket is given up first (detached by a
\* control rfc that holds it alone).  Address a = NoAddr stands for the
\* three ways no address is stored: length 0, a length above
\* INET6_ADDRSTRLEN (EINVAL) and a failed allocation (ENOMEM).  A control
\* rfc then binds a new socket; l2tp_udp_attach may fail and leave none.
CMD_SETOURADDR(r, a) ==
    LET old == rfc[r].socket
        gone == IF old # NoSock /\ rfc[r].control /\ ~SharedByControl(r)
                THEN {old} ELSE {}
        local == [x \in Socks |-> IF x \in gone THEN NoAddr ELSE sock_local[x]]
        cleared == [rfc[r] EXCEPT !.our_address = a, !.socket = NoSock]
    IN  /\ Open(r)
        /\ \/ /\ (a = NoAddr \/ ~rfc[r].control)
              /\ rfc' = [rfc EXCEPT ![r] = cleared]
              /\ sock_local' = local
           \/ /\ a # NoAddr /\ rfc[r].control
              /\ \E s \in {x \in Socks : local[x] = NoAddr} :
                    /\ sock_local' = [local EXCEPT ![s] = a]
                    /\ rfc' = [rfc EXCEPT ![r] = [cleared EXCEPT !.socket = s]]
           \/ /\ a # NoAddr /\ rfc[r].control
              /\ rfc' = [rfc EXCEPT ![r] = cleared]
              /\ sock_local' = local
        /\ sock_peer' = [x \in Socks |-> IF x \in gone THEN NoAddr ELSE sock_peer[x]]
        /\ UNCHANGED <<head, unique_tunnel_id>>

\* The control rfc another rfc r of the same local/peer pair may take its
\* socket from: the first other control rfc with both addresses equal.
SameTuple(r, p) ==
    FirstIn(LAMBDA x : /\ x # r /\ rfc[x].control
                       /\ rfc[x].our_address # NoAddr /\ rfc[x].peer_address # NoAddr
                       /\ rfc[x].our_address = rfc[r].our_address
                       /\ rfc[x].peer_address = p)

\* L2TP_CMD_SETPEERADDR.  As for SETOURADDR, p = NoAddr stands for every
\* way no address is stored.  A control rfc connects its socket
\* (l2tp_udp_setpeer; without a socket it gets an error).  On EADDRINUSE it
\* detaches its socket and takes that of the first control rfc with the same
\* addresses; with no such rfc the error is returned and nothing else
\* changes.
CMD_SETPEERADDR(r, p) ==
    LET s == rfc[r].socket
        stored == [rfc EXCEPT ![r].peer_address = p]
    IN  /\ Open(r)
        /\ \/ /\ (p = NoAddr \/ ~rfc[r].control \/ s = NoSock)
              /\ rfc' = stored
              /\ UNCHANGED <<sock_local, sock_peer>>
           \/ /\ p # NoAddr /\ rfc[r].control /\ s # NoSock
              /\ ~AddrInUse(s, p)
              /\ sock_peer' = [sock_peer EXCEPT ![s] = p]
              /\ rfc' = stored
              /\ UNCHANGED sock_local
           \/ /\ p # NoAddr /\ rfc[r].control /\ s # NoSock
              /\ AddrInUse(s, p)
              /\ LET match == SameTuple(r, p) IN
                 IF match = {}
                 THEN /\ rfc' = stored
                      /\ UNCHANGED <<sock_local, sock_peer>>
                 ELSE LET r1 == CHOOSE x \in match : TRUE IN
                      /\ l2tp_udp_detach(s)
                      /\ rfc' = [stored EXCEPT ![r].socket = rfc[r1].socket]
        /\ UNCHANGED <<head, unique_tunnel_id>>

-----------------------------------------------------------------------------
(* Module start and stop, each under the network funnel (one at a time    *)
(* with every other step here).  The early returns that change nothing    *)
(* (init when inited, terminate when not) are stuttering steps.           *)

\* l2tp_rfc_dispose without its check of the list.
l2tp_rfc_dispose_unchecked(ok) ==
    udp_up' = (udp_up /\ ~ok)

\* l2tp_rfc_dispose: refused (1) while the list holds an rfc, else the
\* adapter is disposed, which may itself fail (1) and leave it up.
l2tp_rfc_dispose(ok) ==
    /\ ok => head = <<>>
    /\ udp_up' = (udp_up /\ ~ok)

\* l2tp_domain_init: pffinddomain(PF_PPP) may find no PPP domain; else
\* l2tp_rfc_init (l2tp_udp_init, TAILQ_INIT of the list), then l2tp_add,
\* whose failure disposes the rfc layer again.
l2tp_domain_init ==
    /\ ~domain_inited
    /\ \/ UNCHANGED <<head, domain_vars>>
       \/ /\ head' = <<>>
          /\ \/ /\ proto_added' = TRUE /\ domain_inited' = TRUE
                /\ udp_up' = TRUE
             \/ /\ UNCHANGED <<proto_added, domain_inited>>
                /\ udp_up' \in BOOLEAN  \* l2tp_udp_dispose failed or not
    /\ UNCHANGED <<rfc, unique_tunnel_id, sock_local, sock_peer>>

\* l2tp_domain_terminate: l2tp_rfc_dispose, then l2tp_wan_dispose,
\* pffinddomain and l2tp_remove, any of which may fail and return with the
\* domain still marked inited and the protocol still registered.
l2tp_domain_terminate ==
    /\ domain_inited
    /\ \E ok \in BOOLEAN :
          /\ l2tp_rfc_dispose(ok)
          /\ \/ /\ ok
                /\ proto_added' = FALSE /\ domain_inited' = FALSE
             \/ UNCHANGED <<proto_added, domain_inited>>
    /\ UNCHANGED <<head, rfc, unique_tunnel_id, sock_local, sock_peer>>

-----------------------------------------------------------------------------
RfcStep ==
    \E r \in Rfcs :
          \/ l2tp_rfc_new_client(r)
          \/ l2tp_rfc_free_client(r)
          \/ LingerExpire(r)
          \/ CMD_SETFLAGS(r)
          \/ CMD_GETNEWTUNNELID(r)
          \/ \E id \in {rfc[c].our_tunnel_id : c \in Controls} : CMD_SETTUNNELID(r, id)
          \/ CMD_SETPEERTUNNELID(r)
          \/ \E a \in OurAddrs \cup {NoAddr} : CMD_SETOURADDR(r, a)
          \/ \E p \in PeerAddrs \cup {NoAddr} : CMD_SETPEERADDR(r, p)

Next ==
    \/ RfcStep /\ UNCHANGED domain_vars
    \/ l2tp_domain_init
    \/ l2tp_domain_terminate

Spec == Init /\ [][Next]_vars

-----------------------------------------------------------------------------
(* Properties.                                                             *)

\* Section 4.B: a socket is released only when its last user lets it go, so
\* no rfc on the list (control or data) holds a socket the adapter has
\* detached.  At stake: l2tp_rfc_free_now and L2TP_CMD_SETOURADDR look only
\* at control rfcs before detaching, while L2TP_CMD_SETTUNNELID lets data
\* rfcs borrow the socket.
NoDanglingSocket ==
    \A r \in Live : rfc[r].socket # NoSock => rfc[r].socket \in attached

\* No socket is leaked: every socket the adapter holds open is held by a
\* control rfc of the list, through every free (immediate or after the
\* linger), rebind and EADDRINUSE transfer of l2tp_rfc_free_now and
\* l2tp_rfc_command.
NoSocketLeak ==
    \A s \in attached : \E r \in Controls : rfc[r].socket = s

\* Tunnel ids handed out by L2TP_CMD_GETNEWTUNNELID stay unique among the
\* control rfcs of the list, across the wrap of the 16-bit counter, so the
\* first-match demux of l2tp_rfc_lower_input and L2TP_CMD_SETTUNNELID finds
\* the right tunnel.
TunnelIdUnique ==
    \A c1, c2 \in Controls :
        c1 # c2 /\ rfc[c1].our_tunnel_id = rfc[c2].our_tunnel_id
            => rfc[c1].our_tunnel_id = 0

\* The module is down (l2tp_domain_inited 0, so module stop has returned
\* KERN_SUCCESS and the next start runs TAILQ_INIT on the list) only with
\* no rfc on l2tp_rfc_head and no UDP socket open: through every order of
\* socket creation, frees, lingering rfcs and start/stop attempts that fail
\* at any step, l2tp_domain_terminate never strands a live tunnel.
DomainDownOnlyWhenIdle ==
    ~domain_inited => head = <<>> /\ attached = {}

\* Section 4.C: a control frame goes to the first control rfc whose tunnel
\* id matches and whose peer address equals the source or is unset; the
\* code stops at the first id match whatever its address.  For every
\* nonzero tunnel id and every peer the two choose the same rfc (or both
\* drop), in every registry the hosts' commands, closes, lingering frees
\* and GETNEWTUNNELID wraps can build: the first-match walk of
\* l2tp_rfc_lower_input is right only as long as ids of control rfcs on
\* the list are never shared.
SpecControlRoute(t, a) ==
    FirstIn(LAMBDA x : /\ rfc[x].control /\ rfc[x].our_tunnel_id = t
                       /\ rfc[x].peer_address \in {NoAddr, a})

ControlDemuxAsSpecified ==
    \A t \in TunnelIds \ {0}, a \in PeerAddrs :
        ControlDemux(t, a) = SpecControlRoute(t, a)

\* The same for tunnel id 0, the id of vpnd's listening rfc and of every
\* control rfc not yet given an id: an SCCRQ from a peer goes where section
\* 4.C sends it.  Two control rfcs at id 0 with different peer addresses
\* break it.
ListenerDemuxAsSpecified ==
    \A a \in PeerAddrs : ControlDemux(0, a) = SpecControlRoute(0, a)

\* While the L2TP protocol is registered (sockets can be created and
\* issue commands), the UDP adapter they use has not been disposed.  A
\* terminate that disposes the adapter in l2tp_rfc_dispose and then fails
\* in l2tp_wan_dispose or l2tp_remove breaks this.
AdapterUpWhileRegistered ==
    proto_added => udp_up

====

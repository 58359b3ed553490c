------------------------------- MODULE L2TPRfc -------------------------------
(***************************************************************************)
(* The reliable control channel of the L2TP engine (l2tp_rfc.c): the      *)
(* per-tunnel send window, acknowledgement, out-of-order reassembly,      *)
(* retransmission timer and post-close linger.  Both ends of one control  *)
(* tunnel run this same code; they exchange UDP datagrams over a network  *)
(* that may lose, duplicate and reorder them.  The host of each rfc (the  *)
(* L2TP socket read by pppd) hands control messages to l2tp_rfc_output    *)
(* and receives them through the input callback, which may refuse a       *)
(* message when the socket buffer is full.                                *)
(***************************************************************************)
EXTENDS Integers, Sequences, SequencesExt, FiniteSets

CONSTANTS
    Ends,           \* the two hosts of the tunnel, one rfc each
    SeqSpace,       \* 2^16: our_ns, our_nr, peer_nr and seqno are u_int16_t
    CounterSpace,   \* 2^16 in the code: retry_count, retrans_time_remain, free_time_remain
    PeerWindow,     \* peer_window
    InitialTimeout, \* initial_timeout, in half-second ticks
    TimeoutCap,     \* timeout_cap, in half-second ticks
    MaxRetries,     \* max_retries
    AdaptTimer,     \* L2TP_FLAG_ADAPT_TIMER is set in flags
    FreeTicks,      \* free_time_remain set by l2tp_rfc_free_client (62 in the code)
    MaxMsgs,        \* bound: MaxMsgs[e] control messages host e hands to l2tp_rfc_output
    NetCap,         \* bound: datagrams in flight; a full network drops what is sent
    RecvQueueCap,   \* bound: recv_queue length; past it the l2tp_elem allocation fails
    Closers,        \* hosts that close the tunnel (l2tp_rfc_free_client)
    StartSeq        \* sequence points at which the quiescent tunnel is observed first

ASSUME Cardinality(Ends) = 2 /\ Closers \subseteq Ends
ASSUME SeqSpace \in {2^k : k \in 2..16} /\ CounterSpace \in {2^k : k \in 2..16}
ASSUME PeerWindow \in 1..(SeqSpace \div 2 - 1)
ASSUME {InitialTimeout, TimeoutCap, MaxRetries, FreeTicks} \subseteq 1..(CounterSpace - 1)
ASSUME AdaptTimer \in BOOLEAN /\ MaxMsgs \in [Ends -> Nat] /\ NetCap \in Nat \ {0} /\ RecvQueueCap \in Nat /\ StartSeq \subseteq 0..(SeqSpace - 1)

VARIABLES
    our_ns,              \* seq number of the next control message we send
    our_nr,              \* seq number we expect next from the peer
    peer_nr,             \* seq number the peer acknowledged last
    send_queue,          \* queued control messages, not yet acknowledged
    recv_queue,          \* control messages received out of order
    new_sequence,        \* L2TP_STATE_NEW_SEQUENCE: an ack is owed
    freeing,             \* L2TP_STATE_FREEING: closed, lingering
    free_time_remain,
    retry_count,
    retrans_time_remain,
    alive,               \* the rfc is on l2tp_rfc_head
    net,                 \* UDP datagrams in flight
    outputs,             \* l2tp_rfc_output calls made by the host
    sent,                \* bodies put on the send queue, in order
    delivered,           \* bodies given up through the input callback, in order
    failed               \* L2TP_EVT_RELIABLE_FAILED events raised, saturating at 2

rfc_vars == <<our_ns, our_nr, peer_nr, send_queue, recv_queue, new_sequence,
              freeing, free_time_remain, retry_count, retrans_time_remain, alive>>
host_vars == <<outputs, sent, delivered, failed>>
vars == <<rfc_vars, net, host_vars>>

Peer(e) == CHOOSE o \in Ends : o # e

-----------------------------------------------------------------------------
(* 16-bit modular arithmetic: SEQ_LT and friends cast the difference to   *)
(* int16_t; counters are u_int16_t and wrap.                              *)

Int16(x) == LET v == x % SeqSpace IN IF v >= SeqSpace \div 2 THEN v - SeqSpace ELSE v
\* mutant: an unsigned comparison, without the int16_t cast
SEQ_LT_unsigned(a, b) == a < b
SEQ_LT(a, b)  == Int16(a - b) < 0
SEQ_LEQ(a, b) == Int16(a - b) <= 0
SEQ_GT(a, b)  == Int16(a - b) > 0
\* mutant: the u_int16_t truncation is lost
Seq16NoWrap(x) == x
Seq16(x) == x % SeqSpace
U16(x) == x % CounterSpace

SeqNo == 0..(SeqSpace - 1)
MsgCap == Max({MaxMsgs[e] : e \in Ends})
Body == 1..MsgCap
Elem == [seqno : SeqNo, body : Body]                       \* struct l2tp_elem
Datagram == [to : Ends, ns : SeqNo, nr : SeqNo, body : 0..MsgCap]  \* body 0: ZLB ack

Bodies(q) == {q[i].body : i \in 1..Len(q)}

\* the datagram e puts on the wire for a control header with these fields
Frame(e, ns, nr, body) == [to |-> Peer(e), ns |-> ns, nr |-> nr, body |-> body]

\* l2tp_rfc_output_queued: a copy of a queued message, nr stamped afresh
OutputQueued(e, elem) == Frame(e, elem.seqno, our_nr[e], elem.body)

\* l2tp_udp_output: the datagrams join those in flight, unless the network
\* is at capacity, in which case they are lost like any other
Send(S) == IF Cardinality(net \cup S) <= NetCap THEN net \cup S ELSE net

-----------------------------------------------------------------------------
(* An established, quiescent tunnel: every message acknowledged, both     *)
(* tunnel ids set, nothing owed.  retrans_time_remain holds the value of  *)
(* the last reset; it is not read before l2tp_rfc_output resets it.       *)
Init ==
    /\ \E s \in [Ends -> StartSeq] :
          /\ our_ns = s
          /\ peer_nr = s
          /\ our_nr = [e \in Ends |-> s[Peer(e)]]
    /\ send_queue = [e \in Ends |-> <<>>]
    /\ recv_queue = [e \in Ends |-> <<>>]
    /\ new_sequence = [e \in Ends |-> FALSE]
    /\ freeing = [e \in Ends |-> FALSE]
    /\ free_time_remain = [e \in Ends |-> 0]
    /\ retry_count = [e \in Ends |-> 0]
    /\ retrans_time_remain = [e \in Ends |-> InitialTimeout]
    /\ alive = [e \in Ends |-> TRUE]
    /\ net = {}
    /\ outputs = [e \in Ends |-> 0]
    /\ sent = [e \in Ends |-> <<>>]
    /\ delivered = [e \in Ends |-> <<>>]
    /\ failed = [e \in Ends |-> 0]

TypeOK ==
    /\ our_ns \in [Ends -> SeqNo] /\ our_nr \in [Ends -> SeqNo] /\ peer_nr \in [Ends -> SeqNo]
    /\ send_queue \in [Ends -> Seq(Elem)] /\ recv_queue \in [Ends -> Seq(Elem)]
    /\ new_sequence \in [Ends -> BOOLEAN] /\ freeing \in [Ends -> BOOLEAN]
    /\ alive \in [Ends -> BOOLEAN]
    /\ free_time_remain \in [Ends -> 0..(CounterSpace - 1)]
    /\ retry_count \in [Ends -> 0..(CounterSpace - 1)]
    /\ retrans_time_remain \in [Ends -> 0..(CounterSpace - 1)]
    /\ net \subseteq Datagram
    /\ outputs \in [Ends -> 0..MsgCap]
    /\ sent \in [Ends -> Seq(Body)] /\ delivered \in [Ends -> Seq(Body)]
    /\ failed \in [Ends -> 0..2]
-----------------------------------------------------------------------------
(* l2tp_rfc_output on a control rfc (l2tp_rfc_output_control).  ns is    *)
(* taken and our_ns advanced before the l2tp_elem is allocated; when the *)
(* M_DONTWAIT allocation fails the call returns ENOMEM with our_ns       *)
(* already advanced.  A FREEING rfc has no host left to call it.         *)
(* Mutant: ns = ++our_ns instead of our_ns++.                             *)
l2tp_rfc_output_preinc(e) ==
    /\ alive[e] /\ ~freeing[e]
    /\ outputs[e] < MaxMsgs[e]
    /\ LET body == outputs[e] + 1
           elem == [seqno |-> Seq16(our_ns[e] + 1), body |-> body]
       IN /\ outputs' = [outputs EXCEPT ![e] = body]
          /\ our_ns' = [our_ns EXCEPT ![e] = Seq16(@ + 1)]
          /\ \/ /\ UNCHANGED <<send_queue, sent, retry_count, retrans_time_remain,
                               new_sequence, net>>
             \/ /\ send_queue' = [send_queue EXCEPT ![e] = Append(@, elem)]
                /\ sent' = [sent EXCEPT ![e] = Append(@, body)]
                /\ IF send_queue[e] = <<>>
                     THEN /\ retry_count' = [retry_count EXCEPT ![e] = 0]
                          /\ retrans_time_remain' = [retrans_time_remain EXCEPT ![e] = InitialTimeout]
                     ELSE UNCHANGED <<retry_count, retrans_time_remain>>
                /\ IF SEQ_LT(elem.seqno, peer_nr[e] + PeerWindow)
                     THEN /\ new_sequence' = [new_sequence EXCEPT ![e] = FALSE]
                          /\ net' = Send({OutputQueued(e, elem)})
                     ELSE UNCHANGED <<new_sequence, net>>
    /\ UNCHANGED <<our_nr, peer_nr, recv_queue, freeing, free_time_remain, alive,
                   delivered, failed>>

l2tp_rfc_output(e) ==
    /\ alive[e] /\ ~freeing[e]
    /\ outputs[e] < MaxMsgs[e]
    /\ LET body == outputs[e] + 1
           elem == [seqno |-> our_ns[e], body |-> body]
       IN /\ outputs' = [outputs EXCEPT ![e] = body]
          /\ our_ns' = [our_ns EXCEPT ![e] = Seq16(@ + 1)]
          /\ \/ /\ UNCHANGED <<send_queue, sent, retry_count, retrans_time_remain,
                               new_sequence, net>>
             \/ /\ send_queue' = [send_queue EXCEPT ![e] = Append(@, elem)]
                /\ sent' = [sent EXCEPT ![e] = Append(@, body)]
                /\ IF send_queue[e] = <<>>
                     THEN /\ retry_count' = [retry_count EXCEPT ![e] = 0]
                          /\ retrans_time_remain' = [retrans_time_remain EXCEPT ![e] = InitialTimeout]
                     ELSE UNCHANGED <<retry_count, retrans_time_remain>>
                /\ IF SEQ_LT(elem.seqno, peer_nr[e] + PeerWindow)
                     THEN /\ new_sequence' = [new_sequence EXCEPT ![e] = FALSE]
                          /\ net' = Send({OutputQueued(e, elem)})
                     ELSE UNCHANGED <<new_sequence, net>>
    /\ UNCHANGED <<our_nr, peer_nr, recv_queue, freeing, free_time_remain, alive,
                   delivered, failed>>

(* l2tp_rfc_fasttimer, every 200 ms: a ZLB ack for an rfc that owes one.  *)
l2tp_rfc_fasttimer(e) ==
    /\ alive[e] /\ new_sequence[e]
    /\ net' = Send({Frame(e, our_ns[e], our_nr[e], 0)})
    /\ new_sequence' = [new_sequence EXCEPT ![e] = FALSE]
    /\ UNCHANGED <<our_ns, our_nr, peer_nr, send_queue, recv_queue, freeing,
                   free_time_remain, retry_count, retrans_time_remain, alive, host_vars>>

(* l2tp_rfc_free_now: the rfc leaves l2tp_rfc_head with its queues.       *)
FreeNow(e) ==
    /\ alive' = [alive EXCEPT ![e] = FALSE]
    /\ send_queue' = [send_queue EXCEPT ![e] = <<>>]
    /\ recv_queue' = [recv_queue EXCEPT ![e] = <<>>]
    /\ free_time_remain' = [free_time_remain EXCEPT ![e] = 0]
    /\ UNCHANGED <<retry_count, retrans_time_remain, net, failed>>

(* The send-queue half of l2tp_rfc_slowtimer: count the retransmission   *)
(* timer down; on expiry either report RELIABLE_FAILED (not to a FREEING *)
(* rfc) or resend the head with a doubled, capped timeout.               *)
(* Mutant: the incremented retry_count is never stored.                   *)
RetransmitNoCount(e) ==
    IF send_queue[e] = <<>>
    THEN UNCHANGED <<retry_count, retrans_time_remain, net, failed>>
    ELSE LET rtr == U16(retrans_time_remain[e] - 1)
             rc  == U16(retry_count[e] + 1)
             next == IF AdaptTimer THEN U16(InitialTimeout * 2^rc) ELSE InitialTimeout
         IN IF rtr # 0
            THEN /\ retrans_time_remain' = [retrans_time_remain EXCEPT ![e] = rtr]
                 /\ UNCHANGED <<retry_count, net, failed>>
            ELSE /\ UNCHANGED retry_count
                 /\ IF rc >= MaxRetries
                    THEN /\ retrans_time_remain' = [retrans_time_remain EXCEPT ![e] = rtr]
                         /\ failed' = IF freeing[e] THEN failed
                                      ELSE [failed EXCEPT ![e] = IF @ < 2 THEN @ + 1 ELSE 2]
                         /\ UNCHANGED net
                    ELSE /\ net' = Send({OutputQueued(e, Head(send_queue[e]))})
                         /\ retrans_time_remain' =
                               [retrans_time_remain EXCEPT ![e] =
                                   IF next > TimeoutCap THEN TimeoutCap ELSE next]
                         /\ UNCHANGED failed

Retransmit(e) ==
    IF send_queue[e] = <<>>
    THEN UNCHANGED <<retry_count, retrans_time_remain, net, failed>>
    ELSE LET rtr == U16(retrans_time_remain[e] - 1)
             rc  == U16(retry_count[e] + 1)
             next == IF AdaptTimer THEN U16(InitialTimeout * 2^rc) ELSE InitialTimeout
         IN IF rtr # 0
            THEN /\ retrans_time_remain' = [retrans_time_remain EXCEPT ![e] = rtr]
                 /\ UNCHANGED <<retry_count, net, failed>>
            ELSE /\ retry_count' = [retry_count EXCEPT ![e] = rc]
                 /\ IF rc >= MaxRetries
                    THEN /\ retrans_time_remain' = [retrans_time_remain EXCEPT ![e] = rtr]
                         /\ failed' = IF freeing[e] THEN failed
                                      ELSE [failed EXCEPT ![e] = IF @ < 2 THEN @ + 1 ELSE 2]
                         /\ UNCHANGED net
                    ELSE /\ net' = Send({OutputQueued(e, Head(send_queue[e]))})
                         /\ retrans_time_remain' =
                               [retrans_time_remain EXCEPT ![e] =
                                   IF next > TimeoutCap THEN TimeoutCap ELSE next]
                         /\ UNCHANGED failed

(* l2tp_rfc_slowtimer, every 500 ms: a FREEING rfc counts its linger down *)
(* and is freed at zero; otherwise the retransmission timer runs.  The   *)
(* tick is only an action when it changes something.                     *)
l2tp_rfc_slowtimer(e) ==
    /\ alive[e]
    /\ freeing[e] \/ send_queue[e] # <<>>
    /\ IF freeing[e] /\ U16(free_time_remain[e] - 1) = 0
       THEN FreeNow(e)
       ELSE /\ free_time_remain' = IF freeing[e]
                                   THEN [free_time_remain EXCEPT ![e] = U16(@ - 1)]
                                   ELSE free_time_remain
            /\ Retransmit(e)
            /\ UNCHANGED <<alive, send_queue, recv_queue>>
    /\ UNCHANGED <<our_ns, our_nr, peer_nr, new_sequence, freeing,
                   outputs, sent, delivered>>

(* l2tp_rfc_free_client on a control rfc with both tunnel ids: the host  *)
(* is cleared and the rfc lingers FreeTicks slow ticks.                  *)
l2tp_rfc_free_client(e) ==
    /\ e \in Closers
    /\ alive[e] /\ ~freeing[e]
    /\ freeing' = [freeing EXCEPT ![e] = TRUE]
    /\ free_time_remain' = [free_time_remain EXCEPT ![e] = FreeTicks]
    /\ UNCHANGED <<our_ns, our_nr, peer_nr, send_queue, recv_queue, new_sequence,
                   retry_count, retrans_time_remain, alive, net, host_vars>>

-----------------------------------------------------------------------------
(* l2tp_rfc_handle_ack(e, nr): drop the acknowledged head of the send    *)
(* queue, resetting the timer and retry count if anything was dropped,   *)
(* and send the queued messages that the advance brought into the window.*)
(* Mutant: the head is dropped while nr >= seqno (nr itself is unacked).  *)
RECURSIVE DropAckedInclusive(_, _)
DropAckedInclusive(q, nr) ==
    IF q # <<>> /\ SEQ_LEQ(Head(q).seqno, nr) THEN DropAckedInclusive(Tail(q), nr) ELSE q

RECURSIVE DropAcked(_, _)
DropAcked(q, nr) ==
    IF q # <<>> /\ SEQ_GT(nr, Head(q).seqno) THEN DropAcked(Tail(q), nr) ELSE q

AckResend(e, nr) ==
    LET kept == DropAcked(send_queue[e], nr)
        stop == SelectInSeq(kept, LAMBDA x : SEQ_GT(x.seqno, nr + PeerWindow - 1))
        scan == IF stop = 0 THEN 1..Len(kept) ELSE 1..(stop - 1)
    IN {OutputQueued(e, kept[i]) :
           i \in {j \in scan : SEQ_GT(kept[j].seqno, peer_nr[e] + PeerWindow - 1)}}

l2tp_rfc_handle_ack(e, nr) ==
    LET kept == DropAcked(send_queue[e], nr)
    IN /\ peer_nr' = [peer_nr EXCEPT ![e] = nr]
       /\ send_queue' = [send_queue EXCEPT ![e] = kept]
       /\ IF kept # send_queue[e]
          THEN /\ retrans_time_remain' = [retrans_time_remain EXCEPT ![e] = InitialTimeout]
               /\ retry_count' = [retry_count EXCEPT ![e] = 0]
          ELSE UNCHANGED <<retrans_time_remain, retry_count>>

(* The drain loop of l2tp_handle_control: give up the queued successors *)
(* of our_nr.  The host accepts `budget` more messages; the first one it *)
(* refuses sets buf_full and the rest of the queue is freed.  A FREEING  *)
(* rfc consumes the successors without giving them up.                   *)
(* Mutant: the drain gives up the head without comparing it with our_nr. *)
RECURSIVE DrainAnySeq(_, _, _, _)
DrainAnySeq(q, nr, budget, lingering) ==
    IF q = <<>> THEN [q |-> q, nr |-> nr, up |-> <<>>]
    ELSE IF lingering THEN DrainAnySeq(Tail(q), Seq16(nr + 1), budget, lingering)
    ELSE IF budget = 0 THEN [q |-> <<>>, nr |-> nr, up |-> <<>>]
    ELSE LET r == DrainAnySeq(Tail(q), Seq16(nr + 1), budget - 1, lingering)
         IN [r EXCEPT !.up = <<Head(q).body>> \o @]

RECURSIVE Drain(_, _, _, _)
Drain(q, nr, budget, lingering) ==
    IF q = <<>> \/ Head(q).seqno # nr THEN [q |-> q, nr |-> nr, up |-> <<>>]
    ELSE IF lingering THEN Drain(Tail(q), Seq16(nr + 1), budget, lingering)
    ELSE IF budget = 0 THEN [q |-> <<>>, nr |-> nr, up |-> <<>>]
    ELSE LET r == Drain(Tail(q), Seq16(nr + 1), budget - 1, lingering)
         IN [r EXCEPT !.up = <<Head(q).body>> \o @]

(* ns ahead of our_nr: the insertion loop of l2tp_handle_control.  It    *)
(* walks the queue from the head, drops an exact duplicate, stops at the *)
(* first element whose seqno is below ns and inserts after it, or at the *)
(* head when it found none.                                              *)
QueueOutOfOrder(e, p) ==
    LET q == recv_queue[e]
        i == SelectInSeq(q, LAMBDA x : x.seqno = p.ns \/ SEQ_GT(p.ns, x.seqno))
    IN /\ \/ /\ i # 0 /\ q[i].seqno = p.ns          \* already queued: dropped
             /\ UNCHANGED recv_queue
          \/ /\ ~(i # 0 /\ q[i].seqno = p.ns)
             /\ Len(q) < RecvQueueCap
             /\ recv_queue' = [recv_queue EXCEPT ![e] =
                                  InsertAt(q, i + 1, [seqno |-> p.ns, body |-> p.body])]
          \/ /\ ~(i # 0 /\ q[i].seqno = p.ns)       \* _MALLOC(M_DONTWAIT) failed
             /\ UNCHANGED recv_queue
       /\ UNCHANGED <<our_nr, new_sequence, delivered>>

(* ns equal to our_nr: give it up (a FREEING rfc drops it), advance      *)
(* our_nr, owe an ack and drain.  If the host refuses it (budget 0) the  *)
(* datagram is dropped and nothing changes.                              *)
(* Mutant: the input callback's refusal is ignored and our_nr advances.   *)
DeliverInOrderIgnoreRefusal(e, p) ==
    \E budget \in 0..(Len(recv_queue[e]) + 1) :
        IF ~freeing[e] /\ budget = 0
        THEN /\ our_nr' = [our_nr EXCEPT ![e] = Seq16(@ + 1)]
             /\ new_sequence' = [new_sequence EXCEPT ![e] = TRUE]
             /\ UNCHANGED <<recv_queue, delivered>>
        ELSE LET r == Drain(recv_queue[e], Seq16(our_nr[e] + 1), budget - 1, freeing[e])
             IN /\ our_nr' = [our_nr EXCEPT ![e] = r.nr]
                /\ recv_queue' = [recv_queue EXCEPT ![e] = r.q]
                /\ new_sequence' = [new_sequence EXCEPT ![e] = TRUE]
                /\ delivered' = IF freeing[e] THEN delivered
                                ELSE [delivered EXCEPT ![e] = @ \o <<p.body>> \o r.up]

DeliverInOrder(e, p) ==
    \E budget \in 0..(Len(recv_queue[e]) + 1) :
        IF ~freeing[e] /\ budget = 0
        THEN UNCHANGED <<our_nr, recv_queue, new_sequence, delivered>>
        ELSE LET r == Drain(recv_queue[e], Seq16(our_nr[e] + 1), budget - 1, freeing[e])
             IN /\ our_nr' = [our_nr EXCEPT ![e] = r.nr]
                /\ recv_queue' = [recv_queue EXCEPT ![e] = r.q]
                /\ new_sequence' = [new_sequence EXCEPT ![e] = TRUE]
                /\ delivered' = IF freeing[e] THEN delivered
                                ELSE [delivered EXCEPT ![e] = @ \o <<p.body>> \o r.up]

(* l2tp_handle_control on an rfc with a non-zero tunnel id, reached from *)
(* l2tp_rfc_lower_input: the ack field first, then the body.  The        *)
(* datagram is consumed, or stays in the network as a duplicate.         *)
l2tp_handle_control(e, p) ==
    /\ alive[e] /\ p.to = e
    /\ IF SEQ_GT(p.nr, peer_nr[e])
       THEN l2tp_rfc_handle_ack(e, p.nr)
       ELSE UNCHANGED <<peer_nr, send_queue, retrans_time_remain, retry_count>>
    /\ LET resent == IF SEQ_GT(p.nr, peer_nr[e]) THEN AckResend(e, p.nr) ELSE {}
       IN \E again \in BOOLEAN :
             LET rest == IF again THEN net ELSE net \ {p}
             IN net' = IF Cardinality(rest \cup resent) <= NetCap
                       THEN rest \cup resent ELSE rest
    /\ CASE p.body = 0 ->                                  \* ZLB ack
              UNCHANGED <<our_nr, recv_queue, new_sequence, delivered>>
         [] SEQ_GT(p.ns, our_nr[e]) -> QueueOutOfOrder(e, p)
         [] SEQ_LT(p.ns, our_nr[e]) ->                     \* duplicate: re-ack
              /\ new_sequence' = [new_sequence EXCEPT ![e] = TRUE]
              /\ UNCHANGED <<our_nr, recv_queue, delivered>>
         [] OTHER -> DeliverInOrder(e, p)
    /\ UNCHANGED <<our_ns, freeing, free_time_remain, alive, outputs, sent, failed>>

(* The network loses a datagram (or l2tp_udp_output failed to send it).  *)
Lose(p) ==
    /\ net' = net \ {p}
    /\ UNCHANGED <<rfc_vars, host_vars>>

Next ==
    \/ \E e \in Ends :
          \/ l2tp_rfc_output(e)
          \/ l2tp_rfc_fasttimer(e)
          \/ l2tp_rfc_slowtimer(e)
          \/ l2tp_rfc_free_client(e)
          \/ \E p \in net : l2tp_handle_control(e, p)
    \/ \E p \in net : Lose(p)

(* Both timers are kernel protocol timers that fire periodically.  The   *)
(* hosts and the network get no fairness.                                *)
Fairness ==
    \A e \in Ends : /\ WF_vars(l2tp_rfc_slowtimer(e))
                    /\ WF_vars(l2tp_rfc_fasttimer(e))

Spec == Init /\ [][Next]_vars /\ Fairness

-----------------------------------------------------------------------------
(* Properties                                                              *)

(* What the host of each end has been given up by the input callback is  *)
(* exactly a prefix of what the peer host queued with l2tp_rfc_output:   *)
(* the ack, duplicate-drop, reassembly and drain logic of                *)
(* l2tp_handle_control never loses a message in the middle, duplicates   *)
(* one, or gives one up out of order, whatever the network does.         *)
InOrderDelivery ==
    \A e \in Ends : IsPrefix(delivered[e], sent[Peer(e)])

(* Spec section 3, invariant 1: every message on a live send queue lies  *)
(* in [peer_nr, our_ns) modulo 2^16, and the peer has never acknowledged *)
(* past our_ns; so l2tp_rfc_handle_ack never frees an unacked message.   *)
SendQueueInWindow ==
    \A e \in Ends : alive[e] =>
        /\ SEQ_LEQ(peer_nr[e], our_ns[e])
        /\ \A i \in 1..Len(send_queue[e]) :
              /\ SEQ_LEQ(peer_nr[e], send_queue[e][i].seqno)
              /\ SEQ_LT(send_queue[e][i].seqno, our_ns[e])

(* No step puts on the wire a control message of e whose seqno is at or *)
(* beyond peer_nr + peer_window: l2tp_rfc_output_control holds it, and   *)
(* l2tp_rfc_handle_ack releases it only once the window covers it.       *)
WindowRespected ==
    [][\A e \in Ends : \A d \in net' \ net :
          (d.to = Peer(e) /\ d.body # 0) => SEQ_LT(d.ns, peer_nr'[e] + PeerWindow)]_vars

(* Every message queued by l2tp_rfc_output eventually leaves the send    *)
(* queue (acknowledged, or dropped when the rfc is freed), or the host   *)
(* has been told L2TP_EVT_RELIABLE_FAILED: retransmission never goes on  *)
(* forever without a verdict, however the network behaves.               *)
AckedOrFailed ==
    \A e \in Ends, b \in Body :
        (b \in Bodies(send_queue[e])) ~> (b \notin Bodies(send_queue[e]) \/ failed[e] > 0)

(* The retransmission timer never waits longer than timeout_cap: the    *)
(* slowtimer caps initial_timeout << retry_count at timeout_cap, and the *)
(* countdown starts from a value at most the cap.                        *)
RetransWithinCap ==
    \A e \in Ends : send_queue[e] # <<>> => retrans_time_remain[e] <= TimeoutCap

(* Spec section 3, invariant 2: a live recv_queue is strictly increasing *)
(* in 16-bit modular order and holds only seqnos beyond our_nr.          *)
RecvQueueOrdered ==
    \A e \in Ends : alive[e] =>
        /\ IsSorted(recv_queue[e], LAMBDA x, y : SEQ_LT(x.seqno, y.seqno))
        /\ \A i \in 1..Len(recv_queue[e]) : SEQ_GT(recv_queue[e][i].seqno, our_nr[e])

(* A message leaves the send queue of e only once the peer has received *)
(* it: while both rfcs are live and the peer is not lingering, every     *)
(* body e queued and no longer holds has been given up to the peer's     *)
(* host, and e's peer_nr never runs ahead of the peer's our_nr.  This is *)
(* what l2tp_rfc_handle_ack's SEQ_GT(nr, seqno) test and the receiver's  *)
(* advance-only-after-inputcb rule must agree on.                        *)
AckedMeansReceived ==
    \A e \in Ends : (alive[e] /\ alive[Peer(e)] /\ ~freeing[Peer(e)]) =>
        /\ SEQ_LEQ(peer_nr[e], our_nr[Peer(e)])
        /\ \A b \in Range(sent[e]) \ Bodies(send_queue[e]) : b \in Range(delivered[Peer(e)])

=============================================================================

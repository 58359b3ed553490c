------------------------------ MODULE L2TPData ------------------------------
(***************************************************************************)
(* The data path of one L2TP session (l2tp_rfc.c): the sender side of      *)
(* l2tp_rfc_output_data and the receiver side of l2tp_handle_data, with    *)
(* the optional data sequence numbers (L2TP_FLAG_PEER_SEQ_REQ) over a UDP  *)
(* network that loses, duplicates and reorders.  Data frames carry no      *)
(* acknowledgement; the receiver keeps only peer_last_data_seq.            *)
(*                                                                         *)
(* Every frame carries, beside its header fields, its index in the order   *)
(* of sending: it is not on the wire and serves only the properties.       *)
(***************************************************************************)
EXTENDS Integers, Sequences, SequencesExt, FiniteSets

CONSTANTS
    SeqSpace,     \* 2^16: the width of the u_int16_t sequence fields
    SeqReqChoices, \* whether the sender's host sets L2TP_FLAG_PEER_SEQ_REQ
    DataStart,    \* the sender counters the session may start from
    MaxFrames,    \* bound: frames the sender's PPP hands down
    NetCap,       \* bound: datagrams in flight
    MaxDups       \* bound: datagrams the network duplicates

ASSUME /\ SeqSpace \in Nat /\ SeqSpace >= 4
       /\ SeqReqChoices \subseteq BOOLEAN
       /\ DataStart \subseteq 0 .. SeqSpace - 1
       /\ MaxFrames \in Nat /\ NetCap \in Nat \ {0} /\ MaxDups \in Nat

VARIABLES
    peer_seq_req,        \* L2TP_FLAG_PEER_SEQ_REQ in the sender's flags
    our_last_data_seq,   \* sender: next data seqno
    peer_last_data_seq,  \* receiver: last data seqno accepted in sequence
    net,                 \* data frames in flight
    sent,                \* frames sent so far (the next frame's index)
    delivered,           \* what the receiver gave its host: <<index, error>>
    dropped,             \* indices of frames the receiver dropped
    dups                 \* datagrams duplicated so far

vars == <<peer_seq_req, our_last_data_seq, peer_last_data_seq, net, sent, delivered, dropped, dups>>

SeqNo == 0 .. SeqSpace - 1

\* The casts of SEQ_GT: a 16-bit difference read as a signed int16_t.
Int16(x) == LET d == x % SeqSpace IN IF d >= SeqSpace \div 2 THEN d - SeqSpace ELSE d

SEQ_GT(a, b) == Int16(a - b) > 0

\* A data header: S bit and ns, and the frame's index.
Frame == [s : BOOLEAN, ns : SeqNo, idx : Nat]

Send(S) == IF Cardinality(net \cup S) <= NetCap THEN net \cup S ELSE net

-----------------------------------------------------------------------------
\* Both ends start as bzero left them (counters 0), or in the state a
\* lossless session reaches after k frames: the sender at k, the receiver
\* at k - 1 (the first frame, 0, is never accepted in sequence: SEQ_GT(0, 0)
\* is false, so l2tp_handle_data drops it).
Init ==
    /\ peer_seq_req \in SeqReqChoices
    /\ \E k \in DataStart :
          /\ our_last_data_seq = k
          /\ peer_last_data_seq = IF k = 0 THEN 0 ELSE k - 1
    /\ net = {}
    /\ sent = 0
    /\ delivered = <<>>
    /\ dropped = {}
    /\ dups = 0

TypeOK ==
    /\ peer_seq_req \in BOOLEAN
    /\ our_last_data_seq \in SeqNo /\ peer_last_data_seq \in SeqNo
    /\ net \subseteq Frame /\ Cardinality(net) <= NetCap
    /\ sent \in 0 .. MaxFrames
    /\ delivered \in Seq([idx : 0 .. MaxFrames - 1, s : BOOLEAN, error : BOOLEAN])
    /\ dropped \subseteq 0 .. MaxFrames - 1
    /\ dups \in 0 .. MaxDups

-----------------------------------------------------------------------------
Incr16NoWrap(x) == x + 1

\* The ++ of a u_int16_t counter.
Incr16(x) == (x + 1) % SeqSpace

\* l2tp_rfc_output_data: with PEER_SEQ_REQ the header carries
\* ns = our_last_data_seq++ (u_int16_t); the frame is sent once.  The
\* ENOBUFS return of M_PREPEND changes nothing and is a stuttering step.
l2tp_rfc_output_data ==
    /\ sent < MaxFrames
    /\ net' = Send({[s |-> peer_seq_req, ns |-> IF peer_seq_req THEN our_last_data_seq ELSE 0,
                     idx |-> sent]})
    /\ our_last_data_seq' = IF peer_seq_req THEN Incr16(our_last_data_seq)
                            ELSE our_last_data_seq
    /\ sent' = sent + 1
    /\ UNCHANGED <<peer_seq_req, peer_last_data_seq, delivered, dropped, dups>>

InSequenceAnyNewer(ns) == SEQ_GT(ns, peer_last_data_seq)

\* The test of l2tp_handle_data for the next frame in sequence; the
\* addition is done in int, after the promotion of the u_int16_t field.
InSequence(ns) == peer_last_data_seq + 1 = ns

\* l2tp_handle_data for a frame of this session (tunnel id, session id and
\* peer address match).  A sequenced frame newer than peer_last_data_seq is
\* given up; peer_last_data_seq advances if it is the next one, otherwise
\* L2TP_EVT_INPUTERROR is raised.  A sequenced frame not newer is dropped.
\* A frame without the S bit is given up as it is.
l2tp_handle_data(f) ==
    /\ \/ /\ f.s /\ SEQ_GT(f.ns, peer_last_data_seq)
          /\ peer_last_data_seq' = IF InSequence(f.ns)
                                   THEN Incr16(peer_last_data_seq)
                                   ELSE peer_last_data_seq
          /\ delivered' = Append(delivered, [idx |-> f.idx, s |-> TRUE, error |-> ~InSequence(f.ns)])
          /\ UNCHANGED dropped
       \/ /\ f.s /\ ~SEQ_GT(f.ns, peer_last_data_seq)
          /\ dropped' = dropped \cup {f.idx}
          /\ UNCHANGED <<peer_last_data_seq, delivered>>
       \/ /\ ~f.s
          /\ delivered' = Append(delivered, [idx |-> f.idx, s |-> FALSE, error |-> FALSE])
          /\ UNCHANGED <<peer_last_data_seq, dropped>>
    /\ UNCHANGED <<peer_seq_req, our_last_data_seq, sent>>

\* Delivery by UDP, which may also duplicate the datagram (leave it in net).
Receive(f) ==
    /\ f \in net
    /\ l2tp_handle_data(f)
    /\ \/ /\ net' = net \ {f}
          /\ UNCHANGED dups
       \/ /\ dups < MaxDups
          /\ dups' = dups + 1
          /\ UNCHANGED net

Lose(f) ==
    /\ f \in net
    /\ net' = net \ {f}
    /\ UNCHANGED <<peer_seq_req, our_last_data_seq, peer_last_data_seq, sent, delivered, dropped, dups>>

Next ==
    \/ l2tp_rfc_output_data
    \/ \E f \in net : Receive(f) \/ Lose(f)

Spec == Init /\ [][Next]_vars

-----------------------------------------------------------------------------
(* Properties.                                                             *)

\* L2TP_EVT_INPUTERROR reports a sequence gap: it is raised on a frame only
\* if some frame sent before it has not been given up by then (lost or
\* overtaken).  At stake: the int-promoted test peer_last_data_seq + 1 == ns
\* at the 16-bit wrap.
InputErrorOnlyAfterGap ==
    \A i \in DOMAIN delivered :
        delivered[i].error =>
            \E j \in 0 .. delivered[i].idx - 1 :
                j \notin {delivered[k].idx : k \in 1 .. i - 1}

\* The sequenced frames given up without an error are given up in the order they
\* were sent, each once: the in-sequence branch of l2tp_handle_data and the
\* increment of peer_last_data_seq never let an old or repeated frame
\* through, whatever the network does.
CleanDeliveriesInOrder ==
    LET clean == SelectSeq(delivered, LAMBDA r : r.s /\ ~r.error)
    IN  \A i, j \in DOMAIN clean : i < j => clean[i].idx < clean[j].idx

====

----------------------------- MODULE MC_L2TPRfc -----------------------------
(* Model-checking instance of L2TPRfc: two hosts a and b.                  *)
EXTENDS L2TPRfc

CONSTANTS a, b

MCEnds == {a, b}

\* sequence numbers keep their 16 bits; one start point sits just below
\* the wrap so that acks, windows and reassembly cross 65535 -> 0
MCSeqSpace == 2^16
MCStartSeq == {2^16 - 1}

\* the timers' u_int16_t wrap (65535 ticks in the code) made reachable
MCCounterSpace == 2^2

\* a sends four messages through a window of three, b only acknowledges them
MCMaxMsgs == [e \in MCEnds |-> IF e = a THEN 4 ELSE 0]

\* a burst of three from a, none from b: enough for a duplicate to be
\* re-queued behind an out-of-order predecessor
MCMaxMsgsBurst == [e \in MCEnds |-> IF e = a THEN 4 ELSE 0]

\* one message each way: enough for every ack, loss and retry path
MCMaxMsgsOne == [e \in MCEnds |-> 1]
=============================================================================

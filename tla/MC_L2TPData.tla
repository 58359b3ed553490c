----------------------------- MODULE MC_L2TPData -----------------------------
(* Three sequenced data frames, two in flight, from the start of a session *)
(* and from two frames before the 16-bit wrap of the data counters.       *)
EXTENDS L2TPData

MCSeqSpace == 2^16
MCDataStart == {0, 2^16 - 2}
MCDataStartZero == {0}
MCDataStartWrap == {2^16 - 2}
====

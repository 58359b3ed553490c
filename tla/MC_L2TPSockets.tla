--------------------------- MODULE MC_L2TPSockets ---------------------------
(* Rfcs r1 and r2 are control connections, r3 a data session.  Two        *)
(* control rfcs and two sockets are enough for two tunnels on one 4-tuple  *)
(* (the EADDRINUSE transfer).  The main run has the two control rfcs only *)
(* (an rfc given a tunnel id before its flags stays a data rfc) and ids 1 *)
(* and 2, without symmetry since it checks liveness; the dangling-socket  *)
(* run adds the data rfc r3 and keeps the single id 1.                    *)
EXTENDS L2TPSockets, TLC

CONSTANTS r1, r2, r3, s1, s2

MCRfcs == {r1, r2, r3}
MCControlRfcs == {r1, r2}
MCSocks == {s1, s2}

\* A tunnel id counter of width 3 (ids 1 and 2): the wrap and the skip of 0
\* happen after two allocations, while both control rfcs may hold ids.
MCTidSpace == 3
\* Width 1 (the single id 1) for the socket-sharing question, which needs
\* one established control connection for a data rfc to join.
MCTidSpaceOne == 2

\* One socket, for the module start/stop question.
MCOneSock == {s1}

MCSymmetry == Permutations(MCControlRfcs) \cup Permutations(MCSocks)
====

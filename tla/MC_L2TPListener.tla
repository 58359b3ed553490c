--------------------------- MODULE MC_L2TPListener ---------------------------
(* Two peers' calls, each sent at most twice, and a listening socket       *)
(* buffer of two datagrams, so that the buffer refuses frames while vpnd is *)
(* between L2TP_OPT_ACCEPT and recvfrom.  vpnd's settings: an IPSec       *)
(* server, a plain IP server with other settings, and the command line.   *)
EXTENDS L2TPListener, TLC

CONSTANTS c1, c2, d1, d2

MCCalls == {c1, c2}
MCConfigs ==
    { [server |-> TRUE, ip |-> FALSE, dict |-> d1],
      [server |-> TRUE, ip |-> TRUE, dict |-> d2],
      [server |-> FALSE, ip |-> FALSE, dict |-> None] }
MCServerConfigs == {cf \in MCConfigs : cf.server}
MCSymmetry == Permutations(MCCalls)
====

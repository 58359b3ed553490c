---------------------------- MODULE MC_PPTPControl ----------------------------
(* Two hosts with distinct call ids, windows and delays, one echo each,  *)
(* a Call-Disconnect-Notify from the answering host, and the message     *)
(* sizes of RFC 2637 (header 12 bytes).                                   *)
EXTENDS PPTPControl

MCBodyBytes == (1 :> 144) @@ (2 :> 144) @@ (5 :> 4) @@ (6 :> 8) @@ (7 :> 156)
               @@ (8 :> 20) @@ (13 :> 136) @@ (14 :> 28) @@ (15 :> 12)
MCCallId == ("out" :> 11) @@ ("in" :> 22)
MCWindow == ("out" :> 4) @@ ("in" :> 64)
MCPpd == ("out" :> 0) @@ ("in" :> 3)
====

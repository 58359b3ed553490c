------------------------- MODULE MC_PPPClientSocket -------------------------
(* A two-byte header stands for the twenty bytes of struct ppp_msg_hdr: a  *)
(* piece of the stream ends inside a header, at its end, inside a body or  *)
(* across two messages all the same.  The requests: a regular request with *)
(* a body, one addressed by service id, a pppd private message (its type  *)
(* is any value above LAST_REQUEST), and a regular request whose two-byte  *)
(* body may itself be split between two reads.                             *)
EXTENDS PPPClientSocket

MCWord == 2^16
MCUseServiceId == 1

MCRequests ==
    { [flags |-> 0, type |-> 1, link |-> 0, len |-> 1],
      [flags |-> MCUseServiceId, type |-> 2, link |-> 1, len |-> 0],
      [flags |-> 0, type |-> 256, link |-> 0, len |-> 1],
      [flags |-> 0, type |-> 3, link |-> 0, len |-> 2] }

\* A regular request announcing m_len = 2^32 - sizeof(struct ppp_msg_hdr)
\* (reduced to Word), after a well-formed one.
MCRequestsHuge ==
    { [flags |-> 0, type |-> 1, link |-> 0, len |-> 1],
      [flags |-> 0, type |-> 1, link |-> 0, len |-> MCWord - 2] }

\* A well-formed request and one without a body or service id (as
\* PPP_VERSION is sent), for the failed allocation.
MCRequestsNoBody ==
    { [flags |-> 0, type |-> 1, link |-> 0, len |-> 1],
      [flags |-> 0, type |-> 1, link |-> 0, len |-> 0] }
====

--------------------------- MODULE PPPClientSocket ---------------------------
(***************************************************************************)
(* One client of the PPP controller's local control socket                 *)
(* (ppp_socket_server.c).  The client writes length-prefixed messages; the *)
(* socket is non-blocking, so clientCallBack, called by the run loop while *)
(* the socket is readable, reads what has arrived and stitches a message   *)
(* together across calls in client->msglen, client->msgtotallen and the   *)
(* buffer client->msg.  The header is read first, its byte order guessed,  *)
(* the buffer allocated for header, service id and body; a complete        *)
(* message is handed to processRequest.                                    *)
(*                                                                         *)
(* Header fields keep their values as numbers in Word (the u_int32_t       *)
(* arithmetic of the code, reduced to the width TLC's integers allow) and  *)
(* a header is HdrSize bytes long.  The client's bytes reach the socket in *)
(* pieces of any size up to MaxChunk.                                      *)
(***************************************************************************)
EXTENDS Integers, Sequences, SequencesExt

CONSTANTS
    HdrSize,        \* sizeof(struct ppp_msg_hdr)
    Word,           \* the modulus of the header's integer fields
    LastRequest,    \* LAST_REQUEST (PPP_GETCONNECTDATA)
    USE_SERVICEID,  \* the m_flags bit: a service id of m_link bytes precedes the body
    Requests,       \* the headers a client may send: [flags, type, link, len]
    Privileged,     \* the choices of CLIENT_FLAG_PRIVILEDGED for the client
    Orders,         \* the byte orders a client may use: "host", "net"
    MaxMsgs,        \* bound: messages the client writes
    MaxBody,        \* bound: body bytes the client writes for one message
    MaxChunk,       \* bound: bytes that arrive in one piece
    AllocFails,     \* the outcomes of my_Allocate: FALSE (a buffer), TRUE (NULL)
    None

ASSUME /\ HdrSize \in Nat \ {0} /\ Word = 2^16
       /\ Privileged \subseteq BOOLEAN /\ AllocFails \subseteq BOOLEAN /\ Orders \subseteq {"host", "net"}

VARIABLES
    priv, order,    \* the client: privileged (pppd) or not, and its byte order
    sent,           \* the headers the client has written, in order
    arrived,        \* bytes of the client's stream that reached the socket
    eof,            \* the client has closed its end
    rd,             \* bytes of the stream the controller has read
    msglen,         \* client->msglen
    msgtotallen,    \* client->msgtotallen
    msghdr,         \* client->msghdr as decoded (None before it is complete)
    alloc,          \* bytes of client->msg (0: no buffer)
    corrupt,        \* a write fell outside client->msg
    processed,      \* the headers processRequest was given, in order
    disposed        \* client_dispose has run

vars == <<priv, order, sent, arrived, eof, rd, msglen, msgtotallen, msghdr,
          alloc, corrupt, processed, disposed>>

Header == [flags : 0 .. Word - 1, type : 0 .. Word - 1, link : 0 .. Word - 1, len : 0 .. Word - 1]

\* ntohs/htonl of a field: its bytes reversed.
Swap(x) == (x % 256) * 256 + x \div 256

SwapHdr(h) == [flags |-> Swap(h.flags), type |-> Swap(h.type), link |-> Swap(h.link), len |-> Swap(h.len)]

HasServiceId(h) == (h.flags \div USE_SERVICEID) % 2 = 1

\* The bytes a header announces after itself (service id and body), and the
\* bytes the client really writes for it: all, or only the header when that
\* is more than MaxBody.
Announced(h) == h.len + (IF HasServiceId(h) THEN h.link ELSE 0)
Written(h) == HdrSize + (IF Announced(h) <= MaxBody THEN Announced(h) ELSE 0)

StreamLen(s) == FoldLeft(LAMBDA acc, h : acc + Written(h), 0, s)

\* The header as the client's byte order puts it on the wire, read in host order.
OnWire(h) == IF order = "net" THEN SwapHdr(h) ELSE h

\* Signed(x): a u_int32_t difference passed as the int length of readn.
Signed(x) == IF x >= Word \div 2 THEN x - Word ELSE x

-----------------------------------------------------------------------------
Init ==
    /\ priv \in Privileged
    /\ order \in (IF priv THEN {"host"} \cap Orders ELSE Orders)
    /\ sent = <<>> /\ arrived = 0 /\ eof = FALSE
    /\ rd = 0 /\ msglen = 0 /\ msgtotallen = 0 /\ msghdr = None
    /\ alloc = 0 /\ corrupt = FALSE /\ processed = <<>> /\ disposed = FALSE

TypeOK ==
    /\ priv \in BOOLEAN /\ order \in Orders
    /\ sent \in Seq(Requests) /\ Len(sent) <= MaxMsgs
    /\ arrived \in 0 .. StreamLen(sent) /\ eof \in BOOLEAN
    /\ rd \in 0 .. arrived
    /\ msglen \in 0 .. Word - 1 /\ msgtotallen \in 0 .. Word - 1
    /\ msghdr \in Header \cup {None}
    /\ alloc \in 0 .. Word /\ corrupt \in BOOLEAN
    /\ processed \in Seq(Requests) /\ disposed \in BOOLEAN

-----------------------------------------------------------------------------
(* The client and the socket.                                              *)

\* Requests are the regular requests (types 1 .. LAST_REQUEST); pppd, the
\* privileged client, sends only its private types.
MayWrite(h) == IF priv THEN h.type > LastRequest ELSE h.type \in 1 .. LastRequest

ClientWrite(h) ==
    /\ ~eof /\ Len(sent) < MaxMsgs /\ MayWrite(h)
    /\ sent' = Append(sent, h)
    /\ UNCHANGED <<priv, order, arrived, eof, rd, msglen, msgtotallen, msghdr,
                   alloc, corrupt, processed, disposed>>

\* A stream socket: the end of the stream follows every byte written.
ClientClose ==
    /\ ~eof /\ arrived = StreamLen(sent)
    /\ eof' = TRUE
    /\ UNCHANGED <<priv, order, sent, arrived, rd, msglen, msgtotallen, msghdr,
                   alloc, corrupt, processed, disposed>>

Arrive(k) ==
    /\ arrived + k <= StreamLen(sent)
    /\ arrived' = arrived + k
    /\ UNCHANGED <<priv, order, sent, eof, rd, msglen, msgtotallen, msghdr,
                   alloc, corrupt, processed, disposed>>

-----------------------------------------------------------------------------
(* The controller.                                                         *)

ReadnIgnoresShortRead(want, avail) == IF want <= 0 THEN 0 ELSE want

\* readn into a NULL buffer: read fails with EFAULT (-1) once there is
\* anything to read or the end of the stream; EWOULDBLOCK gives 0.
readnNull(want, avail) ==
    IF want <= 0 THEN 0 ELSE IF avail > 0 \/ eof THEN -1 ELSE 0

\* readn(s, p, want) on the non-blocking socket with avail bytes to read:
\* the bytes asked for; fewer on EWOULDBLOCK; -1 when read meets the end of
\* the stream first.  Nothing is read when want is not positive.
readn(want, avail) ==
    IF want <= 0 THEN 0
    ELSE IF avail >= want THEN want
    ELSE IF eof THEN -1 ELSE avail

\* The header the controller decodes from the HdrSize bytes ending at byte
\* end of the stream: the header of the message starting there, or, at any
\* other offset, bytes of some other header.
HeaderAt(end) ==
    LET starts == {k \in 1 .. Len(sent) : StreamLen(SubSeq(sent, 1, k - 1)) = end - HdrSize}
    IN  IF starts # {} THEN {OnWire(sent[CHOOSE k \in starts : TRUE])}
                      ELSE {OnWire(h) : h \in Requests}

SwapGuessNoPriv(h) == h.type > LastRequest

\* The byte-order guess: an unprivileged client whose type exceeds
\* LAST_REQUEST is taken for a network-order one, and the header swapped.
SwapGuess(h) == ~priv /\ h.type > LastRequest

Decode(h) == IF SwapGuess(h) THEN SwapHdr(h) ELSE h

TotalLenNoServiceId(h) == (HdrSize + h.len) % Word

\* msgtotallen = msglen + m_len + (USE_SERVICEID ? m_link : 0), in u_int32_t.
TotalLen(h) == (HdrSize + h.len + (IF HasServiceId(h) THEN h.link ELSE 0)) % Word

\* clientCallBack, called while the socket is readable.  The header phase:
\* readn the rest of the header; once complete, decode it, compute
\* msgtotallen and allocate msgtotallen + 1 bytes (my_Allocate takes the
\* u_int32_t sum), copy the header in and store the final 0 at
\* msg[msgtotallen].  The body phase, in the same call once msglen has
\* reached the header size: readn msgtotallen - msglen more bytes into
\* msg + msglen.  Then the action: close on -1, process a complete message
\* (processRequest, free, reset the three fields).  When my_Allocate
\* returns NULL the action is do_error, but the body phase still runs, on
\* client->msg = NULL, and may turn it into do_close or do_process.
clientCallBack ==
    /\ ~disposed /\ (arrived > rd \/ eof)
    /\ LET avail == arrived - rd
           n1 == IF msglen < HdrSize THEN readn(HdrSize - msglen, avail) ELSE 0
           len1 == IF n1 = -1 THEN msglen ELSE msglen + n1
           rd1 == rd + (IF n1 = -1 THEN avail ELSE n1)
           newhdr == msglen < HdrSize /\ n1 # -1 /\ len1 = HdrSize
       IN  \E raw \in (IF newhdr THEN HeaderAt(rd1) ELSE {None}),
             nomem \in (IF newhdr THEN AllocFails ELSE {FALSE}) :
           LET hdr == IF newhdr THEN Decode(raw) ELSE msghdr
               total == IF newhdr THEN TotalLen(hdr) ELSE msgtotallen
               size == IF ~newhdr THEN alloc ELSE IF nomem THEN 0 ELSE (total + 1) % Word
               hdrbad == newhdr /\ ~nomem /\ (size < HdrSize \/ total >= size)
               want == Signed((total - len1) % Word)
               n2 == IF n1 = -1 \/ len1 < HdrSize THEN 0
                     ELSE IF nomem THEN readnNull(want, arrived - rd1)
                     ELSE readn(want, arrived - rd1)
               len2 == IF n2 = -1 THEN len1 ELSE len1 + n2
               bodybad == n2 > 0 /\ len1 + n2 > size
               close == n1 = -1 \/ n2 = -1
               process == ~close /\ len1 >= HdrSize /\ len2 = total
           IN  /\ rd' = rd1 + (IF n2 = -1 THEN arrived - rd1 ELSE n2)
               \* processRequest on a NULL message reads msg->hdr
               /\ corrupt' = (corrupt \/ hdrbad \/ bodybad \/ (nomem /\ process))
               /\ disposed' = (close \/ (nomem /\ ~process))
               /\ processed' = IF process THEN Append(processed, hdr) ELSE processed
               /\ msglen' = IF process THEN 0 ELSE len2 % Word
               /\ msgtotallen' = IF process THEN 0 ELSE total
               /\ msghdr' = IF process THEN None ELSE hdr
               /\ alloc' = IF process THEN 0 ELSE size
    /\ UNCHANGED <<priv, order, sent, arrived, eof>>

Next ==
    \/ \E h \in Requests : ClientWrite(h)
    \/ ClientClose
    \/ \E k \in 1 .. MaxChunk : Arrive(k)
    \/ clientCallBack

\* The run loop calls the read callback of a readable socket.
Spec == Init /\ [][Next]_vars /\ WF_vars(clientCallBack)

-----------------------------------------------------------------------------
(* Properties.                                                             *)

\* The framing survives any split of the stream into pieces and both byte
\* orders: processRequest gets exactly the client's headers, in order, each
\* once (clientCallBack never reads into the next message, decodes at the
\* right offset, and the byte-order guess is right).
FramingPreserved == IsPrefix(processed, sent)

\* Every access to client->msg stays inside the buffer allocated for the
\* message: the header copy, the final 0, the body reads and the request
\* processRequest reads, through oversized headers and failed allocations.
NoMemoryCorruption == ~corrupt

\* A request that has wholly reached the socket is processed, even if the
\* client closed its end right after writing it.
RequestsProcessed ==
    \A k \in 1 .. MaxMsgs :
        [](Len(sent) >= k /\ arrived >= StreamLen(SubSeq(sent, 1, k))
              => <>(Len(processed) >= k))

====

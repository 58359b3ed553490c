--------------------------- MODULE MC_PPPController ---------------------------
(* PPPController for TLC: one client, in either byte order, three        *)
(* sessions of two subtypes (two of the same subtype, so that the index   *)
(* of a link differs from its place in ppp_head), a request of every type *)
(* with arguments that reach each answer, and pppd posting events.        *)
EXTENDS PPPController

CONSTANT c1

\* ppp_msg.h and ppp_privmsg.h.  The request types are the indices of
\* requests[]; the pppd types only need to exceed LAST_REQUEST.
MCUseServiceId == 1
MCPppdEvent == 256
MCPppdStatus == 257
MCPppdPhase == 258

\* The client flags (ppp_client.h is not in the repository): one bit each.
MCNotifyEvent == 2
MCNotifyStatus == 4
MCSwapBytes == 8

\* References are <<subtype, unit>>: two sessions of subtype 1, one of 3.
MCSessions ==
    << [ref |-> <<1, 0>>, sid |-> "A", ifname |-> "ppp0"],
       [ref |-> <<3, 0>>, sid |-> "B", ifname |-> "ppp1"],
       [ref |-> <<1, 1>>, sid |-> "C", ifname |-> "ppp2"] >>

MCNameLen == [n \in {"A", "B", "C", "Z", "ppp0", "ppp1", "ppp2"} |->
                 IF n \in {"A", "B", "C", "Z"} THEN 1 ELSE 4]

\* notify_link 0, the value a new client and a reset target have.
MCAnyLink == <<0, 0>>

MCTranslate == [s \in {1, 3} |-> [e \in {5} |-> 100 + s]]

\* A request: header fields (host order) and the argument in its body.
Req(type, link, len, data) ==
    [type |-> type, flags |-> 0, link |-> link, cookie |-> 7, len |-> len, sid |-> None, data |-> data]
ReqSid(type, sid, len, data) ==
    [type |-> type, flags |-> MCUseServiceId, link |-> <<0, MCNameLen[sid]>>, cookie |-> 7,
     len |-> len, sid |-> sid, data |-> data]

MCRequests ==
    { Req(1, <<0, 0>>, 0, 0),                     \* VERSION
      Req(2, <<1, 0>>, 0, 0),                     \* STATUS
      ReqSid(2, "Z", 0, 0),                       \* STATUS of an unknown service id
      Req(3, <<1, 1>>, 8, "junk"),                \* CONNECT with a bad dictionary
      Req(4, <<0, 0>>, 0, 0),                     \* a NULL entry
      Req(5, <<3, 0>>, 0, 0),                     \* DISCONNECT
      Req(6, <<1, 0>>, 8, "known"),               \* GETOPTION
      Req(7, <<9, 9>>, 8, "known"),               \* SETOPTION, no such link
      Req(8, <<0, 0>>, 4, 3),                     \* ENABLE_EVENT, both kinds, every link
      ReqSid(8, "C", 4, 1),                       \* ENABLE_EVENT of service C
      Req(8, <<1, 0>>, 4, 0),                     \* ENABLE_EVENT, bad kinds
      Req(9, <<0, 0>>, 4, 2),                     \* DISABLE_EVENT of status
      Req(11, <<1, 0>>, 0, 0),                    \* GETNBLINKS of subtype 1
      Req(12, <<1, 0>>, 4, 1),                    \* GETLINKBYINDEX 1 of subtype 1
      Req(12, <<65535, 0>>, 4, 3),                \* GETLINKBYINDEX 3 of all: past the end
      Req(13, <<0, 0>>, 1, "B"),                  \* GETLINKBYSERVICEID
      Req(14, <<0, 0>>, 4, "ppp2"),               \* GETLINKBYIFNAME
      ReqSid(14, "ppp1", 0, 0),                   \* GETLINKBYIFNAME, answer the service id
      Req(15, <<3, 0>>, 0, 0),                    \* SUSPEND
      Req(16, <<3, 0>>, 0, 0),                    \* RESUME
      Req(17, <<1, 1>>, 0, 0),                    \* EXTENDEDSTATUS
      Req(18, <<1, 1>>, 0, 0) }                   \* GETCONNECTDATA

MCPppdMsgs ==
    { [type |-> MCPppdEvent, flags |-> 0, link |-> <<1, 1>>, event |-> 1, error |-> 0],
      [type |-> MCPppdEvent, flags |-> 0, link |-> <<3, 0>>, event |-> 5, error |-> 5],
      [type |-> MCPppdEvent, flags |-> 0, link |-> <<9, 9>>, event |-> 1, error |-> 0],
      [type |-> MCPppdStatus, flags |-> 0, link |-> <<1, 0>>, event |-> 0, error |-> 0],
      [type |-> MCPppdPhase, flags |-> 0, link |-> <<1, 0>>, event |-> 0, error |-> 0] }
\* The client sends two messages.
MCMaxReqs == c1 :> 2
====

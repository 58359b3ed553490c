# TLA+ models of the PPP / L2TP stack

This directory holds TLA+ specifications of the parts of this repository
whose correctness depends on concurrency, unreliable delivery and timers.
It also holds the TLC configurations that check them.

## The system and its parts

| Part | Source | State it keeps | Interacts with |
|---|---|---|---|
| L2TP reliable control channel | `src/Drivers/L2TP/L2TP-extension/l2tp_rfc.c` | per tunnel (`struct l2tp_rfc`): `our_ns`, `our_nr`, `peer_nr`, `send_queue`, `recv_queue`, the `NEW_SEQUENCE`/`FREEING` state bits, retransmission and linger timers | pppd's L2TP plugin through the socket (`l2tp_rfc_output`, input/event callbacks); the peer through UDP |
| L2TP tunnel registry and demux | same file: `l2tp_rfc_new_client`, `l2tp_rfc_command`, `l2tp_rfc_lower_input`, `l2tp_rfc_accept` | the list `l2tp_rfc_head`, tunnel ids, the UDP sockets shared between rfcs | the VPN server plugin (listen/accept), the UDP layer |
| L2TP data path | same file: `l2tp_rfc_output_data`, `l2tp_handle_data` | `our_last_data_seq`, `peer_last_data_seq` | PPP frames of a session |
| L2TP kernel domain | `l2tp_domain.c` | module start and stop: `l2tp_rfc_init`/`l2tp_rfc_dispose`, protocol registration; it fires the 200 ms fast timer and the 500 ms slow timer | the rfc engine |
| L2TP VPN server plugin | `L2TP-vpn/main.c` | listener socket | the listener rfc (`L2TP_OPT_ACCEPT`) |
| Controller client socket | `src/Controller/ppp_socket_server.c` | per client: the partial message, byte order, event flags | local clients; the PPP sessions |
| Controller option getter | `src/Controller/ppp_getoption.c` | none (a lookup over option tiers) | the client socket |
| PPTP plugin control connection | `src/Drivers/PPTP/PPTP-plugin/pptp.c` | none of its own: the TCP socket, `kill_link`, the peer's call id, window and delay it returns | pppd's PPTP plugin (not in the repository); the peer's plugin over TCP |
| PPTP kext, PPPoE plugin, MS-CHAP, pppd system glue | the remaining files | socket, crypto and interface plumbing | pppd |

The hardest behaviour is in the reliable control channel:
- 16-bit modular sequence numbers;
- a sliding send window;
- acks carried in every header, plus ZLB (zero-length body) acks from the fast timer;
- out-of-order reassembly;
- adaptive retransmission with a retry limit;
- a host that can refuse input when its socket buffer is full;
- a 31-second linger after close (62 slow ticks).

All of this must stay correct over UDP, which loses, duplicates and reorders
datagrams. That component is modelled first.

## Modules

### `L2TPRfc`: one established tunnel between two hosts (`Ends`)

Each host runs one rfc. The variables are the fields of `struct l2tp_rfc`
that the channel uses, one function over `Ends` each. The environment adds:
- `net`, the set of datagrams in flight. A set models loss, duplication
  (delivery may leave the datagram in place) and any reordering.
- `outputs`, `sent`, `delivered` and `failed`, which record what each host
  handed to `l2tp_rfc_output`, what its input callback received, and how many
  `RELIABLE_FAILED` events it was sent.

Each action is one handler of the code:

| Action | Code |
|---|---|
| `l2tp_rfc_output(e)` | `l2tp_rfc_output` → `l2tp_rfc_output_control`. The seqno is taken first. Either the allocation fails (`ENOMEM`/`EINVAL`) or the message is queued, with the timer reset if it is first and the message sent if inside the window. |
| `l2tp_rfc_fasttimer(e)` | ZLB ack for an rfc with `NEW_SEQUENCE` |
| `l2tp_rfc_slowtimer(e)` (with `Retransmit`, `FreeNow`) | linger countdown, then free; the retransmission countdown; `RELIABLE_FAILED` on exhaustion, otherwise a resend of the head with the adaptive, capped timeout |
| `l2tp_rfc_free_client(e)` | close by the host: `FREEING`, `free_time_remain = FreeTicks` |
| `l2tp_handle_control(e, p)` (with `l2tp_rfc_handle_ack`, `AckResend`, `QueueOutOfOrder`, `DeliverInOrder`, `Drain`) | the tunnel half of `l2tp_handle_control`: ack processing with window release, ZLB, out-of-order insertion (the code's loop, kept as written), duplicate re-ack, in-order delivery and the drain loop with `buf_full` |
| `Lose(p)` | the network drops a datagram |

Modelling choices:
- **Host refusal.** The input callback's answer is a nondeterministic budget: how many messages the host accepts before it refuses one.
- **Allocation failures.** Every `M_DONTWAIT` allocation failure is a disjunct.
- **Integer widths.** Sequence numbers keep their 16 bits (`SeqSpace = 2^16`). The timer and retry counters are `u_int16_t` too; they wrap modulo `CounterSpace`, which the MC module sets to 4. At 2^16, a wrap takes 65535 ticks.

### `MC_L2TPRfc`: the instance for TLC

Hosts `a` and `b` are model values. Both rfcs start quiescent at seqno 65535,
so every run crosses the wrap to 0 on the first message.

### `L2TPSockets`: the rfc list, tunnel ids and shared UDP sockets

This module models the registry part of `l2tp_rfc.c`. Its state:
- `head`, the list `l2tp_rfc_head`, as a sequence of rfcs;
- `rfc`, the registry fields of each rfc: `L2TP_FLAG_CONTROL`, our and peer tunnel ids, our and peer address, socket, and the `FREEING` bit;
- `unique_tunnel_id`, the id counter;
- `sock_local` and `sock_peer`, the UDP sockets' bound and connected addresses. A socket is attached while it has a local address.

- `domain_inited`, `proto_added` and `udp_up`: `l2tp_domain_inited`, whether the L2TP protocol is registered in the PF_PPP domain, and whether the UDP adapter has been initialised and not yet disposed.

The UDP adapter (`l2tp_udp.c`) is not under `src/`. `l2tp_udp_detach` and the `EADDRINUSE` test (`AddrInUse`) are modelled from the spec.

The kernel module's start and stop (`l2tp_domain.c`) are composed in as two more actions. The network funnel serialises them with every other step, which the model's interleaving already does. Sockets can be created only while the protocol is registered. The calls these steps make outside the repository (`pffinddomain`, `l2tp_add`, `l2tp_remove`, `l2tp_udp_dispose`, `l2tp_wan_dispose`) succeed or fail by a nondeterministic choice.

| Action | Code |
|---|---|
| `l2tp_rfc_new_client` | allocates a zeroed rfc and inserts it at the tail |
| `l2tp_rfc_free_client` / `LingerExpire` / `l2tp_rfc_free_now` | a control rfc with both tunnel ids set lingers; otherwise it is freed at once. The socket is detached only by a control rfc that no other control rfc shares it with. |
| `CMD_SETFLAGS` | sets the control flag |
| `CMD_GETNEWTUNNELID` (`NextTunnelId`, recursive) | the `u_int16_t` counter that skips 0 and loops until no control rfc holds the id |
| `CMD_SETTUNNELID` | a data rfc takes the id and borrows the socket of the first control rfc with that id |
| `CMD_SETPEERTUNNELID`, `CMD_SETOURADDR`, `CMD_SETPEERADDR` | the address commands, with the socket bind, the connect and the `EADDRINUSE` transfer of a socket already connected to that 4-tuple |
| `ControlDemux` (an operator, used by the properties) | the control half of `l2tp_rfc_lower_input`: the first control rfc with the frame's tunnel id takes the frame, and `l2tp_handle_control` drops it when that rfc's peer address is set and differs |
| `l2tp_domain_init` | module start: `l2tp_rfc_init` (`l2tp_udp_init`, `TAILQ_INIT` of the list), then `l2tp_add`, whose failure disposes the rfc layer again |
| `l2tp_domain_terminate` (`l2tp_rfc_dispose`) | module stop: refused while the list holds an rfc; otherwise the adapter is disposed, and the wan layer and the protocol are removed, any step of which may fail and leave the domain inited |

How the host plugin uses these commands is taken as an environment assumption:
- flags are set before any socket or tunnel id exists;
- `SETTUNNELID` is used on data rfcs only;
- `GETNEWTUNNELID` is used on control rfcs only.

`MC_L2TPSockets` defines rfcs `r1`, `r2` (control) and `r3` (data), and two sockets.
- `sockets_main` has the two control rfcs and both sockets. Two sockets are the least for the `EADDRINUSE` transfer: two rfcs bind one address each on its own socket and connect to the same peer. An rfc given a tunnel id before its flags stays a data rfc, so data rfcs' ids are among those the counter must skip. The counter has width 3 (ids 1 and 2), so it wraps and skips 0 while both rfcs hold or linger with an id. Two peer addresses let a frame's source differ from an rfc's peer, which the demux property needs. The run checks liveness, so it has no symmetry.
- `sockets_dangling` adds `r3` as a data rfc, keeps the single id 1 and uses symmetry over the control rfcs and the sockets.

### `L2TPData`: the data path of one session

The sender is `l2tp_rfc_output_data`; the receiver is `l2tp_handle_data`.
- `our_last_data_seq` and `peer_last_data_seq` keep their 16 bits.
- `SEQ_GT` is the int16 cast.
- The in-sequence test `peer_last_data_seq + 1 == ns` is done in `int`, as the C promotion does it.

The network loses, reorders and (up to `MaxDups`) duplicates frames. `Init` starts both counters at 0 (bzero), or at the state a lossless session reaches just before the wrap (sender 65534, receiver 65533).

### `L2TPListener`: incoming tunnels at a server

These are the pieces of a server taking in a new tunnel:
- `l2tp_rfc_lower_input` for tunnel id 0;
- the listener case of `l2tp_handle_control`: a copy goes on `recv_queue` and the frame goes up to the listening socket. If the socket refuses the frame, the copy is removed again.
- `l2tp_rfc_accept`;
- vpnd's calls to the plugin, from loading it to `l2tpvpn_close`.

The plugin's set-up comes first. vpnd's order of calls is `phase`; vpnd itself is not in the repository.
- `start`: as part of a ppp bundle, `socket(PF_PPP)` is opened. If it fails, `load_kext` runs and `socket` is tried again; still no socket returns -1. `load_kext` reports 0 whatever `kextload` did. As a simple vpn bundle no socket is opened, and `l2tpvpn_listen` will return -1.
- `l2tpvpn_get_pppd_args(cf, reload)`: the settings `cf` are a server entry (`server`), possibly with a plain IP transport (`ip`), and the IPSec dictionary they give (`dict`, a model value). A plain IP transport sets `opt_noipsec`, and nothing clears it. From the command line, the dictionary stays NULL. A reload is refused when `opt_noipsec` or the dictionary changed (`ReloadRefused`); otherwise the dictionary becomes `ipsec_settings`.
- `l2tpvpn_listen`: `set_flag` and `l2tp_set_ouraddress` make the socket the listener; their results are ignored, and whether they took effect is one of `ListenSetups`. Unless `opt_noipsec` is set, the policies of `ipsec_settings` are installed (`ipsec_dict`). A NULL `ipsec_settings` crashes vpnd (`"crashed"`). A failed install removes the policies and returns -1.
- `l2tpvpn_close`: removes the policies and releases `ipsec_settings`.

vpnd's two system calls are separate actions, so kernel input can run between them:
- `l2tpvpn_accept_or_refuse`: `socket` plus `setsockopt(L2TP_OPT_ACCEPT)`, and for refuse the `close`;
- `l2tpvpn_recv_duplicate`: the `recvfrom` that discards the duplicate.

Peers send each call's SCCRQ up to `MaxSends` times. This covers retransmission and UDP duplication alike. `launched` records, for each socket vpnd hands to pppd, the frame it holds and the duplicate read for it.

`recvfrom` fails only on an empty buffer. The failure branch of `l2tpvpn_accept` returns -1 without closing the new socket. It is not an action, because vpnd is the buffer's only reader and found it readable. `AcceptedMatchesDuplicate` shows the buffer is never empty when the queue is not.

### `PPPClientSocket`: one client of the controller's socket

This module models the read side of the controller's local socket (`ppp_socket_server.c`). One client writes headers, each followed by its service id and body, and may close its end. The stream reaches the socket in pieces of up to `MaxChunk` bytes.

`clientCallBack` is one action for the whole callback:
- `readn` of the rest of the header;
- the decode with the byte-order guess (`SwapGuess`);
- `msgtotallen` (`TotalLen`, modulo `Word`), the allocation of `msgtotallen + 1` bytes, and the header copy;
- `readn` of the rest of the message in the same call;
- then close on end of stream, or `processRequest` on a complete message, with the three fields reset.

`readn` on the non-blocking socket returns what is there, or -1 on end of stream. Header fields are numbers modulo `Word = 2^16`. The code's width is 2^32, out of reach of TLC's integers; the wrap is the same at either width. A header is `HdrSize = 2` bytes, since only the number of bytes matters. `corrupt` records any write outside the allocated buffer. The request handlers that `processRequest` dispatches act on controller state in files not under `src/`, so they are not modelled.

Fairness: the run loop calls the read callback of a readable socket, so `clientCallBack` is weakly fair. The client and the arrival of bytes get none.

### `PPPOptions`: the controller's option store

This module models `PPP_SETOPTION` and `PPP_GETOPTION` of one client on an idle service, for twenty-nine option types (the twenty-four the setter stores, `PPP_OPT_LOGFILE`, and four the getter alone answers: connect speed, dial on demand, service id and interface name):
- `socket_setoption`: the client's option set is created on its first option. One case of the `o_type` switch (`SetOpt`) then stores the option through the helpers of the code: `set_long_opt` (`SetLongOpt`, with the clamps `Clamp01`), `set_str_opt` (`SetStrOpt`: a string ends at its first NUL, `CString`), `set_array_opt`, `remove_opt`, each after `prepare_entity`. This covers the speed ladder, the key removal of `PPP_COMM_TERM_NONE`, the addresses formatted as dotted quads, and the EINVAL of an unknown authentication protocol (`SetErr`), which leaves `lastset` alone. `PPP_OPT_LOGFILE` and the types outside the switch (`Settable`) are EOPNOTSUPP, after the option set has been created.
- `socket_getoption`: `ppp_getoptval` (`GetOptVal`, `GetOptValRest`) reads through the tiers of `get_int_option`, `get_str_option` and `get_addr_option` (`GetOption`, `GetStrOption`, `GetAddrOption`): the option set, then the setup, then the default. The MRU and MTU defaults depend on the service's subtype (`LinkDefault`). A password is answered as `"*"` when one is known. `PPP_OPT_LOGFILE` reads the setup alone and puts `DIR_LOGS` in front of a relative name (`LogfileVals`). It does this with a `strncpy` whose source and destination overlap once the name is longer than `DIR_LOGS`. That is undefined, so the answer is a choice between the memmove-like result and the forward byte copy, which repeats the first characters of the name. A name and `DIR_LOGS` longer together than `OPT_STR_LEN + 1` also run past the reply buffer `optdata`. No property states the log file's answer.

An option set is a function from key (an entity/property pair of the code) to a value or `Missing`. A string is a sequence of small numbers, 0 being NUL, bounded by `OptStrLen` when read back. `swap` is the client's `CLIENT_FLAG_SWAP_BYTES`. `lastset` records what the client last set successfully of each option.

The session stays idle. The live-state tier and the options frozen at connect belong to `ppp_manager.c`, which is not in the repository. The header constants (`PPP_LCP_HDRCOMP_*`, the terminal, dial and authentication modes, the `OPT_*_DEF` defaults) are constants of the module, because `ppp_msg.h` and `ppp_option.h` are not in the repository either. Allocation failures (which can leave a key removed while `set_long_opt` returns 0) are not modelled.

### `PPPController`: request dispatch and event fan-out of the controller

This module models what `processRequest` does with a complete message of one unprivileged client, and what the controller sends its clients when pppd reports on a session.

- `ppp_socket_start_server`: the listening socket comes up (`server = "up"`) or one of socket, bind or the CFSocket calls fails (`"failed"`), after which nobody is accepted.
- `listenCallBack(c)`: accept of client `c`. If `getsockopt(LOCAL_PEERCRED)` fails, the callback returns and the descriptor is never closed (`conn[c] = "leaked"`). Otherwise `ppp_socket_create_client` runs (`CreateClientOutcomes`). A failed `fcntl(O_NONBLOCK)` is only logged, so the socket may stay blocking (`nonblock`). A failed CFSocket, run-loop source or `client_new_socket` closes the socket (`"closed"`). Only a `"client"` is served and notified.
- `writen(c, p)`: the piece is written whole. With `WriteStalls`, a non-blocking socket whose buffer is full fails with EWOULDBLOCK, after nothing or after part of the piece. `processRequest` ignores the result (`WriteAll`). `socket_client_notify` stops at the first failure (`WriteUntilFail`).
- `processRequest(c, r)`: the client's byte order (`CLIENT_FLAG_SWAP_BYTES`, chosen once in `Init` as `netorder`), the handler of `r.type` from `requests[]` (`Handle`), then the reply. The reply is the header, swapped back for a network-order client (`ReplyHdr`), and then the service id and the body (`ReplyPieces`), each written by its own `writen` call. A NULL entry of `requests[]` (types 0, 4, 10) or a type past `LAST_REQUEST` echoes the header without a body.
- The handlers each return the set of outcomes the code can produce: `socket_version`, `socket_status` (and `extendedstatus`, `getconnectdata`), `socket_connect`, `socket_disconnect` (and `suspend`, `resume`), `socket_setoption`/`socket_getoption` as far as the reply goes, `socket_enable_event`/`socket_disable_event`, and the four link lookups `getnblinks`, `getlinkbyindex`, `getlinkbyserviceid`, `getlinkbyifname`. A failing `malloc` is an outcome (ENOMEM) where the code tests for it. `ppp_manager`'s answers to connect and disconnect are its error set `ManagerErrors`.
- `processPppd(m)`: the privileged messages `PPPD_EVENT`, `PPPD_STATUS` and `PPPD_PHASE`. An event for a known session goes through `client_notify` to `socket_client_notify`, which writes a `PPP_EVENT` header (and the service id) to each subscribed client.
- `Read(c)`: the client library's parse of everything written to the client, a fold over the pieces. A piece that does not fit where the header says it should is a desync.

A `u_int32_t` is the pair of its 16-bit halves, so `htonl` swaps the halves' bytes and exchanges them exactly, and `m_link >> 16` is the high half. The sessions are a fixed list `Sessions` of references, service ids and interface names. `client_notify` and the choice of clients to notify (`Targets`) are in `ppp_client.c`, which is not in the repository; they are modelled from the spec. So are the values of the `CLIENT_FLAG_*` bits, which the MC module gives. The session list changing is not modelled. `controller_main` runs with `WriteStalls = FALSE`. `MC_PPPController_stall.cfg` turns stalls on, and TLC then finds `RepliesMatchRequests` violated in four steps: the header write stalls, and the body follows with no header before it.

### `PPTPControl`: the PPTP control connection

Two hosts both run the plugin: `out` calls `pptp_outgoing_call`, `in` calls `pptp_incoming_call`, and once the call is up each host's plugin calls `pptp_data_in` when its socket is readable and `pptp_echo` when its echo timer fires.

- **The stream.** `wire[e]` is the sequence of messages host `e` has written, and `pos[e]` the number of bytes host `e` has read of the other host's. `MsgAt` finds the message that starts at a byte offset. A header read anywhere else decodes bytes of some other message and sets `desync`. `pptp_send` appends a whole message: its write loop retries short writes. A write fails (-1) once the peer has closed.
- **`RecvOutcomes(e, t)`** is `pptp_recv`. It gives the set of outcomes of its two read loops from `e`'s position:
  - 0 with the message when a header of type `t` is there;
  - -3 when another type is there (the header is consumed, the body is not);
  - -1 when a read returns short and `errno` still holds something other than `EINTR`;
  - -2 when a blocked or looping read sees `kill_link`.
  No outcome means the call blocks: no data yet, or the end of the stream with a stale `EINTR`, where the loop spins.
- **Setup.** There is one action per read the setup blocks in: `out_recv_sccrp`, `out_recv_ocrp`, `in_recv_sccrq` and `in_recv_ocrq`, plus `out_send_sccrq` for the first write. Each action does the write that follows its read. `OutRecvErr` is the caller's mapping of -2 and -3. `PeerFromReply` is the copy of `*peercallid`, `*peerwindow` and `*peerppd`.
- **`pptp_data_in(e)`.** A short header read returns -1. An Echo-Request is answered with `EchoReply`. An Echo-Reply goes to `pptp_received_echo_reply` (`replies`). A Set-Link-Info body is read and dropped. Of every other type only the header is read. A short body read returns -1.
- **From the spec.** The plugin itself is not in the repository, so the following are modelled from the spec and marked so in the map:
  - `Finish`: on 0 the data phase begins, otherwise the socket is closed;
  - `Hangup`;
  - `Cancel`: the signal that sets `kill_link`;
  - `ForeignMsg`: a peer of another make sending a Call-Disconnect-Notify (and closing), or a WAN-Error-Notify.

Message sizes are those of RFC 2637 (`MC_PPTPControl`): a 12-byte header, and bodies of 4 to 156 bytes. The headers that declare the structs are not in the repository. Option parsing, the GRE data path and the plugin's own state are not modelled.

## Runs

| Run | cfg | Bounds | Checks | Result |
|---|---|---|---|---|
| `rfc_main` | `MC_L2TPRfc.cfg` | a sends 4 messages, window 3, 3 datagrams in flight, recv_queue ≤ 2, b never closes | `TypeOK`, `InOrderDelivery`, `SendQueueInWindow`, `AckedMeansReceived` | pass, 111k states |
| `rfc_linger` | `MC_L2TPRfc_linger.cfg` | 1 message each way, window 2, b may close, linger of 1 tick, 2 retries | `InOrderDelivery`, `SendQueueInWindow`, `AckedMeansReceived`, and `AckedOrFailed` under timer fairness | pass, 235k states |
| `sockets_main` | `MC_L2TPSockets.cfg` | 2 control rfcs (either may stay a data rfc), 2 sockets, one local and two peer addresses, tunnel ids 1 and 2, module start and stop | `TypeOK`, `NoSocketLeak`, `DomainDownOnlyWhenIdle`, `TunnelIdUnique`, `ControlDemuxAsSpecified` | pass, 350k states |
| `sockets_dangling` | `MC_L2TPSockets_dangling.cfg` | as above with 2 sockets | `NoDanglingSocket` | violated |
| `data_main` | `MC_L2TPData.cfg` | 3 frames, 2 in flight, 1 duplication, both flag settings, start at 0 and at 65534 | `TypeOK`, `CleanDeliveriesInOrder` | pass |
| `data_wrap` | `MC_L2TPData_wrap.cfg` | sequenced, start at 65534 | `InputErrorOnlyAfterGap` | violated |
| `listener_main` | `MC_L2TPListener.cfg` | 2 calls, each SCCRQ sent up to twice, listening buffer of 2, three settings (IPSec, plain IP, command line) | `TypeOK`, `AcceptedMatchesDuplicate`, `PoliciesFollowListener`, `QueuedCopiesTaken` under fairness of vpnd's accept and refuse | pass, 5933 states |
| `client_main` | `MC_PPPClientSocket.cfg` | 3 messages of up to 2 body bytes (four request shapes), pieces of 1..2 bytes, both byte orders, privileged or not | `TypeOK`, `FramingPreserved`, `RequestsProcessed` under fairness of the read callback | pass, 5216 states |
| `options_roundtrip` | `MC_PPPOptions.cfg` | twenty-nine option types with 1-4 values each, an empty setup and a full one, both byte orders, a serial service | `RoundTrip` (spec §8) | violated |
| `controller_main` | `MC_PPPController.cfg` | one client, two requests from 22 (every request type), two pppd messages from 5, three sessions, both byte orders | `TypeOK`, `RepliesMatchRequests`, `LinkAnswersAgree`, `EventsInOrder` | pass, 62k states |
| `pptp_main` | `MC_PPTPControl.cfg` | one call, one echo from each host, `kill_link` on either, stale `errno` 0 or `EINTR`, `in` a peer of another make that may send a Call-Disconnect-Notify and close | `TypeOK`, `CallIdsAgree`, `NoDesync`, `EchoAnswered` under fairness of the setup and of `pptp_data_in` | pass, 2880 states |
| `client_huge_len` | `MC_PPPClientSocket_huge.cfg` | a header announcing `m_len = Word - 2` | `NoMemoryCorruption` | violated |

What the properties say:
- **`InOrderDelivery`:** what a host received is a prefix of what its peer sent, whatever the network does.
- **`SendQueueInWindow`:** spec invariant 1.
- **`AckedMeansReceived`:** a message leaves the send queue only after the peer's host took it, and `peer_nr` never runs ahead of the peer's `our_nr`. This is the agreement between `l2tp_rfc_handle_ack` and the receiver's rule of advancing `our_nr` only after the callback accepts.
- **`AckedOrFailed`:** every queued message is eventually acknowledged or reported failed.
- **`NoSocketLeak`:** every attached socket is held by a control rfc on the list.
- **`TunnelIdUnique`:** no two control rfcs on the list hold the same nonzero tunnel id, across the wrap of the counter and with ids held by lingering and data rfcs.
- **`ControlDemuxAsSpecified`:** for every nonzero tunnel id and every peer address, the first-match walk of `l2tp_rfc_lower_input` picks the same rfc as section 4.C (first id match whose peer address is the source or unset), or both drop the frame. The walk is right only because control rfcs never share a nonzero id, so the property ties the demux to `GETNEWTUNNELID`'s uniqueness loop through every reachable registry.
- **`DomainDownOnlyWhenIdle`:** once module stop has succeeded (`l2tp_domain_inited` 0, so the next start runs `TAILQ_INIT`), no rfc is on the list and no UDP socket is open. This holds whichever step of a start or stop fails, and however these interleave with socket creation, lingering frees and commands.
- **`CleanDeliveriesInOrder`:** sequenced frames given up without an error arrive in sending order, each once.
- **`FramingPreserved`:** `processRequest` is given exactly the client's headers, in order, for any split of the stream and either byte order.
- **`RequestsProcessed`:** a request that has wholly reached the socket is processed, even if the client closed right after.
- **`RepliesMatchRequests`:** the client's parse of its stream never desyncs, and its n-th reply answers its n-th request (type and cookie), in either byte order.
- **`LinkAnswersAgree`:** the answers of the four link lookups, as the client reads them, agree with the session list: the count of a family, the link at an index (ENODEV past the end), the link of a service id or interface name.
- **`EventsInOrder`:** every event the client reads is one pppd raised for a session it is subscribed to, in the order raised, with the event, error and link or service id readable in the client's byte order.
- **`CallIdsAgree`:** a host whose call setup returned 0 holds the other host's own call id, receive window and processing delay.
- **`NoDesync`:** every header either plugin decodes starts at a message boundary, unless a peer of another make sent a message whose body `pptp_data_in` leaves unread.
- **`EchoAnswered`:** every echo request is eventually answered with its own identifier, unless a host closes the connection.
- **`PoliciesFollowListener`:** while vpnd serves calls, the listener exists and is protected by the IPSec policies of the settings in force, unless `opt_noipsec` is set. Once the plugin is closed or has failed, no policy is left installed. This holds across reloads, refused or not.
- **`AcceptedMatchesDuplicate`:** every accepted socket holds an SCCRQ, and it is the one whose duplicate vpnd discarded. So the listener's queue and its socket buffer stay in step.
- **`QueuedCopiesTaken`:** every copy queued on the listener's `recv_queue` is eventually taken by an accept or freed with the listener, unless the plugin failed or crashed. vpnd is woken by the socket buffer, never by the queue, so a copy left without its frame in the buffer would stay in the kernel.

What the violations show (details in `PROJECT.json`, "findings"):
1. **Dangling socket** (`sockets_dangling`). A data rfc borrows its control rfc's socket (`SETTUNNELID`). Two paths detach that socket without looking at data rfcs: `l2tp_rfc_free_now`, and a later `SETOURADDR` on the control rfc. The data rfc keeps a pointer to a detached socket.
2. **Data wrap** (`data_wrap`). `peer_last_data_seq + 1 == ns` is computed in `int`, so 65535 + 1 is never 0. From the wrap on, every frame raises `L2TP_EVT_INPUTERROR` and `peer_last_data_seq` stops advancing. Half a sequence space later, every frame is dropped as old.
3. **Heap overflow on a wrapped length** (`client_huge_len`). `msgtotallen` and the allocation size `msgtotallen + 1` are `u_int32_t` sums of header fields the client chooses. A client can announce a body length that wraps the sum. `clientCallBack` then copies the header into, and stores the final 0 beyond, a buffer smaller than the header. When `m_len` is `2^32 - 1`, the allocation is of 0 bytes. A failed `my_Allocate` is a crash of its own: the action is `do_error`, but the body phase of the same call still runs. For a request with no body or service id the body read asks for nothing, the message counts as complete and `processRequest` reads the header through `client->msg = NULL`. `NoMemoryCorruption` fails this way in four states under `MC_PPPClientSocket_nomem.cfg` (allocation failure is the constant `AllocFails`; `client_main` and `client_huge_len` keep it `{FALSE}`, since a client closed on ENOMEM cannot have its requests processed).
4. **Option round trip** (`options_roundtrip`). `PPP_COMM_TERM_NONE` removes the client's terminal keys instead of storing 0, so `GETOPTION` (and the connect) falls through to the setup: a client sets NONE and reads WINDOW. Checked one option at a time, `RoundTrip` also fails for `LCP_ECHO`. The setter never sets `EchoEnabled`, so the getter answers 0. With echo enabled in the setup, a network-order client's interval and failure are stored byte-swapped, because only `optint` is swapped and the echo fields are read from `o_data`. `AUTH_PROTO` fails too: its getter answers the default whatever was set (marked "XXX To be fixed"). The other options round-trip, each checked alone.

Behaviours met while modelling that are recorded as hazards with no run (the run budget went to the ones above):
- duplicates on recv_queue: the insertion loop of `l2tp_handle_control` breaks at the first smaller seqno before checking the rest for a duplicate, so a retransmitted out-of-order frame is queued again (`[0,1]` plus 1 gives `[0,1,1]`). Delivery stays in order, but the queue grows with every duplicate. `RecvQueueOrdered` (`L2TPRfc`, spec §3/§8 invariant 2) fails under `MC_L2TPRfc_recvorder.cfg`;
- `pptp_data_in` reads only the header of the message types it merely logs. A peer of another make that sends a WAN-Error-Notify in mid-call leaves 28 bytes in the socket, and every later header is decoded from the middle of a message. The answer to an echo is then lost, and a plugin that counts unanswered echoes will hang up a working call. `EchoAnswered` fails under `MC_PPTPControl_wan.cfg`;
- `read` returns 0 at the end of the stream without setting `errno`. If `errno` still holds `EINTR`, `pptp_recv`'s header loop spins once the peer has closed, and only `kill_link` ends it; `pptp_incoming_call` then never returns. `pptp_main` reaches that state, but no property states that a setup returns;
- `ns = our_ns++` happens in `l2tp_rfc_output` before the allocation can fail, which leaves a hole in the sequence space; the slow timer then retransmits a message outside the peer's window and the tunnel can only end in `RELIABLE_FAILED`. `WindowRespected` (`L2TPRfc`) states the window and fails under `MC_L2TPRfc_window.cfg`;
- entries 0, 4 and 10 of `requests[]` are NULL, yet `processRequest` echoes the header with the client's `m_len`: a client that sent a body waits for a reply body that never comes and reads the next reply as it. `RepliesMatchRequests` fails in two steps when `Req(4, <<0, 0>>, 4, 0)` is among the requests;
- the controller's client sockets are non-blocking, but `processRequest` ignores what `writen` returns. A client slow to read gets a reply whose header stalled (EWOULDBLOCK), followed by the body, and everything after it is misframed. `RepliesMatchRequests` fails under `MC_PPPController_stall.cfg`;
- from the command line, `l2tpvpn_get_pppd_args` leaves `ipsec_settings` NULL and `opt_noipsec` 0, so `l2tpvpn_listen` hands NULL to `CFDictionaryGetValue`. `NoCrash` fails in four steps under `MC_L2TPListener_cmdline.cfg`. A refused reload that asks for plain IP also leaves `opt_noipsec` set for good;
- `socket_disable_event` decides whether to drop the client's target (`notify_link`, `notify_serviceid`) by testing `flags & (CLIENT_FLAG_NOTIFY_EVENT + CLIENT_FLAG_NOTIFY_EVENT)`, where `EVENT + STATUS` is meant. With the status flag the bit above the event flag, as in `MC_PPPController`, a client that enabled events of one service and then disables status loses its target and receives every session's events. `FilterKeptWhileEnabled` fails in five states under `MC_PPPController_filter.cfg`, and holds when the test reads `EVENT + STATUS`;
- `l2tpvpn_listen` ignores what `set_flag` and `l2tp_set_ouraddress` return. If either fails (the bind fails when port 1701 is taken), vpnd serves, with the IPSec policies installed, on a socket whose rfc never receives an SCCRQ. With their outcome a choice (`ListenSetups`; `listener_main` keeps `{TRUE}`), `PoliciesFollowListener` fails in four states under `MC_L2TPListener_unbound.cfg`;
- `listenCallBack` returns without closing the accepted descriptor when `getsockopt(LOCAL_PEERCRED)` fails. `controller_main` reaches the `"leaked"` connection, but no property bounds the controller's descriptors;
- `l2tp_domain_terminate` disposes the rfc layer, and with it the UDP adapter, before `l2tp_wan_dispose` and `l2tp_remove`. If either of those fails, it returns with `l2tp_domain_inited` still 1 and the protocol still registered. New L2TP sockets then bind through a disposed adapter, and the next stop disposes it again. `AdapterUpWhileRegistered` (`L2TPSockets`) fails in three states under `MC_L2TPSockets_unload.cfg`. What `l2tp_udp_dispose` frees is outside the repository;
- a retransmitted SCCRQ is accepted a second time by the listener and opens a second tunnel for one call (`OneTunnelPerCall` in `L2TPListener` states it, and fails with a listening buffer of one datagram);
- `initial_timeout << retry_count` is computed in `int` and stored in a `u_int16_t`. Once it reaches 2^16 (initial timeout 2, `max_retries` 16 or more, both set by `L2TP_CMD_SETTIMEOUT` / `SETMAXRETRIES`), the timer is set to 0 and the next tick's pre-decrement wraps it to 65535, far past `timeout_cap`. `RetransWithinCap` (`L2TPRfc`) fails in 7 states under `MC_L2TPRfc_timercap.cfg`, where the counters are 2 bits wide;
- after retry exhaustion, the retransmission timer wraps from 0 and `RELIABLE_FAILED` is raised again, every 65535 ticks;
- `l2tp_rfc_lower_input` hands a control frame to the first control rfc with its tunnel id, and `l2tp_handle_control` drops the frame, ending the walk, when that rfc's peer address differs. Section 4.C routes to the first rfc whose id matches and whose peer address matches or is unset. A control rfc still at tunnel id 0 ahead of a restarted listener would swallow every SCCRQ. For nonzero ids the walk agrees with section 4.C (`ControlDemuxAsSpecified`). At id 0 it does not: `ListenerDemuxAsSpecified` fails under `MC_L2TPSockets_demux0.cfg` with two control rfcs at id 0, the first with a peer address. Whether the listener can be the second depends on when the host plugin (`l2tp.c`, not in the repository) gives a new rfc its tunnel id;
- `peer_last_data_seq` starts at 0 and `SEQ_GT(0, 0)` is false, so the peer's first sequenced data frame (ns 0) is dropped as old. `L2TPData`'s `Init` says so.

Mutants (`PROJECT.json`, "mutants") confirm that each checked property
catches a plausible bug in the code. Each is listed with the bug it stands for:
- `Seq16NoWrap`: lost 16-bit truncation.
- `DrainAnySeq`: the drain skips its seqno test.
- `l2tp_rfc_output_preinc`: `++our_ns` instead of `our_ns++`.
- `DropAckedInclusive`: an off-by-one in the ack.
- `SEQ_LT_unsigned`: an unsigned comparison.
- `DeliverInOrderIgnoreRefusal`: an ignored callback refusal (it breaks `AckedMeansReceived`).
- `RetransmitNoCount`: a lost retry increment.
- `NextTunnelIdNoWrap`, `NextTunnelIdNoCheck`: a lost 16-bit truncation; a missing uniqueness loop.
- `ControlDemuxNoPeerCheck`: `l2tp_handle_control` without its peer-address test.
- `SharedByControlInclSelf`: the sharing test counting the rfc being freed (it breaks `NoSocketLeak`).
- `l2tp_rfc_dispose_unchecked`: module stop without the test that `l2tp_rfc_head` is empty.
- `Incr16NoWrap`, `InSequenceAnyNewer`: a lost truncation; an in-sequence test that accepts any newer frame.
- `InputAcceptedAtCap`, `RefusedCopyKept`, `ReloadRefusedFlagOnly`: an off-by-one in the buffer-space test; a refused copy left on `recv_queue` (it breaks both `AcceptedMatchesDuplicate` and `QueuedCopiesTaken`); a reload check that ignores the dictionary.
- `ClearNoMask`, `ReplyHdrCookieUnswapped`, `LinkAtLate`, `socket_client_notify_unswapped`: `flags &= ~bits` written as a subtraction; the cookie left in host order; an off-by-one in the index walk; the event header not swapped for a network-order client.
- `HeaderShortAtEOF`, `PeerFromReplyPeerId`, `BodyLenLinkInfoIgnored`, `EchoReplyNoId`: a short header taken as whole unless nothing was read; `*peercallid` taken from the reply's `peer_call_id`; Set-Link-Info put among the types whose body is not read; the echo reply's identifier not copied (left 0 by `bzero`).
- `ReadnIgnoresShortRead`, `TotalLenNoServiceId`, `SwapGuessNoPriv`: `readn` counting bytes it did not get; the service id left out of the length; the byte-order guess made for pppd too.

### Why the bounds are enough

- **Sequence numbers.** Starting at 65535 puts every ack, window test and reassembly across the wrap.
- **Main run.** Four messages through a window of three give:
  - a held message and its release by an ack;
  - a receive gap of two (the drain's seqno test matters);
  - reordering among three datagrams in flight.
- **Duplicate bug** (`MC_L2TPRfc_recvorder.cfg`). Three messages and a queue bound of three are the least that show it.
- **Timers.** `InitialTimeout = 1`, `TimeoutCap = 2` and `MaxRetries = 3` exercise (`rfc_linger` has `MaxRetries = 2`, which still reaches exhaustion):
  - the doubling;
  - the cap;
  - the truncation of `initial_timeout << retry_count` at width 4;
  - exhaustion.
- **Controller.** One client with two requests: every handler runs, and each request can be followed by another, which is what the parse of the stream needs. Two pppd messages deliver an event after a subscription. Three sessions give two of one family and one of another, so counts and indices differ by family.
- **PPTP.** One call is all the plugin makes per connection. One echo from each host puts a request and a reply in both directions, interleaved with the Set-Link-Info and the setup; a second echo only repeats the same interleavings. The Call-Disconnect-Notify is 136 bytes, not a multiple of the header, so the misread ends in a short header.
- **Linger.** `FreeTicks` (2, and 1 in `rfc_linger`, whose liveness check is the largest run) replaces 62. The linger's behaviour does not depend on its length, only on how many ticks pass before the peer gives up.

Each bound is a named constant:
- `MaxMsgs` limits the messages each host sends.
- `NetCap` limits the datagrams in flight. A send to a full network is lost, which is one more loss.
- `RecvQueueCap` limits the recv_queue. Past it, the `l2tp_elem` allocation fails, which the code allows at any time.

So each bound removes behaviours and adds none.

### Fairness

`l2tp_rfc_fasttimer` and `l2tp_rfc_slowtimer` are kernel protocol timers. The
domain calls them every 200 ms and 500 ms for as long as the module is
loaded, so each gets weak fairness. Hosts and the network get none. A host
need never send, and the network may lose everything.

`CHECK_DEADLOCK FALSE` is set because a tunnel with nothing queued and nothing
in flight really does stop: no handler has anything to do. In `pptp_main` the call setup of each host is weakly fair: it is one function that runs to its next blocking read. So is `pptp_data_in`: the plugin's select loop calls it whenever the socket is readable. The echo timer, a hangup and a signal get no fairness, because none of them need happen. `pptp_main` sets `CHECK_DEADLOCK FALSE` because both hosts end closed, or blocked in a spinning read. In `listener_main`, vpnd's accept-or-refuse and the `recvfrom` that ends it are weakly fair. vpnd watches the descriptor `l2tpvpn_listen` returns and calls the plugin whenever it is readable, and the `recvfrom` comes later in the same call. The peers, the network, allocations, reloads and the close get no fairness. The run has no symmetry, because symmetry is unsound with liveness. `controller_main` sets `CHECK_DEADLOCK FALSE` too: the controller is idle in its run loop once the client has sent its requests and pppd its messages, and no property is liveness.

## Not modelled yet, and the plan

What is modelled so far:
- the L2TP kernel rfc engine: the control channel, the registry, the data path and the listener;
- the VPN server plugin, from loading to close: the accept path, the settings and their reload, the IPSec policies as a value;
- the controller's listening socket and accept path, and `writen` with its EWOULDBLOCK failure (switched on by `WriteStalls`);
- the controller socket's message framing;
- the controller's request dispatch, replies and event fan-out;
- the controller's option store for twenty-nine option types;
- the PPTP plugin's control connection (`pptp.c`), both ends.

Still to come:
1. **Controller socket, rest.** Several clients, and sessions that come and go (`ppp_manager.c` is not in the repository).
2. **Option store, rest.** The running phase (live state and connect-time options).
3. **The rest of the rfc engine.**
   - the data half of `l2tp_rfc_lower_input` routing frames to several sessions (the control half is `ControlDemux`);
   - the data path's missing resynchronisation after a lost frame, which is a hazard with no property yet.

The following stay out:
- MS-CHAP's hashing, which is out of TLC's reach;
- `sys-MacOSX.c`, which is ioctl and routing-socket I/O;
- the PPTP kext (`pptp_proto.c`, `pptp_domain.c`). It is socket glue that calls a GRE and rfc layer not in the repository, and every run slot is taken by a question about code already modelled;
- the PPPoE plugin (`PPPoE-plugin/main.c`). Its connect, listen and wait-input paths have control worth a module, but the project keeps to twelve runs and every one is taken by a question about the code already modelled. Reading it found one hazard, listed in `PROJECT.json`: a `setsockopt` failing after the socket opened makes `pppoe_connect` return `errno`, which pppd takes for the link's descriptor;
- the kmod wrappers of `l2tp_domain.c`, which only take the network funnel around `l2tp_domain_init` and `l2tp_domain_terminate`;
- the content of the IPSec configuration built in `l2tpvpn_listen`, which is one value of the settings here.

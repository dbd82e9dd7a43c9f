# lwIP in TLA+

This directory models lwIP 2.1.2 with its scmRTOS/STM32 port: TLA+ modules
translated from the C code, TLC configurations that check them on small
instances, and TLAPS proofs for what holds in instances of every size.

## 1. The system

lwIP is a TCP/IP stack for small devices. With `NO_SYS 0` (this port) one
*tcpip thread* owns all protocol state: the driver posts packets to its
mailbox, applications take the core lock, and it runs the timers. The raw API
is therefore sequential: a handler (an API call, an incoming packet, a timer)
runs to its end, callbacks included, before the next starts. What makes it hard
is the order in which handlers run, the callbacks inside them, every allocation
that may fail, and a network and peers that lose, repeat, delay and
contradict. Three places are concurrent in the usual sense: the socket and
netconn layers, which application threads and the tcpip thread execute side by
side; the heap, which other contexts enter in the middle of `mem_malloc`; and
the mailbox with the driver's input thread.

From the bottom up: memory (`mem.c`, `memp.c`, `pbuf.c`), timers and the tcpip
thread, interfaces and link layers (Ethernet with ARP, PPP, the bridge), IPv4
and IPv6 with their helpers (ICMP, fragments, IGMP/MLD, neighbour discovery,
DHCP, AutoIP), UDP, raw and TCP, the netconn and socket APIs, and applications
(DNS, HTTP, MQTT, SMTP, SNTP, TFTP, mDNS, SNMP, TLS and proxy layers).
`PROJECT.json` lists every part with its files and what is left out of it.

## 2. The modules

A module follows the C code function by function: an operator with the
function's name maps the state before the call to the state after it, and an
action is a whole handler, composed of the operators of the functions it calls.
An allocation that fails and a callback's answer are choices of the action.

| Module | Models | Source |
|---|---|---|
| TcpOut, TcpCtl, TcpIn, TcpConn | two hosts and one TCP connection | `core/tcp*.c` |
| TcpPcbs | the blocks, lists, listeners and ports of one host | `core/tcp.c`, `tcp_in.c` |
| Netconn, Sockets | application threads and the tcpip thread | `api/api_msg.c`, `api_lib.c`, `sockets.c` |
| StreamPipe | abstract: what a stream socket promises its reader | |
| PppFsm, PppAuth, PppLink | one PPP session | `netif/ppp/fsm.c`, `auth.c`, `upap.c`, `chap-new.c`, `eap.c`, `pppoe.c`, `pppol2tp.c`, `pppos.c`, `ppp.c`, `lcp.c`, `ipcp.c`, `ipv6cp.c`, `ccp.c` |
| PppNeg | option negotiation of LCP, IPCP, IPV6CP and CCP, both ends | `netif/ppp/lcp.c`, `ipcp.c`, `ipv6cp.c`, `ccp.c` |
| Mem | heap and pools | `core/mem.c`, `memp.c` |
| Pbuf | buffers, chains, reference counts, copies | `core/pbuf.c` |
| Tcpip | timeouts, tcpip thread, mailbox, driver's input | `core/timeouts.c`, `api/tcpip.c`, `port/` |
| Netif | interfaces, addresses, loopback | `core/netif.c` |
| Ip | routing, input, forwarding, ICMP, v4 and v6 | `core/ipv4/ip4.c`, `icmp.c`, `core/ipv6/ip6.c`, `icmp6.c` |
| IpFrag | fragmentation and reassembly | `core/ipv4/ip4_frag.c`, `ipv6/ip6_frag.c` |
| Etharp | the ARP table and its queues | `core/ipv4/etharp.c` |
| Dhcp | DHCP client with AutoIP | `core/ipv4/dhcp.c`, `autoip.c` |
| Nd6 | the caches of IPv6 and autoconfiguration | `core/ipv6/nd6.c` |
| Mcast | IGMP and MLD, memberships of sockets | `core/ipv4/igmp.c`, `core/ipv6/mld6.c` |
| UdpRaw | UDP and raw pcbs with their netconns | `core/udp.c`, `raw.c` |
| Bridge | learning and forwarding | `netif/bridgeif*.c` |
| Dns, Httpd, HttpClient, Mqtt, Smtp, Sntp, Tftp, Mdns, Snmp | the clients and servers | `core/dns.c`, `apps/` |
| Altcp | layered TCP: TLS and HTTP proxy | `core/altcp*.c`, `apps/altcp_tls/`, `apps/http/altcp_proxyconnect.c` |
| MCTcp, MCSockets, MCPpp, MCStack | the instances for TLC | |
| TcpPcbsProofs | proofs about TcpPcbs | |
| MemBlocks, MemProofs | proofs about Mem | |

### One connection: TcpOut, TcpCtl, TcpIn, TcpConn

A *context* record `c` holds the pcb (`c.p`), the application that owns it
(`c.app`), the segments handed to IP so far (`c.out`), the globals of `tcp_in.c`
and the failures this handler will meet (`c.fail`).

- **TcpOut** (`tcp_out.c`) – sequence numbers that wrap and their comparisons,
  for a word of any even size; `tcp_write` with its three phases, `tcp_output`
  with Nagle, window, splitting and the start of the persist timer,
  retransmission, control segments.
- **TcpCtl** (`tcp.c`) – allocation, connect, close, shutdown, abort, the
  announced window, refused data, the fast and the slow timer.
- **TcpIn** (`tcp_in.c`) – `tcp_input`, `tcp_process`, `tcp_receive` with the
  out-of-sequence queue, and what happens in LISTEN, TIME_WAIT and without a pcb.
- **TcpConn** – two hosts A and B and the network. One action per handler:
  `Connect`, `Reconnect`, `Write`, `Output`, `Recved`, `Close`, `Shutdown`,
  `Abort` (the application), `FastTmr`, `SlowTmr`, `TxNow`, `TimeWaitExpires`
  (the timers), `Receive`, `Duplicate`, `Lose` (the network, which is a set and
  so reorders). `SpecClosed` starts before the handshake, `SpecOpen` after it,
  `SpecLive` adds fairness, and `SpecPeer` puts B against an arbitrary peer that
  keeps to B's window.

A byte is its position in the stream; a payload is a sequence of such positions,
one sequence per pbuf, since `snd_queuelen` counts pbufs. Time is left out: a
timer may expire whenever its condition holds, and the set `Timers` says which
may expire together in one slow tick. There are no options (both ends use the
same MSS), no RTT estimate, no urgent data and no checksums, and `tcp_write`
always copies, as the socket layer has it do: the branches that chain a pbuf of
the caller's memory (`tcp_out.c:554`, `617`) are left out. A failing
`ip_output_if` strikes the first segment of a `tcp_output` or all after it. The congestion
window is kept, capped at `CWND_MAX`; duplicate ACKs are counted up to
`DUPACKS_MAX`. The application accepts data, accepts and calls `tcp_recved`,
refuses, or aborts in its recv callback; keeps or closes on EOF; accepts or
aborts in the connected and accept callbacks.

### The registry: TcpPcbs

One host with its pool of connection blocks, its pool of listeners, the lists
`tcp_bound_pcbs`, `tcp_active_pcbs`, `tcp_tw_pcbs`, `tcp_listen_pcbs`, the links
from connections to listeners, the backlog counters and `tcp_port`, all in the
record `reg`. An action is a call of the raw API, the effect of a segment on
state and lists, a timer, or an address change. Segments and the age of
connections are abstracted: any connection of the right state may be the oldest.
`tcp_alloc` has its cascade (retry pending closes, then recycle TIME_WAIT,
LAST_ACK, CLOSING, lower priority). The backlog (`TCP_LISTEN_BACKLOG`) is a
build option, off in this port; it is a constant here: the run sets it, the
proofs hold for either value. Binding to a specific address, `SO_REUSE` and a
second `netconn_listen`, which changes the backlog of a listener
(`api_msg.c:1507`) and may leave more connections pending than it now allows,
are left out. TcpConn and TcpPcbs are two views of the same code: the first follows
one block through everything, the second all blocks through the little that
concerns the others.

### Sockets: Netconn, Sockets, StreamPipe

**Netconn** has what runs under the core lock, as functions on the shared state:
the TCP callbacks (`recv_tcp`, `sent_tcp`, `poll_tcp`, `err_tcp`,
`accept_function`, `lwip_netconn_do_connected`) and the API messages (connect,
listen, write with `lwip_netconn_do_writemore`, close, shutdown, delete). The
documentation of `tcp_close` says that it "may return ERR_MEM"; the code marks
the pcb TF_CLOSEPEND and returns ERR_OK (`tcp.c:449`), so a close never waits for
a poll, and the fast timer sends the FIN.
**Sockets** runs them: an application thread is a program counter in one socket
call, cut where another thread can run (before the lock is taken, while it
waits for a semaphore or a mailbox, between reading a flag and using it), and
the tcpip thread is cut inside a callback where an application thread that does
not need the lock can see its effects (`todo`). TCP itself is what the netconn
layer sees of it: pbufs that arrive and may be refused and offered again by the
fast timer, a FIN, acknowledgments, resets, the closing states to the end of
TIME_WAIT, and a write or a FIN that finds no memory. As in the code, refused
data is offered again only while the pcb is active, and a FIN that comes without
data and finds the mailbox full is not kept for later.

**StreamPipe** is the abstract specification: bytes handed over come out once
and in order, and the end of file after the last of them. `IsPipe` says that
each netconn implements it, with `put`, `finput`, `rx` and `eof` of the netconn
as the refinement mapping: what TCP delivered, and what `recv` returned.

### PPP: PppFsm, PppAuth, PppLink, PppNeg

**PppFsm** is the automaton of `fsm.c`. **PppLink** runs one for LCP and each
network protocol, with the phases of `auth.c` and `ppp.c`, **PppAuth** (PAP, CHAP
and EAP as client and server) and the lower layer (PPPoE, L2TP, PPPoS). A handler's
callbacks call back into the automata, several levels deep; they are a list of
pending calls (`calls`) that the handler works off before it ends. The peer is
unconstrained: any packet at any time, or never. **PppNeg** plays the request,
nak and reject functions of both ends against each other.

### The parts of MCStack

The remaining modules are explored together by one instance: `part` names a
component and `st` is its state (`mem` for the heap), each component with the
constants `MCStack` gives it; one that is started in several ways occurs as
several parts (`netifs`, `netifs6`, `netifsLoop`, ...). Their invariants are
collected by theme, since the same obligation recurs in every component:

- *HeapTiles*: see the proofs below.
- *Conserved*: heap, pools, pbufs, messages, packets queued for ARP or
  reassembly: what is allocated is held or freed, exactly once, within limits.
- *Delivered*: packets, copies and frames reach the right receiver and nobody
  else; answers are sent only where they may be.
- *Served*: timers, polls, retries and queries are never forgotten; loops end.
- *Consistent*: tables that refer to each other agree; an address, a lease or an
  option is used only while it may be.
- *Answered* (services): one request, one answer, the right one.
- *Released* (services): states, handles and timers are freed once and no
  earlier.
- *Streams* (services): what comes out is what was put in.

The comment of each theme in `MCStack.tla` says what it means in each component,
and the component's module states the invariants one by one.

## 3. Runs

| Run | Question | States |
|---|---|---|
| TcpData | Is what arrives what was sent, with one fault of any kind and sequence numbers wrapping? | 82,000 |
| TcpWindow | Does the machinery around a closing window (persist, split, announced window) stay consistent? | 403,000 |
| TcpLife | Is the life of a connection right from connect to free, under any order of closes, half closes, aborts and timeouts? | 107,000 |
| TcpLive | Does data get through and does a close end? | 18,000 |
| TcpReorder | Does the receiver cope with anything a peer within the window may send? | 9,000 |
| TcpPcbs | Do the shared lists, counters and links stay right? | 392,000 |
| Sockets | Do threads and callbacks agree, and is a socket a pipe? | 1,388,000 |
| SocketsLive | Do waiting calls return? | 320,000 |
| Ppp | Does a session authenticate, count, time and end as it should? | 381,000 |
| Host | Memory, timers, interfaces, IP and its helpers, the bridge, PPP options | 634,000 |
| Services | DNS, HTTP, MQTT, SMTP, SNMP, mDNS, TFTP, SNTP, TLS and proxy | 327,000 |
| SocketsRefused | violation: refused data is lost at the end of a half-closed connection | |

What the properties of the first nine say:

- *DeliveredIsPrefix*, *EofComplete*: the stream is delivered in order, without
  gaps or repetitions, and EOF comes after its last byte.
- *SendAccounting*, *SendQueuesTile*, *OversizeFits*: counters, queues and the
  spare room of the last segment describe the same bytes.
- *OoseqSorted*, *OoseqFitsWindow*: the out-of-sequence queue is sorted and free
  of overlaps, and taking from it never makes `rcv_wnd` wrap.
- *PersistExcludesRto*, *WindowNeverShrinks*: one timer at a time; no window is
  taken back.
- *StateDiagram*, *CloseProceeds*, *FreedKnowingly*: only legal transitions; a
  closing pcb always has a FIN queued or a retry pending; the application is
  told before its pcb goes away.
- *DataArrives*, *CloseCompletes*: liveness of TCP.
- *PcbLists*, *ListenerOpen*, *BacklogCounts*, *BoundPortsDistinct*: the registry.
- *PcbConnLinked*, *SignalAnswersWait*: netconn and pcb point at each other or
  both have let go, as long as nobody shuts down the sending side alone; a
  semaphore is signalled once per wait.
- *SelectSleepsSoundly*, *SelectAgrees*: no wakeup of select is lost, and what
  it reports is true between calls.
- *WindowAccounted*, *IsPipe*: the window is given back exactly for what was
  read, and the reader sees StreamPipe.
- *RefusedReachesReader*, *DeadConnReleases*: liveness of the socket calls. A
  reader that waits while TCP holds data the mailbox refused goes on, since the
  fast timer offers it again; a thread that waits on a dead connection returns.
- *AuthBeforeNetwork*, *NetworkCounts*, *FsmTimers*, *DeadIsClean*,
  *StatusReported*, *CloseUnderway*: the PPP session. `ppp_close` of a session
  that is dead already calls the status callback once more (`ppp.c:344`);
  StatusReported does not count that call.

Deadlock is not checked: applications may stop, connections and sessions end.

**Bounds.** TCP: the sequence space has 64 numbers and A starts at 62, so every
transfer wraps. A segment holds 2 bytes, the send buffer 4 (2 in TcpLive), a
window 1 to 6: enough for two segments in flight, a partial segment, a segment
larger than the window and a window that closes. `MaxFaults` is 1: one lost or
repeated segment or one failing handler in a behaviour, combined with unlimited
reordering up to `NetCap` segments under way. `TCP_MAXRTX` is 1, so giving up is
reached. In TcpReorder the peer is free to repeat and overlap without bound.
TcpPcbs has two blocks, one listener and two ephemeral ports: both blocks can
belong to the listener, the pool runs empty, the range of ports is exhausted.
With `Patient` the slow timer waits for an empty network, because its periods
(half a second and more) are long compared to a round trip; TcpData and TcpLife
let it tick at any moment. Sockets: one application thread beside the tcpip
thread (without `LWIP_NETCONN_FULLDUPLEX` a socket belongs to one thread), two
netconns so that a listener and what it accepts exist together, a mailbox of one
message so that it is full at once, two pbufs. PPP: every retransmission limit
is 1 or 2, two connections in a row, every combination of authentication and
lower layer in `MCConfigs`. The heap has room for three blocks of up to three
bytes. The other components have two or three of whatever they keep (interfaces,
table entries, names, servers), so that one table is full and one entry is
recycled, and a fault budget of one or two.

**Fairness.** TcpLive assumes delivery, both timers and the 2MSL timer weakly
fair: the tcpip thread serves its mailbox and its timeouts for ever. It assumes
the same of `tcp_output` and `tcp_recved` by an application that holds a pcb:
both are the application's part of the contract of the raw API. Nothing is
assumed of writes and closes. The enabling conditions are spelled out in
`Fairness` instead of written with WF: in a run without failing handlers, as this
one, that is the same and much cheaper. SocketsLive assumes weak fairness of the
tcpip thread in its callback, of each application thread inside a call (the
scheduler), and of the poll and fast timers of each pcb: `tcp_tmr` runs for
every active pcb. Nothing is assumed of the peer or of the application's next
call.

### The run that ends in a violation

**SocketsRefused** checks the sentence in `recv_tcp`, "it is presented to us
later again from tcp_fasttmr!". Data that finds the mailbox full is refused and
kept by TCP, together with a FIN behind it. When the application has shut down
its sending side, the ACK of its FIN may come before the fast timer;
`tcp_input` drops only segments *with data* while data is refused, so the ACK is
processed, LAST_ACK ends, the pcb is freed and the refused bytes with it. The
reader sees a clean end of file. The Sockets run shows that `IsPipe` holds
otherwise (its applications do not shut down the sending side alone).

### Other statements the code does not satisfy

These were found while modelling. The definitions named are kept in the modules
with a comment; with the constants given, TLC finds each one violated.

- *EofComplete* (TcpWindow's constants, A writes and closes):
  `tcp_split_unsent_seg` moves a FIN to the new tail but leaves it on the head as
  well, because `TCPH_SET_FLAG` only sets bits (`tcp_out.c:934`); EOF overtakes
  data when a window splits the last segment.
- *PersistHasData* (TcpWindow's constants): "persist ticking with empty send
  buffer" is asserted against (`tcp.c:1237`), but happens after a probe that
  carried the last byte was acknowledged.
- *NoDanglingPcb* (A shuts down its sending side, B closes) and *PcbConnLinked*
  (SocketsRefused's constants): `tcp_shutdown` "doesn't deallocate the PCB unless
  shutting down both sides" (`tcp.c:503`), and the netconn keeps the pcb; but once
  the peer has closed too, the pcb goes to TIME_WAIT, where `tcp_slowtmr` frees it
  (`tcp.c:1444`) and tells nobody.
- *DeletedOnce* (Sockets's constants with MayLosePeer): when a new connection dies
  between `netconn_accept` and `netconn_peer`, `lwip_accept` calls
  `netconn_delete` (`sockets.c:691`) and then `free_socket`, which finds the
  netconn in the slot and deletes it again, although "netconn_prepare_delete()
  has already been called, here we only free the conn" (`sockets.c:582`).
- *ProbedUnused* (Dhcp, the part `dhcp`): when the link comes back,
  `autoip_network_changed` is to "take the interface down and begin probing with
  the same address" (`autoip.c:329`); it only begins probing, and the probe is
  sent although it "works because netif->ip_addr is ANY" (`autoip.c:207`).
- *EofLast* (Altcp, the part `tlsStarve`): with "unprocessed data" the TLS layer
  is to "delay the FIN" (`altcp_tls_mbedtls.c:220`), but data that mbedTLS took in
  while no pbuf was free for the application is not looked at, and the end of
  file overtakes it. *Streams* has that the end comes last whenever the FIN was
  queued.
- *WholeBody* (Smtp, the part `smtpDone`): the end-of-body line is to follow "the
  whole body" (`smtp.c:1247`). A handler that returns BDH_DONE together with a
  piece for which there is no memory loses that piece: `ret` misses the result of
  the last `smtp_send_bodyh_data` (`smtp.c:1533`).
- *OoseqFitsWindow* (SpecOpen with keepalives): the assertion "ooseq tcplen >
  rcv_wnd" (`tcp_in.c:1579`) fails between two lwIP hosts. An ACK on a keepalive
  moves `lastack` without its window, the sender overruns the window, and the
  receiver does not trim. TcpReorder shows that it holds against a peer that
  keeps to the window.
- *PortsInRange* (a start at the end of the range): `tcp_port` may start at
  65535; it is compared for equality only, so ports from 1 upwards are handed
  out as ephemeral ones (`tcp.c:1018`).
- *FreeLeavesNoTimer* (Ppp's constants): `ppp_free` may follow the dead phase
  (`doc/ppp.txt`), but an L2TP retransmission, a PAP or an EAP timer can still be
  pending on the freed block.
- *PacketsThere* (Tcpip with MayRunOut): the driver of the port passes NULL to the
  stack when it finds no pbuf for a frame.
- *FramesNoticed*, *SleepsUntilDue* (Tcpip): the input thread of the port takes
  one frame per event and can leave frames in the ring; a timeout added under the
  core lock while the tcpip thread sleeps is served when that sleep ends.
- *MqttIndexAsserted* (Mqtt): `msg_idx` counts the whole message, so the
  assertion that it stays below the length of the buffer fails for a publication
  that is longer.
- *AlwaysWhole* (IpFrag, the part `ipfrag`): `ip4_frag` cuts pieces of a multiple
  of eight bytes (`ip4_frag.c:776`) but compares what is left with the whole MTU
  to find the last one (`ip4_frag.c:852`). With an MTU whose payload is no such
  multiple, two pieces can be without the more-fragments flag, and the receiver
  may pass up the datagram without the second. *Reassembled* says that nothing
  else goes wrong.
- *Nd6SendAlwaysEnds* (Nd6, the part `nd6redir`): `nd6_send_q` sends its packets
  through the interface's output function, which looks up the next hop again
  (`nd6.c:2189`). After a redirect, with a full cache, the new next hop may be
  given the very entry whose queue is being sent, and the packet comes back to
  that queue for ever. *Served* has that the loop ends otherwise.
- Duplicate address detection counts a probe whether or not it could be sent
  (`nd6.c:1130`, `1203`), so an IPv6 address may come into use although no probe
  left the host; *Consistent* says only what follows from a conflict.

Constants whose names begin with `May` (and `Outlives`, `EarlyFin`) switch on a
situation in which an invariant of the component fails, for example a loopback
that fills up without a poll (`Netif.MayFill`), an HTTP client whose callback
refuses (`HttpClient.MayRefuse`), a DNS callback that asks again
(`Dns.MayReenter`), a reply built in the request's pbuf under a bridge
(`Bridge.MayReuse`), an SNTP answer that is repeated (`Sntp.MayRepeat`), an
application that aborts a connection through the proxy layer, which then frees
its block twice (`Altcp.MayAbort`, `altcp_proxyconnect.c:494`), a connection that
dies inside `accept` (`Sockets.MayLosePeer`), an SMTP response code cut by the end
of a segment (`Smtp.MayCut`). The parts for which the invariant fails leave them
off and the module's comment says what happens otherwise.

Other limits of the instances: a DNS request is sent at most twice
(`MaxRetries` is 1), so the growing pause between retries is not reached; an
IPv6 fragment of more than `IP_REASS_MAX_PBUFS` pbufs, for which `ip6_reass`
leaves an empty datagram entry to its timeout (`ip6_frag.c:388`), is left out.

## 4. Proofs

### The registry (TcpPcbsProofs)

For pools of any finite size, any number of listeners, any priorities, backlogs
and port range (the ASSUMEs of TcpPcbs):

- `RegistryTyped`: `Spec => []TypeOK`
- `ListsMatchStates`: `Spec => []PcbLists`
- `NoDanglingListener`: `Spec => []ListenerOpen`
- `BacklogIsExact`: `Spec => []BacklogCounts`
- `BindIsExclusive`: `Spec => []BoundPortsDistinct`

all from one inductive invariant (`RegistryInvariant`). None of the five is
inductive alone. `accepts_pending` stays exact only if no block outside the
active list is marked pending, which needs the lists; a freed listener leaves
no pointer behind only if every block with a pointer is on a list that
`tcp_listen_closed` visits; `accepts_pending` stays within the backlog when the
accept callback delays a connection only because that connection was counted
before. The invariant is

    Good(r) == Inv(r) /\ SynPending(r)

where `Inv` has the type, a condition on every block (`PcbOK`: its lists, its
listener and its pending mark fit its state), one on every listener (`LpcbOK`:
its counter is the number of its pending blocks and within the backlog), and
the distinctness of bound ports (`BoundOK`). `SynPending` (with the backlog
compiled in, a block in SYN_RCVD with a listener is marked pending) is separate,
because the middle of `tcp_close_shutdown_fin` breaks it and the helpers are
proved to keep `Inv` on its own. The proof follows the code: lemmas for the
arithmetic of `tcp_new_port` and of the pending sets, one per function saying it
maps good registries to good ones, one per action, and the induction.

### The heap and the pools (MemBlocks, MemProofs)

For a heap of any size, any minimum size, any set of request sizes and a pool of
any length (`MemAssumption`: sizes are positive and one block fits):

- `HeapInvariant`: `MemSpec => []HeapInv`
- `HeapAlwaysTiles`: `MemSpec => []HeapTiles`
- `MallocRefusesRightly`: `MemSpec => []MallocFailsRightly`
- `PoolAlwaysConserved`: `MemSpec => []PoolConserved`

`mem_malloc` gives up its protection at every turn of its two loops, and frees
and trims from other contexts merge and cut the blocks it is walking over. What
`HeapTiles` says is not inductive by itself. `HeapInv` adds

- `Scanning`: no block below the one the scan stands on would do, unless a free
  has been noticed through `mem_free_count`; and the block it stands on is a
  block, unless one has;
- `Adjusting`: the block just taken is used and as large as asked for, no free
  block lies below the one the search for the new `lfree` stands on, unless a
  free has been noticed; `lfree` itself is the block taken or free;
- `Owned`: the used blocks are those the program holds, and the one `mem_malloc`
  is about to return;
- `Refused`: a NULL was returned only when no block would do, and has not been
  overtaken by a free.

MemBlocks proves what merging (`plug_holes`), cutting and marking do to a tiled
heap, position by position, and from it what `mem_free` and `mem_trim` do as a
whole (`FreeStep`, `TrimMergeStep`, `TrimSplitStep`), and that giving memory back
while a scan is under way keeps the invariant (`GivenBackGood`). MemProofs takes
each action in turn. The positions of the heap are a set, so no induction over
the chain is needed.

### What is only model-checked

- Liveness (TcpLive, SocketsLive): out of the prover's reach.
- TcpConn: its operators compose folds over queues and recursive choices of how
  much a handler does; what a fold computes for every input needs induction over
  data, which the provers here cannot do.
- PPP: a handler works off a list of calls by a fold, for the same reason.
- The other components of MCStack, by TLC alone.

## 5. Hazards

`PROJECT.json` lists what is hard to test in this code, at the line where it
bites, with the property that would catch it. The ones without a property say
why.

## 6. Not modelled

- Byte-level formats and transformations: checksums, SLIP, 6LoWPAN, PPPoS
  framing, VJ compression, MPPE, digests and encryption, DNS and SNMP encodings
  beyond those SNMP's integers and mDNS's names need.
- Wrappers and tables without control of their own: netbuf, netifapi, if_api,
  netdb, pppapi, the MIB2 files of SNMP, `snmp_threadsync`, Ethernet framing,
  socket options, `ioctl`, `fcntl`.
- DHCPv6 (stateless in this version), NetBIOS names, iperf, ZEP.
- The transmit side and the PHY of the STM32 driver, and the object pools of
  `sys_arch.cpp`.
- Callbacks that re-enter the TCP lists in the middle of a timer's walk.

------------------------------- MODULE UdpRaw ------------------------------
(***************************************************************************)
(* UDP and raw protocol control blocks (src/core/udp.c, src/core/raw.c)    *)
(* and what the netconn layer does with the datagrams they receive         *)
(* (recv_udp, recv_raw of src/api/api_msg.c).  IPv4, SO_REUSE 0.  Address  *)
(* AnyIp is the wildcard, Bcast the broadcast address; an interface has one  *)
(* address (AnyIp while it is down).                                         *)
(***************************************************************************)
EXTENDS Integers, FiniteSets, SequencesExt

CONSTANTS UdpPcbs,    \* elements of MEMP_UDP_PCB
          RawPcbs,    \* elements of MEMP_RAW_PCB
          Netifs,     \* interface indices, not 0
          OwnAddrs,   \* addresses interfaces may be given
          Peers,      \* addresses of other hosts
          Ports,      \* ports programs and peers use
          Ephemeral,  \* UDP_LOCAL_PORT_RANGE, a set of consecutive ports
          BoxSize,    \* slots of a recvmbox
          MaxBufs     \* MEMP_NUM_NETBUF

VARIABLE net

AnyIp == 0

Bcast == -1

NoNetif == 0

Closed == [open |-> FALSE, lip |-> AnyIp, lport |-> 0, rip |-> AnyIp, rport |-> 0,
           conn |-> FALSE, nif |-> NoNetif, box |-> 0]

AllPcbs == UdpPcbs \union RawPcbs

\* got and sent are what the running call delivers and sends, {} between calls
Init == net = [pcb |-> [p \in AllPcbs |-> Closed], udp |-> <<>>, raw |-> <<>>,
               addr |-> [n \in Netifs |-> AnyIp],
               port |-> CHOOSE e \in Ephemeral : \A f \in Ephemeral : f <= e,
               got |-> {}, sent |-> {}]

Returns(s) == [s EXCEPT !.got = {}, !.sent = {}]

Bufs(s) == FoldSet(LAMBDA p, n : n + s.pcb[p].box, 0, AllPcbs)

(***************************************************************************)
(* udp_new_port: the next port of the range that no pcb uses.              *)
(***************************************************************************)
Lowest(S) == CHOOSE e \in S : \A f \in S : e <= f

Following(port) == IF port + 1 \in Ephemeral THEN port + 1 ELSE Lowest(Ephemeral)

Uses(s, port) == \E p \in ToSet(s.udp) : s.pcb[p].lport = port

RECURSIVE udp_new_port(_, _)
udp_new_port(s, n) ==
  IF ~Uses(s, Following(s.port)) THEN [ok |-> TRUE, port |-> Following(s.port)]
  ELSE IF n + 1 > Cardinality(Ephemeral) - 1 THEN [ok |-> FALSE, port |-> Following(s.port)]
  ELSE udp_new_port([s EXCEPT !.port = Following(@)], n + 1)

(***************************************************************************)
(* udp_bind: ERR_USE when the port is taken on the address or on a         *)
(* wildcard; else the pcb enters the list in front.                        *)
(***************************************************************************)
Conflict(s, p, ip, port) ==
  \E q \in ToSet(s.udp) \ {p} :
    s.pcb[q].lport = port /\ (s.pcb[q].lip = ip \/ ip = AnyIp \/ s.pcb[q].lip = AnyIp)

Listed(s, p) == IF p \in ToSet(s.udp) THEN s ELSE [s EXCEPT !.udp = <<p>> \o @]

Bound(s, p, ip, port) == Listed([s EXCEPT !.pcb[p].lip = ip, !.pcb[p].lport = port], p)

BindEphemeral(s, p, ip, r) ==
  IF r.ok THEN [ok |-> TRUE, s |-> Bound([s EXCEPT !.port = r.port], p, ip, r.port)]
  ELSE [ok |-> FALSE, s |-> [s EXCEPT !.port = r.port]]

udp_bind(s, p, ip, port) ==
  IF port = 0 THEN BindEphemeral(s, p, ip, udp_new_port(s, 0))
  ELSE IF Conflict(s, p, ip, port) THEN [ok |-> FALSE, s |-> s]
  ELSE [ok |-> TRUE, s |-> Bound(s, p, ip, port)]

Open(s, p) == s.pcb[p].open

Bind(p, ip, port) ==
  /\ Open(net, p)
  /\ ip = AnyIp \/ \E n \in Netifs : net.addr[n] = ip
  /\ net' = IF p \in UdpPcbs THEN udp_bind(net, p, ip, port).s
            ELSE [net EXCEPT !.pcb[p].lip = ip]

\* udp_bind_netif, raw_bind_netif
BindNetif(p, n) == /\ Open(net, p)
                   /\ net' = [net EXCEPT !.pcb[p].nif = n]

\* udp_connect binds the pcb when it has no port
Connected(r, p, ip, port) ==
  IF ~r.ok THEN r.s
  ELSE Listed([r.s EXCEPT !.pcb[p] = [@ EXCEPT !.rip = ip, !.rport = port, !.conn = TRUE]], p)

Connect(p, ip, port) ==
  /\ Open(net, p)
  /\ net' = IF p \in RawPcbs THEN [net EXCEPT !.pcb[p] = [@ EXCEPT !.rip = ip, !.conn = TRUE]]
            ELSE Connected(IF net.pcb[p].lport = 0 THEN udp_bind(net, p, net.pcb[p].lip, 0)
                           ELSE [ok |-> TRUE, s |-> net], p, ip, port)

Disconnected(s, p) ==
  [s EXCEPT !.pcb[p] = [@ EXCEPT !.rip = AnyIp, !.rport = 0, !.nif = NoNetif, !.conn = FALSE]]

Disconnect(p) == /\ Open(net, p)
                 /\ net.pcb[p].conn
                 /\ net' = Disconnected(net, p)

\* udp_new; raw_new also enters the list
New(p) == /\ ~Open(net, p)
          /\ net' = [net EXCEPT !.pcb[p].open = TRUE,
                                  !.raw = IF p \in RawPcbs THEN <<p>> \o @ ELSE @]

\* udp_remove, raw_remove, and the datagrams of the netconn's mailbox
Del(p) == /\ Open(net, p)
          /\ net' = [net EXCEPT !.pcb[p] = Closed,
                                  !.udp = SelectSeq(@, LAMBDA q : q # p),
                                  !.raw = SelectSeq(@, LAMBDA q : q # p)]

\* udp_netif_ip_addr_changed, raw_netif_ip_addr_changed
Moved(s, old, new) ==
  IF old = AnyIp \/ new = AnyIp THEN s
  ELSE [s EXCEPT !.pcb = [p \in AllPcbs |->
          IF s.pcb[p].lip = old /\ p \in ToSet(s.udp \o s.raw)
          THEN [s.pcb[p] EXCEPT !.lip = new] ELSE s.pcb[p]]]

\* an address is in use on one interface only
SetAddr(n, a) ==
  /\ net.addr[n] # a
  /\ a # AnyIp => \A m \in Netifs : net.addr[m] # a
  /\ a # AnyIp => \A p \in AllPcbs : net.pcb[p].lip # a
  /\ net' = Moved([net EXCEPT !.addr[n] = a], net.addr[n], a)

(***************************************************************************)
(* udp_input                                                               *)
(***************************************************************************)
LocalMatch(s, p, pkt) ==
  /\ s.pcb[p].nif \in {NoNetif, pkt.nif}
  /\ \/ s.pcb[p].lip = AnyIp
     \/ s.pcb[p].lip = pkt.dst
     \/ pkt.dst = Bcast /\ p \in UdpPcbs

Candidate(s, p, pkt) == s.pcb[p].lport = pkt.dport /\ LocalMatch(s, p, pkt)

PeerMatch(s, p, pkt) == s.pcb[p].rport = pkt.sport /\ s.pcb[p].rip \in {AnyIp, pkt.src}

\* the first pcb of the list whose peer is the sender
Perfect(s, pkt) == {i \in DOMAIN s.udp : /\ Candidate(s, s.udp[i], pkt)
                                         /\ PeerMatch(s, s.udp[i], pkt)}

\* else the first unconnected one; for a broadcast, one bound to the
\* address of the interface comes first
Unconnected(s, pkt) == {i \in DOMAIN s.udp : /\ Candidate(s, s.udp[i], pkt)
                                             /\ ~s.pcb[s.udp[i]].conn}

Local(s, pkt) == {i \in Unconnected(s, pkt) : s.pcb[s.udp[i]].lip = s.addr[pkt.nif]}

UnconnectedPcb(s, pkt) ==
  IF pkt.dst = Bcast /\ Local(s, pkt) # {} THEN Lowest(Local(s, pkt))
  ELSE IF Unconnected(s, pkt) # {} THEN Lowest(Unconnected(s, pkt)) ELSE 0

ToFront(seq, i) == <<seq[i]>> \o RemoveAt(seq, i)

\* recv_udp: dropped when the mailbox or the netbuf pool is full
Deliver(s, p) ==
  [s EXCEPT !.got = @ \union {p},
            !.pcb[p].box = IF @ < BoxSize /\ Bufs(s) < MaxBufs THEN @ + 1 ELSE @]

\* a match found behind another pcb moves to the front of the list; whoever
\* is not served gets a port-unreachable message (got = {})
udp_input(s, pkt) ==
  IF Perfect(s, pkt) # {}
  THEN Deliver([s EXCEPT !.udp = ToFront(@, Lowest(Perfect(s, pkt)))],
               s.udp[Lowest(Perfect(s, pkt))])
  ELSE IF UnconnectedPcb(s, pkt) # 0 THEN Deliver(s, s.udp[UnconnectedPcb(s, pkt)])
  ELSE s

UdpInput(pkt) ==
  /\ net.addr[pkt.nif] # AnyIp
  /\ pkt.dst \in {net.addr[pkt.nif], Bcast}
  /\ net' = Returns(udp_input(net, pkt))

(***************************************************************************)
(* raw_input: every matching pcb sees the packet; recv_raw clones it and   *)
(* never eats it, so the list keeps its order.                             *)
(***************************************************************************)
RawMatch(s, p, pkt) == LocalMatch(s, p, pkt) /\ (s.pcb[p].conn => s.pcb[p].rip = pkt.src)

raw_input(s, pkt) ==
  FoldLeft(LAMBDA t, p : IF RawMatch(t, p, pkt) THEN Deliver(t, p) ELSE t, s, s.raw)

RawInput(pkt) ==
  /\ net.addr[pkt.nif] # AnyIp
  /\ pkt.dst \in {net.addr[pkt.nif], Bcast}
  /\ net' = Returns(raw_input(net, pkt))

\* netconn_recv
Recv(p) == /\ net.pcb[p].box > 0
           /\ net' = [net EXCEPT !.pcb[p].box = @ - 1]

(***************************************************************************)
(* udp_sendto, raw_sendto.  route picks an interface that is up (ip_route, *)
(* external to this module).                                               *)
(***************************************************************************)
\* udp_sendto_if: the address the pcb is bound to must be the interface's
SourceOf(s, p, n) == IF s.pcb[p].lip = AnyIp THEN s.addr[n]
                     ELSE IF p \in RawPcbs \/ s.pcb[p].lip = s.addr[n] THEN s.pcb[p].lip
                     ELSE AnyIp

Sent(s, p, n, src) ==
  [s EXCEPT !.sent = {[pcb |-> p, nif |-> n, src |-> src, port |-> s.pcb[p].lport]}]

\* udp_sendto_if_src: an unbound pcb is bound first
SendBound(r, p, n, src) == IF r.ok THEN Sent(r.s, p, n, src) ELSE r.s

SendVia(s, p, n) ==
  IF SourceOf(s, p, n) = AnyIp THEN s
  ELSE SendBound(IF p \in UdpPcbs /\ s.pcb[p].lport = 0
                 THEN udp_bind(s, p, s.pcb[p].lip, 0) ELSE [ok |-> TRUE, s |-> s],
                 p, n, SourceOf(s, p, n))

\* udp_send needs a peer; udp_sendto does not
SendTo(p, route, dst) ==
  /\ Open(net, p)
  /\ dst # AnyIp \/ net.pcb[p].rip # AnyIp
  /\ net.addr[route] # AnyIp
  /\ net.pcb[p].nif # NoNetif => route = net.pcb[p].nif
  /\ net' = Returns(SendVia(net, p, route))

Packets == [dst : OwnAddrs \union {Bcast}, dport : Ports, src : Peers, sport : Ports,
            nif : Netifs]

Next ==
  \/ \E p \in AllPcbs : New(p) \/ Del(p) \/ Disconnect(p) \/ Recv(p)
  \/ \E p \in AllPcbs, ip \in OwnAddrs \union {AnyIp}, port \in Ports \union {0} : Bind(p, ip, port)
  \/ \E p \in AllPcbs, n \in Netifs : BindNetif(p, n)
  \/ \E p \in AllPcbs, ip \in Peers, port \in Ports : Connect(p, ip, port)
  \/ \E n \in Netifs, a \in OwnAddrs \union {AnyIp} : SetAddr(n, a)
  \/ \E pkt \in Packets : UdpInput(pkt) \/ RawInput(pkt)
  \/ \E p \in AllPcbs, n \in Netifs, dst \in Peers \union {AnyIp} : SendTo(p, n, dst)

Spec == Init /\ [][Next]_net

----------------------------------------------------------------------------
(***************************************************************************)
(* Two pcbs of the list never share a port, unless they are bound to two   *)
(* different addresses, whatever order they were bound, connected, moved   *)
(* by an address change and closed in.                                     *)
(***************************************************************************)
UdpPortsDistinct ==
  /\ IsInjective(net.udp)
  /\ \A p, q \in ToSet(net.udp) :
       p # q /\ net.pcb[p].lport = net.pcb[q].lport
         => net.pcb[p].lip # net.pcb[q].lip /\ AnyIp \notin {net.pcb[p].lip, net.pcb[q].lip}
  /\ \A p \in UdpPcbs : p \in ToSet(net.udp) <=> net.pcb[p].lport # 0
  /\ ToSet(net.raw) = {p \in RawPcbs : net.pcb[p].open} /\ IsInjective(net.raw)

(***************************************************************************)
(* A datagram reaches a program that may have it: the pcb is bound to its  *)
(* port and address, a connected pcb hears its peer only, and when a pcb   *)
(* is connected to the sender no other gets the datagram.                  *)
(***************************************************************************)
MayHave(s, p, pkt) ==
  /\ s.pcb[p].open
  /\ s.pcb[p].nif \in {NoNetif, pkt.nif}
  /\ s.pcb[p].lip \in {AnyIp, pkt.dst} \/ pkt.dst = Bcast
  /\ s.pcb[p].conn => s.pcb[p].rip = pkt.src
  /\ p \in UdpPcbs => /\ s.pcb[p].lport = pkt.dport
                      /\ s.pcb[p].conn => s.pcb[p].rport = pkt.sport

UdpDemux ==
  \A pkt \in Packets :
    /\ \E r \in {udp_input(net, pkt)} :
         /\ \A p \in r.got : MayHave(net, p, pkt)
         /\ Cardinality(r.got) = IF \E p \in UdpPcbs : MayHave(net, p, pkt) THEN 1 ELSE 0
         /\ (\E p \in UdpPcbs : net.pcb[p].conn /\ MayHave(net, p, pkt))
              => \A p \in r.got : net.pcb[p].conn
         /\ ToSet(r.udp) = ToSet(net.udp) /\ Len(r.udp) = Len(net.udp)
    /\ pkt.dst # Bcast =>
         raw_input(net, pkt).got = {p \in RawPcbs : MayHave(net, p, pkt)}

(***************************************************************************)
(* A datagram leaves with a source address of the interface it is sent on  *)
(* and, for UDP, with a source port of its own.                            *)
(***************************************************************************)
UdpSourceOwn ==
  \A p \in UdpPcbs, n \in Netifs :
    net.pcb[p].open /\ net.addr[n] # AnyIp =>
      \E r \in {SendVia(net, p, n)} : \A d \in r.sent :
        d.port # 0 /\ r.pcb[p].lport = d.port /\ d.src = net.addr[n]
=============================================================================

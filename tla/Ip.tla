--------------------------------- MODULE Ip ---------------------------------
(***************************************************************************)
(* What the stack does with an IP packet it receives or sends, given the   *)
(* interfaces of module Netif: ip4.c, ip6.c, icmp.c and icmp6.c with       *)
(* IP_FORWARD and LWIP_IPV6_FORWARD.  A handler is a function from the     *)
(* interfaces and a packet to what leaves the handler: the packet is       *)
(* dropped, delivered to a protocol, forwarded, or answered by an echo     *)
(* reply or an error.  Reassembly is module IpFrag, the protocols are      *)
(* modules of their own.                                                   *)
(***************************************************************************)
EXTENDS Netif

CONSTANTS Prefixes,    \* <<network, interface>> pairs of nd6's prefix list
          Peers4, Peers6,   \* the destinations of packets
          Srcs4, Srcs6,     \* the sources of packets received
          MaxHdrs      \* IPv6 extension headers of a packet

Bcast == 255
Mcast == 224           \* a group every interface has joined
OtherMcast == 225      \* a group nobody has joined
SolNode(g) == 300 + g
LinkLocal4 == 169

NetOf(a) == IF a < 100 THEN a \div 10 ELSE a
IsMcast(a) == a \in {Mcast, OtherMcast} \cup {SolNode(g) : g \in 0 .. 9}

Drop == [act |-> "drop"]
Deliver(n) == [act |-> "deliver", nif |-> n]

(* The first interface of the list with a property, or none. *)
FirstNetif(s, P(_)) ==
  IF \E i \in DOMAIN s.list : P(s.list[i])
  THEN s.list[CHOOSE i \in DOMAIN s.list :
                P(s.list[i]) /\ \A j \in 1 .. i - 1 : ~P(s.list[j])]
  ELSE NoNetif

----------------------------------------------------------------------------
(* IPv4 *)

ip4_addr_isbroadcast(s, a, n) ==
  \/ a \in {AnyIp, Bcast}
  \/ /\ n # Lo /\ a # s.addr[n] /\ s.addr[n] # AnyIp
     /\ NetOf(a) = NetOf(s.addr[n]) /\ a < 100 /\ a % 10 = 9

RouteUsable4(s, n) == Usable(s, n) /\ s.addr[n] # AnyIp

ip4_route(s, dst) ==
  LET onNet(n) == RouteUsable4(s, n) /\ NetOf(dst) = NetOf(s.addr[n])
  IN IF FirstNetif(s, onNet) # NoNetif THEN FirstNetif(s, onNet)
     ELSE IF \/ s.dflt = NoNetif \/ dst = LoopIp
             \/ s.dflt # NoNetif /\ ~RouteUsable4(s, s.dflt)
     THEN NoNetif ELSE s.dflt

(* A packet for the interface's own address goes to its loop queue. *)
ip4_output_if(s, src, dst, n) ==
  [act |-> IF dst = s.addr[n] \/ n = Lo THEN "loop" ELSE "send", nif |-> n,
   src |-> IF src = AnyIp THEN s.addr[n] ELSE src, dst |-> dst]

ip4_output(s, src, dst) ==
  IF ip4_route(s, dst) = NoNetif THEN Drop
  ELSE ip4_output_if(s, src, dst, ip4_route(s, dst))

icmp_send_response(s, p, why) ==
  IF ip4_route(s, p.src) = NoNetif THEN Drop
  ELSE [why |-> why] @@ ip4_output_if(s, AnyIp, p.src, ip4_route(s, p.src))

icmp_input(s, p, inp, t) ==
  IF ~p.echo THEN Deliver(t)
  ELSE IF IsMcast(p.dst) \/ ip4_addr_isbroadcast(s, p.dst, t) THEN Drop
  ELSE [why |-> "echo"] @@ ip4_output_if(s, p.dst, p.src, inp)

ip4_canforward(p) == ~p.llbcast /\ ~IsMcast(p.dst)
                     /\ p.dst \notin {AnyIp, LoopIp, Bcast}

Forward4(s, p, inp, n) ==
  IF n = NoNetif \/ n = inp THEN Drop
  ELSE IF p.ttl = 1
  THEN IF p.proto = "icmp" THEN Drop ELSE icmp_send_response(s, p, "expired")
  ELSE IF p.big /\ p.df THEN icmp_send_response(s, p, "too big")
  ELSE [act |-> "forward", nif |-> n, ttl |-> p.ttl - 1,
        pieces |-> p.big, src |-> p.src, dst |-> p.dst]

ip4_forward(s, p, inp) ==
  IF ~ip4_canforward(p) \/ p.dst = LinkLocal4 THEN Drop
  ELSE Forward4(s, p, inp, ip4_route(s, p.dst))

ip4_input_accept(s, n, dst) ==
  /\ Up(s, n) /\ s.addr[n] # AnyIp
  /\ dst = s.addr[n] \/ ip4_addr_isbroadcast(s, dst, n)

(* The interface a packet is for; the loop address only on its own one.    *)
Target4(s, dst, inp) ==
  LET other(n) == n # inp /\ ip4_input_accept(s, n, dst)
  IN IF IsMcast(dst) THEN IF dst = Mcast THEN inp ELSE NoNetif
     ELSE IF ip4_input_accept(s, inp, dst) THEN inp
     ELSE IF dst = LoopIp THEN NoNetif ELSE FirstNetif(s, other)

Proto4(s, p, inp, t) ==
  CASE p.proto = "icmp" -> icmp_input(s, p, inp, t)
    [] p.proto = "udp" -> Deliver(t)
    [] OTHER -> IF ip4_addr_isbroadcast(s, p.dst, t) \/ IsMcast(p.dst)
                THEN Drop ELSE icmp_send_response(s, p, "protocol")

Input4(s, p, inp, t) ==
  IF /\ ip4_addr_isbroadcast(s, p.src, inp) \/ IsMcast(p.src)
     /\ ~(p.src = AnyIp /\ p.dst = Mcast)
  THEN Drop
  ELSE IF t # NoNetif THEN Proto4(s, p, inp, t)
  ELSE IF ip4_addr_isbroadcast(s, p.dst, inp) THEN Drop
  ELSE ip4_forward(s, p, inp)

(* ok: version, lengths and checksum are right. *)
ip4_input(s, p, inp) ==
  IF ~p.ok THEN Drop ELSE Input4(s, p, inp, Target4(s, p.dst, inp))

----------------------------------------------------------------------------
(* IPv6 *)

ZoneOf(a) == IF LinkLocal6(a) THEN (a - 600) \div 10 ELSE 0
Zoned(a, n) == IF LinkLocal6(a) /\ ZoneOf(a) = 0 THEN a + 10 * Zone[n] ELSE a
Scoped(a) == LinkLocal6(a) \/ IsMcast(a)
SameAddr(a, b) == a = b \/ (LinkLocal6(a) /\ LinkLocal6(b) /\ a % 10 = b % 10)

Scope(a) == CASE a < 100 -> 14
              [] a >= 400 /\ a < 600 -> 8
              [] OTHER -> 2
Net6(a) == IF LinkLocal6(a) THEN 60 ELSE a \div 10

Owns6(s, n, P(_)) == \E i \in Slots : Valid6(s.a6[n][i].st) /\ P(s.a6[n][i].addr)

nd6_find_route(s, dst) ==
  LET onLink(n) == Usable(s, n) /\ <<Net6(dst), n>> \in Prefixes
  IN FirstNetif(s, onLink)

Default6(s) == IF s.dflt # NoNetif /\ Usable(s, s.dflt) THEN s.dflt ELSE NoNetif

RouteScoped(s, src, dst) ==
  LET zoned(n) == Usable(s, n) /\ Zone[n] = ZoneOf(src)
      owns(n) == Usable(s, n) /\ Owns6(s, n, LAMBDA a : SameAddr(a, src))
  IN IF ZoneOf(src) # 0 THEN FirstNetif(s, zoned) ELSE FirstNetif(s, owns)

RouteGlobal(s, src, dst) ==
  LET onNet(n) == Usable(s, n) /\ Owns6(s, n, LAMBDA a : Net6(a) = Net6(dst))
      owns(n) == Usable(s, n) /\ Owns6(s, n, LAMBDA a : a = src)
  IN IF FirstNetif(s, onNet) # NoNetif THEN FirstNetif(s, onNet)
     ELSE IF nd6_find_route(s, dst) # NoNetif THEN nd6_find_route(s, dst)
     ELSE IF src # AnyIp /\ FirstNetif(s, owns) # NoNetif
     THEN FirstNetif(s, owns) ELSE Default6(s)

ip6_route(s, src, dst) ==
  LET zoned(n) == Usable(s, n) /\ Zone[n] = ZoneOf(dst)
  IN IF Len(s.list) = 1
     THEN IF /\ Usable(s, s.list[1])
             /\ ZoneOf(dst) \in {0, Zone[s.list[1]]}
          THEN s.list[1] ELSE NoNetif
     ELSE IF ZoneOf(dst) # 0 THEN FirstNetif(s, zoned)
     ELSE IF Scoped(dst) \/ LinkLocal6(src) \/ src = LoopIp
     THEN RouteScoped(s, src, dst)
     ELSE RouteGlobal(s, src, dst)

(* One turn of the loop that keeps the best candidate so far. *)
Cand(slot, dst) == [addr |-> slot.addr, scope |-> Scope(slot.addr),
                    pref |-> IF slot.st = "preferred" THEN 1 ELSE 0,
                    bits |-> IF Net6(slot.addr) = Net6(dst) THEN 1 ELSE 0]

NoCand == [addr |-> AnyIp, scope |-> 0, pref |-> 0, bits |-> 0]

Wins(c, b, dscope) ==
  \/ b.addr = AnyIp
  \/ c.scope < b.scope /\ c.scope >= dscope
  \/ c.scope > b.scope /\ b.scope < dscope
  \/ c.scope = b.scope /\ \/ c.pref > b.pref
                          \/ c.pref = b.pref /\ c.bits > b.bits

BestOf(slots, dst) ==
  LET f[k \in 0 .. Cardinality(DOMAIN slots)] ==
        IF k = 0 THEN NoCand
        ELSE LET b == f[k - 1]
             IN IF /\ Valid6(slots[k - 1].st)
                   /\ Wins(Cand(slots[k - 1], dst), b, Scope(dst))
                THEN Cand(slots[k - 1], dst) ELSE b
  IN f[Cardinality(DOMAIN slots)].addr

ip6_select_source_address(slots, dst) ==
  IF \E i \in DOMAIN slots : Valid6(slots[i].st) /\ SameAddr(slots[i].addr, dst)
  THEN slots[CHOOSE i \in DOMAIN slots :
               Valid6(slots[i].st) /\ SameAddr(slots[i].addr, dst)].addr
  ELSE BestOf(slots, dst)

ip6_output_if_src(s, src, dst, n) ==
  [act |-> IF Owns6(s, n, LAMBDA a : a = Zoned(dst, n)) \/ n = Lo
           THEN "loop" ELSE "send",
   nif |-> n, src |-> src, dst |-> Zoned(dst, n)]

ip6_output_if(s, src, dst, n) ==
  IF src # AnyIp THEN ip6_output_if_src(s, src, dst, n)
  ELSE IF ip6_select_source_address(s.a6[n], dst) = AnyIp THEN Drop
  ELSE ip6_output_if_src(s, ip6_select_source_address(s.a6[n], dst), dst, n)

ip6_output(s, src, dst) ==
  IF ip6_route(s, src, dst) = NoNetif THEN Drop
  ELSE ip6_output_if(s, src, dst, ip6_route(s, src, dst))

icmp6_send_response(s, p, why, n) ==
  IF ip6_select_source_address(s.a6[n], p.src) = AnyIp THEN Drop
  ELSE [why |-> why] @@ ip6_output_if(s, AnyIp, p.src, n)

icmp6_input(s, p, inp, t) ==
  IF ~p.echo THEN Deliver(t)
  ELSE IF IsMcast(p.dst) THEN Drop
  ELSE [why |-> "echo"] @@ ip6_output_if(s, p.dst, p.src, inp)

Error6(s, p, inp, why) ==
  IF p.proto = "icmp" THEN Drop ELSE icmp6_send_response(s, p, why, inp)

ip6_forward(s, p, inp) ==
  LET n == ip6_route(s, AnyIp, p.dst)
  IN IF LinkLocal6(p.dst) \/ p.dst = LoopIp THEN Drop
     ELSE IF n = NoNetif THEN Error6(s, p, inp, "no route")
     ELSE IF \/ ZoneOf(p.src) \notin {0, Zone[n]} \/ p.src = LoopIp \/ n = inp
     THEN Drop
     ELSE IF p.ttl = 1 THEN Error6(s, p, inp, "expired")
     ELSE IF p.big THEN Error6(s, p, inp, "too big")
     ELSE [act |-> "forward", nif |-> n, ttl |-> p.ttl - 1, pieces |-> FALSE,
           src |-> p.src, dst |-> p.dst]

ip6_input_accept(s, n, dst) == Up(s, n) /\ Owns6(s, n, LAMBDA a : a = dst)

Target6(s, p, inp) ==
  LET other(n) == n # inp /\ ip6_input_accept(s, n, p.dst)
  IN IF IsMcast(p.dst)
     THEN IF p.dst = Mcast \/ \E g \in DOMAIN s.groups[inp] : p.dst = SolNode(g)
          THEN inp ELSE NoNetif
     ELSE IF ip6_input_accept(s, inp, p.dst) THEN inp
     ELSE IF LinkLocal6(p.dst) \/ LinkLocal6(p.src) \/ LoopIp \in {p.dst, p.src}
     THEN NoNetif ELSE FirstNetif(s, other)

(* The extension headers: options whose unknown types ask to be skipped,   *)
(* dropped or reported (opt1, opt2, opt3), routing headers that are odd or *)
(* of an unknown type with segments left, atomic fragments, fragments for  *)
(* reassembly, and fragments of a length that is no multiple of eight.     *)
Headers == {"hbh", "dest", "short", "opt1", "opt2", "opt3", "rout", "routOdd",
            "routType", "frag0", "fragMore", "fragLen"}

Header6(h, mcast) ==
  CASE h \in {"short", "opt1"} -> "drop"
    [] h \in {"opt2", "routOdd", "routType", "fragLen"} -> "problem"
    [] h = "opt3" -> IF mcast THEN "drop" ELSE "problem"
    [] h = "fragMore" -> "reass"
    [] OTHER -> "next"

Headers6(hdrs, mcast) ==
  LET f[k \in 0 .. Len(hdrs)] ==
        IF k = Len(hdrs) THEN "done"
        ELSE IF k > 0 /\ hdrs[k + 1] = "hbh" THEN "problem"
        ELSE IF Header6(hdrs[k + 1], mcast) # "next"
        THEN Header6(hdrs[k + 1], mcast) ELSE f[k + 1]
  IN f[0]

Proto6(s, p, inp, t) ==
  CASE p.proto = "icmp" -> icmp6_input(s, p, inp, t)
    [] p.proto = "udp" -> Deliver(t)
    [] OTHER -> IF IsMcast(p.dst) THEN Drop
                ELSE icmp6_send_response(s, p, "protocol", t)

Local6(s, p, inp, t, hdrs) ==
  CASE hdrs = "done" -> Proto6(s, p, inp, t)
    [] hdrs = "problem" -> icmp6_send_response(s, p, "header", t)
    [] OTHER -> Drop

Input6(s, p, inp, t) ==
  IF p.src = AnyIp /\ p.dst \notin {SolNode(g) : g \in 0 .. 9} THEN Drop
  ELSE IF t # NoNetif
  THEN Local6(s, p, inp, t, Headers6(p.hdrs, IsMcast(p.dst)))
  ELSE IF IsMcast(p.dst) THEN Drop ELSE ip6_forward(s, p, inp)

OnWire6(p, inp) == [p EXCEPT !.src = Zoned(@, inp), !.dst = Zoned(@, inp)]

ip6_input(s, p, inp) ==
  IF ~p.ok \/ IsMcast(p.src) THEN Drop
  ELSE Input6(s, OnWire6(p, inp), inp, Target6(s, OnWire6(p, inp), inp))

----------------------------------------------------------------------------
Looped(s, r) ==
  IF r.act = "loop" /\ LoopMax > 0
  THEN netif_loop_output(s, r.nif, [clen |-> 1, echo |-> FALSE]) ELSE s

(* Packets that expire, that can be forwarded and that are too big. *)
Packets(srcs, dsts) ==
  {p \in [ok : {TRUE}, src : srcs, dst : dsts, proto : {"icmp", "other"},
          echo : {TRUE}, ttl : {1, 2}, df : BOOLEAN, big : BOOLEAN,
          llbcast : {FALSE}, hdrs : {<<>>}] :
     p.df = p.big /\ (p.big => p.ttl = 2)}

Packet(src, dst) == [ok |-> TRUE, src |-> src, dst |-> dst, proto |-> "icmp",
                     echo |-> TRUE, ttl |-> 2, df |-> FALSE, big |-> FALSE,
                     llbcast |-> FALSE, hdrs |-> <<>>]

IpInput == \E n \in AllNetifs :
             /\ Listed(nif, n)
             /\ \/ \E src \in Srcs4, dst \in Peers4 :
                     nif' = Looped(nif, ip4_input(nif, Packet(src, dst), n))
                \/ \E src \in Srcs6, dst \in Peers6 :
                     nif' = Looped(nif, ip6_input(nif, Packet(src, dst), n))

IpOutput == \/ \E dst \in Peers4 :
                 nif' = Looped(nif, ip4_output(nif, AnyIp, dst))
            \/ \E dst \in Peers6 :
                 nif' = Looped(nif, ip6_output(nif, AnyIp, dst))

Next == NetifNext \/ IpInput \/ IpOutput

Spec == Init /\ [][Next]_nif

----------------------------------------------------------------------------
OwnAddr4(s, a) == \E n \in AllNetifs : Up(s, n) /\ s.addr[n] = a
OwnAddr6(s, a) == \E n \in AllNetifs : Up(s, n) /\ Owns6(s, n, LAMBDA b : a = b)
BcastSomewhere(s, a) == \E n \in AllNetifs : Up(s, n) /\ ip4_addr_isbroadcast(s, a, n)

(* A packet is forwarded only by an interface that is up with its link and *)
(* is not the one it came in by, with a smaller, positive TTL, and never   *)
(* when it is for this host: its destination is no address of an interface *)
(* that is up, no multicast and no broadcast address of any attached       *)
(* network, not even of the network it would be forwarded to (ip4_forward  *)
(* itself does not look at the latter).                                    *)
ForwardSafe ==
  \A n \in {nif.list[i] : i \in DOMAIN nif.list} :
    /\ \A p \in Packets(Srcs4, Peers4) : \E r \in {ip4_input(nif, p, n)} :
         r.act = "forward" =>
           /\ Usable(nif, r.nif) /\ r.nif # n /\ r.ttl \in 1 .. p.ttl - 1
           /\ ~OwnAddr4(nif, p.dst) /\ ~IsMcast(p.dst)
           /\ ~BcastSomewhere(nif, p.dst) /\ p.dst # LinkLocal4
    /\ \A p \in Packets(Srcs6, Peers6) : \E r \in {ip6_input(nif, p, n)} :
         r.act = "forward" =>
           /\ Usable(nif, r.nif) /\ r.nif # n /\ r.ttl \in 1 .. p.ttl - 1
           /\ ~OwnAddr6(nif, p.dst) /\ ~IsMcast(p.dst)
           /\ ~LinkLocal6(p.dst) /\ ~LinkLocal6(p.src)

(* What the stack answers by itself, it sends to a host (never to a        *)
(* broadcast, multicast or unspecified address), from an address of the    *)
(* interface it leaves by or the address that was pinged, and an error is  *)
(* about a packet that was for one host and, but for a fragmentation       *)
(* error, no ICMP packet: two stacks cannot keep answering each other.     *)
AnswersSafe ==
  \A n \in {nif.list[i] : i \in DOMAIN nif.list} :
    /\ \A p \in Packets(Srcs4, Peers4) : \E r \in {ip4_input(nif, p, n)} :
         "why" \in DOMAIN r =>
           /\ r.dst = p.src /\ ~IsMcast(r.dst)
           /\ ~ip4_addr_isbroadcast(nif, r.dst, n)
           /\ r.src = p.dst \/ r.src = nif.addr[r.nif]
           /\ ~IsMcast(p.dst) /\ ~ip4_addr_isbroadcast(nif, p.dst, n)
           /\ p.proto = "icmp" => r.why \in {"echo", "too big"}
           /\ r.why = "echo" => OwnAddr4(nif, r.src)
    /\ \A p \in Packets(Srcs6, Peers6) : \E r \in {ip6_input(nif, p, n)} :
         "why" \in DOMAIN r =>
           /\ ~IsMcast(r.dst) /\ r.dst # AnyIp
           /\ Owns6(nif, r.nif, LAMBDA a : a = r.src) \/ OwnAddr6(nif, r.src)
           /\ p.proto = "icmp" => r.why = "echo"

(* A packet the stack sends from an address it chose can be answered: the  *)
(* answer, arriving by the interface the packet left by, is delivered and  *)
(* neither dropped nor forwarded (routing, source selection and            *)
(* acceptance agree).                                                      *)
AnswersArrive ==
  /\ \A dst \in Peers4 : \E r \in {ip4_output(nif, AnyIp, dst)} :
       r.act = "send" /\ ~ip4_addr_isbroadcast(nif, dst, r.nif) /\ ~IsMcast(dst)
         => ip4_input(nif, [Packet(dst, r.src) EXCEPT !.proto = "udp"], r.nif).act
              = "deliver"
  /\ \A dst \in Peers6 : \E r \in {ip6_output(nif, AnyIp, dst)} :
       r.act = "send" /\ ~IsMcast(dst) /\ dst # AnyIp
         => ip6_input(nif, [Packet(r.dst, r.src) EXCEPT !.proto = "udp"], r.nif).act
              = "deliver"

(* The rules ip6_select_source_address documents, as a ranking: the        *)
(* destination itself, then the smallest scope that reaches it (or the     *)
(* largest if none does), then preferred over deprecated, then the same    *)
(* /64 over another.                                                       *)
Ranked(c, dst) ==
  <<IF SameAddr(c.addr, dst) THEN 0 ELSE 1,
    IF c.scope >= Scope(dst) THEN c.scope ELSE 100 - c.scope,
    1 - c.pref, 1 - c.bits>>

Before(r, q) == \E i \in 1 .. 4 : r[i] < q[i] /\ \A j \in 1 .. i - 1 : r[j] = q[j]

(* Whatever addresses an interface has and in whatever order of slots, the *)
(* loop of ip6_select_source_address returns one that no other valid       *)
(* address beats under those rules.  An IPv6 packet with a malformed       *)
(* header, or with hop-by-hop options anywhere but first, reaches no       *)
(* protocol.                                                               *)
SourceRules ==
  Slots # {} /\ nif.list = Fixed \o <<Lo>> /\ nif.next = Len(Fixed) + 1 =>
    /\ \A slots \in [0 .. 2 -> [addr : {611, 411, 11, 22},
                                st : {"deprecated", "preferred"}]],
          dst \in {Mcast, 612, 611, 412, 422, 12, 11, 33} :
         \E a \in {ip6_select_source_address(slots, dst)} :
           \E i \in 0 .. 2 :
             /\ slots[i].addr = a
             /\ \A j \in 0 .. 2 :
                  ~Before(Ranked(Cand(slots[j], dst), dst),
                          Ranked(Cand(slots[i], dst), dst))
    /\ \A k \in 0 .. MaxHdrs : \A hdrs \in [1 .. k -> Headers], m \in BOOLEAN :
         Headers6(hdrs, m) = "done" <=>
           \A i \in 1 .. k : \/ hdrs[i] \in {"dest", "rout", "frag0"}
                             \/ hdrs[i] = "hbh" /\ i = 1
=============================================================================

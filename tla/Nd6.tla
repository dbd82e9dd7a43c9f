-------------------------------- MODULE Nd6 --------------------------------
(* IPv6 neighbour discovery (core/ipv6/nd6.c): the neighbour cache with its *)
(* queues of packets, the destination cache, the default router list, the   *)
(* prefix list, and the addresses of one interface with duplicate address   *)
(* detection, autoconfiguration and lifetimes.  One tick of the model is    *)
(* one nd6_tmr.  An address is a number; a link-layer address is named by   *)
(* the neighbour it was learned for.                                        *)
EXTENDS Integers, FiniteSets, SequencesExt

CONSTANTS NumNeighbors, NumDests, NumRouters, NumPrefixes, NumAddrs,
          Hosts,         \* the link-local neighbours
          Gateways,      \* those of them that advertise themselves as routers
          Far,           \* destinations with a global address, by prefix
          RouterLives, PrefixOpts, MaxSolicit, ReachTime, DelayTime,
          DadAttempts, TwoHours, Inf, NumQueue, Mtus,
          MayRedirect,   \* routers send redirects
          MayConfigure,  \* the interface is configured and its link changes
          MaxTraffic     \* bound on the packets and messages between two ticks

VARIABLE nd

Nobody == 0
Free == [st |-> "none", addr |-> Nobody, q |-> <<>>, cnt |-> 0,
         rtr |-> FALSE, ll |-> Nobody]
NoDest == [dst |-> Nobody, hop |-> Nobody, aged |-> FALSE, pmtu |-> 0]
NoRouter == [n |-> 0, life |-> 0]
NoPrefix == [pfx |-> 0, life |-> 0]
NoAddr == [st |-> "invalid", cnt |-> 0, pfx |-> 0, valid |-> 0, pref |-> 0]

Init ==
  nd = [n |-> [i \in 1..NumNeighbors |-> Free],
        d |-> [i \in 1..NumDests |-> NoDest], cd |-> 1, cn |-> 1,
        r |-> [i \in 1..NumRouters |-> NoRouter], last |-> 1,
        p |-> [i \in 1..NumPrefixes |-> NoPrefix],
        a |-> [i \in 1..NumAddrs |-> NoAddr], up |-> FALSE, rs |-> 0,
        mtu |-> 0, traffic |-> 0, stuck |-> "no"]

Lowest(S) == CHOOSE i \in S : \A j \in S : i <= j
Highest(S) == CHOOSE i \in S : \A j \in S : i >= j
InOrder(n) == [i \in 1..n |-> i]

(* An index of the entry, 0 when there is none (the code's -1). *)
FirstOr0(S) == IF S = {} THEN 0 ELSE Lowest(S)

nd6_find_neighbor_cache_entry(s, a) ==
  FirstOr0({i \in DOMAIN s.n : s.n[i].addr = a})

nd6_find_destination_cache_entry(s, a) ==
  FirstOr0({i \in DOMAIN s.d : s.d[i].dst = a})

nd6_free_neighbor_cache_entry(s, i) ==
  IF s.n[i].rtr THEN s ELSE [s EXCEPT !.n[i] = Free]

(* The entry a new neighbour may have: a free one, else the least useful   *)
(* one that is not a router's.                                              *)
Victim(s) ==
  LET In(st) == {i \in DOMAIN s.n : s.n[i].st = st /\ ~s.n[i].rtr}
      Young == {i \in In("reachable") :
                  \A j \in In("reachable") : s.n[i].cnt <= s.n[j].cnt}
      Old(S) == {i \in S : \A j \in S : s.n[i].cnt >= s.n[j].cnt}
      Idle == {i \in In("incomplete") : s.n[i].q = <<>>}
      Free1 == {i \in DOMAIN s.n : s.n[i].st = "none"}
  IN  CASE Free1 # {} -> Lowest(Free1)
        [] In("stale") # {} -> Lowest(In("stale"))
        [] In("probe") # {} -> Lowest(In("probe"))
        [] In("delay") # {} -> Lowest(In("delay"))
        [] Young # {} -> Lowest(Young)
        [] Idle # {} -> Highest(Old(Idle))
        [] In("incomplete") # {} -> Highest(Old(In("incomplete")))
        [] OTHER -> 0

(* nd6_new_neighbor_cache_entry with its caller's initialisation: the       *)
(* victim i, if there is one, becomes the entry of neighbour a.             *)
nd6_new_neighbor_cache_entry(s, i, a, st, cnt, ll) ==
  IF i = 0 THEN s
  ELSE [nd6_free_neighbor_cache_entry(s, i) EXCEPT
          !.n[i] = [Free EXCEPT !.st = st, !.addr = a, !.cnt = cnt, !.ll = ll]]

nd6_new_destination_cache_entry(s) ==
  LET free == {i \in DOMAIN s.d : s.d[i].dst = Nobody}
      aged == {i \in DOMAIN s.d : s.d[i].aged}
  IN  IF free # {} THEN Lowest(free)
      ELSE IF aged # {} THEN Highest(aged) ELSE NumDests

nd6_clear_destination_cache(s) ==
  [s EXCEPT !.d = [i \in DOMAIN s.d |-> NoDest]]

IsRouterEntry(s, r) == s.r[r].n # 0

(* A reachable router, else one that has been resolved, else the next one  *)
(* in turn; the interface is given, so the turn itself does not advance.    *)
nd6_select_router(s) ==
  LET in == {r \in DOMAIN s.r : IsRouterEntry(s, r)}
      reach == {r \in in : s.n[s.r[r].n].st = "reachable"}
      known == {r \in in : s.n[s.r[r].n].st # "incomplete"}
      turn == {r \in in : r >= s.last}
  IN  IF reach # {} THEN Lowest(reach)
      ELSE IF known # {} THEN Lowest(known)
      ELSE IF turn # {} THEN Lowest(turn) ELSE FirstOr0(in)

(* On link by a prefix of the list, or by the /64 that a static address   *)
(* implies; the static address here is the link-local one.                  *)
nd6_is_prefix_in_netif(s, a) ==
  /\ a \in DOMAIN Far
  /\ \/ \E i \in DOMAIN s.p : s.p[i].pfx = Far[a] /\ s.p[i].life > 0
     \/ \E k \in DOMAIN s.a : /\ s.a[k].st \in {"preferred", "deprecated"}
                              /\ s.a[k].valid = 0 /\ s.a[k].pfx = Far[a]

(* The route of a new destination: itself when on link, else a router. *)
NextHop(s, a) ==
  IF a \in Hosts \/ nd6_is_prefix_in_netif(s, a) THEN a
  ELSE LET r == nd6_select_router(s)
       IN  IF r = 0 THEN Nobody ELSE s.n[s.r[r].n].addr

(* The destination entry is found, or made for the hop its route takes. *)
DestEntry(s, a, old, new, hop) ==
  IF old # 0 THEN [s EXCEPT !.cd = old]
  ELSE [s EXCEPT !.cd = new,
          !.d[new] = IF hop = Nobody THEN NoDest
                     ELSE [dst |-> a, hop |-> hop, aged |-> @.aged,
                           pmtu |-> s.mtu]]

(* Then the neighbour entry i of its next hop is, or the victim v becomes  *)
(* one; index 0 stands for ERR_RTE and ERR_MEM.                             *)
HopEntry(s, to, i, v) ==
  LET Touched(t, j) == [s |-> [t EXCEPT !.cn = j, !.d[s.cd].aged = FALSE],
                        i |-> j]
  IN  IF s.d[s.cd].dst = Nobody \/ (i = 0 /\ v = 0) THEN [s |-> s, i |-> 0]
      ELSE IF i # 0 THEN Touched(s, i)
      ELSE Touched(nd6_new_neighbor_cache_entry(s, v, to, "incomplete", 1,
                                                Nobody), v)

NextHopOf(s, to) ==
  HopEntry(s, to, IF s.n[s.cn].addr = to THEN s.cn
                  ELSE nd6_find_neighbor_cache_entry(s, to), Victim(s))

RoutedHop(s) == NextHopOf(s, s.d[s.cd].hop)

nd6_get_next_hop_entry(s, a) ==
  RoutedHop(DestEntry(s, a, IF s.d[s.cd].dst = a THEN s.cd
                            ELSE nd6_find_destination_cache_entry(s, a),
                      nd6_new_destination_cache_entry(s), NextHop(s, a)))

QueuedTotal(s) == FoldFunctionOnSet(LAMBDA e, t : Len(e.q) + t, 0, s.n, DOMAIN s.n)

(* The queue takes one more packet; without a free queue element the       *)
(* oldest packet of this neighbour makes room, or the new one is dropped.   *)
nd6_queue_packet(s, i, a) ==
  IF QueuedTotal(s) < NumQueue THEN [s EXCEPT !.n[i].q = Append(@, a)]
  ELSE IF s.n[i].q = <<>> THEN s
  ELSE [s EXCEPT !.n[i].q = Append(Tail(@), a)]

(* A packet for a is sent to the link-layer address of its next hop i, or *)
(* waits with it until that is known.                                       *)
SendOrQueue(s, i, a) ==
  IF i = 0 THEN s
  ELSE IF s.n[i].st = "stale"
       THEN [s EXCEPT !.n[i].st = "delay", !.n[i].cnt = DelayTime]
  ELSE IF s.n[i].st \in {"reachable", "delay", "probe"} THEN s
  ELSE nd6_queue_packet(s, i, a)

Sent(h, a) == SendOrQueue(h.s, h.i, a)

nd6_get_next_hop_addr_or_queue(s, a) == Sent(nd6_get_next_hop_entry(s, a), a)

(* The packets of entry i, the neighbour a's, go back through output_ip6,   *)
(* one by one, for as long as the entry has any.  A packet may come to wait *)
(* with the entry it just left, and the loop then never ends: because the   *)
(* entry was given to the packet's new next hop meanwhile ("recycled"), or  *)
(* because the entry is still the old one and still does not send ("same"). *)
RECURSIVE SendLoop(_, _, _, _)
SendLoop(s, i, a, fuel) ==
  IF s.n[i].q = <<>> THEN s
  ELSE IF fuel = 0
  THEN [s EXCEPT !.stuck = IF s.n[i].addr = a THEN "same" ELSE "recycled"]
  ELSE SendLoop(nd6_get_next_hop_addr_or_queue(
                  [s EXCEPT !.n[i].q = Tail(@)], Head(s.n[i].q)), i, a, fuel - 1)

nd6_send_q(s, i) == SendLoop(s, i, s.n[i].addr, 2 * NumQueue)

(* The address is taken back, with all that were formed from the           *)
(* link-local one when it is that one.                                      *)
nd6_duplicate_addr_detected(s, k) ==
  [s EXCEPT !.a = [j \in DOMAIN s.a |->
     IF j = k \/ (k = 1 /\ s.a[j].st # "invalid")
     THEN [s.a[j] EXCEPT !.st = "duplicated", !.cnt = 0] ELSE s.a[j]]]

(* A known address has its lifetimes refreshed, the valid one never below  *)
(* two hours unless it already is; else a free slot gets a new address.     *)
nd6_process_autoconfig_prefix(s, o) ==
  LET mine == {i \in 2..NumAddrs : s.a[i].st # "invalid" /\ s.a[i].pfx = o.pfx}
      free == {i \in 2..NumAddrs : s.a[i].st = "invalid"}
      i == Lowest(mine)
      old == s.a[i].valid
      valid == IF o.valid > TwoHours \/ o.valid > old THEN o.valid
               ELSE IF old > TwoHours THEN TwoHours ELSE old
  IN  IF o.pref > o.valid THEN s
      ELSE IF mine # {}
      THEN [s EXCEPT !.a[i].valid = valid, !.a[i].pref = o.pref,
                     !.a[i].st = IF @ = "deprecated" /\ o.pref > 0
                                 THEN "preferred" ELSE @]
      ELSE IF \/ o.valid = 0 \/ free = {}
              \/ s.a[1].st \in {"invalid", "duplicated"} THEN s
      ELSE [s EXCEPT !.a[Lowest(free)] =
              [NoAddr EXCEPT !.st = "tentative", !.pfx = o.pfx,
                             !.valid = o.valid, !.pref = o.pref]]

(* A router that is already in the list at r, or takes a free place of it. *)
ListRouter(s, i) ==
  LET in == {r \in DOMAIN s.r : s.r[r].n = i}
      free == {r \in DOMAIN s.r : s.r[r].n = 0}
      r == IF in # {} THEN Highest(in) ELSE FirstOr0(free)
  IN  IF i = 0 \/ r = 0 THEN [s |-> s, r |-> 0]
      ELSE [s |-> [s EXCEPT !.n[i].rtr = TRUE, !.r[r].n = i], r |-> r]

NewRouter(s, a, old, v) ==
  IF old # 0 THEN ListRouter(s, old)
  ELSE ListRouter(nd6_new_neighbor_cache_entry(s, v, a, "incomplete", 1,
                                               Nobody), v)

nd6_new_router(s, a) ==
  NewRouter(s, a, nd6_find_neighbor_cache_entry(s, a), Victim(s))

nd6_get_router(s, a) ==
  FirstOr0({r \in DOMAIN s.r : IsRouterEntry(s, r) /\ s.n[s.r[r].n].addr = a})

(* The on-link half of a prefix option (nd6_get_onlink_prefix and          *)
(* nd6_new_onlink_prefix).                                                  *)
OnlinkPrefix(s, o) ==
  LET in == {i \in DOMAIN s.p : s.p[i].pfx = o.pfx}
      free == {i \in DOMAIN s.p : s.p[i].pfx = 0 \/ s.p[i].life = 0}
      i == IF in # {} THEN Lowest(in)
           ELSE IF o.valid > 0 THEN FirstOr0(free) ELSE 0
  IN  IF i = 0 THEN s
      ELSE [s EXCEPT !.p[i] = [pfx |-> o.pfx, life |-> o.valid]]

(* The neighbour's link-layer address becomes known. *)
Learn(s, i, st, cnt) ==
  [s EXCEPT !.n[i].ll = s.n[i].addr, !.n[i].st = st, !.n[i].cnt = cnt]

Traffic == nd.traffic < MaxTraffic /\ nd.stuck = "no"
Counted(s) == [s EXCEPT !.traffic = @ + 1]

(* Output of a packet by IPv6. *)
Output(a) ==
  /\ Traffic
  /\ nd' = Counted(nd6_get_next_hop_addr_or_queue(nd, a))

(* A neighbour advertisement of a, solicited (unicast) or not; ll is       *)
(* whether it carries the link-layer address.                               *)
NaUnicast(a, override, ll) ==
  LET i == nd6_find_neighbor_cache_entry(nd, a)
      t == [nd EXCEPT !.n[i].st = "reachable", !.n[i].cnt = ReachTime,
                      !.n[i].ll = IF override \/ nd.n[i].st = "incomplete"
                                  THEN a ELSE @]
  IN  /\ Traffic /\ i # 0
      /\ (override \/ nd.n[i].st = "incomplete") => ll
      /\ nd' = Counted(nd6_send_q(t, i))

NaMulticast(a) ==
  LET i == nd6_find_neighbor_cache_entry(nd, a)
  IN  /\ Traffic /\ i # 0
      /\ nd' = Counted([nd EXCEPT !.n[i].ll = a])

(* Someone else advertises, or probes for, our address k.  A probe of an   *)
(* address that is in use is only answered.                                 *)
DadConflict(k, probe) ==
  /\ Traffic
  /\ nd.a[k].st \notin {"invalid", "duplicated"}
  /\ probe => nd.a[k].st = "tentative"
  /\ nd' = Counted(nd6_duplicate_addr_detected(nd, k))

(* A neighbour tells its own address: entry i is its, or v becomes so. *)
Told(s, a, i, v) ==
  IF i = 0 THEN nd6_new_neighbor_cache_entry(s, v, a, "delay", DelayTime, a)
  ELSE IF s.n[i].st = "incomplete" THEN Learn(s, i, "delay", DelayTime)
  ELSE s

(* A neighbour asks for our address and tells us its own. *)
Ns(a) ==
  /\ Traffic
  /\ \E k \in DOMAIN nd.a : nd.a[k].st \in {"preferred", "deprecated"}
  /\ nd' = Counted(Told(nd, a, nd6_find_neighbor_cache_entry(nd, a), Victim(nd)))

(* A router advertisement: the solicitations stop, the router is entered   *)
(* in the list, then its options are applied.  sent is the outcome of the   *)
(* one solicitation that answers an advertisement nobody asked for.         *)
RaStops(s, sent) ==
  [s EXCEPT !.rs = IF @ < MaxSolicit \/ sent THEN 0 ELSE 1]

RaRouter(s, a, old) ==
  IF old # 0 THEN [s |-> s, r |-> old] ELSE nd6_new_router(s, a)

RaLladdr(s, r, life, sll) ==
  IF sll /\ s.n[s.r[r].n].st = "incomplete"
  THEN Learn([s EXCEPT !.r[r].life = life], s.r[r].n, "reachable", ReachTime)
  ELSE [s EXCEPT !.r[r].life = life]

RaPrefix(s, o) ==
  LET onlink == IF o.onlink THEN OnlinkPrefix(s, o) ELSE s
  IN  IF o.auto THEN nd6_process_autoconfig_prefix(onlink, o) ELSE onlink

RaOptions(t, life, sll, o) ==
  IF t.r = 0 THEN t.s ELSE RaPrefix(RaLladdr(t.s, t.r, life, sll), o)

Ra(a, life, sll, o, sent) ==
  /\ Traffic
  /\ nd' = Counted(RaOptions(RaRouter(RaStops(nd, sent), a, nd6_get_router(nd, a)),
                             life, sll, o))

(* A redirect of destination a to the neighbour to. *)
Redirected(s, to, tll) ==
  IF tll THEN Told(s, to, nd6_find_neighbor_cache_entry(s, to), Victim(s))
  ELSE s

Redirect(a, to, tll) ==
  LET k == nd6_find_destination_cache_entry(nd, a)
  IN  /\ MayRedirect /\ Traffic /\ k # 0
      /\ nd' = Counted(Redirected([nd EXCEPT !.d[k].hop = to], to, tll))

(* Packet too big. *)
Ptb(a, mtu) ==
  LET k == nd6_find_destination_cache_entry(nd, a)
  IN  /\ Traffic /\ k # 0
      /\ nd' = Counted([nd EXCEPT !.d[k].pmtu = mtu])

(* TCP's hint that segments to a are being acknowledged. *)
nd6_reachability_hint(a) ==
  LET k == nd6_find_destination_cache_entry(nd, a)
      i == nd6_find_neighbor_cache_entry(nd, nd.d[k].hop)
  IN  /\ Traffic /\ k # 0 /\ i # 0
      /\ nd.n[i].st \notin {"incomplete", "none"}
      /\ nd' = Counted([nd EXCEPT !.n[i].st = "reachable",
                                  !.n[i].cnt = ReachTime])

ReachableTick(s, i) ==
  IF s.stuck # "no" THEN s
  ELSE IF s.n[i].cnt <= 1 THEN [s EXCEPT !.n[i].st = "stale", !.n[i].cnt = 0]
  ELSE [s EXCEPT !.n[i].cnt = @ - 1]

NeighborTick(s, i) ==
  LET e == s.n[i]
  IN  CASE s.stuck # "no" -> s
        [] e.st \in {"incomplete", "probe"} ->
             IF e.cnt >= MaxSolicit /\ ~e.rtr
             THEN nd6_free_neighbor_cache_entry(s, i)
             ELSE [s EXCEPT !.n[i].cnt = IF @ < MaxSolicit THEN @ + 1 ELSE @]
        [] e.st = "reachable" -> ReachableTick(nd6_send_q(s, i), i)
        [] e.st = "delay" ->
             IF e.cnt <= 1 THEN [s EXCEPT !.n[i].st = "probe", !.n[i].cnt = 0]
             ELSE [s EXCEPT !.n[i].cnt = @ - 1]
        [] OTHER -> s

DestTick(d) == IF d.dst = Nobody THEN d ELSE [d EXCEPT !.aged = TRUE]

(* Mutant: destinations routed through it, and the mark of a router, stay. *)
RouterKeepsFlag(s, r) ==
  IF s.r[r].n = 0 THEN s
  ELSE IF s.r[r].life <= 1 THEN [s EXCEPT !.r[r] = NoRouter]
  ELSE [s EXCEPT !.r[r].life = @ - 1]

(* A router at the end of its lifetime is forgotten, and with it the       *)
(* destinations that were routed through it.                                *)
RouterTick(s, r) ==
  LET i == s.r[r].n
      gone == s.n[i].addr
  IN  IF i = 0 THEN s
      ELSE IF s.r[r].life > 1 THEN [s EXCEPT !.r[r].life = @ - 1]
      ELSE [s EXCEPT !.d = [k \in DOMAIN s.d |->
                              IF s.d[k].hop = gone THEN NoDest ELSE s.d[k]],
                     !.n[i].rtr = FALSE, !.r[r] = NoRouter]

PrefixTick(p) == IF p.life <= 1 THEN NoPrefix ELSE [p EXCEPT !.life = @ - 1]

(* Lifetimes first, then one step of duplicate address detection. *)
Lifetimes(a) ==
  LET Less(life) == IF life = Inf THEN Inf ELSE life - 1
      b == [a EXCEPT !.valid = Less(@), !.pref = IF @ <= 1 THEN 0 ELSE Less(@),
                     !.st = IF a.pref <= 1 /\ @ = "preferred"
                            THEN "deprecated" ELSE @]
  IN  IF a.st = "invalid" \/ a.valid = 0 THEN a
      ELSE IF a.valid <= 1 THEN NoAddr ELSE b

(* One probe more, or the address comes into use.  The result of sending   *)
(* the probe is not looked at: one that was never sent is counted too.      *)
DadTick(a, up) ==
  IF a.st # "tentative" THEN a
  ELSE IF a.cnt >= DadAttempts
       THEN [a EXCEPT !.st = IF a.valid > 0 /\ a.pref = 0
                             THEN "deprecated" ELSE "preferred", !.cnt = 0]
  ELSE IF up THEN [a EXCEPT !.cnt = @ + 1] ELSE a

NeighborsTick(s) ==
  LET Aged(t) == [t EXCEPT !.d = [k \in DOMAIN t.d |-> DestTick(t.d[k])]]
  IN  Aged(FoldLeft(NeighborTick, s, InOrder(NumNeighbors)))

AddrsTick(s) ==
  [s EXCEPT !.p = [i \in DOMAIN s.p |-> PrefixTick(s.p[i])],
            !.a = [i \in DOMAIN s.a |-> DadTick(Lifetimes(s.a[i]), s.up)]]

SolicitTick(s, sent) ==
  [s EXCEPT !.rs = IF /\ @ > 0 /\ s.up /\ sent
                      /\ s.a[1].st \notin {"invalid", "duplicated"}
                   THEN @ - 1 ELSE @,
            !.traffic = 0]

OtherTicks(s, sent) ==
  IF s.stuck # "no" THEN s
  ELSE SolicitTick(AddrsTick(FoldLeft(RouterTick, s, InOrder(NumRouters))), sent)

nd6_tmr(sent) ==
  /\ nd.stuck = "no"
  /\ nd' = OtherTicks(NeighborsTick(nd), sent)

(* The interface goes down for good. *)
nd6_cleanup_netif ==
  /\ MayConfigure
  /\ nd' = [nd6_clear_destination_cache(nd) EXCEPT
              !.n = [i \in DOMAIN nd.n |-> Free],
              !.r = [i \in DOMAIN nd.r |-> NoRouter],
              !.p = [i \in DOMAIN nd.p |-> NoPrefix]]

(* netif_create_ip6_linklocal_address, then netif_set_link_up and           *)
(* netif_set_up with nd6_restart_netif; netif_set_link_down.                *)
Configure ==
  /\ MayConfigure /\ nd.a[1].st = "invalid"
  /\ nd' = [nd EXCEPT !.a[1] = [NoAddr EXCEPT !.st = "tentative"]]

nd6_restart_netif ==
  /\ MayConfigure /\ ~nd.up
  /\ nd' = [nd EXCEPT !.up = TRUE, !.rs = MaxSolicit]

LinkDown ==
  /\ MayConfigure /\ nd.up
  /\ nd' = [nd EXCEPT !.up = FALSE]

Next ==
  \/ \E a \in Hosts \cup DOMAIN Far : Output(a) \/ nd6_reachability_hint(a)
  \/ \E a \in Hosts \cup DOMAIN Far, o, l \in BOOLEAN : NaUnicast(a, o, l)
  \/ \E a \in Hosts : NaMulticast(a) \/ Ns(a)
  \/ \E k \in 1..NumAddrs, probe \in BOOLEAN : DadConflict(k, probe)
  \/ \E a \in Gateways, l \in RouterLives, sll, sent \in BOOLEAN, o \in PrefixOpts :
       Ra(a, l, sll, o, sent)
  \/ \E a \in Hosts \cup DOMAIN Far, to \in Hosts, l \in BOOLEAN : Redirect(a, to, l)
  \/ \E a \in Hosts \cup DOMAIN Far, m \in Mtus : Ptb(a, m)
  \/ \E sent \in BOOLEAN : nd6_tmr(sent)
  \/ nd6_cleanup_netif
  \/ Configure
  \/ nd6_restart_netif
  \/ LinkDown

Spec == Init /\ [][Next]_nd

----------------------------------------------------------------------------
(* The neighbour cache holds an address once; an entry is in use with the  *)
(* link-layer address of its own neighbour, never one left by the entry's   *)
(* previous owner; packets wait only with an entry whose timer will send    *)
(* them or drop them, so they are never stranded; and the entry a default   *)
(* router points to is that router's for as long as it does.                *)
Nd6Caches ==
  /\ \A i, j \in DOMAIN nd.n :
       nd.n[i].addr # Nobody /\ nd.n[i].addr = nd.n[j].addr => i = j
  /\ \A i \in DOMAIN nd.n :
       LET e == nd.n[i]
       IN  /\ e.st \in {"reachable", "stale", "delay", "probe"} => e.ll = e.addr
           /\ e.q # <<>> => e.st \notin {"none", "stale"}
           /\ e.rtr <=> \E r \in DOMAIN nd.r : nd.r[r].n = i
           /\ e.rtr => e.st # "none"
  /\ \A r, t \in DOMAIN nd.r : nd.r[r].n # 0 /\ nd.r[r].n = nd.r[t].n => r = t
  /\ QueuedTotal(nd) <= NumQueue

(* Sending the packets that waited for a neighbour comes to an end, though *)
(* each of them is routed again and may be queued again, for as long as the *)
(* neighbour's entry is not itself given to the new next hop of a packet.   *)
Nd6SendEnds == nd.stuck # "same"

(* Not so without that condition: once a redirect has given a waiting      *)
(* packet another next hop and the cache is full, nd6_new_neighbor_cache_   *)
(* entry takes the very entry nd6_send_q is serving, and the packet comes   *)
(* back to it for ever.                                                     *)
Nd6SendAlwaysEnds == nd.stuck = "no"

(* No address formed from the link-local one is in use, or about to be,    *)
(* once that one is known to be a duplicate, whatever advertisements come   *)
(* later; and an address that was given for a time stays so: its lifetime   *)
(* never becomes the zero that would make it static, and it is not          *)
(* preferred for longer than it is valid.                                   *)
Nd6AddrsFollow ==
  \A k \in DOMAIN nd.a \ {1} :
    LET a == nd.a[k]
    IN  /\ nd.a[1].st = "duplicated" => a.st \in {"invalid", "duplicated"}
        /\ a.st # "invalid" => a.valid > 0
        /\ a.st = "preferred" => a.pref <= a.valid
=============================================================================

------------------------------- MODULE Mcast -------------------------------
(***************************************************************************)
(* Multicast membership: src/core/ipv4/igmp.c and src/core/ipv6/mld6.c     *)
(* (one list of groups per interface with a use count and a report timer), *)
(* and the memberships sockets keep (src/api/sockets.c) to leave their     *)
(* groups when they are closed.  An interface runs IGMP or MLD.            *)
(***************************************************************************)
EXTENDS Integers, FiniteSets, SequencesExt

CONSTANTS Igmp,        \* interfaces with NETIF_FLAG_IGMP, in netif_list order
          Mld,         \* interfaces with IPv6, in netif_list order
          Groups,      \* group addresses a program may join (not 0)
          PoolNum,     \* MEMP_NUM_IGMP_GROUP and MEMP_NUM_MLD6_GROUP
          Socks,       \* sockets
          MaxMembers,  \* LWIP_SOCKET_MAX_MEMBERSHIPS
          MaxUse,      \* bound on the joins of one group
          MaxResps,    \* delays a query may ask for, in timer ticks
          JoinDelay,   \* IGMP_JOIN_DELAYING_MEMBER_TMR
          RemoveJoined \* an interface may be removed while sockets are joined on it

VARIABLE mc

AllSystems == 0

Netifs == ToSet(Igmp) \union ToSet(Mld)

IsMld(n) == n \in ToSet(Mld)

\* list: the groups of an interface; filter: groups the MAC filter lets
\* through; on: the interface was added; members: the sockets' table (sock,
\* where it joined, group); joined: the memberships whose setsockopt
\* returned 0; due: ticks a group has left to answer the queries it heard
Init == mc = [on |-> [n \in Netifs |-> FALSE], list |-> [n \in Netifs |-> <<>>],
              filter |-> [n \in Netifs |-> {}], members |-> {}, joined |-> {}]

Group(g, state) == [addr |-> g, state |-> state, timer |-> 0, last |-> FALSE, use |-> 0,
                    due |-> 0]

Index(s, n, g) == {i \in DOMAIN s.list[n] : s.list[n][i].addr = g}

At(s, n, g) == CHOOSE i \in Index(s, n, g) : TRUE

Pool(s, n) ==
  PoolNum - FoldSeq(LAMBDA m, k : k + Len(s.list[m]), 0, IF IsMld(n) THEN Mld ELSE Igmp)

(***************************************************************************)
(* Timers.  The delay is random below the maximum, and at least one tick.  *)
(***************************************************************************)
Delays(max) == IF max > 2 THEN 1..(max - 1) ELSE {1}

Soonest(d, max) == IF d = 0 \/ max < d THEN max ELSE d

\* igmp_delaying_member and mld6_delayed_report; r picks the delay
delaying_member(g, max, t) ==
  IF g.state = "idle" \/ (g.state = "delaying" /\ (g.timer = 0 \/ max < g.timer))
  THEN [g EXCEPT !.timer = t, !.state = "delaying"] ELSE g

delayed_report(g, t) ==
  IF g.state = "idle" \/ (g.state = "delaying" /\ (g.timer = 0 \/ t < g.timer))
  THEN [g EXCEPT !.timer = t, !.state = "delaying"] ELSE g

Queried(n, g, max, t) ==
  [(IF IsMld(n) THEN delayed_report(g, t) ELSE delaying_member(g, max, t))
     EXCEPT !.due = Soonest(@, IF max = 0 THEN 1 ELSE max)]

(***************************************************************************)
(* igmp_start (from netif_add), igmp_stop and mld6_stop (netif_remove).    *)
(***************************************************************************)
Started(s, n) ==
  IF IsMld(n) \/ Pool(s, n) = 0 THEN s
  ELSE [s EXCEPT !.list[n] = <<[Group(AllSystems, "idle") EXCEPT !.use = 1]>>,
                 !.filter[n] = {AllSystems}]

NetifAdd(n) == /\ ~mc.on[n]
          /\ mc' = Started([mc EXCEPT !.on[n] = TRUE], n)

\* every group is freed and leaves the filter; the sockets' table keeps
\* what they joined on the interface
NetifRemove(n) ==
  /\ mc.on[n]
  /\ RemoveJoined \/ mc.members = {}
  /\ mc' = [mc EXCEPT !.on[n] = FALSE, !.list[n] = <<>>,
                      !.filter[n] = @ \ {g.addr : g \in ToSet(mc.list[n])},
                      !.joined = {m \in @ : n \notin m.nifs}]

(***************************************************************************)
(* Join on one interface: igmp_joingroup_netif and mld6_joingroup_netif.   *)
(***************************************************************************)
\* igmp_lookup_group puts a new group behind allsystems, mld6_new_group in front
InsertGroup(s, n, g) ==
  IF IsMld(n) THEN [s EXCEPT !.list[n] = <<Group(g, "idle")>> \o @]
  ELSE [s EXCEPT !.list[n] = <<Head(@)>> \o <<Group(g, "non")>> \o Tail(@)]

\* the report sent at once, and the delayed one
Announce(s, n, i, t) ==
  [s EXCEPT !.filter[n] = @ \union {s.list[n][i].addr},
            !.list[n][i] = [@ EXCEPT !.last = TRUE, !.timer = t, !.state = "delaying"]]

Use(s, n, i) == [s EXCEPT !.list[n][i].use = @ + 1]

JoinFound(s, n, i, t) ==
  Use(IF s.list[n][i].state = "non" \/ (IsMld(n) /\ s.list[n][i].use = 0)
      THEN Announce(s, n, i, t) ELSE s, n, i)

\* an IGMP interface without its allsystems group (igmp_start failed) trips
\* the assertion "first group must be allsystems"
CanJoin(s, n) == s.on[n] /\ (IsMld(n) \/ s.list[n] # <<>>)

Joined(s, n, g, t) ==
  IF Index(s, n, g) # {} THEN [ok |-> TRUE, s |-> JoinFound(s, n, At(s, n, g), t)]
  ELSE IF Pool(s, n) = 0 THEN [ok |-> FALSE, s |-> s]
  ELSE [ok |-> TRUE, s |-> JoinFound(InsertGroup(s, n, g), n, At(InsertGroup(s, n, g), n, g), t)]

\* igmp_joingroup over the interfaces that match: the first failure ends it
RECURSIVE JoinEach(_, _, _, _)
JoinEach(r, nifs, g, t) ==
  IF nifs = <<>> \/ ~r.ok THEN r ELSE JoinEach(Joined(r.s, Head(nifs), g, t), Tail(nifs), g, t)

joingroup(s, nifs, g, t) == JoinEach([ok |-> nifs # <<>>, s |-> s], nifs, g, t)

(***************************************************************************)
(* Leave: the last user removes the group, tells the routers when it was   *)
(* the last to report, and takes it out of the filter.                     *)
(***************************************************************************)
LeftGroup(s, n, i) ==
  IF s.list[n][i].use <= 1
  THEN [s EXCEPT !.list[n] = RemoveAt(@, i), !.filter[n] = @ \ {s.list[n][i].addr}]
  ELSE [s EXCEPT !.list[n][i].use = @ - 1]

Left(s, n, g) == IF Index(s, n, g) = {} THEN s ELSE LeftGroup(s, n, At(s, n, g))

leavegroup(s, nifs, g) == FoldLeft(LAMBDA t, n : Left(t, n, g), s, nifs)

(***************************************************************************)
(* Sockets: setsockopt(IP_ADD_MEMBERSHIP), IP_DROP_MEMBERSHIP, the IPv6    *)
(* options, and close.  A membership names the interfaces its address or   *)
(* index stands for.                                                       *)
(***************************************************************************)
Targets(s, n) == SelectSeq(IF IsMld(n) THEN Mld ELSE Igmp,
                           LAMBDA m : CanJoin(s, m) /\ (IsMld(n) => m = n))

Membership(s, sock, n, g) == [sock |-> sock, at |-> n, nifs |-> ToSet(Targets(s, n)), addr |-> g]

Registered(s, m) == \E r \in s.members : r.sock = m.sock /\ r.at = m.at /\ r.addr = m.addr

\* the table entry stays when the join fails
AddMember(s, m, r) ==
  [r.s EXCEPT !.members = @ \union {[sock |-> m.sock, at |-> m.at, addr |-> m.addr]},
              !.joined = IF r.ok THEN @ \union {m} ELSE @]

AddMembership(sock, n, g, t) ==
  /\ CanJoin(mc, n)
  /\ ~Registered(mc, Membership(mc, sock, n, g))
  /\ \A k \in Netifs : \A i \in Index(mc, k, g) : mc.list[k][i].use < MaxUse
  /\ mc' = IF Cardinality({m \in mc.members : IsMld(m.at) = IsMld(n)}) = MaxMembers THEN mc
           ELSE AddMember(mc, Membership(mc, sock, n, g), joingroup(mc, Targets(mc, n), g, t))

Dropped(s, sock, n, g) ==
  [leavegroup(s, Targets(s, n), g)
     EXCEPT !.members = @ \ {[sock |-> sock, at |-> n, addr |-> g]},
            !.joined = {m \in @ : ~(m.sock = sock /\ m.at = n /\ m.addr = g)}]

DropMembership(sock, n, g) ==
  /\ [sock |-> sock, at |-> n, addr |-> g] \in mc.members
  /\ mc' = Dropped(mc, sock, n, g)

\* lwip_close: lwip_socket_drop_registered_memberships
DropEach(s, sock) ==
  FoldSet(LAMBDA m, t : Dropped(t, sock, m.at, m.addr), s, {m \in s.members : m.sock = sock})

Close(sock) == /\ \E m \in mc.members : m.sock = sock
               /\ mc' = DropEach(mc, sock)

(***************************************************************************)
(* Messages and timer.                                                     *)
(***************************************************************************)
Each(F(_), list) == [i \in DOMAIN list |-> F(list[i])]

\* igmp_input and mld6_input: a general query, one for a group, a report of
\* another member
GeneralQuery(n, max, t) ==
  /\ mc.on[n]
  /\ mc' = [mc EXCEPT !.list[n] =
              Each(LAMBDA g : IF g.addr = AllSystems THEN g ELSE Queried(n, g, max, t), @)]

GroupQuery(n, g, max, t) ==
  /\ mc.on[n]
  /\ mc' = [mc EXCEPT !.list[n] =
              Each(LAMBDA h : IF h.addr = g THEN Queried(n, h, max, t) ELSE h, @)]

\* netif_issue_reports: igmp_report_groups, mld6_report_groups
ReportGroups(n, t) ==
  /\ mc.on[n]
  /\ mc' = [mc EXCEPT !.list[n] =
              Each(LAMBDA g : IF g.addr = AllSystems THEN g
                             ELSE IF IsMld(n) THEN delayed_report(g, t)
                             ELSE delaying_member(g, JoinDelay, t), @)]

Heard(g) == IF g.state = "delaying"
            THEN [g EXCEPT !.timer = 0, !.state = "idle", !.last = FALSE, !.due = 0] ELSE g

Report(n, g) ==
  /\ mc.on[n]
  /\ mc' = [mc EXCEPT !.list[n] = Each(LAMBDA h : IF h.addr = g THEN Heard(h) ELSE h, @)]

\* igmp_timeout: nothing is reported for allsystems
Expired(g) == IF g.state = "delaying" /\ g.addr # AllSystems
              THEN [g EXCEPT !.state = "idle", !.last = TRUE, !.due = 0] ELSE g

Ticked(g) ==
  LET h == [g EXCEPT !.timer = IF @ > 0 THEN @ - 1 ELSE 0, !.due = IF @ > 0 THEN @ - 1 ELSE 0]
  IN IF g.timer = 1 THEN Expired(h) ELSE h

\* igmp_tmr and mld6_tmr
Tmr == mc' = [mc EXCEPT !.list = [n \in Netifs |-> Each(Ticked, @[n])]]

Next ==
  \/ \E n \in Netifs : NetifAdd(n) \/ NetifRemove(n)
  \/ \E sock \in Socks, n \in Netifs, g \in Groups :
        \/ \E t \in Delays(JoinDelay) : AddMembership(sock, n, g, t)
        \/ DropMembership(sock, n, g)
  \/ \E sock \in Socks : Close(sock)
  \/ \E n \in Netifs, max \in MaxResps : \E t \in Delays(max) : GeneralQuery(n, max, t)
  \/ \E n \in Netifs, g \in Groups, max \in MaxResps : \E t \in Delays(max) :
        GroupQuery(n, g, max, t)
  \/ \E n \in Netifs, t \in Delays(JoinDelay) : ReportGroups(n, t)
  \/ \E n \in Netifs, g \in Groups : Report(n, g)
  \/ Tmr

Spec == Init /\ [][Next]_mc

----------------------------------------------------------------------------
(***************************************************************************)
(* The lists are without duplicates, IGMP's starts with allsystems, the    *)
(* MAC filter lets exactly the groups of the list through, and the pool is *)
(* not overdrawn.                                                          *)
(***************************************************************************)
McastLists ==
  \A n \in Netifs :
    /\ \A i, j \in DOMAIN mc.list[n] : mc.list[n][i].addr = mc.list[n][j].addr => i = j
    /\ ~IsMld(n) /\ mc.list[n] # <<>> => Head(mc.list[n]).addr = AllSystems
    /\ mc.filter[n] = {g.addr : g \in ToSet(mc.list[n])}
    /\ \A g \in ToSet(mc.list[n]) : g.use > 0 /\ g.state # "non"
    /\ Pool(mc, n) >= 0

(***************************************************************************)
(* A group answers a query within the time the query gives, or hears       *)
(* another member do so: it is about to report, no later than due.         *)
(***************************************************************************)
QueriesAnswered ==
  \A n \in Netifs : \A g \in ToSet(mc.list[n]) :
    g.addr # AllSystems =>
      /\ g.state = "delaying" <=> g.timer > 0
      /\ g.due > 0 => g.timer \in 1..g.due

(***************************************************************************)
(* A membership setsockopt granted lasts until the socket drops it or is   *)
(* closed, or the interface goes away, and the use count of a group is the *)
(* number of memberships it has.                                           *)
(***************************************************************************)
MembersServed ==
  \A n \in Netifs, g \in Groups :
    LET users == Cardinality({m \in mc.joined : n \in m.nifs /\ m.addr = g})
    IN users = IF Index(mc, n, g) = {} THEN 0 ELSE mc.list[n][At(mc, n, g)].use
=============================================================================

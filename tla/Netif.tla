------------------------------- MODULE Netif -------------------------------
(***************************************************************************)
(* The network interfaces (netif.c): the list and its numbers, the default *)
(* interface, the administrative and the link flag, the IPv4 address, the  *)
(* IPv6 address slots with their solicited-node memberships, and the queue *)
(* of packets an interface loops back to the stack, which netif_poll       *)
(* drains from a callback posted to the tcpip thread.                      *)
(*                                                                         *)
(* LWIP_NETIF_LOOPBACK, LWIP_HAVE_LOOPIF and                               *)
(* LWIP_NETIF_LOOPBACK_MULTITHREADING are on.  An address is a number:     *)
(* 10 * n + h is host h of network n (h = 9: the directed broadcast of     *)
(* IPv4), and IPv6 has unique-local (400) and link-local (600, n is the    *)
(* zone) addresses as well.                                                *)
(***************************************************************************)
EXTENDS Naturals, Sequences, FiniteSets, TLC

CONSTANTS Netifs,      \* interfaces beside the loop interface
          Fixed,       \* a sequence of interfaces that are added, up and
                       \* linked from the start and stay so
          FixedAddr,   \* and their IPv4 address
          Zone,        \* the IPv6 zone of every interface
          NumMod,      \* interface numbers are 0 .. NumMod-1 (255 in C)
          Addrs4,      \* the IPv4 addresses an interface may be given
          Addrs6,      \* the IPv6 addresses, per interface
          Slots,       \* LWIP_IPV6_NUM_ADDRESSES address slots
          LoopMax,     \* LWIP_LOOPBACK_MAX_PBUFS; 0 leaves the loop queue out
          MboxSize,    \* room for callbacks in the tcpip mailbox
          MayFill      \* the mailbox may be full when a packet is looped

VARIABLE nif

Lo == "lo"
NoNetif == "none"
AnyIp == 0
LoopIp == 127
FixedSet == {Fixed[i] : i \in DOMAIN Fixed}
AllNetifs == Netifs \cup FixedSet \cup {Lo}

States6 == {"invalid", "tentative", "probing", "deprecated", "preferred",
            "duplicated"}
Valid6(st) == st \in {"deprecated", "preferred"}
Member6(st) == st \in {"probing", "deprecated", "preferred"}
NoAddr6 == [addr |-> AnyIp, st |-> "invalid"]

Addr0(n) == CASE n = Lo -> LoopIp [] n \in FixedSet -> FixedAddr
              [] OTHER -> AnyIp

Init == nif = [list |-> Fixed \o <<Lo>>, next |-> Len(Fixed) + 1,
               dflt |-> NoNetif,
               up |-> FixedSet \cup {Lo}, link |-> FixedSet \cup {Lo},
               num |-> [n \in AllNetifs |->
                          IF n \notin FixedSet THEN 0
                          ELSE CHOOSE k \in 1 .. Len(Fixed) :
                                 Fixed[Len(Fixed) + 1 - k] = n],
               addr |-> [n \in AllNetifs |-> Addr0(n)],
               a6 |-> [n \in AllNetifs |-> [i \in Slots |-> NoAddr6]],
               told |-> [n \in AllNetifs |-> Addr0(n)],
               groups |-> [n \in AllNetifs |-> <<>>],
               loop |-> [n \in AllNetifs |-> <<>>],
               cnt |-> [n \in AllNetifs |-> 0],
               mbox |-> <<>>]

Listed(s, n) == \E i \in DOMAIN s.list : s.list[i] = n
Up(s, n) == n \in s.up
Usable(s, n) == n \in s.up /\ n \in s.link

----------------------------------------------------------------------------
(* The list. *)

(* The first number from netif_num on that no listed interface has. *)
FreeNum(s) ==
  LET used == {s.num[s.list[i]] : i \in DOMAIN s.list}
      nth(k) == (s.next + k) % NumMod
      k == CHOOSE k \in 0 .. NumMod - 1 :
             nth(k) \notin used /\ \A j \in 0 .. k - 1 : nth(j) \in used
  IN nth(k)

(* Gratuitous ARP and IGMP/MLD reports for an address that came into use. *)
netif_issue_reports(s, n) ==
  IF Usable(s, n) /\ s.addr[n] # AnyIp
  THEN [s EXCEPT !.told[n] = s.addr[n]] ELSE s

netif_set_addr(s, n, a) ==
  IF s.addr[n] = a THEN s
  ELSE netif_issue_reports([s EXCEPT !.addr[n] = a, !.told[n] = AnyIp], n)

netif_list_add(s, n, num) ==
  [s EXCEPT !.num[n] = num, !.next = (num + 1) % NumMod,
            !.list = <<n>> \o @]

netif_add(s, n, a) ==
  netif_list_add([s EXCEPT !.addr[n] = a, !.link = @ \ {n},
                           !.a6[n] = [i \in Slots |-> NoAddr6],
                           !.loop[n] = <<>>, !.cnt[n] = 0], n, FreeNum(s))

netif_set_down(s, n) == [s EXCEPT !.up = @ \ {n}, !.told[n] = AnyIp]

(* The number stays with the interface: a number used by nobody listed is  *)
(* irrelevant, so it is set to 0.                                          *)
netif_remove(s, n) ==
  [netif_set_down(s, n) EXCEPT
      !.addr[n] = AnyIp, !.link = @ \ {n}, !.num[n] = 0,
      !.a6[n] = [i \in Slots |-> NoAddr6], !.groups[n] = <<>>,
      !.dflt = IF @ = n THEN NoNetif ELSE @,
      !.list = SelectSeq(@, LAMBDA m : m # n)]

netif_set_up(s, n) ==
  IF Up(s, n) THEN s ELSE netif_issue_reports([s EXCEPT !.up = @ \cup {n}], n)

netif_set_link_up(s, n) ==
  IF n \in s.link THEN s
  ELSE netif_issue_reports([s EXCEPT !.link = @ \cup {n}], n)

netif_set_link_down(s, n) == [s EXCEPT !.link = @ \ {n}, !.told[n] = AnyIp]

Add == \E n \in Netifs, a \in Addrs4 :
         /\ ~Listed(nif, n)
         /\ nif' = netif_add(nif, n, a)

NetifRemove == \E n \in Netifs : Listed(nif, n) /\ nif' = netif_remove(nif, n)

SetDefault == \E n \in Netifs \cup FixedSet \cup {NoNetif} :
                /\ n = NoNetif \/ Listed(nif, n)
                /\ nif' = [nif EXCEPT !.dflt = n]

Switch == \E n \in Netifs :
            /\ Listed(nif, n)
            /\ nif' \in {netif_set_up(nif, n), netif_set_down(nif, n),
                         netif_set_link_up(nif, n),
                         netif_set_link_down(nif, n)}

SetAddr == \E n \in Netifs, a \in Addrs4 :
             Listed(nif, n) /\ nif' = netif_set_addr(nif, n, a)

----------------------------------------------------------------------------
(* The IPv6 address slots. *)

Group(a) == a % 10

Uses(s, n, g) == IF g \in DOMAIN s.groups[n] THEN s.groups[n][g] ELSE 0

mld6_joingroup_netif(s, n, g) ==
  [s EXCEPT !.groups[n] = (g :> Uses(s, n, g) + 1) @@ @]

mld6_leavegroup_netif(s, n, g) ==
  IF Uses(s, n, g) > 1 THEN [s EXCEPT !.groups[n][g] = @ - 1]
  ELSE [s EXCEPT !.groups[n] = [h \in DOMAIN @ \ {g} |-> @[h]]]

nd6_adjust_mld_membership(s, n, i, st) ==
  IF Member6(st) = Member6(s.a6[n][i].st) THEN s
  ELSE IF Member6(st) THEN mld6_joingroup_netif(s, n, Group(s.a6[n][i].addr))
  ELSE mld6_leavegroup_netif(s, n, Group(s.a6[n][i].addr))

netif_ip6_addr_set_state(s, n, i, st) ==
  IF s.a6[n][i].st = st THEN s
  ELSE [nd6_adjust_mld_membership(s, n, i, st) EXCEPT !.a6[n][i].st = st]

netif_get_ip6_addr_match(s, n, a) ==
  {i \in Slots : s.a6[n][i].st # "invalid" /\ s.a6[n][i].addr = a}

LinkLocal6(a) == a >= 600

FreeSlots6(s, n, a) == {i \in Slots : /\ s.a6[n][i].st = "invalid"
                                      /\ LinkLocal6(a) \/ i > 0}

AtSlot6(s, n, a, i) ==
  netif_ip6_addr_set_state([s EXCEPT !.a6[n][i].addr = a], n, i, "tentative")

netif_add_ip6_address(s, n, a) ==
  IF netif_get_ip6_addr_match(s, n, a) # {} \/ FreeSlots6(s, n, a) = {} THEN s
  ELSE AtSlot6(s, n, a,
               CHOOSE i \in FreeSlots6(s, n, a) :
                 \A j \in FreeSlots6(s, n, a) : i <= j)

AddAddr6 == \E n \in Netifs : \E a \in Addrs6[n] :
              Listed(nif, n) /\ nif' = netif_add_ip6_address(nif, n, a)

(* Duplicate address detection, lifetimes and the application set states.  *)
SetState6 == \E n \in Netifs, i \in Slots, st \in States6 :
               /\ Listed(nif, n) /\ nif.a6[n][i].addr # AnyIp
               /\ nif' = netif_ip6_addr_set_state(nif, n, i, st)

(* Renaming an address in use is left out: netif_ip6_addr_set_parts does   *)
(* not move the membership of the old address.                             *)
netif_ip6_addr_set == \E n \in Netifs, i \in Slots : \E a \in Addrs6[n] :
  /\ Listed(nif, n) /\ ~Member6(nif.a6[n][i].st)
  /\ nif' = [nif EXCEPT !.a6[n][i].addr = a]

----------------------------------------------------------------------------
(* The loop queue. *)

SumClen(q) == LET f[k \in 0 .. Len(q)] ==
                    IF k = 0 THEN 0 ELSE f[k - 1] + q[k].clen
              IN f[Len(q)]

tcpip_try_callback(s, n) ==
  IF Len(s.mbox) < MboxSize THEN [s EXCEPT !.mbox = Append(@, n)] ELSE s

LoopQueued(s, n, p) ==
  [s EXCEPT !.loop[n] = Append(@, p), !.cnt[n] = @ + p.clen]

netif_loop_output(s, n, p) ==
  IF s.cnt[n] + p.clen > LoopMax THEN s
  ELSE IF s.loop[n] # <<>> THEN LoopQueued(s, n, p)
  ELSE tcpip_try_callback(LoopQueued(s, n, p), n)

(* An echo request fed to ip_input is answered on the same interface.      *)
Fed(s, n, p) == IF p.echo THEN netif_loop_output(s, n, [p EXCEPT !.echo = FALSE])
                ELSE s

PollOne(s, n) ==
  Fed([s EXCEPT !.loop[n] = Tail(@), !.cnt[n] = @ - Head(s.loop[n]).clen],
      n, Head(s.loop[n]))

netif_poll(s, n) ==
  LET f[k \in 0 .. 2 * LoopMax] ==
        IF k = 0 THEN s
        ELSE LET t == f[k - 1]
             IN IF t.loop[n] = <<>> THEN t ELSE PollOne(t, n)
  IN f[2 * LoopMax]

LoopSend == /\ LoopMax > 0
            /\ MayFill \/ Len(nif.mbox) < MboxSize
            /\ \E n \in AllNetifs, c \in 1 .. 2, e \in BOOLEAN :
                 /\ Listed(nif, n)
                 /\ nif' = netif_loop_output(nif, n, [clen |-> c, echo |-> e])

OtherPost == /\ MayFill /\ Len(nif.mbox) < MboxSize
             /\ nif' = [nif EXCEPT !.mbox = Append(@, NoNetif)]

Callback == /\ nif.mbox # <<>>
            /\ nif' = LET s == [nif EXCEPT !.mbox = Tail(@)]
                      IN IF Head(nif.mbox) = NoNetif THEN s
                         ELSE netif_poll(s, Head(nif.mbox))

NetifNext == \/ Add
             \/ NetifRemove
             \/ SetDefault
             \/ Switch
             \/ SetAddr
             \/ AddAddr6
             \/ SetState6
             \/ netif_ip6_addr_set
             \/ LoopSend
             \/ OtherPost
             \/ Callback

NetifSpec == Init /\ [][NetifNext]_nif

----------------------------------------------------------------------------
(* The list has no interface twice, its numbers are distinct and below     *)
(* NumMod (the indices of netif_get_by_index and of pbuf->if_idx name one  *)
(* interface), the default interface is listed (ip4_route dereferences     *)
(* it), and an interface that is up with its link and an address has       *)
(* announced that very address (netif_issue_reports on each of the three   *)
(* ways this can come about).                                              *)
NetifsKept ==
  /\ \A i, j \in DOMAIN nif.list :
       i # j => /\ nif.list[i] # nif.list[j]
                /\ nif.num[nif.list[i]] # nif.num[nif.list[j]]
  /\ \A i \in DOMAIN nif.list : nif.num[nif.list[i]] \in 0 .. NumMod - 1
  /\ nif.dflt = NoNetif \/ Listed(nif, nif.dflt)
  /\ \A n \in AllNetifs : Usable(nif, n) => nif.told[n] = nif.addr[n]

(* An interface is a member of exactly the solicited-node groups of the    *)
(* addresses past their first probe, once per address, whatever states the *)
(* addresses went through: neighbours can resolve every address in use and *)
(* no membership outlives its address.                                     *)
SolicitedJoined ==
  \A n \in Netifs, g \in 0 .. 9 :
    Uses(nif, n, g) = Cardinality({i \in Slots : /\ Member6(nif.a6[n][i].st)
                                                 /\ Group(nif.a6[n][i].addr) = g})

(* The pbufs counted against LWIP_LOOPBACK_MAX_PBUFS are those queued, and *)
(* a packet waiting in a loop queue has a netif_poll on its way.           *)
LoopsPolled ==
  \A n \in AllNetifs :
    /\ nif.cnt[n] = SumClen(nif.loop[n])
    /\ nif.loop[n] # <<>> => \E i \in DOMAIN nif.mbox : nif.mbox[i] = n
============================================================================

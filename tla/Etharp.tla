------------------------------- MODULE Etharp -------------------------------
(***************************************************************************)
(* The ARP table of src/src/core/ipv4/etharp.c: resolving the next hop of  *)
(* an outgoing IPv4 packet, queueing it while the answer is awaited,       *)
(* learning from received ARP packets, ageing, static entries and the      *)
(* removal of an interface.  ARP_QUEUEING is 0 (the default): a pending    *)
(* entry holds at most one packet.  Ages keep the order of the constants   *)
(* they are compared with.                                                 *)
(***************************************************************************)
EXTENDS Integers, FiniteSets

CONSTANTS
  TableSize,   \* ARP_TABLE_SIZE
  Netifs,      \* Ethernet interfaces
  Hosts,       \* IPv4 addresses on the link
  Macs,        \* hardware addresses
  MaxPackets,  \* packets sent in a run
  MaxInputs,   \* ARP packets received in a run
  MaxAge,      \* ARP_MAXAGE
  MaxPending,  \* ARP_MAXPENDING
  AgeUnicast,  \* ARP_AGE_REREQUEST_USED_UNICAST
  AgeBroadcast \* ARP_AGE_REREQUEST_USED_BROADCAST

VARIABLE arp

NoPkt == 0
Slots == 1..TableSize
Empty == [st |-> "empty", ip |-> 0, mac |-> 0, nif |-> "", ct |-> 0, q |-> NoPkt]
Stable == {"stable", "rereq1", "rereq2", "static"}

(* pkts[p] is where packet p is: not yet sent by IP, queued, freed without *)
(* being transmitted, or transmitted, with the address it was sent to.     *)
Init == arp = [tab |-> [i \in Slots |-> Empty], hint |-> 1,
               pkts |-> [p \in 1..MaxPackets |-> [at |-> "new", mac |-> 0, ip |-> 0, nif |-> ""]],
               said |-> {}, nin |-> 0]

Entry(a, ip, nif) ==
  {i \in Slots : a.tab[i].st # "empty" /\ a.tab[i].ip = ip /\ a.tab[i].nif = nif}

Drop(a, p) == IF p = NoPkt THEN a ELSE [a EXCEPT !.pkts[p].at = "freed"]

Send(a, p, mac) == [a EXCEPT !.pkts[p].at = "sent", !.pkts[p].mac = mac]

etharp_free_entry(a, i) == [Drop(a, a.tab[i].q) EXCEPT !.tab[i] = Empty]

(* The entry to recycle: the last of the oldest stable ones, then of the   *)
(* pending ones without a packet, then of those with one; 0 if there is    *)
(* none.                                                                   *)
Oldest(a, is) ==
  CHOOSE i \in is : \A j \in is : \/ a.tab[i].ct > a.tab[j].ct
                                  \/ a.tab[i].ct = a.tab[j].ct /\ i >= j
Recycled(a) ==
  LET stable == {i \in Slots : a.tab[i].st \in Stable \ {"static"}}
      idle   == {i \in Slots : a.tab[i].st = "pending" /\ a.tab[i].q = NoPkt}
      queued == {i \in Slots : a.tab[i].st = "pending" /\ a.tab[i].q # NoPkt}
  IN IF stable # {} THEN Oldest(a, stable)
     ELSE IF idle # {} THEN Oldest(a, idle)
     ELSE IF queued # {} THEN Oldest(a, queued) ELSE 0

(* The slot found or made for ip, 0 if none; a new one is still EMPTY. *)
Taken(a, ip, nif, slot) ==
  IF slot = 0 THEN [a |-> a, i |-> 0]
  ELSE [i |-> slot,
        a |-> [etharp_free_entry(a, slot) EXCEPT !.tab[slot].ip = ip, !.tab[slot].nif = nif]]

etharp_find_entry(a, ip, nif, hard, only) ==
  LET found == Entry(a, ip, nif)
      empty == {i \in Slots : a.tab[i].st = "empty"}
  IN CASE found # {} -> [a |-> a, i |-> CHOOSE i \in found : \A j \in found : i <= j]
       [] found = {} /\ (only \/ (empty = {} /\ ~ hard)) -> [a |-> a, i |-> 0]
       [] OTHER -> Taken(a, ip, nif, IF empty # {} THEN CHOOSE i \in empty : \A j \in empty : i <= j
                                     ELSE Recycled(a))

(* The entry found becomes stable, and the packet it holds is sent. *)
Update(f, nif, mac, static) ==
  LET q == f.a.tab[f.i].q
      b == [f.a EXCEPT !.tab[f.i] = [@ EXCEPT !.st = IF static THEN "static" ELSE "stable",
                                             !.nif = nif, !.mac = mac, !.ct = 0, !.q = NoPkt]]
  IN IF f.i = 0 \/ (~ static /\ f.a.tab[f.i].st = "static") THEN f.a
     ELSE IF q = NoPkt THEN b ELSE Send(b, q, mac)

etharp_update_arp_entry(a, nif, ip, mac, hard, only, static) ==
  Update(etharp_find_entry(a, ip, nif, hard, only), nif, mac, static)

(* An entry in use that is about to expire is asked for again, first from  *)
(* its owner, then by broadcast; the request may fail for want of memory.  *)
etharp_output_to_arp_index(a, i, p, ok) ==
  LET again == /\ a.tab[i].st = "stable" /\ ok
               /\ a.tab[i].ct >= AgeBroadcast \/ a.tab[i].ct >= AgeUnicast
  IN Send([a EXCEPT !.tab[i].st = IF again THEN "rereq1" ELSE @], p, a.tab[i].mac)

(* etharp_query with a packet: a pending entry replaces the one it holds.  *)
(* keep is whether the packet could be copied where it has to be.          *)
QueryEntry(a, i, p, keep) ==
  CASE a.tab[i].st # "pending" -> Send([a EXCEPT !.hint = i], p, a.tab[i].mac)
    [] a.tab[i].st = "pending" /\ ~ keep -> Drop(a, p)
    [] a.tab[i].st = "pending" /\ keep ->
         [Drop(a, a.tab[i].q) EXCEPT !.tab[i].q = p, !.pkts[p].at = "queued"]

QueryFound(f, p, keep) ==
  IF f.i = 0 THEN Drop(f.a, p)
  ELSE QueryEntry([f.a EXCEPT !.tab[f.i].st = IF @ = "empty" THEN "pending" ELSE @], f.i, p, keep)

etharp_query(a, nif, ip, p, keep) ==
  QueryFound(etharp_find_entry(a, ip, nif, TRUE, FALSE), p, keep)

Resolved(a, i, nif, ip) ==
  a.tab[i].st \in Stable /\ a.tab[i].nif = nif /\ a.tab[i].ip = ip

(* The cached index of the last destination is tried first. *)
etharp_output(a, nif, ip, p, ok, keep) ==
  LET is == {i \in Slots : Resolved(a, i, nif, ip)} IN
  CASE Resolved(a, a.hint, nif, ip) -> etharp_output_to_arp_index(a, a.hint, p, ok)
    [] OTHER -> IF is # {} THEN LET i == CHOOSE i \in is : \A j \in is : i <= j
                                IN etharp_output_to_arp_index([a EXCEPT !.hint = i], i, p, ok)
                ELSE etharp_query(a, nif, ip, p, keep)

Output(nif, ip) ==
  \E p \in 1..MaxPackets : \E ok, keep \in BOOLEAN :
    /\ arp.pkts[p].at = "new" /\ \A o \in 1..(p - 1) : arp.pkts[o].at # "new"
    /\ arp' = etharp_output([arp EXCEPT !.pkts[p].ip = ip, !.pkts[p].nif = nif],
                            nif, ip, p, ok, keep)

(* etharp_input: a packet for our own address may evict an entry, any      *)
(* other only refreshes one.  What it claims is remembered for the         *)
(* properties.                                                             *)
Input(nif, ip, mac, for_us) ==
  /\ arp.nin < MaxInputs
  /\ arp' = [etharp_update_arp_entry(arp, nif, ip, mac, for_us, ~ for_us, FALSE)
               EXCEPT !.nin = @ + 1, !.said = @ \union {<<nif, ip, mac>>}]

etharp_add_static_entry(nif, ip, mac) ==
  /\ arp.nin < MaxInputs
  /\ arp' = [etharp_update_arp_entry(arp, nif, ip, mac, TRUE, FALSE, TRUE)
               EXCEPT !.nin = @ + 1, !.said = @ \union {<<nif, ip, mac>>}]

(* The address is looked up on every interface. *)
etharp_remove_static_entry(ip) ==
  LET found == {i \in Slots : arp.tab[i].st # "empty" /\ arp.tab[i].ip = ip}
      i == CHOOSE i \in found : \A j \in found : i <= j
  IN /\ found # {} /\ arp.tab[i].st = "static"
     /\ arp' = etharp_free_entry(arp, i)

etharp_cleanup_netif(nif) ==
  LET mine == {i \in Slots : arp.tab[i].st # "empty" /\ arp.tab[i].nif = nif}
      held == {arp.tab[i].q : i \in mine} \ {NoPkt}
  IN /\ mine # {}
     /\ arp' = [arp EXCEPT !.tab = [i \in Slots |-> IF i \in mine THEN Empty ELSE arp.tab[i]],
                           !.pkts = [p \in DOMAIN arp.pkts |->
                                       IF p \in held THEN [arp.pkts[p] EXCEPT !.at = "freed"]
                                       ELSE arp.pkts[p]]]

Expired(e) == e.ct + 1 >= MaxAge \/ (e.st = "pending" /\ e.ct + 1 >= MaxPending)
Aged(e) == [e EXCEPT !.ct = @ + 1,
                     !.st = CASE @ = "rereq1" -> "rereq2" [] @ = "rereq2" -> "stable"
                              [] OTHER -> @]

etharp_tmr ==
  LET old  == {i \in Slots : arp.tab[i].st \notin {"empty", "static"}}
      out  == {i \in old : Expired(arp.tab[i])}
      held == {arp.tab[i].q : i \in out} \ {NoPkt}
  IN /\ old # {}
     /\ arp' = [arp EXCEPT !.tab = [i \in Slots |-> IF i \in out THEN Empty
                                                    ELSE IF i \in old THEN Aged(arp.tab[i])
                                                    ELSE arp.tab[i]],
                           !.pkts = [p \in DOMAIN arp.pkts |->
                                       IF p \in held THEN [arp.pkts[p] EXCEPT !.at = "freed"]
                                       ELSE arp.pkts[p]]]

Next ==
  \/ etharp_tmr
  \/ \E nif \in Netifs :
       \/ etharp_cleanup_netif(nif)
       \/ \E ip \in Hosts :
            \/ Output(nif, ip)
            \/ \E mac \in Macs : \/ \E for_us \in BOOLEAN : Input(nif, ip, mac, for_us)
                                 \/ etharp_add_static_entry(nif, ip, mac)
  \/ \E ip \in Hosts : etharp_remove_static_entry(ip)

Spec == Init /\ [][Next]_arp

-----------------------------------------------------------------------------
(* A queued packet is held by exactly one entry, a pending one, and an     *)
(* entry holds only packets that are queued: none is lost, freed twice or  *)
(* sent while it still waits.                                              *)
ArpQueues ==
  /\ \A p \in DOMAIN arp.pkts : arp.pkts[p].at = "queued" =>
       Cardinality({i \in Slots : arp.tab[i].q = p}) = 1
  /\ \A i \in Slots : arp.tab[i].q # NoPkt =>
       /\ arp.tab[i].st = "pending"
       /\ arp.pkts[arp.tab[i].q].at = "queued"
       /\ arp.pkts[arp.tab[i].q].ip = arp.tab[i].ip
       /\ arp.pkts[arp.tab[i].q].nif = arp.tab[i].nif

(* A packet goes to a hardware address that was claimed for its next hop   *)
(* on the interface it leaves by, and no next hop has two entries.         *)
ArpDelivery ==
  /\ \A p \in DOMAIN arp.pkts : arp.pkts[p].at = "sent" =>
       <<arp.pkts[p].nif, arp.pkts[p].ip, arp.pkts[p].mac>> \in arp.said
  /\ \A nif \in Netifs, ip \in Hosts : Cardinality(Entry(arp, ip, nif)) <= 1
=============================================================================

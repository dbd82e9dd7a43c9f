------------------------------- MODULE IpFrag -------------------------------
(***************************************************************************)
(* Fragmentation and reassembly of IP datagrams: src/src/core/ipv4/        *)
(* ip4_frag.c and src/src/core/ipv6/ip6_frag.c, with IP_REASS_FREE_OLDEST  *)
(* and IP_REASS_CHECK_OVERLAP.  Offsets are in units of four bytes and a   *)
(* fragment other than the last has an even number of them.  The network   *)
(* between the sender and the receiver loses, repeats and reorders         *)
(* fragments, and for IPv4 a router may fragment a fragment again.  No     *)
(* fragment has more pbufs than IP_REASS_MAX_PBUFS (this port's frames are *)
(* one or two pbufs of 1500 bytes, the limit is 10): ip6_reass would keep  *)
(* an entry without pbufs for it (Admit6), which its timer dereferences.   *)
(***************************************************************************)
EXTENDS Integers, FiniteSets, Sequences, SequencesExt

CONSTANTS
  Ids,       \* (source, destination, identification) of a datagram
  DataLen,   \* length of each datagram
  Payloads,  \* Payloads[id]: what an MTU on the path of id leaves for data
  MaxPbufs,  \* IP_REASS_MAX_PBUFS
  PoolSize,  \* MEMP_NUM_REASSDATA
  MaxAge     \* IP_REASS_MAXAGE, IPV6_REASS_MAXAGE

VARIABLE ip

Init == \E v \in {4, 6} :
          ip = [v |-> v, dgs |-> <<>>, count |-> 0, net |-> {},
                done |-> [id |-> 0, len |-> 0, frags |-> {}]]

Least(x, y) == IF x < y THEN x ELSE y
(* A fragment is the range of the datagram it carries; more is the flag IP_MF. *)
Pbufs(f) == (f.end - f.start + 1) \div 2   \* pbuf_clen
Total(fs) == FoldSet(LAMBDA f, n : Pbufs(f) + n, 0, fs)

(* ip4_frag, ip6_frag: what is left is cut in blocks; a datagram that is   *)
(* itself a fragment keeps its offset and its flag.  ip4_frag compares     *)
(* what is left with the MTU and not with the block, so with a payload     *)
(* that is no multiple of eight bytes two pieces can look like the last.   *)
ip_frag(f, pay) ==
  LET b == 2 * (pay \div 2)
      c == IF ip.v = 4 THEN pay ELSE b
  IN {[f EXCEPT !.start = f.start + k * b, !.end = Least(f.start + (k + 1) * b, f.end),
                !.more = f.more \/ f.start + k * b + c < f.end] : k \in 0..((f.end - f.start - 1) \div b)}

(* The sender gives up after some of the fragments when it has no memory. *)
Fragment(id, pay) ==
  /\ \A f \in ip.net : f.id # id
  /\ \E n \in 1..DataLen :
       ip' = [ip EXCEPT !.net = @ \union
                {f \in ip_frag([id |-> id, start |-> 0, end |-> DataLen, more |-> FALSE], pay) :
                   f.start < n}]
Refragment(f, pay) ==
  /\ ip.v = 4 /\ f.end - f.start > pay
  /\ ip' = [ip EXCEPT !.net = @ \union ip_frag(f, pay)]

-----------------------------------------------------------------------------
(* The receiver.  dgs is the list reassdatagrams, newest first. *)
Index(r, id) == SelectInSeq(r.dgs, LAMBDA d : d.id = id)

ip_reass_free_complete_datagram(r, i) ==
  [r EXCEPT !.dgs = RemoveAt(@, i), !.count = @ - Total(r.dgs[i].frags)]

(* The oldest datagram other than id: the last one with the least timer. *)
Oldest(r, id) ==
  LET is == {i \in DOMAIN r.dgs : r.dgs[i].id # id} IN
  CHOOSE i \in is : \A j \in is : \/ r.dgs[i].timer < r.dgs[j].timer
                                  \/ r.dgs[i].timer = r.dgs[j].timer /\ i >= j

(* At most PoolSize datagrams are queued, so PoolSize rounds suffice. *)
FreeOne(r, id) ==
  IF \E i \in DOMAIN r.dgs : r.dgs[i].id # id
  THEN ip_reass_free_complete_datagram(r, Oldest(r, id)) ELSE r
ip4_remove_oldest(r, id, needed) ==
  FoldLeft(LAMBDA x, k : IF k = 1 \/ r.count - x.count < needed THEN FreeOne(x, id) ELSE x,
           r, [k \in 1..PoolSize |-> k])

(* ip6_reass_remove_oldest_datagram starts from the head of the list, so a *)
(* datagram at the head that is older than all others stops it.            *)
FreeOne6(r, id) ==
  LET cand == {i \in DOMAIN r.dgs : r.dgs[i].id # id /\ r.dgs[i].timer <= r.dgs[1].timer} IN
  IF r.dgs # <<>> /\ cand # {} THEN ip_reass_free_complete_datagram(r, Oldest(r, id)) ELSE r
ip6_remove_oldest(r, id, needed) ==
  FoldLeft(LAMBDA x, k : IF k = 1 \/ x.count + needed > MaxPbufs THEN FreeOne6(x, id) ELSE x,
           r, [k \in 1..PoolSize |-> k])

(* ip_reass_enqueue_new_datagram *)
NewDatagram(r, f) ==
  [r EXCEPT !.dgs = <<[id |-> f.id, timer |-> MaxAge, frags |-> {}, len |-> 0]>> \o @]
Room4(r, f) ==
  IF Len(r.dgs) < PoolSize THEN r
  ELSE LET o == ip4_remove_oldest(r, f.id, Pbufs(f)) IN o

(* Where the pbufs and the entry for the fragment come from; IPv4 checks   *)
(* the limit before it looks for the datagram, IPv6 after.                 *)
Admit4(r, f) ==
  LET lim == r.count + Pbufs(f) > MaxPbufs
      a   == IF lim THEN ip4_remove_oldest(r, f.id, Pbufs(f)) ELSE r
      b   == IF Index(a, f.id) # 0 THEN a ELSE Room4(a, f)
  IN IF lim /\ (a = r \/ a.count + Pbufs(f) > MaxPbufs) THEN [ok |-> FALSE, r |-> a]
     ELSE IF Index(a, f.id) # 0 THEN [ok |-> TRUE, r |-> a]
     ELSE IF Len(b.dgs) < PoolSize /\ (Len(a.dgs) < PoolSize \/ a.count - b.count >= Pbufs(f))
          THEN [ok |-> TRUE, r |-> NewDatagram(b, f)]
     ELSE [ok |-> FALSE, r |-> b]

Admit6(r, f) ==
  LET b == IF Index(r, f.id) # 0 \/ Len(r.dgs) < PoolSize THEN r
           ELSE ip6_remove_oldest(r, 0, Pbufs(f))
      c == IF Index(b, f.id) # 0 THEN b ELSE NewDatagram(b, f)
      d == IF c.count + Pbufs(f) > MaxPbufs THEN ip6_remove_oldest(c, f.id, Pbufs(f)) ELSE c
  IN [ok |-> d.count + Pbufs(f) <= MaxPbufs, r |-> d]

Overlaps(f, g) == f.start < g.end /\ g.start < f.end

(* The chain has no gap and begins at 0. *)
Tiles(fs) == {f.start : f \in fs} \ {f.end : f \in fs} = {0}

(* ip_reass_chain_frag_into_datagram_and_validate and the rest of          *)
(* ip4_reass / ip6_reass: a fragment that overlaps one of the chain is     *)
(* dropped, and with it a datagram that was made for it.                   *)
Chain(r, f) ==
  LET i    == Index(r, f.id)
      d    == r.dgs[i]
      len  == IF f.more THEN d.len ELSE f.end
      new  == [d EXCEPT !.frags = @ \union {[start |-> f.start, end |-> f.end]}, !.len = len]
  IN CASE \E g \in d.frags : Overlaps(f, g) -> r
       [] (\A g \in d.frags : ~ Overlaps(f, g)) /\ len # 0 /\ Tiles(new.frags) ->
            [r EXCEPT !.dgs = RemoveAt(@, i), !.count = @ - Total(d.frags),
                      !.done = [id |-> f.id, len |-> len, frags |-> new.frags]]
       [] OTHER -> [r EXCEPT !.dgs[i] = new, !.count = @ + Pbufs(f)]

Admitted(a, f) == IF a.ok THEN Chain(a.r, f) ELSE a.r

Receive(f) == ip' = Admitted(IF ip.v = 4 THEN Admit4(ip, f) ELSE Admit6(ip, f), f)

(* ip_reass_tmr, ip6_reass_tmr *)
Timer ==
  LET old == SelectSeq(ip.dgs, LAMBDA d : d.timer = 0) IN
  /\ ip.dgs # <<>>
  /\ ip' = [FoldLeft(LAMBDA r, d : ip_reass_free_complete_datagram(r, Index(r, d.id)), ip, old)
              EXCEPT !.dgs = [i \in DOMAIN @ |-> [@[i] EXCEPT !.timer = @ - 1]]]

Next == \/ \E id \in Ids : \E pay \in Payloads[id] : Fragment(id, pay)
        \/ \E f \in ip.net : Receive(f) \/ \E pay \in Payloads[f.id] : Refragment(f, pay)
        \/ Timer
Spec == Init /\ [][Next]_ip

-----------------------------------------------------------------------------
(* Whatever the network repeats, loses or splits again, reassembly gives  *)
(* no byte twice and leaves none out up to the end of what it returns, and *)
(* what it returns is the whole datagram that was sent.  The exception are *)
(* datagrams of which ip4_frag made two last pieces (`left <= netif->mtu - *)
(* IP_HLEN'): they may end at the first of them, or have the length of one *)
(* in the header and the data of both.                                     *)
TwoLast(id) == ip.v = 4 /\ \E f \in ip.net : f.id = id /\ ~ f.more /\ f.end < DataLen
Whole == ip.done.len = DataLen /\ \E f \in ip.done.frags : f.end = DataLen
Reassembled ==
  LET fs == ip.done.frags IN
  fs # {} => /\ Tiles(fs) /\ \A f, g \in fs : f = g \/ ~ Overlaps(f, g)
             /\ Whole \/ TwoLast(ip.done.id)

(* What the receiver would like to rely on; ip4_frag breaks it with an MTU *)
(* whose payload is no multiple of eight bytes.                            *)
AlwaysWhole == ip.done.frags # {} => Whole

(* The pbufs held for reassembly are counted exactly and stay within their *)
(* limit, no datagram has two entries, and every entry holds a fragment.   *)
ReassBounded ==
  /\ ip.count = FoldLeft(LAMBDA n, d : n + Total(d.frags), 0, ip.dgs)
  /\ ip.count <= MaxPbufs /\ Len(ip.dgs) <= PoolSize
  /\ \A i, j \in DOMAIN ip.dgs : ip.dgs[i].id = ip.dgs[j].id => i = j
  /\ \A i \in DOMAIN ip.dgs : ip.dgs[i].frags # {}
=============================================================================

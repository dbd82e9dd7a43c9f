-------------------------------- MODULE Pbuf -------------------------------
(***************************************************************************)
(* Packet buffers (src/core/pbuf.c): allocation, reference counts, chains, *)
(* headers, trimming and copying.  A pbuf holds the bytes of its payload,  *)
(* the room in front of it, the length of the rest of the packet (tot_len, *)
(* modulo LenMod: a u16_t) and a reference count.                          *)
(*                                                                         *)
(* The program (the stack and the application) is known by the references  *)
(* it holds: held[p] is how many times it may still call pbuf_free(p).     *)
(***************************************************************************)
EXTENDS Integers, FiniteSets, SequencesExt

CONSTANTS Pbufs,      \* the pbuf structures, 1..n: all of PBUF_POOL
          BufSize,    \* PBUF_POOL_BUFSIZE
          Headroom,   \* room the layer argument of pbuf_alloc asks for
          Lengths,    \* lengths the program allocates
          LenMod,     \* 2^16
          MaxRef,     \* bound on references to one pbuf
          MaxOps      \* bound on the calls of a behaviour

VARIABLE pb

Nil == 0

Unused == [next |-> Nil, data |-> <<>>, room |-> 0, tot |-> 0, ref |-> 0, type |-> "pool",
           fin |-> FALSE]

\* held: references of the program; ooseq: a packet the TCP input keeps for
\* later; pending, queued: pbuf_free_ooseq_pending and its message; split:
\* the rest pbuf_split_64k returned, told: the result of the last copy
Init == pb = [b |-> [p \in Pbufs |-> Unused], held |-> [p \in Pbufs |-> 0],
              ooseq |-> Nil, pending |-> FALSE, queued |-> FALSE, ops |-> 0]

Now == [pb EXCEPT !.ops = @ + 1]

Used(s) == {p \in Pbufs : s.b[p].ref > 0}

Lowest(S) == CHOOSE p \in S : \A q \in S : p <= q

\* a byte pattern that differs between neighbouring bytes and buffers
Byte(p, i) == ((p + i) \div 2) % 2

Bytes(p, n) == [i \in 1..n |-> Byte(p, i)]

\* the pbufs of the chain that starts at p
RECURSIVE Chain(_, _)
Chain(b, p) == IF p = Nil THEN <<>> ELSE <<p>> \o Chain(b, b[p].next)

SumLen(b, ps) == FoldSeq(LAMBDA p, n : n + Len(b[p].data), 0, ps)

Flat(b, p) == FlattenSeq([i \in 1..Len(Chain(b, p)) |-> b[Chain(b, p)[i]].data])

Predecessors(s, p) == {q \in Used(s) : s.b[q].next = p}

\* a packet of the program: not the tail of another packet
Head1(s, p) == s.held[p] > 0 /\ Predecessors(s, p) = {}

\* ... whose length tot_len can say
Sane(s, p) == Head1(s, p) /\ s.b[p].tot = SumLen(s.b, Chain(s.b, p))

(***************************************************************************)
(* pbuf_free: drop one reference; a pbuf without references goes back to   *)
(* its pool and gives up the reference its chain held to the next one.     *)
(***************************************************************************)
RECURSIVE pbuf_free(_, _)
pbuf_free(b, p) ==
  IF p = Nil THEN b
  ELSE IF b[p].ref = 1 THEN pbuf_free([b EXCEPT ![p] = Unused], b[p].next)
  ELSE [b EXCEPT ![p].ref = @ - 1]

\* PBUF_POOL_IS_EMPTY: ask the tcpip thread to drop out-of-sequence data
pbuf_pool_is_empty(s, posted) ==
  IF s.pending THEN s ELSE [s EXCEPT !.pending = posted, !.queued = posted]

\* pbuf_free_ooseq_callback
pbuf_free_ooseq ==
  /\ pb.queued
  /\ pb' = [Now EXCEPT !.pending = FALSE, !.queued = FALSE, !.ooseq = Nil,
                      !.b = pbuf_free(@, pb.ooseq)]

(***************************************************************************)
(* pbuf_alloc: PBUF_POOL builds a chain buffer by buffer and frees what it *)
(* has when the pool is empty; PBUF_RAM and PBUF_REF take one structure.   *)
(***************************************************************************)
NewPbuf(p, len, tot, room, type) ==
  [next |-> Nil, data |-> Bytes(p, len), room |-> room, tot |-> tot % LenMod, ref |-> 1,
   type |-> type, fin |-> FALSE]

Link(b, last, q) == IF last = Nil THEN b ELSE [b EXCEPT ![last].next = q]

Failed(b, first) == [ok |-> FALSE, p |-> Nil, b |-> pbuf_free(b, first)]

RECURSIVE AllocPool(_, _, _, _, _)
AllocPool(b, first, last, rem, room) ==
  LET free == {p \in Pbufs : b[p].ref = 0}
      q    == Lowest(free)
      qlen == IF rem < BufSize - room THEN rem ELSE BufSize - room
  IN IF free = {} THEN Failed(b, first)
     ELSE LET b2 == Link([b EXCEPT ![q] = NewPbuf(q, qlen, rem, room, "pool")], last, q)
              f2 == IF first = Nil THEN q ELSE first
          IN IF rem - qlen > 0 THEN AllocPool(b2, f2, q, rem - qlen, 0)
             ELSE [ok |-> TRUE, p |-> f2, b |-> b2]

AllocOne(b, len, room, type) ==
  LET free == {p \in Pbufs : b[p].ref = 0}
  IN IF free = {} THEN Failed(b, Nil)
     ELSE [ok |-> TRUE, p |-> Lowest(free),
           b |-> [b EXCEPT ![Lowest(free)] = NewPbuf(Lowest(free), len, len, room,
                                                           IF type = "ref" THEN type ELSE "pool")]]

pbuf_alloc(b, len, type) ==
  IF type = "pool" THEN AllocPool(b, Nil, Nil, len, Headroom)
  ELSE AllocOne(b, len, IF type = "ram" THEN Headroom ELSE 0, type)

Allocated(s, r, type, posted) ==
  IF r.ok THEN [s EXCEPT !.b = r.b, !.held[r.p] = 1]
  ELSE IF type = "pool" THEN pbuf_pool_is_empty([s EXCEPT !.b = r.b], posted)
  ELSE s

Alloc(len, type, posted) == pb' = Allocated(Now, pbuf_alloc(pb.b, len, type), type, posted)

(***************************************************************************)
(* Chains.                                                                 *)
(***************************************************************************)
Free(p) == pb.held[p] > 0
           /\ pb' = [Now EXCEPT !.b = pbuf_free(@, p), !.held[p] = @ - 1]

pbuf_ref(p) == /\ pb.held[p] > 0
               /\ pb.b[p].ref < MaxRef
               /\ pb' = [Now EXCEPT !.b[p].ref = @ + 1, !.held[p] = @ + 1]

pbuf_cat(b, h, t) ==
  [p \in Pbufs |-> IF p \notin ToSet(Chain(b, h)) THEN b[p]
                   ELSE [b[p] EXCEPT !.tot = (@ + b[t].tot) % LenMod,
                                     !.next = IF @ = Nil THEN t ELSE @]]

Apart(s, h, t) == /\ Sane(s, h) /\ Sane(s, t)
                  /\ ToSet(Chain(s.b, h)) \intersect ToSet(Chain(s.b, t)) = {}

\* the reference to the tail moves into the chain
Cat(h, t) == /\ Apart(pb, h, t)
             /\ pb' = [Now EXCEPT !.b = pbuf_cat(@, h, t), !.held[t] = @ - 1]

\* pbuf_chain: the program keeps its reference to the tail
pbuf_chain(h, t) == /\ Apart(pb, h, t)
                    /\ pb.b[t].ref < MaxRef
                    /\ pb' = [Now EXCEPT !.b = [pbuf_cat(@, h, t) EXCEPT ![t].ref = @ + 1]]

Dechained(b, p, q) ==
  pbuf_free([b EXCEPT ![q].tot = (b[p].tot - Len(b[p].data)) % LenMod,
                      ![p].next = Nil, ![p].tot = Len(b[p].data)], q)

pbuf_dechain(p) == /\ Sane(pb, p)
                   /\ pb.b[p].next # Nil
                   /\ pb' = [Now EXCEPT !.b = Dechained(@, p, pb.b[p].next)]

(***************************************************************************)
(* pbuf_realloc: cut the packet to new bytes and free the pbufs behind.    *)
(***************************************************************************)
CutHere(b, q, rem) ==
  [(IF b[q].next = Nil THEN b ELSE pbuf_free(b, b[q].next))
     EXCEPT ![q] = [@ EXCEPT !.data = SubSeq(@, 1, rem), !.tot = rem, !.next = Nil]]

RECURSIVE CutFrom(_, _, _, _)
CutFrom(b, q, rem, shrink) ==
  IF rem > Len(b[q].data)
  THEN CutFrom([b EXCEPT ![q].tot = (@ - shrink) % LenMod], b[q].next,
               rem - Len(b[q].data), shrink)
  ELSE CutHere(b, q, rem)

pbuf_realloc(b, p, new) == IF new >= b[p].tot THEN b ELSE CutFrom(b, p, new, b[p].tot - new)

Realloc(p, new) == /\ Sane(pb, p)
                   /\ pb' = [Now EXCEPT !.b = pbuf_realloc(@, p, new)]

(***************************************************************************)
(* Headers: pbuf_add_header moves the payload pointer back over the room   *)
(* in front (only when structure and data are one piece), pbuf_remove_header *)
(* forward, pbuf_free_header also gives up whole pbufs in front.           *)
(***************************************************************************)
pbuf_add_header(b, p, n) ==
  IF (n + b[p].tot) % LenMod < n \/ b[p].type = "ref" \/ b[p].room < n THEN b
  ELSE [b EXCEPT ![p] = [@ EXCEPT !.data = Bytes(p, n) \o @, !.room = @ - n,
                                  !.tot = (@ + n) % LenMod]]

pbuf_remove_header(b, p, n) ==
  IF n > Len(b[p].data) THEN b
  ELSE [b EXCEPT ![p] = [@ EXCEPT !.data = SubSeq(@, n + 1, Len(@)), !.room = @ + n,
                                  !.tot = (@ - n) % LenMod]]

AddHeader(p, n) == Sane(pb, p) /\ pb' = [Now EXCEPT !.b = pbuf_add_header(@, p, n)]

RemoveHeader(p, n) == Sane(pb, p) /\ pb' = [Now EXCEPT !.b = pbuf_remove_header(@, p, n)]

RECURSIVE pbuf_free_header(_, _, _)
pbuf_free_header(b, p, n) ==
  IF n = 0 \/ p = Nil THEN [b |-> b, p |-> p]
  ELSE IF n >= Len(b[p].data)
  THEN pbuf_free_header(pbuf_free([b EXCEPT ![p].next = Nil], p), b[p].next,
                        n - Len(b[p].data))
  ELSE [b |-> pbuf_remove_header(b, p, n), p |-> p]

\* the caller's reference to p becomes one to what is left; nobody else may
\* hold the pbufs in front
FreedHeader(s, p, r) ==
  [s EXCEPT !.b = r.b, !.held = [q \in Pbufs |-> @[q] + (IF q = r.p THEN 1 ELSE 0)
                                                      - (IF q = p THEN 1 ELSE 0)]]

FreeHeader(p, n) == /\ Sane(pb, p)
                    /\ \A q \in ToSet(Chain(pb.b, p)) : pb.b[q].ref = 1
                    /\ pb' = FreedHeader(Now, p, pbuf_free_header(pb.b, p, n))

(***************************************************************************)
(* Copying.  pbuf_skip finds the pbuf of an offset; pbuf_copy_partial,     *)
(* pbuf_take_at, pbuf_memcmp and pbuf_memfind work from there.             *)
(***************************************************************************)
RECURSIVE pbuf_skip(_, _, _)
pbuf_skip(b, q, off) == IF q # Nil /\ Len(b[q].data) <= off
                        THEN pbuf_skip(b, b[q].next, off - Len(b[q].data))
                        ELSE [q |-> q, off |-> off]

CopyNow(data, len, off) ==
  SubSeq(data, off + 1, off + (IF Len(data) - off > len THEN len ELSE Len(data) - off))

RECURSIVE pbuf_copy_partial(_, _, _, _)
pbuf_copy_partial(b, p, len, off) ==
  IF len = 0 \/ p = Nil THEN <<>>
  ELSE IF off # 0 /\ off >= Len(b[p].data)
  THEN pbuf_copy_partial(b, b[p].next, len, off - Len(b[p].data))
  ELSE CopyNow(b[p].data, len, off)
       \o pbuf_copy_partial(b, b[p].next, len - Len(CopyNow(b[p].data, len, off)), 0)

pbuf_try_get_at(b, p, off) ==
  LET r == pbuf_skip(b, p, off)
  IN IF r.q # Nil THEN b[r.q].data[r.off + 1] ELSE -1

\* 0 when equal, else one more than the index of the first difference
pbuf_memcmp(b, p, off, s2) ==
  LET r    == pbuf_skip(b, p, off)
      diff == {i \in 1..Len(s2) : pbuf_try_get_at(b, r.q, r.off + i - 1) # s2[i]}
  IN IF b[p].tot < off + Len(s2) THEN LenMod - 1
     ELSE IF diff = {} THEN 0 ELSE Lowest(diff)

pbuf_memfind(b, p, s2, start) ==
  LET found == {i \in start..(b[p].tot - Len(s2)) : pbuf_memcmp(b, p, i, s2) = 0}
  IN IF b[p].tot < Len(s2) + start \/ found = {} THEN LenMod - 1 ELSE Lowest(found)

\* pbuf_take: overwrite the bytes from the start of p
RECURSIVE pbuf_take(_, _, _)
pbuf_take(b, p, s) ==
  IF s = <<>> THEN b
  ELSE LET n == IF Len(s) > Len(b[p].data) THEN Len(b[p].data) ELSE Len(s)
       IN pbuf_take([b EXCEPT ![p].data = SubSeq(s, 1, n) \o SubSeq(@, n + 1, Len(@))],
                    b[p].next, SubSeq(s, n + 1, Len(s)))

TakeAt(b, r, s) ==
  LET n == IF Len(b[r.q].data) - r.off < Len(s) THEN Len(b[r.q].data) - r.off ELSE Len(s)
  IN pbuf_take([b EXCEPT ![r.q].data = SubSeq(@, 1, r.off) \o SubSeq(s, 1, n)
                                       \o SubSeq(@, r.off + n + 1, Len(@))],
               b[r.q].next, SubSeq(s, n + 1, Len(s)))

pbuf_take_at(b, p, s, off) ==
  LET r == pbuf_skip(b, p, off)
  IN IF r.q # Nil /\ b[r.q].tot >= r.off + Len(s) THEN TakeAt(b, r, s) ELSE b

\* pbuf_copy: both chains are walked together; the result is what p_to holds
\* (ERR_ARG when only empty pbufs are left to copy and p_to is full)
RECURSIVE pbuf_copy(_, _, _, _, _)
pbuf_copy(b, to, from, ot, of) ==
  IF from = Nil \/ to = Nil THEN b
  ELSE LET lt  == Len(b[to].data) - ot
           lf  == Len(b[from].data) - of
           n   == IF lt >= lf THEN lf ELSE lt
           b2  == [b EXCEPT ![to].data = SubSeq(@, 1, ot)
                                         \o SubSeq(b[from].data, of + 1, of + n)
                                         \o SubSeq(@, ot + n + 1, Len(@))]
           ff  == of + n >= Len(b[from].data)
           ft  == ot + n = Len(b[to].data)
       IN pbuf_copy(b2, IF ft THEN b[to].next ELSE to, IF ff THEN b[from].next ELSE from,
                    IF ft THEN 0 ELSE ot + n, IF ff THEN 0 ELSE of + n)

Cloned(r, p) == IF r.ok THEN [r EXCEPT !.b = pbuf_copy(@, r.p, p, 0, 0)] ELSE r

\* pbuf_clone into one PBUF_RAM or a PBUF_POOL chain
Clone(p, type) ==
  /\ Sane(pb, p)
  /\ pb.b[p].tot > 0
  /\ pb' = Allocated(Now, Cloned(pbuf_alloc(pb.b, pb.b[p].tot, type), p), type, FALSE)

\* pbuf_coalesce: the caller's reference moves to the copy
Coalesced(s, r, p) ==
  IF r.ok THEN [s EXCEPT !.b = pbuf_free(r.b, p), !.held = [@ EXCEPT ![p] = @ - 1, ![r.p] = 1]]
  ELSE s

pbuf_coalesce(p) ==
  /\ Sane(pb, p)
  /\ pb.b[p].next # Nil
  /\ pb.b[p].tot > 0
  /\ pb' = Coalesced(Now, Cloned(pbuf_alloc(pb.b, pb.b[p].tot, "ram"), p), p)

(***************************************************************************)
(* pbuf_split_64k: the packets TCP puts together may be longer than        *)
(* tot_len can say; the part in front that fits is cut off.                *)
(***************************************************************************)
RECURSIVE FrontEnd(_, _, _, _)
FrontEnd(b, i, r, tot) ==
  IF r # Nil /\ (tot + Len(b[r].data)) % LenMod >= tot
  THEN FrontEnd(b, r, b[r].next, (tot + Len(b[r].data)) % LenMod)
  ELSE [i |-> i, r |-> r]

SplitAt(b, p, e) ==
  LET cut == [b EXCEPT ![e.i].next = Nil]
  IN [q \in Pbufs |-> IF e.r = Nil THEN cut[q]
                      ELSE IF q \in ToSet(Chain(cut, p))
                      THEN [cut[q] EXCEPT !.tot = (@ - b[e.r].tot) % LenMod]
                      ELSE IF q = e.r THEN [cut[q] EXCEPT !.fin = @ \/ b[p].fin]
                      ELSE cut[q]]

SplitEnd(b, p) == FrontEnd(b, p, b[p].next, Len(b[p].data))

pbuf_split_64k(p) ==
  /\ Head1(pb, p)
  /\ pb.b[p].next # Nil
  /\ pb' = [Now EXCEPT !.b = SplitAt(@, p, SplitEnd(@, p)),
                      !.held = [q \in Pbufs |->
                                  @[q] + (IF q = SplitEnd(pb.b, p).r THEN 1 ELSE 0)]]

\* the FIN flag tcp_receive puts on the packet it hands to the application
MarkFin(p) == Head1(pb, p) /\ ~Sane(pb, p) /\ ~pb.b[p].fin
              /\ pb' = [Now EXCEPT !.b[p].fin = TRUE]

\* tcp_receive keeps a packet that came out of order: ref and remember
Ooseq(p) == /\ Head1(pb, p)
            /\ pb.ooseq = Nil
            /\ pb' = [Now EXCEPT !.ooseq = p, !.held[p] = @ - 1]

Call ==
  \/ \E len \in Lengths, type \in {"pool", "ram", "ref"}, posted \in BOOLEAN :
        Alloc(len, type, posted)
  \/ \E p \in Pbufs : Free(p) \/ pbuf_ref(p) \/ pbuf_dechain(p) \/ pbuf_coalesce(p)
                      \/ pbuf_split_64k(p) \/ MarkFin(p) \/ Ooseq(p)
  \/ \E h, t \in Pbufs : Cat(h, t) \/ pbuf_chain(h, t)
  \/ \E p \in Pbufs, n \in Lengths :
        Realloc(p, n) \/ AddHeader(p, n) \/ RemoveHeader(p, n) \/ FreeHeader(p, n)
  \/ \E p \in Pbufs : Clone(p, "pool") \/ Clone(p, "ram")
  \/ pbuf_free_ooseq

Next == pb.ops < MaxOps /\ Call

Spec == Init /\ [][Next]_pb

----------------------------------------------------------------------------
(***************************************************************************)
(* A pbuf is referenced once for every reference of the program, of the    *)
(* TCP queue and of the pbuf in front of it: nothing is freed while in use *)
(* and nothing that is out of reach stays allocated.                       *)
(***************************************************************************)
PbufsCounted ==
  /\ \A p \in Pbufs : pb.b[p].ref = pb.held[p] + Cardinality(Predecessors(pb, p))
                                    + (IF pb.ooseq = p THEN 1 ELSE 0)
  /\ \A p \in Used(pb) : pb.b[p].next # Nil => pb.b[p].next \in Used(pb)
  /\ pb.pending = pb.queued

(***************************************************************************)
(* tot_len is the length of the packet from here on, modulo 2^16, in every *)
(* pbuf of every chain.                                                    *)
(***************************************************************************)
TotLenAgrees ==
  \A p \in Used(pb) : pb.b[p].tot = SumLen(pb.b, Chain(pb.b, p)) % LenMod

(***************************************************************************)
(* Reading a chain byte by byte, in pieces, or searching it gives what the *)
(* same operation gives on the bytes laid out in one piece.                *)
(***************************************************************************)
Occurs(f, s2, i) == i + Len(s2) <= Len(f) /\ SubSeq(f, i + 1, i + Len(s2)) = s2

CopiesAgree ==
  \A p \in Used(pb) :
    LET f == Flat(pb.b, p)
    IN pb.b[p].tot = Len(f) =>
       \A off \in 0..Len(f) :
         /\ \A len \in 0..(Len(f) - off) :
              pbuf_copy_partial(pb.b, p, len, off) = SubSeq(f, off + 1, off + len)
         /\ off < Len(f) => /\ pbuf_try_get_at(pb.b, p, off) = f[off + 1]
                            /\ Flat(pbuf_take_at(pb.b, p, <<7>>, off), p)
                               = [f EXCEPT ![off + 1] = 7]
         /\ pbuf_try_get_at(pb.b, p, Len(f)) = -1
         /\ \A s2 \in {<<0, 0>>, <<0, 1>>} :
              LET at == {i \in off..Len(f) : Occurs(f, s2, i)}
              IN pbuf_memfind(pb.b, p, s2, off) = IF at = {} THEN LenMod - 1 ELSE Lowest(at)
=============================================================================

----------------------------- MODULE MemBlocks ------------------------------
(***************************************************************************)
(* The blocks of the heap of mem.c, for a heap of any size: merging, cutting, *)
(* marking, and from them what mem_free and mem_trim do to a tiled heap, with *)
(* the inductive invariant that MemProofs shows the heap to keep.          *)
(*                                                                         *)
(* The heap is proved about as its fields h, l (lfree), d (held), r (run), *)
(* f (failed) and p (pool); Rec puts them together.                        *)
(***************************************************************************)
EXTENDS Mem, TLAPS

\* A block header, the heap as an array of them, and where headers are.
Headers == [next : Ptrs, prev : Ptrs, used : BOOLEAN]
Heaps == [Ptrs -> Headers]
Blk(h) == {p \in Ptrs : h[p] # Nothing}

\* The chain of next and prev covers the heap without gap or overlap.
Links(h, B) ==
  /\ 0 \in B /\ h[0].prev = 0
  /\ MemSize \notin B
  /\ \A p \in B :
       /\ h[p].next >= p + Hdr + MinSize
       /\ h[p].next \in B \cup {MemSize}
       /\ \A q \in B : q <= p \/ q >= h[p].next
       /\ h[p].next # MemSize => h[h[p].next].prev = p
       /\ p > 0 => h[p].prev \in B /\ h[h[p].prev].next = p

\* The heap is a chain of blocks that fills it.
Tiled(h) == h \in Heaps /\ Links(h, Blk(h))

\* Positions are numbers, 0 and the end among them.
LEMMA PtrsInt == MemParams => Ptrs \subseteq Int /\ 0 \in Ptrs /\ MemSize \in Ptrs
BY DEF MemParams, Ptrs, Hdr

\* What Tiled says of one block.
LEMMA BlockFacts ==
  ASSUME MemParams, NEW h, Tiled(h), NEW p \in Blk(h)
  PROVE  /\ p \in Ptrs /\ p \in Int /\ 0 <= p /\ p < MemSize
         /\ h[p] \in Headers /\ h[p] # Nothing
         /\ h[p].next \in Ptrs /\ h[p].next \in Int /\ h[p].next <= MemSize
         /\ h[p].next >= p + 1 + MinSize /\ h[p].next > p
         /\ h[p].next \in Blk(h) \cup {MemSize}
         /\ h[p].next # MemSize => h[p].next \in Blk(h) /\ h[h[p].next].prev = p
         /\ \A q \in Blk(h) : q <= p \/ q >= h[p].next
         /\ p > 0 => h[p].prev \in Blk(h) /\ h[h[p].prev].next = p
<1>0. MemSize \in Int /\ MinSize \in Int /\ MinSize > 0
  BY DEF MemParams
<1>1. p \in Ptrs /\ h[p] # Nothing /\ h \in [Ptrs -> Headers]
  BY DEF Blk, Tiled, Heaps
<1>2. p \in Int /\ 0 <= p /\ p <= MemSize
  BY <1>0, <1>1 DEF Ptrs
<1>3. h[p] \in Headers /\ h[p].next \in Ptrs
  BY <1>1 DEF Headers
<1>4. h[p].next \in Int /\ h[p].next <= MemSize
  BY <1>0, <1>3 DEF Ptrs
<1>5. Links(h, Blk(h))
  BY DEF Tiled
<1>6. p # MemSize
  BY <1>5 DEF Links
<1>7. h[p].next >= p + 1 + MinSize
  BY <1>5 DEF Links, Hdr
<1>8. h[p].next > p /\ p < MemSize
  BY <1>0, <1>2, <1>4, <1>6, <1>7
<1> QED
  BY <1>1, <1>2, <1>3, <1>4, <1>5, <1>7, <1>8 DEF Links

\* A block is told from garbage by its prev.
LEMMA BlockPrev ==
  ASSUME MemParams, NEW h, Tiled(h)
  PROVE  \A p \in Ptrs : p \in Blk(h) <=> h[p].prev # MemSize
<1>1. MemSize # 0
  BY DEF MemParams, Hdr
<1>2. \A p \in Blk(h) : h[p].prev # MemSize
  BY <1>1, PtrsInt DEF Tiled, Links, Blk, Ptrs
<1>3. \A p \in Ptrs \ Blk(h) : h[p].prev = MemSize
  BY DEF Blk, Nothing
<1> QED
  BY <1>2, <1>3 DEF Blk

\* The heap after block n has been merged into m, the block before it: what
\* plug_holes does on either side.
Merge(h, m, n) ==
  SetPrev([h EXCEPT ![m].next = h[n].next, ![n] = Nothing], h[n].next, m)

\* What Merge leaves at each position.
LEMMA MergeAt ==
  ASSUME MemParams, NEW h, Tiled(h), NEW m \in Blk(h), h[m].next # MemSize
  PROVE  /\ Merge(h, m, h[m].next) \in Heaps
         /\ \A p \in Ptrs :
              /\ Merge(h, m, h[m].next)[p].next =
                   IF p = m THEN h[h[m].next].next
                   ELSE IF p = h[m].next THEN MemSize ELSE h[p].next
              /\ Merge(h, m, h[m].next)[p].prev =
                   IF p = h[m].next THEN MemSize
                   ELSE IF p = h[h[m].next].next /\ p # MemSize THEN m ELSE h[p].prev
              /\ Merge(h, m, h[m].next)[p].used =
                   IF p = h[m].next THEN TRUE ELSE h[p].used
<1> DEFINE n == h[m].next
           nn == h[n].next
           g == [h EXCEPT ![m].next = nn, ![n] = Nothing]
<1>0. Ptrs \subseteq Int /\ MemSize \in Ptrs /\ MemSize \in Int /\ MinSize \in Int /\ MinSize > 0
  BY PtrsInt DEF MemParams
<1>1. /\ h \in Heaps /\ m \in Ptrs /\ n \in Ptrs /\ n \in Blk(h) /\ nn \in Ptrs
  BY DEF Tiled, Links, Blk, Heaps, Headers
<1>2. m < n /\ n < nn
  BY <1>1, BlockFacts
<1>3. Nothing \in Headers
  BY <1>0 DEF Nothing, Headers
<1> HIDE DEF n, nn
<1>4. g \in Heaps
  BY <1>1, <1>3 DEF Heaps, Headers
<1>5. \A p \in Ptrs : /\ g[p].next = IF p = n THEN MemSize ELSE IF p = m THEN nn ELSE h[p].next
                      /\ g[p].prev = IF p = n THEN MemSize ELSE h[p].prev
                      /\ g[p].used = IF p = n THEN TRUE ELSE h[p].used
  BY Zenon, <1>1, <1>2, <1>0, <1>3 DEF Heaps, Headers, Nothing
<1> HIDE DEF g
<1> DEFINE r == SetPrev(g, nn, m)
<1>6. r \in Heaps /\ \A p \in Ptrs : /\ r[p].next = g[p].next
                                     /\ r[p].used = g[p].used
                                     /\ r[p].prev = IF p = nn /\ p # MemSize THEN m ELSE g[p].prev
  <2>1. CASE nn = MemSize
    BY <1>4, <2>1 DEF SetPrev
  <2>2. CASE nn # MemSize
    BY <1>4, <1>1, <2>2 DEF SetPrev, Heaps, Headers
  <2> QED BY <2>1, <2>2
<1>7. Merge(h, m, n) = r
  BY DEF Merge, g, nn
<1> HIDE DEF r
<1>8. n # nn /\ n # m
  BY <1>0, <1>1, <1>2
<1>9. \A p \in Ptrs : 
              /\ r[p].next = IF p = m THEN nn ELSE IF p = n THEN MemSize ELSE h[p].next
              /\ r[p].prev = IF p = n THEN MemSize
                   ELSE IF p = nn /\ p # MemSize THEN m ELSE h[p].prev
              /\ r[p].used = IF p = n THEN TRUE ELSE h[p].used
  BY ZenonT(60), <1>5, <1>6, <1>8
<1> QED
  BY Zenon, <1>6, <1>7, <1>9 DEF n, nn

\* Merging two neighbours keeps the heap tiled and takes one block away.
LEMMA MergeTiled ==
  ASSUME MemParams, NEW h, Tiled(h), NEW m \in Blk(h), h[m].next # MemSize
  PROVE  /\ Tiled(Merge(h, m, h[m].next))
         /\ Blk(Merge(h, m, h[m].next)) = Blk(h) \ {h[m].next}
<1> DEFINE n == h[m].next
           nn == h[n].next
           g == Merge(h, m, n)
<1>1. /\ n \in Blk(h) /\ m # n /\ m < n /\ n < nn /\ {m, n, nn} \subseteq Ptrs
      /\ m \in Int /\ n \in Int /\ nn \in Int /\ MemSize \in Int /\ n # MemSize /\ n # 0
      /\ MinSize \in Int /\ MinSize > 0 /\ 0 \in Ptrs /\ MemSize \in Ptrs /\ m >= 0
  BY BlockFacts, PtrsInt DEF MemParams
<1>2. /\ g \in Heaps
      /\ \A p \in Ptrs :
              /\ g[p].next = IF p = m THEN nn ELSE IF p = n THEN MemSize ELSE h[p].next
              /\ g[p].prev = IF p = n THEN MemSize
                             ELSE IF p = nn /\ p # MemSize THEN m ELSE h[p].prev
              /\ g[p].used = IF p = n THEN TRUE ELSE h[p].used
  BY ZenonT(60), MergeAt
<1>a. /\ h[m].next = n /\ h[n].next = nn /\ nn \in Blk(h) \cup {MemSize}
      /\ nn # MemSize => h[nn].prev = n
      /\ n >= m + 1 + MinSize /\ nn >= n + 1 + MinSize /\ nn <= MemSize
      /\ \A q \in Blk(h) : (q <= m \/ q >= n) /\ (q <= n \/ q >= nn)
  BY <1>1, BlockFacts
<1>b. m < MemSize /\ m # MemSize /\ m # nn /\ nn # 0 /\ n # nn
  BY <1>1, <1>a
<1> HIDE DEF g, n, nn
<1>3. Blk(g) = Blk(h) \ {n}
  <2>1. \A p \in Ptrs : g[p] = Nothing <=> g[p].next = MemSize /\ g[p].prev = MemSize /\ g[p].used = TRUE
    BY <1>1, <1>2 DEF Heaps, Headers, Nothing
  <2>2. n \notin Blk(g)
    BY Zenon, <1>1, <1>2, <2>1 DEF Blk
  <2>3. ASSUME NEW p \in Blk(h) \ {n} PROVE p \in Blk(g)
    <3>1. p \in Ptrs /\ h[p].prev # MemSize
      BY BlockPrev DEF Blk
    <3>2. g[p].prev # MemSize
      BY Zenon, <1>1, <1>2, <1>b, <3>1
    <3> QED BY <2>1, <3>1, <3>2 DEF Blk
  <2>4. ASSUME NEW p \in Ptrs, p \notin Blk(h) PROVE p \notin Blk(g)
    <3>1. h[p] = Nothing
      BY <2>4 DEF Blk
    <3>2. p # m /\ (p = nn => p = MemSize) 
      BY <2>4, <1>a
    <3>3. g[p].next = MemSize /\ g[p].prev = MemSize /\ g[p].used = TRUE
      <4>1. h[p].next = MemSize /\ h[p].prev = MemSize /\ h[p].used = TRUE
        BY <3>1 DEF Nothing
      <4> QED BY Zenon, <4>1, <3>2, <1>2
    <3> QED BY <2>1, <3>3 DEF Blk
  <2> QED BY <2>2, <2>3, <2>4 DEF Blk
<1>4. Links(g, Blk(h) \ {n})
  <2> DEFINE B == Blk(h) \ {n}
  <2>1. 0 \in B /\ MemSize \notin B /\ m \in B
    BY <1>1, <1>b DEF Tiled, Links
  <2>2. g[0].prev = 0
    BY Zenon, <1>1, <1>2, <1>b DEF Tiled, Links
  <2>3. ASSUME NEW p \in B
        PROVE  /\ g[p].next >= p + Hdr + MinSize
               /\ g[p].next \in B \cup {MemSize}
               /\ \A q \in B : q <= p \/ q >= g[p].next
               /\ g[p].next # MemSize => g[g[p].next].prev = p
               /\ p > 0 => g[p].prev \in B /\ g[g[p].prev].next = p
    <3>1. p \in Ptrs /\ p # n /\ p \in Int /\ h[p].next \in Int /\ h[p].next \in Ptrs
      BY BlockFacts
    <3>2. CASE p = m
      <4>1. g[p].next = nn /\ nn >= p + Hdr + MinSize /\ nn \in B \cup {MemSize}
        <5>1. nn >= m + Hdr + MinSize
          BY <1>1, <1>a DEF Hdr
        <5>2. g[m].next = nn
          BY Zenon, <1>1, <1>2
        <5>3. nn \in B \cup {MemSize}
          BY <1>a, <1>b
        <5> QED BY <5>1, <5>2, <5>3, <3>2
      <4>2. \A q \in B : q <= p \/ q >= nn
        <5> SUFFICES ASSUME NEW q \in B PROVE q <= p \/ q >= nn
          OBVIOUS
        <5>1. q \in Int /\ (q <= m \/ q >= n) /\ (q <= n \/ q >= nn) /\ q # n
          BY <1>1, <1>a, BlockFacts
        <5> QED BY <5>1, <1>1, <3>2
      <4>3. g[p].next # MemSize => g[g[p].next].prev = p
        BY Zenon, <4>1, <3>2, <1>1, <1>2, <1>b
      <4>4. p > 0 => g[p].prev \in B /\ g[g[p].prev].next = p
        <5> SUFFICES ASSUME p > 0 PROVE g[p].prev \in B /\ g[g[p].prev].next = p
          OBVIOUS
        <5>1. h[p].prev \in Blk(h) /\ h[h[p].prev].next = p
          BY BlockFacts
        <5>2. h[p].prev < p /\ h[p].prev \in Ptrs /\ h[p].prev \in Int
          BY <5>1, BlockFacts
        <5>3. g[p].prev = h[p].prev
          BY Zenon, <1>1, <1>2, <1>b, <3>1, <3>2
        <5>4. h[p].prev # m /\ h[p].prev # n
          BY <5>2, <3>1, <3>2, <1>1
        <5> QED BY Zenon, <5>1, <5>2, <5>3, <5>4, <1>2
      <4> QED BY <4>1, <4>2, <4>3, <4>4
    <3>3. CASE p # m
      <4>1. g[p].next = h[p].next
        BY Zenon, <1>2, <3>1, <3>3
      <4>2. h[p].next # n
        BY <1>1, <1>a, <3>3, BlockFacts
      <4>3. g[p].next >= p + Hdr + MinSize /\ g[p].next \in B \cup {MemSize}
        BY <4>1, <4>2, BlockFacts DEF Hdr
      <4>4. \A q \in B : q <= p \/ q >= g[p].next
        BY <4>1, BlockFacts
      <4>5. g[p].next # MemSize => g[g[p].next].prev = p
        <5> SUFFICES ASSUME h[p].next # MemSize PROVE g[h[p].next].prev = p
          BY <4>1
        <5>1. h[p].next \in Blk(h) /\ h[h[p].next].prev = p
          BY BlockFacts
        <5>2. h[p].next # nn
          <6> SUFFICES ASSUME h[p].next = nn PROVE FALSE
            OBVIOUS
          <6>1. h[nn].prev = n
            BY <5>1, <1>1, <1>a
          <6> QED BY <5>1, <6>1, <3>1
        <5> QED BY Zenon, <5>1, <5>2, <4>2, <3>1, <1>2
      <4>6. p > 0 => g[p].prev \in B /\ g[g[p].prev].next = p
        <5> SUFFICES ASSUME p > 0 PROVE g[p].prev \in B /\ g[g[p].prev].next = p
          OBVIOUS
        <5>1. h[p].prev \in Blk(h) /\ h[h[p].prev].next = p /\ h[p].prev \in Ptrs
          BY BlockFacts
        <5>2. CASE p = nn
          BY Zenon, <5>2, <1>1, <1>2, <1>a, <1>b, <3>1, <2>1
        <5>3. CASE p # nn
          <6>1. g[p].prev = h[p].prev
            BY Zenon, <5>3, <1>2, <3>1
          <6>2. h[p].prev # n /\ h[p].prev # m
            BY <5>1, <5>3, <3>1, <1>a
          <6> QED BY Zenon, <5>1, <6>1, <6>2, <1>2
        <5> QED BY <5>2, <5>3
      <4> QED BY <4>3, <4>4, <4>5, <4>6
    <3> QED BY <3>2, <3>3
  <2> QED BY <2>1, <2>2, <2>3 DEF Links
<1> QED
  BY <1>2, <1>3, <1>4 DEF Tiled, g, n
\* Two heaps with the same headers are the same.
LEMMA HeapEq ==
  ASSUME NEW g \in Heaps, NEW h \in Heaps,
         \A p \in Ptrs : g[p].next = h[p].next /\ g[p].prev = h[p].prev /\ g[p].used = h[p].used
  PROVE  g = h
<1>1. ASSUME NEW a \in Headers, NEW b \in Headers,
             a.next = b.next, a.prev = b.prev, a.used = b.used
      PROVE  a = b
  BY <1>1 DEF Headers
<1>2. \A p \in Ptrs : g[p] \in Headers /\ h[p] \in Headers
  BY DEF Heaps
<1>3. \A p \in Ptrs : g[p] = h[p]
  BY <1>1, <1>2
<1> QED BY <1>3 DEF Heaps

\* The heap after the block at m has been cut at q: what mem_malloc and
\* mem_trim do with the remainder.
CutTo(h, m, q, n) ==
  SetPrev([h EXCEPT ![q] = [next |-> n, prev |-> m, used |-> FALSE], ![m].next = q], n, q)

Cut(h, m, q) == CutTo(h, m, q, h[m].next)

\* The same, said position by position.
IsCut(g, h, m, q, n) ==
  /\ g \in Heaps
  /\ \A p \in Ptrs :
       /\ g[p].next = IF p = m THEN q ELSE IF p = q THEN n ELSE h[p].next
       /\ g[p].prev = IF p = q THEN m ELSE IF p = n /\ p # MemSize THEN q ELSE h[p].prev
       /\ g[p].used = IF p = q THEN FALSE ELSE h[p].used

\* What Cut leaves at each position.
LEMMA CutAt ==
  ASSUME NEW h \in Heaps, NEW m \in Ptrs, NEW q \in Ptrs, m # q, NEW n \in Ptrs, n # m, n # q
  PROVE  IsCut(CutTo(h, m, q, n), h, m, q, n)
<1> DEFINE e == [next |-> n, prev |-> m, used |-> FALSE]
           f == [h EXCEPT ![q] = e, ![m].next = q]
           g == SetPrev(f, n, q)
<1>1. e \in Headers
  BY DEF Headers
<1>2. f \in Heaps
  BY Zenon, <1>1 DEF Heaps, Headers
<1>3. \A p \in Ptrs : /\ f[p].next = IF p = m THEN q ELSE IF p = q THEN n ELSE h[p].next
                      /\ f[p].prev = IF p = q THEN m ELSE h[p].prev
                      /\ f[p].used = IF p = q THEN FALSE ELSE h[p].used
  BY Zenon, <1>1 DEF Heaps, Headers
<1> HIDE DEF f
<1>4. g \in Heaps /\ \A p \in Ptrs : /\ g[p].next = f[p].next
                                     /\ g[p].used = f[p].used
                                     /\ g[p].prev = IF p = n /\ p # MemSize THEN q ELSE f[p].prev
  <2>1. CASE n = MemSize
    BY <1>2, <2>1 DEF SetPrev
  <2>2. CASE n # MemSize
    BY <1>2, <2>2 DEF SetPrev, Heaps, Headers
  <2> QED BY <2>1, <2>2
<1> HIDE DEF g
<1>5. IsCut(g, h, m, q, n)
  BY Zenon, <1>3, <1>4 DEF IsCut
<1> QED BY <1>5 DEF g, f, CutTo

\* Cutting a block keeps the heap tiled and adds one block.
LEMMA CutTiled ==
  ASSUME MemParams, NEW h, Tiled(h), NEW m \in Blk(h), NEW q \in Int,
         q >= m + Hdr + MinSize, h[m].next >= q + Hdr + MinSize
  PROVE  /\ Tiled(Cut(h, m, q))
         /\ Blk(Cut(h, m, q)) = Blk(h) \cup {q}
         /\ q \in Ptrs /\ q \notin Blk(h) /\ q # MemSize
<1> DEFINE n == h[m].next
           g == Cut(h, m, q)
<1>1. /\ m \in Ptrs /\ n \in Ptrs /\ m \in Int /\ n \in Int /\ MemSize \in Int /\ MinSize \in Int
      /\ MinSize > 0 /\ 0 <= m /\ n <= MemSize /\ 0 \in Ptrs /\ MemSize \in Ptrs
      /\ n \in Blk(h) \cup {MemSize} /\ h \in Heaps
      /\ n # MemSize => h[n].prev = m
      /\ \A p \in Blk(h) : p <= m \/ p >= n
  BY BlockFacts, PtrsInt DEF MemParams, Tiled
<1>2. m < q /\ q < n /\ q \in Ptrs /\ q \notin Blk(h)
  <2>1. m < q /\ q < n
    BY <1>1 DEF Hdr
  <2>2. q \in Ptrs
    BY <2>1, <1>1 DEF Ptrs
  <2> QED BY <2>1, <2>2, <1>1
<1>3. m # q /\ n # m /\ n # q /\ q # 0 /\ q # MemSize /\ n # 0 /\ m # MemSize
  BY <1>1, <1>2
<1>c. g = CutTo(h, m, q, n)
  BY DEF Cut
<1>a. h[m].next = n
  OBVIOUS
<1>b. q >= m + 1 + MinSize /\ n >= q + 1 + MinSize
  BY DEF Hdr
<1> HIDE DEF g, n
<1>4. /\ g \in Heaps
      /\ \A p \in Ptrs :
           /\ g[p].next = IF p = m THEN q ELSE IF p = q THEN n ELSE h[p].next
           /\ g[p].prev = IF p = q THEN m ELSE IF p = n /\ p # MemSize THEN q ELSE h[p].prev
           /\ g[p].used = IF p = q THEN FALSE ELSE h[p].used
  <2>1. h \in Heaps /\ m \in Ptrs /\ q \in Ptrs /\ n \in Ptrs /\ m # q /\ n # m /\ n # q
    BY <1>1, <1>2, <1>3
  <2>2. IsCut(CutTo(h, m, q, n), h, m, q, n)
    BY <2>1, CutAt
  <2> QED BY Zenon, <2>2, <1>c DEF IsCut
<1>5. Blk(g) = Blk(h) \cup {q}
  <2>1. \A p \in Ptrs : g[p] = Nothing <=> g[p].next = MemSize /\ g[p].prev = MemSize /\ g[p].used = TRUE
    BY <1>1, <1>4 DEF Heaps, Headers, Nothing
  <2>2. q \in Blk(g)
    BY Zenon, <1>2, <1>3, <1>4, <2>1 DEF Blk
  <2>3. ASSUME NEW p \in Blk(h) PROVE p \in Blk(g)
    <3>1. p \in Ptrs /\ h[p].prev # MemSize
      BY BlockPrev DEF Blk
    <3>2. g[p].prev # MemSize
      BY Zenon, <1>3, <1>4, <3>1
    <3> QED BY <2>1, <3>1, <3>2 DEF Blk
  <2>4. ASSUME NEW p \in Ptrs, p \notin Blk(h), p # q PROVE p \notin Blk(g)
    <3>1. h[p] = Nothing
      BY <2>4 DEF Blk
    <3>2. p # m /\ (p = n => p = MemSize)
      BY <2>4, <1>1
    <3>3. h[p].next = MemSize /\ h[p].prev = MemSize /\ h[p].used = TRUE
      BY <3>1 DEF Nothing
    <3>4. g[p].next = MemSize /\ g[p].prev = MemSize /\ g[p].used = TRUE
      BY Zenon, <3>3, <3>2, <1>4, <2>4
    <3> QED BY <2>1, <3>4 DEF Blk
  <2> QED BY Zenon, <2>2, <2>3, <2>4 DEF Blk
<1>6. Links(g, Blk(h) \cup {q})
  <2> DEFINE B == Blk(h) \cup {q}
  <2>1. 0 \in B /\ MemSize \notin B /\ m \in B
    BY <1>3 DEF Tiled, Links
  <2>2. g[0].prev = 0
    BY Zenon, <1>1, <1>3, <1>4 DEF Tiled, Links
  <2>3. ASSUME NEW p \in B
        PROVE  /\ g[p].next >= p + Hdr + MinSize
               /\ g[p].next \in B \cup {MemSize}
               /\ \A r \in B : r <= p \/ r >= g[p].next
               /\ g[p].next # MemSize => g[g[p].next].prev = p
               /\ p > 0 => g[p].prev \in B /\ g[g[p].prev].next = p
    <3>0. \A r \in B : r \in Int /\ (r <= m \/ r = q \/ r >= n)
      BY <1>1, BlockFacts
    <3>1. CASE p = q
      <4>1. g[p].next = n /\ g[p].prev = m
        BY Zenon, <1>2, <1>3, <1>4, <3>1
      <4>2. n >= p + Hdr + MinSize /\ n \in B \cup {MemSize}
        BY <1>1, <1>b, <3>1 DEF Hdr
      <4>3. \A r \in B : r <= p \/ r >= n
        BY <3>0, <3>1, <1>1, <1>2
      <4>4. n # MemSize => g[n].prev = p
        BY Zenon, <1>1, <1>3, <1>4, <3>1
      <4>5. m \in B /\ g[m].next = p
        BY Zenon, <1>1, <1>4, <3>1
      <4> QED BY <4>1, <4>2, <4>3, <4>4, <4>5
    <3>2. CASE p = m
      <4>1. g[p].next = q
        BY Zenon, <1>1, <1>4, <3>2
      <4>2. q >= p + Hdr + MinSize
        BY <1>b, <3>2 DEF Hdr
      <4>3. \A r \in B : r <= p \/ r >= q
        <5> SUFFICES ASSUME NEW r \in B PROVE r <= p \/ r >= q
          OBVIOUS
        <5>1. r \in Int /\ (r <= m \/ r = q \/ r >= n)
          BY <3>0
        <5> QED BY <5>1, <3>2, <1>1, <1>2
      <4>4. g[q].prev = p
        BY Zenon, <1>2, <1>4, <3>2
      <4>5. p > 0 => g[p].prev \in B /\ g[g[p].prev].next = p
        <5> SUFFICES ASSUME p > 0 PROVE g[p].prev \in B /\ g[g[p].prev].next = p
          OBVIOUS
        <5>1. h[p].prev \in Blk(h) /\ h[h[p].prev].next = p
          BY BlockFacts, <3>2
        <5>2. h[p].prev \in Ptrs /\ h[p].prev < p /\ h[p].prev \in Int
          BY <5>1, BlockFacts
        <5>3. h[p].prev # m /\ h[p].prev # q
          BY <5>1, <5>2, <1>1, <1>2, <3>2
        <5>4. g[p].prev = h[p].prev
          BY Zenon, <1>1, <1>3, <1>4, <3>2
        <5> QED BY Zenon, <5>1, <5>2, <5>3, <5>4, <1>4
      <4> QED BY <4>1, <4>2, <4>3, <4>4, <4>5
    <3>3. CASE p # q /\ p # m
      <4>0. p \in Blk(h) /\ p \in Ptrs /\ p \in Int
        BY <3>3, BlockFacts
      <4>1. g[p].next = h[p].next
        BY Zenon, <1>4, <4>0, <3>3
      <4>2. h[p].next >= p + Hdr + MinSize /\ h[p].next \in B \cup {MemSize} /\ h[p].next \in Ptrs
        BY <4>0, BlockFacts DEF Hdr
      <4>3. ASSUME NEW r \in B PROVE r <= p \/ r >= h[p].next
        <5>1. CASE r \in Blk(h)
          BY <4>0, <5>1, BlockFacts
        <5>2. CASE r = q
          <6>1. p <= m \/ p >= n
            BY <1>1, <4>0
          <6>2. m <= p \/ m >= h[p].next
            BY Zenon, <4>0, BlockFacts
          <6>3. h[p].next \in Int
            BY <4>0, BlockFacts
          <6> QED BY <6>1, <6>2, <6>3, <5>2, <1>1, <1>2, <4>0, <3>3
        <5> QED BY <5>1, <5>2
      <4>4. h[p].next # MemSize => g[h[p].next].prev = p
        <5> SUFFICES ASSUME h[p].next # MemSize PROVE g[h[p].next].prev = p
          OBVIOUS
        <5>1. h[p].next \in Blk(h) /\ h[h[p].next].prev = p
          BY <4>0, BlockFacts
        <5>2. h[p].next # n /\ h[p].next # q
          BY <5>1, <1>1, <1>2, <3>3
        <5> QED BY Zenon, <5>1, <5>2, <4>2, <1>4
      <4>5. p > 0 => g[p].prev \in B /\ g[g[p].prev].next = p
        <5> SUFFICES ASSUME p > 0 PROVE g[p].prev \in B /\ g[g[p].prev].next = p
          OBVIOUS
        <5>1. h[p].prev \in Blk(h) /\ h[h[p].prev].next = p /\ h[p].prev \in Ptrs
          BY Zenon, <4>0, BlockFacts
        <5>2. CASE p = n
          <6>1. p # MemSize
            BY <4>0, BlockFacts
          <6>2. g[p].prev = q
            BY Zenon, <6>1, <5>2, <1>3, <1>4, <4>0
          <6> QED BY Zenon, <6>2, <5>2, <1>2, <1>3, <1>4
        <5>3. CASE p # n
          <6>1. g[p].prev = h[p].prev
            BY Zenon, <5>3, <1>4, <4>0, <3>3
          <6>2. h[p].prev # m /\ h[p].prev # q
            BY <5>1, <5>3, <1>a, <1>2
          <6> QED BY Zenon, <5>1, <6>1, <6>2, <1>4
        <5> QED BY <5>2, <5>3
      <4> QED BY <4>1, <4>2, <4>3, <4>4, <4>5
    <3> QED BY <3>1, <3>2, <3>3
  <2> QED BY <2>1, <2>2, <2>3 DEF Links
<1> QED
  BY <1>2, <1>3, <1>4, <1>5, <1>6 DEF Tiled, g, n

\* The state as a record of its fields, and what the operations make of it.
Rec(h, l, d, r, f, p) ==
  [h |-> h, lfree |-> l, held |-> d, run |-> r, failed |-> f, pool |-> p]

\* The fields of such a record.
LEMMA RecFields ==
  ASSUME NEW h, NEW l, NEW d, NEW r, NEW f, NEW p
  PROVE  /\ Rec(h, l, d, r, f, p).h = h /\ Rec(h, l, d, r, f, p).lfree = l
         /\ Rec(h, l, d, r, f, p).held = d /\ Rec(h, l, d, r, f, p).run = r
         /\ Rec(h, l, d, r, f, p).failed = f /\ Rec(h, l, d, r, f, p).pool = p
BY DEF Rec

\* An update of one field, as such a record; so the next five.
LEMMA SetHeap ==
  \A h, l, d, r, f, p, k : [Rec(h, l, d, r, f, p) EXCEPT !.h = k] = Rec(k, l, d, r, f, p)
BY DEF Rec

LEMMA SetLow ==
  \A h, l, d, r, f, p, k : [Rec(h, l, d, r, f, p) EXCEPT !.lfree = k] = Rec(h, k, d, r, f, p)
BY DEF Rec

LEMMA SetHeld ==
  \A h, l, d, r, f, p, k : [Rec(h, l, d, r, f, p) EXCEPT !.held = k] = Rec(h, l, k, r, f, p)
BY DEF Rec

LEMMA SetRun ==
  \A h, l, d, r, f, p, k : [Rec(h, l, d, r, f, p) EXCEPT !.run = k] = Rec(h, l, d, k, f, p)
BY DEF Rec

LEMMA SetFailed ==
  \A h, l, d, r, f, p, k : [Rec(h, l, d, r, f, p) EXCEPT !.failed = k] = Rec(h, l, d, r, k, p)
BY DEF Rec

LEMMA SetPool ==
  \A h, l, d, r, f, p, k : [Rec(h, l, d, r, f, p) EXCEPT !.pool = k] = Rec(h, l, d, r, f, k)
BY DEF Rec

\* Updates of several fields at once.
WithLowHeap(s, x1, x2) == [s EXCEPT !.lfree = x1, !.h = x2]

LEMMA SetLowHeap ==
  ASSUME NEW h, NEW l, NEW d, NEW r, NEW f, NEW p, NEW x1, NEW x2
  PROVE  WithLowHeap(Rec(h, l, d, r, f, p), x1, x2) = Rec(x2, x1, d, r, f, p)
<1>1. [Rec(h, l, d, r, f, p) EXCEPT !.lfree = x1] = Rec(h, x1, d, r, f, p)
  BY ONLY SetLow
<1>2. [Rec(h, x1, d, r, f, p) EXCEPT !.h = x2] = Rec(x2, x1, d, r, f, p)
  BY ONLY SetHeap
<1>3. [Rec(h, l, d, r, f, p) EXCEPT !.lfree = x1, !.h = x2]
        = [[Rec(h, l, d, r, f, p) EXCEPT !.lfree = x1] EXCEPT !.h = x2]
  OBVIOUS
<1>4. [[Rec(h, l, d, r, f, p) EXCEPT !.lfree = x1] EXCEPT !.h = x2]
        = Rec(x2, x1, d, r, f, p)
  BY Zenon, <1>1, <1>2
<1> QED
  BY <1>3, <1>4 DEF WithLowHeap

WithHeapLow(s, x1, x2) == [s EXCEPT !.h = x1, !.lfree = x2]

LEMMA SetHeapLow ==
  ASSUME NEW h, NEW l, NEW d, NEW r, NEW f, NEW p, NEW x1, NEW x2
  PROVE  WithHeapLow(Rec(h, l, d, r, f, p), x1, x2) = Rec(x1, x2, d, r, f, p)
<1>1. [Rec(h, l, d, r, f, p) EXCEPT !.h = x1] = Rec(x1, l, d, r, f, p)
  BY ONLY SetHeap
<1>2. [Rec(x1, l, d, r, f, p) EXCEPT !.lfree = x2] = Rec(x1, x2, d, r, f, p)
  BY ONLY SetLow
<1>3. [Rec(h, l, d, r, f, p) EXCEPT !.h = x1, !.lfree = x2]
        = [[Rec(h, l, d, r, f, p) EXCEPT !.h = x1] EXCEPT !.lfree = x2]
  OBVIOUS
<1>4. [[Rec(h, l, d, r, f, p) EXCEPT !.h = x1] EXCEPT !.lfree = x2]
        = Rec(x1, x2, d, r, f, p)
  BY Zenon, <1>1, <1>2
<1> QED
  BY <1>3, <1>4 DEF WithHeapLow

WithHeldFailed(s, x1, x2) == [s EXCEPT !.held = x1, !.failed = x2]

LEMMA SetHeldFailed ==
  ASSUME NEW h, NEW l, NEW d, NEW r, NEW f, NEW p, NEW x1, NEW x2
  PROVE  WithHeldFailed(Rec(h, l, d, r, f, p), x1, x2) = Rec(h, l, x1, r, x2, p)
<1>1. [Rec(h, l, d, r, f, p) EXCEPT !.held = x1] = Rec(h, l, x1, r, f, p)
  BY ONLY SetHeld
<1>2. [Rec(h, l, x1, r, f, p) EXCEPT !.failed = x2] = Rec(h, l, x1, r, x2, p)
  BY ONLY SetFailed
<1>3. [Rec(h, l, d, r, f, p) EXCEPT !.held = x1, !.failed = x2]
        = [[Rec(h, l, d, r, f, p) EXCEPT !.held = x1] EXCEPT !.failed = x2]
  OBVIOUS
<1>4. [[Rec(h, l, d, r, f, p) EXCEPT !.held = x1] EXCEPT !.failed = x2]
        = Rec(h, l, x1, r, x2, p)
  BY Zenon, <1>1, <1>2
<1> QED
  BY <1>3, <1>4 DEF WithHeldFailed

WithRunFailed(s, x1, x2) == [s EXCEPT !.run = x1, !.failed = x2]

LEMMA SetRunFailed ==
  ASSUME NEW h, NEW l, NEW d, NEW r, NEW f, NEW p, NEW x1, NEW x2
  PROVE  WithRunFailed(Rec(h, l, d, r, f, p), x1, x2) = Rec(h, l, d, x1, x2, p)
<1>1. [Rec(h, l, d, r, f, p) EXCEPT !.run = x1] = Rec(h, l, d, x1, f, p)
  BY ONLY SetRun
<1>2. [Rec(h, l, d, x1, f, p) EXCEPT !.failed = x2] = Rec(h, l, d, x1, x2, p)
  BY ONLY SetFailed
<1>3. [Rec(h, l, d, r, f, p) EXCEPT !.run = x1, !.failed = x2]
        = [[Rec(h, l, d, r, f, p) EXCEPT !.run = x1] EXCEPT !.failed = x2]
  OBVIOUS
<1>4. [[Rec(h, l, d, r, f, p) EXCEPT !.run = x1] EXCEPT !.failed = x2]
        = Rec(h, l, d, x1, x2, p)
  BY Zenon, <1>1, <1>2
<1> QED
  BY <1>3, <1>4 DEF WithRunFailed

WithHeldRunFailed(s, x1, x2, x3) == [s EXCEPT !.held = x1, !.run = x2, !.failed = x3]

LEMMA SetHeldRunFailed ==
  ASSUME NEW h, NEW l, NEW d, NEW r, NEW f, NEW p, NEW x1, NEW x2, NEW x3
  PROVE  WithHeldRunFailed(Rec(h, l, d, r, f, p), x1, x2, x3) = Rec(h, l, x1, x2, x3, p)
<1>1. [Rec(h, l, d, r, f, p) EXCEPT !.held = x1] = Rec(h, l, x1, r, f, p)
  BY ONLY SetHeld
<1>2. [Rec(h, l, x1, r, f, p) EXCEPT !.run = x2] = Rec(h, l, x1, x2, f, p)
  BY ONLY SetRun
<1>3. [Rec(h, l, x1, x2, f, p) EXCEPT !.failed = x3] = Rec(h, l, x1, x2, x3, p)
  BY ONLY SetFailed
<1>4. [Rec(h, l, d, r, f, p) EXCEPT !.held = x1, !.run = x2, !.failed = x3]
        = [[[Rec(h, l, d, r, f, p) EXCEPT !.held = x1] EXCEPT !.run = x2] EXCEPT !.failed = x3]
  OBVIOUS
<1>5. [[[Rec(h, l, d, r, f, p) EXCEPT !.held = x1] EXCEPT !.run = x2] EXCEPT !.failed = x3]
        = Rec(h, l, x1, x2, x3, p)
  BY Zenon, <1>1, <1>2, <1>3
<1> QED
  BY <1>4, <1>5 DEF WithHeldRunFailed


\* The two halves of plug_holes, on the record.
LEMMA PlugNextRec ==
  ASSUME NEW h, NEW l, NEW d, NEW r, NEW f, NEW p, NEW m, NEW n
  PROVE  PlugNext(Rec(h, l, d, r, f, p), m, n) =
           IF m # n /\ ~h[n].used /\ n # MemSize
           THEN Rec(Merge(h, m, n), IF l = n THEN m ELSE l, d, r, f, p)
           ELSE Rec(h, l, d, r, f, p)
<1> DEFINE s == Rec(h, l, d, r, f, p)
           g == Merge(h, m, n)
           k == IF l = n THEN m ELSE l
<1>1. s.h = h /\ s.lfree = l
  BY RecFields
<1>2. PlugNext(s, m, n) = IF m # n /\ ~h[n].used /\ n # MemSize
                          THEN [s EXCEPT !.lfree = k, !.h = g] ELSE s
  <2> HIDE DEF s
  <2> QED BY <1>1 DEF PlugNext, Merge
<1>3. [s EXCEPT !.lfree = k, !.h = g] = Rec(g, k, d, r, f, p)
  <2>1. WithLowHeap(s, k, g) = Rec(g, k, d, r, f, p)
    BY SetLowHeap
  <2> QED
    BY <2>1 DEF WithLowHeap
<1> QED
  BY <1>2, <1>3

LEMMA PlugPrevRec ==
  ASSUME NEW h, NEW l, NEW d, NEW r, NEW f, NEW p, NEW m, NEW n
  PROVE  PlugPrev(Rec(h, l, d, r, f, p), m, n) =
           IF n # m /\ ~h[n].used
           THEN Rec(Merge(h, n, m), IF l = m THEN n ELSE l, d, r, f, p)
           ELSE Rec(h, l, d, r, f, p)
<1> DEFINE s == Rec(h, l, d, r, f, p)
           g == Merge(h, n, m)
           k == IF l = m THEN n ELSE l
<1>1. s.h = h /\ s.lfree = l
  BY RecFields
<1>2. PlugPrev(s, m, n) = IF n # m /\ ~h[n].used
                          THEN [s EXCEPT !.lfree = k, !.h = g] ELSE s
  <2> HIDE DEF s
  <2> QED BY <1>1 DEF PlugPrev, Merge
<1>3. [s EXCEPT !.lfree = k, !.h = g] = Rec(g, k, d, r, f, p)
  <2>1. WithLowHeap(s, k, g) = Rec(g, k, d, r, f, p)
    BY SetLowHeap
  <2> QED
    BY <2>1 DEF WithLowHeap
<1> QED
  BY <1>2, <1>3

\* mem_free on the heap alone: the block is marked unused, then merged with
\* the block behind it, then with the one before it; and what becomes of
\* lfree.
Unused(h, m) == [h EXCEPT ![m].used = FALSE]

FreeNext(h, m) == IF h[m].next # m /\ ~h[h[m].next].used /\ h[m].next # MemSize
                  THEN Merge(h, m, h[m].next) ELSE h
FreeNextLow(h, l, m) == IF h[m].next # m /\ ~h[h[m].next].used /\ h[m].next # MemSize /\ l = h[m].next
                        THEN m ELSE l
FreePrev(h, m, p) == IF p # m /\ ~h[p].used THEN Merge(h, p, m) ELSE h
FreePrevLow(h, l, m, p) == IF p # m /\ ~h[p].used /\ l = m THEN p ELSE l

\* plug_holes, on the record.
LEMMA PlugHolesRec ==
  ASSUME NEW h, NEW l, NEW d, NEW r, NEW f, NEW p, NEW m
  PROVE  plug_holes(Rec(h, l, d, r, f, p), m) =
           Rec(FreePrev(FreeNext(h, m), m, h[m].prev),
               FreePrevLow(FreeNext(h, m), FreeNextLow(h, l, m), m, h[m].prev), d, r, f, p)
<1>1. PlugNext(Rec(h, l, d, r, f, p), m, h[m].next) =
        Rec(FreeNext(h, m), FreeNextLow(h, l, m), d, r, f, p)
  BY PlugNextRec DEF FreeNext, FreeNextLow
<1>2. \A g, k, q : PlugPrev(Rec(g, k, d, r, f, p), m, q) =
                   Rec(FreePrev(g, m, q), FreePrevLow(g, k, m, q), d, r, f, p)
  BY PlugPrevRec DEF FreePrev, FreePrevLow
<1> QED
  BY <1>1, <1>2, RecFields DEF plug_holes

\* mem_free, on the record.
LEMMA FreedRec ==
  ASSUME NEW h, NEW l, NEW d, NEW r, NEW f, NEW p, NEW m
  PROVE  Freed(Rec(h, l, d, r, f, p), m) =
           plug_holes(Rec(Unused(h, m), IF m < l THEN m ELSE l, d, r, f, p), m)
<1> DEFINE s == Rec(h, l, d, r, f, p)
           g == Unused(h, m)
           k == IF m < l THEN m ELSE l
<1>2. s.h = h /\ s.lfree = l
  BY RecFields
<1>3. [s EXCEPT !.h[m].used = FALSE, !.lfree = IF m < @ THEN m ELSE @]
        = [s EXCEPT !.h = g, !.lfree = k]
  <2> HIDE DEF s
  <2> QED BY <1>2 DEF Unused
<1>4. [s EXCEPT !.h = g, !.lfree = k] = Rec(g, k, d, r, f, p)
  <2>1. WithHeapLow(s, g, k) = Rec(g, k, d, r, f, p)
    BY SetHeapLow
  <2> QED
    BY <2>1 DEF WithHeapLow
<1>1. [s EXCEPT !.h[m].used = FALSE, !.lfree = IF m < @ THEN m ELSE @]
        = Rec(g, k, d, r, f, p)
  BY <1>3, <1>4
<1> QED
  BY <1>1 DEF Freed

\* What a merge leaves of next and used, in one predicate.
IsMerge(g, h, m, n) ==
  \A p \in Ptrs :
    /\ g[p].next = IF p = m THEN h[n].next ELSE IF p = n THEN MemSize ELSE h[p].next
    /\ g[p].used = IF p = n THEN TRUE ELSE h[p].used

\* Merge is such a merge.
LEMMA MergeIs ==
  ASSUME MemParams, NEW h, Tiled(h), NEW m \in Blk(h), h[m].next # MemSize
  PROVE  IsMerge(Merge(h, m, h[m].next), h, m, h[m].next)
<1> DEFINE n == h[m].next
           nn == h[n].next
           g == Merge(h, m, n)
<1>2. /\ g \in Heaps
      /\ \A p \in Ptrs :
              /\ g[p].next = IF p = m THEN nn ELSE IF p = n THEN MemSize ELSE h[p].next
              /\ g[p].prev = IF p = n THEN MemSize
                             ELSE IF p = nn /\ p # MemSize THEN m ELSE h[p].prev
              /\ g[p].used = IF p = n THEN TRUE ELSE h[p].used
  BY ZenonT(60), MergeAt
<1> HIDE DEF g
<1>3. IsMerge(g, h, m, n)
  BY Zenon, <1>2 DEF IsMerge
<1> QED
  BY <1>3 DEF g

\* No two free blocks touch, but perhaps in front of or behind m.
Apart(h, m) ==
  \A p \in Blk(h) : p # m /\ ~h[p].used /\ h[p].next \notin {MemSize, m} => h[h[p].next].used
\* No two free blocks touch (what mem_sanity asserts): everywhere but before
\* m, and everywhere.
ApartBehind(h, m) ==
  \A p \in Blk(h) : ~h[p].used /\ h[p].next \notin {MemSize, m} => h[h[p].next].used
NoTouch(h) ==
  \A p \in Blk(h) : ~h[p].used /\ h[p].next # MemSize => h[h[p].next].used

\* l is at or below every free block.
Low(h, l) == l \in Blk(h) \cup {MemSize} /\ \A p \in Blk(h) : ~h[p].used => l <= p

\* What freeing m leaves of the blocks.
Kept(h, g, m) == \A q \in Blk(h) : q # m /\ h[q].used => q \in Blk(g) /\ g[q].used /\ g[q].next = h[q].next
From(h, g, m) == \A q \in Blk(g) : q \in Blk(h) /\ (g[q].used <=> h[q].used /\ q # m)

\* What Unused leaves at each position.
LEMMA UnusedAt ==
  ASSUME NEW h \in Heaps, NEW m \in Ptrs
  PROVE  /\ Unused(h, m) \in Heaps
         /\ \A p \in Ptrs : /\ Unused(h, m)[p].next = h[p].next
                            /\ Unused(h, m)[p].prev = h[p].prev
                            /\ Unused(h, m)[p].used = IF p = m THEN FALSE ELSE h[p].used
                            /\ p # m => Unused(h, m)[p] = h[p]
<1>2. h[m] \in Headers
  BY DEF Heaps
<1>1. [h[m] EXCEPT !.used = FALSE] \in Headers
  <2>1. \A a \in Headers : [a EXCEPT !.used = FALSE] \in Headers
    BY Zenon DEF Headers
  <2> QED
    BY <1>2, <2>1
<1> DEFINE e == [h[m] EXCEPT !.used = FALSE]
<1>3. e.next = h[m].next /\ e.prev = h[m].prev /\ e.used = FALSE
  BY <1>2 DEF Headers
<1>4. e \in Headers
  BY <1>1
<1>5. Unused(h, m) = [h EXCEPT ![m] = e]
  BY DEF Unused
<1> HIDE DEF e
<1>6. [h EXCEPT ![m] = e] \in Heaps
  BY <1>4 DEF Heaps
<1>7. \A p \in Ptrs : [h EXCEPT ![m] = e][p] = IF p = m THEN e ELSE h[p]
  BY DEF Heaps
<1> QED
  BY Zenon, <1>3, <1>5, <1>6, <1>7

\* Marking a block unused keeps the heap tiled.
LEMMA UnusedTiled ==
  ASSUME MemParams, NEW h, Tiled(h), NEW m \in Blk(h)
  PROVE  Tiled(Unused(h, m)) /\ Blk(Unused(h, m)) = Blk(h)
<1> DEFINE g == Unused(h, m)
<1>0. h \in Heaps /\ m \in Ptrs /\ Blk(h) \subseteq Ptrs /\ 0 \in Ptrs
  BY PtrsInt DEF Tiled, Blk
<1>1. /\ g \in Heaps
      /\ \A p \in Ptrs : g[p].next = h[p].next /\ g[p].prev = h[p].prev /\ (p # m => g[p] = h[p])
      /\ g[m].used = FALSE
  BY ZenonT(60), <1>0, UnusedAt
<1>2. g[m] # Nothing
  BY <1>1 DEF Nothing
<1> HIDE DEF g
<1>3. Blk(g) = Blk(h)
  BY <1>0, <1>1, <1>2 DEF Blk
<1>4. Links(h, Blk(h)) /\ \A p \in Blk(h) : h[p].next \in Ptrs /\ h[p].prev \in Ptrs
  BY <1>0 DEF Tiled, Heaps, Headers, Blk
<1>5. Links(g, Blk(g))
  BY <1>0, <1>1, <1>3, <1>4 DEF Links
<1>6. Tiled(g) /\ Blk(g) = Blk(h)
  BY <1>1, <1>3, <1>5 DEF Tiled
<1> QED
  BY <1>6 DEF g
\* Freeing m: the flag and lfree, ...
LEMMA FreeFlag ==
  ASSUME MemParams, NEW h, Tiled(h), NoTouch(h), NEW m \in Blk(h), h[m].used,
         NEW l, Low(h, l)
  PROVE  LET g == Unused(h, m)
             k == IF m < l THEN m ELSE l
         IN  /\ Apart(g, m) /\ Low(g, k) /\ k \in Blk(g)
             /\ Kept(h, g, m) /\ From(h, g, m) /\ (k = l \/ ~g[k].used)
<1> DEFINE g == Unused(h, m)
           k == IF m < l THEN m ELSE l
<1>0. /\ h \in Heaps /\ m \in Ptrs /\ Blk(h) \subseteq Ptrs /\ Blk(h) \subseteq Int
      /\ MemSize \in Int /\ m \in Int /\ m < MemSize
  BY PtrsInt, BlockFacts DEF Tiled, Blk, MemParams
<1>1. \A p \in Ptrs : /\ g[p].next = h[p].next
                      /\ g[p].used = IF p = m THEN FALSE ELSE h[p].used
  BY ZenonT(60), <1>0, UnusedAt
<1>2. Blk(g) = Blk(h)
  BY UnusedTiled
<1>3. \A p \in Blk(h) : h[p].next \in Blk(h) \cup {MemSize}
  BY BlockFacts
<1>4. l \in Int /\ l <= MemSize /\ k \in Int /\ (l = MemSize => k = m)
  BY <1>0, BlockFacts DEF Low
<1> HIDE DEF g
<1>5. Apart(g, m)
  BY Zenon, <1>0, <1>1, <1>2, <1>3 DEF Apart, NoTouch
<1>6. k \in Blk(g)
  BY <1>0, <1>2, <1>4 DEF Low
<1>7. ASSUME NEW p \in Blk(g), ~g[p].used PROVE k <= p
  <2>1. p \in Int /\ p \in Blk(h) /\ p \in Ptrs
    BY <1>0, <1>2
  <2>2. CASE p = m
    BY <2>1, <2>2, <1>4
  <2>3. CASE p # m
    <3>1. l <= p
      BY Zenon, <2>1, <2>3, <1>1, <1>7 DEF Low
    <3> QED
      BY <3>1, <2>1, <1>0, <1>4
  <2> QED
    BY <2>2, <2>3
<1>8. Kept(h, g, m) /\ From(h, g, m)
  BY Zenon, <1>0, <1>1, <1>2 DEF Kept, From
<1>9. k = l \/ ~g[k].used
  BY Zenon, <1>0, <1>1
<1> QED
  BY <1>5, <1>6, <1>7, <1>8, <1>9 DEF g, Low

\* ... merging it with a free block, ...
LEMMA MergeLow ==
  ASSUME MemParams, NEW h, Tiled(h), NEW a \in Blk(h), h[a].next # MemSize,
         ~h[a].used, ~h[h[a].next].used, NEW l \in Blk(h), Low(h, l)
  PROVE  LET g == Merge(h, a, h[a].next)
             k == IF l = h[a].next THEN a ELSE l
         IN  Low(g, k) /\ k \in Blk(g) /\ k = l
<1> DEFINE b == h[a].next
           g == Merge(h, a, b)
           k == IF l = b THEN a ELSE l
<1>1. Blk(g) = Blk(h) \ {b} /\ \A p \in Blk(h) \ {b} : g[p].used = h[p].used
  <2>1. Blk(g) = Blk(h) \ {b}
    BY MergeTiled
  <2>2. \A p \in Ptrs : g[p].used = IF p = b THEN TRUE ELSE h[p].used
    <3>1. IsMerge(g, h, a, b)
      BY MergeIs
    <3> HIDE DEF g
    <3> QED
      BY Zenon, <3>1 DEF IsMerge
  <2> QED
    BY Zenon, <2>1, <2>2 DEF Blk
<1>2. a \in Int /\ b \in Int /\ b > a
  BY BlockFacts
<1>3. l # b
  BY <1>2, PtrsInt DEF Low, Blk
<1> HIDE DEF g
<1>4. Low(g, l) /\ l \in Blk(g)
  BY <1>1, <1>3 DEF Low
<1> QED
  BY <1>3, <1>4 DEF g

\* The same blocks are used, with the same room.
Same(h, g) == /\ \A q \in Blk(h) : h[q].used => q \in Blk(g) /\ g[q].used /\ g[q].next = h[q].next
              /\ \A q \in Blk(g) : q \in Blk(h) /\ (g[q].used <=> h[q].used)

\* ... what a merge of two free blocks leaves, ...
LEMMA MergeSame ==
  ASSUME MemParams, NEW h, Tiled(h), NEW a \in Blk(h), h[a].next # MemSize,
         ~h[a].used, ~h[h[a].next].used
  PROVE  Same(h, Merge(h, a, h[a].next))
<1> DEFINE b == h[a].next
           g == Merge(h, a, b)
<1>1. IsMerge(g, h, a, b)
  BY MergeIs
<1>2. Blk(g) = Blk(h) \ {b}
  BY MergeTiled
<1>3. Blk(h) \subseteq Ptrs
  BY DEF Blk
<1> HIDE DEF g
<1>4. Same(h, g)
  BY Zenon, <1>1, <1>2, <1>3 DEF Same, IsMerge
<1> QED
  BY <1>4 DEF g

\* The merge with the block behind it leaves no free block behind the freed
\* one.
LEMMA FreeNextStep ==
  ASSUME MemParams, NEW h, Tiled(h), NEW m \in Blk(h), ~h[m].used, Apart(h, m),
         NEW l \in Blk(h), Low(h, l)
  PROVE  LET g == FreeNext(h, m)
             k == FreeNextLow(h, l, m)
         IN  /\ Tiled(g) /\ m \in Blk(g) /\ ~g[m].used /\ ApartBehind(g, m)
             /\ Low(g, k) /\ k \in Blk(g) /\ k = l /\ Same(h, g)
             /\ m > 0 => h[m].prev \in Blk(g) /\ g[h[m].prev].next = m
<1> DEFINE n == h[m].next
           g == FreeNext(h, m)
           k == FreeNextLow(h, l, m)
<1>1. /\ m # n /\ n \in Blk(h) \cup {MemSize} /\ Blk(h) \subseteq Ptrs /\ m \in Int
      /\ n \in Int /\ n > m /\ (m > 0 => h[m].prev \in Blk(h) /\ h[h[m].prev].next = m)
  BY BlockFacts DEF Blk
<1>2. CASE n # MemSize /\ ~h[n].used
  <2>1. g = Merge(h, m, n) /\ k = IF l = n THEN m ELSE l
    BY <1>1, <1>2 DEF FreeNext, FreeNextLow
  <2>2. Tiled(g) /\ Blk(g) = Blk(h) \ {n}
    BY <2>1, <1>2, MergeTiled
  <2>3. Same(h, g)
    BY <2>1, <1>2, MergeSame
  <2>4. Low(g, k) /\ k \in Blk(g) /\ k = l
    BY <2>1, <1>2, MergeLow
  <2>5. IsMerge(g, h, m, n)
    BY <2>1, <1>2, MergeIs
  <2> HIDE DEF g, k
  <2>6. m \in Blk(g) /\ ~g[m].used
    BY Zenon, <1>1, <2>2, <2>5 DEF IsMerge
  <2>7. m > 0 => h[m].prev \in Blk(g) /\ g[h[m].prev].next = m
    <3>1. SUFFICES ASSUME m > 0 PROVE h[m].prev \in Blk(g) /\ g[h[m].prev].next = m
      OBVIOUS
    <3>2. h[m].prev \in Blk(h) /\ h[h[m].prev].next = m
      BY <1>1, <3>1
    <3>3. h[m].prev \in Int /\ h[m].prev < m
      BY <3>2, BlockFacts
    <3>4. h[m].prev # n /\ h[m].prev # m /\ h[m].prev \in Ptrs
      BY <1>1, <3>2, <3>3
    <3> QED
      BY Zenon, <3>2, <3>4, <2>2, <2>5 DEF IsMerge
  <2>8. ApartBehind(g, m)
    <3>1. n \in Blk(h) /\ n \in Ptrs /\ h[n].next \in Blk(h) \cup {MemSize} /\ h[n].next > n /\ h[n].next \in Int
      BY <1>1, <1>2, BlockFacts DEF Blk
    <3>2. h[n].next # m
      BY <1>1, <3>1
    <3>3. h[n].next # MemSize => h[h[n].next].used
      BY <1>1, <1>2, <3>1, <3>2 DEF Apart
    <3>4. ASSUME NEW p \in Blk(g), ~g[p].used, g[p].next \notin {MemSize, m}
          PROVE  g[g[p].next].used
      <4>1. p \in Blk(h) /\ p # n /\ p \in Ptrs
        BY <1>1, <2>2, <3>4
      <4>2. CASE p = m
        <5>1. g[p].next = h[n].next
          BY Zenon, <4>1, <4>2, <2>5 DEF IsMerge
        <5>2. h[n].next \in Ptrs
          BY <1>1, <3>1, <3>4, <5>1
        <5> QED
          BY Zenon, <5>1, <5>2, <3>1, <3>3, <3>4, <2>5 DEF IsMerge
      <4>3. CASE p # m
        <5>1. g[p].next = h[p].next /\ ~h[p].used
          BY Zenon, <3>4, <4>1, <4>3, <2>5 DEF IsMerge
        <5>2. h[p].next \in Blk(h)
          BY <4>1, <3>4, <5>1, BlockFacts
        <5>3. h[h[p].next].used
          BY <4>1, <4>3, <5>1, <3>4 DEF Apart
        <5> QED
          BY ZenonT(60), <1>1, <5>1, <5>2, <5>3, <2>5 DEF IsMerge
      <4> QED
        BY <4>2, <4>3
    <3> QED
      BY <3>4 DEF ApartBehind
  <2> QED
    BY <2>2, <2>3, <2>4, <2>6, <2>7, <2>8 DEF g, k
<1>3. CASE ~(n # MemSize /\ ~h[n].used)
  <2>1. g = h /\ k = l
    BY <1>1, <1>3 DEF FreeNext, FreeNextLow
  <2>2. ApartBehind(h, m)
    BY <1>3 DEF Apart, ApartBehind
  <2>3. Same(h, h)
    BY DEF Same
  <2> HIDE DEF g, k
  <2>4. /\ Tiled(g) /\ m \in Blk(g) /\ ~g[m].used /\ ApartBehind(g, m)
        /\ Low(g, k) /\ k \in Blk(g) /\ k = l /\ Same(h, g)
        /\ m > 0 => h[m].prev \in Blk(g) /\ g[h[m].prev].next = m
    BY <1>1, <2>1, <2>2, <2>3
  <2> QED
    BY <2>4 DEF g, k
<1> QED
  BY <1>2, <1>3

\* The merge with the block before it leaves no two free blocks that touch.
LEMMA FreePrevStep ==
  ASSUME MemParams, NEW h, Tiled(h), NEW m \in Blk(h), ~h[m].used, ApartBehind(h, m),
         NEW l \in Blk(h), Low(h, l), NEW b,
         m > 0 => b \in Blk(h) /\ h[b].next = m, m = 0 => b = 0
  PROVE  LET g == FreePrev(h, m, b)
             k == FreePrevLow(h, l, m, b)
         IN  Tiled(g) /\ NoTouch(g) /\ Low(g, k) /\ k \in Blk(g) /\ k = l /\ Same(h, g)
<1> DEFINE g == FreePrev(h, m, b)
           k == FreePrevLow(h, l, m, b)
<1>1. m \in Int /\ m >= 0 /\ m < MemSize /\ MemSize \in Int /\ Blk(h) \subseteq Ptrs
  BY BlockFacts DEF Blk, MemParams
<1>a. \A p \in Blk(h) : h[p].next = m => m > 0 /\ p = b
  <2> SUFFICES ASSUME NEW p \in Blk(h), h[p].next = m PROVE m > 0 /\ p = b
    OBVIOUS
  <2>1. p \in Int /\ p >= 0 /\ m > p /\ h[m].prev = p
    BY <1>1, BlockFacts
  <2>2. m > 0
    BY <1>1, <2>1
  <2>3. h[m].prev = b
    BY <2>2, <1>1, BlockFacts
  <2> QED
    BY <2>1, <2>2, <2>3
<1>2. CASE b # m /\ ~h[b].used
  <2>0. m > 0 /\ b \in Blk(h) /\ h[b].next = m /\ m # MemSize
    BY <1>1, <1>2
  <2>1. g = Merge(h, b, m) /\ k = IF l = m THEN b ELSE l
    BY <1>2 DEF FreePrev, FreePrevLow
  <2>2. Tiled(g) /\ Blk(g) = Blk(h) \ {m}
    BY <2>0, <2>1, MergeTiled
  <2>3. Same(h, g)
    BY <2>0, <2>1, <1>2, MergeSame
  <2>4. Low(g, k) /\ k \in Blk(g) /\ k = l
    BY <2>0, <2>1, <1>2, MergeLow
  <2>5. IsMerge(g, h, b, m)
    BY <2>0, <2>1, MergeIs
  <2> HIDE DEF g, k
  <2>6. NoTouch(g)
    <3>1. h[m].next \in Blk(h) \cup {MemSize} /\ h[m].next # m
      BY <1>1, BlockFacts
    <3>2. h[m].next # MemSize => h[h[m].next].used
      BY <3>1 DEF ApartBehind
    <3>4. ASSUME NEW p \in Blk(g), ~g[p].used, g[p].next # MemSize
          PROVE  g[g[p].next].used
      <4>1. p \in Blk(h) /\ p # m /\ p \in Ptrs
        BY <1>1, <2>2, <3>4
      <4>2. CASE p = b
        <5>1. g[p].next = h[m].next
          BY Zenon, <4>1, <4>2, <2>5 DEF IsMerge
        <5>2. h[m].next \in Ptrs
          BY <1>1, <3>1, <3>4, <5>1
        <5> QED
          BY Zenon, <5>1, <5>2, <3>1, <3>2, <3>4, <2>5 DEF IsMerge
      <4>3. CASE p # b
        <5>1. g[p].next = h[p].next /\ ~h[p].used
          BY Zenon, <3>4, <4>1, <4>3, <2>5 DEF IsMerge
        <5>2. h[p].next \in Blk(h) /\ h[p].next # m
          BY <4>1, <4>3, <3>4, <5>1, <1>a, BlockFacts
        <5>3. h[h[p].next].used
          BY <4>1, <5>1, <5>2, <3>4 DEF ApartBehind
        <5> QED
          BY Zenon, <1>1, <5>1, <5>2, <5>3, <2>5 DEF IsMerge
      <4> QED
        BY <4>2, <4>3
    <3> QED
      BY <3>4 DEF NoTouch
  <2> QED
    BY <2>2, <2>3, <2>4, <2>6 DEF g, k
<1>3. CASE ~(b # m /\ ~h[b].used)
  <2>1. g = h /\ k = l
    BY <1>3 DEF FreePrev, FreePrevLow
  <2>2. NoTouch(h)
    <3> SUFFICES ASSUME NEW p \in Blk(h), ~h[p].used, h[p].next # MemSize PROVE h[h[p].next].used
      BY DEF NoTouch
    <3>1. CASE h[p].next # m
      BY <3>1 DEF ApartBehind
    <3>2. CASE h[p].next = m
      BY <3>2, <1>a, <1>3, BlockFacts
    <3> QED
      BY <3>1, <3>2
  <2>3. Same(h, h)
    BY DEF Same
  <2> QED
    BY <2>1, <2>2, <2>3
<1> QED
  BY <1>2, <1>3

\* mem_free of the used block m: the heap and lfree it leaves.
FreeHeap(h, m) == FreePrev(FreeNext(Unused(h, m), m), m, h[m].prev)
\* lfree after the merges is the lowest free block again.
FreeLow(h, l, m) ==
  FreePrevLow(FreeNext(Unused(h, m), m), FreeNextLow(Unused(h, m), IF m < l THEN m ELSE l, m),
              m, h[m].prev)

\* mem_free keeps the heap tiled, with no two free blocks that touch, lfree
\* the lowest, and every other used block in place.
LEMMA FreeStep ==
  ASSUME MemParams, NEW h, Tiled(h), NoTouch(h), NEW m \in Blk(h), h[m].used,
         NEW l, Low(h, l)
  PROVE  LET g == FreeHeap(h, m)
             k == FreeLow(h, l, m)
         IN  /\ Tiled(g) /\ NoTouch(g) /\ Low(g, k) /\ k \in Blk(g)
             /\ Kept(h, g, m) /\ From(h, g, m) /\ (k = l \/ ~g[k].used)
<1> DEFINE h1 == Unused(h, m)
           l1 == IF m < l THEN m ELSE l
           h2 == FreeNext(h1, m)
           l2 == FreeNextLow(h1, l1, m)
           h3 == FreePrev(h2, m, h[m].prev)
           l3 == FreePrevLow(h2, l2, m, h[m].prev)
<1>0. h \in Heaps /\ m \in Ptrs /\ (m = 0 => h[m].prev = 0) /\ m \in Int /\ m >= 0
  BY ZenonT(60), BlockFacts DEF Tiled, Blk, Links
<1>1. /\ Tiled(h1) /\ Blk(h1) = Blk(h) /\ ~h1[m].used /\ h1[m].prev = h[m].prev
  BY Zenon, <1>0, UnusedTiled, UnusedAt
<1>2. /\ Apart(h1, m) /\ Low(h1, l1) /\ l1 \in Blk(h1)
      /\ Kept(h, h1, m) /\ From(h, h1, m) /\ (l1 = l \/ ~h1[l1].used)
  BY FreeFlag
<1> HIDE DEF h1, l1
<1>3. /\ Tiled(h2) /\ m \in Blk(h2) /\ ~h2[m].used /\ ApartBehind(h2, m)
      /\ Low(h2, l2) /\ l2 \in Blk(h2) /\ l2 = l1 /\ Same(h1, h2)
      /\ m > 0 => h1[m].prev \in Blk(h2) /\ h2[h1[m].prev].next = m
  BY Zenon, <1>1, <1>2, FreeNextStep
<1> HIDE DEF h2, l2
<1>4. Tiled(h3) /\ NoTouch(h3) /\ Low(h3, l3) /\ l3 \in Blk(h3) /\ l3 = l2 /\ Same(h2, h3)
  <2>1. m > 0 => h[m].prev \in Blk(h2) /\ h2[h[m].prev].next = m
    BY <1>1, <1>3
  <2> QED
    BY <1>0, <1>3, <2>1, FreePrevStep
<1> HIDE DEF h3, l3
<1>5. Kept(h, h3, m)
  BY <1>2, <1>3, <1>4 DEF Kept, Same
<1>6. From(h, h3, m)
  BY <1>2, <1>3, <1>4 DEF From, Same
<1>7. l3 = l \/ ~h3[l3].used
  BY <1>1, <1>2, <1>3, <1>4 DEF Same
<1>8. /\ Tiled(h3) /\ NoTouch(h3) /\ Low(h3, l3) /\ l3 \in Blk(h3)
      /\ Kept(h, h3, m) /\ From(h, h3, m) /\ (l3 = l \/ ~h3[l3].used)
  BY <1>4, <1>5, <1>6, <1>7
<1> QED
  BY <1>8 DEF h3, l3, h2, l2, h1, l1, FreeHeap, FreeLow

(***************************************************************************)
(* The inductive invariant, on the fields of the state.                    *)
(***************************************************************************)
Runs == [at : {"idle", "scan", "lfree"}, ptr : Ptrs, size : Nat, cur : Ptrs, freed : BOOLEAN]

\* The bytes of a block behind its header.
Room(h, p) == h[p].next - (p + Hdr)

\* The used blocks are the ones held, and the one mem_malloc has just taken.
Owned(h, d, r) ==
  /\ d \subseteq [ptr : Ptrs, size : Sizes]
  /\ \A m \in d : m.ptr \in Blk(h) /\ h[m.ptr].used /\ Room(h, m.ptr) >= m.size
  /\ \A m, n \in d : m.ptr = n.ptr => m = n
  /\ r.at = "lfree" => \A m \in d : m.ptr # r.ptr
  /\ \A p \in Blk(h) : h[p].used => (\E m \in d : m.ptr = p) \/ (r.at = "lfree" /\ p = r.ptr)

\* Nothing before the block that is looked at next fits, unless something
\* was freed since it was chosen.
Scanning(h, r) ==
  r.at = "scan" =>
    /\ r.size \in Sizes
    /\ ~r.freed => /\ r.ptr \in Blk(h)
                   /\ \A p \in Blk(h) : p < r.ptr => h[p].used \/ Room(h, p) < AlignedSize(r.size)

\* The block taken, and the search for the new lowest free block.
Adjusting(h, l, r) ==
  r.at = "lfree" =>
    /\ r.size \in Sizes
    /\ r.ptr \in Blk(h) /\ h[r.ptr].used /\ Room(h, r.ptr) >= r.size
    /\ l \in Blk(h) /\ (l = r.ptr \/ ~h[l].used)
    /\ ~r.freed => /\ r.cur \in Blk(h) /\ h[r.cur].used
                   /\ \A p \in Blk(h) : ~h[p].used => r.cur <= p

\* mem_malloc has returned NULL: nothing is large enough.
Refused(h, r, f) ==
  f # 0 /\ r.at = "idle" => \A p \in Blk(h) : h[p].used \/ Room(h, p) < AlignedSize(f)

\* The inductive invariant on the fields: the heap is tiled, no two free
\* blocks touch, lfree is the lowest, the used blocks are those the program
\* holds or the one mem_malloc is about to return, and the scan has passed
\* over no block that would do unless a free has been noticed.
Good(h, l, d, r, f) ==
  /\ Tiled(h) /\ NoTouch(h) /\ Low(h, l)
  /\ r \in Runs /\ f \in Nat
  /\ r.at # "lfree" /\ l # MemSize => ~h[l].used
  /\ Owned(h, d, r) /\ Scanning(h, r) /\ Adjusting(h, l, r) /\ Refused(h, r, f)

MemInv == /\ mem = Rec(mem.h, mem.lfree, mem.held, mem.run, mem.failed, mem.pool)
          /\ Good(mem.h, mem.lfree, mem.held, mem.run, mem.failed)

\* Storage was given back while r was running.
NoticedRun(r) == IF r.at = "idle" THEN r ELSE [r EXCEPT !.freed = TRUE]

\* mem_free_count tells the scan, and changes nothing else of it.
LEMMA NoticedRunFields ==
  ASSUME NEW r \in Runs
  PROVE  /\ NoticedRun(r) \in Runs
         /\ NoticedRun(r).at = r.at /\ NoticedRun(r).ptr = r.ptr /\ NoticedRun(r).size = r.size
         /\ r.at # "idle" => NoticedRun(r).freed
BY Zenon DEF NoticedRun, Runs

\* g and k are h and l after memory was given back beside the block at m.
GivenBack(h, l, g, k, m) ==
  /\ Tiled(g) /\ NoTouch(g) /\ Low(g, k) /\ k \in Blk(g) /\ Kept(h, g, m)
  /\ \A q \in Blk(g) : g[q].used => q \in Blk(h) /\ h[q].used
  /\ k = l \/ ~g[k].used

\* Giving memory back while mem_malloc scans keeps the invariant, because the
\* scan is told to start again.
LEMMA GivenBackGood ==
  ASSUME MemParams, NEW h, NEW l, NEW d, NEW r, NEW f, Good(h, l, d, r, f),
         NEW g, NEW k, NEW m, GivenBack(h, l, g, k, m), NEW e, Owned(g, e, r),
         r.at = "lfree" => r.ptr # m
  PROVE  Good(g, k, e, NoticedRun(r), 0)
<1> DEFINE x == NoticedRun(r)
<1>1. /\ x \in Runs /\ x.at = r.at /\ x.ptr = r.ptr /\ x.size = r.size
      /\ r.at # "idle" => x.freed
  BY NoticedRunFields DEF Good
<1> HIDE DEF x
<1>2. k # MemSize
  BY DEF GivenBack, Tiled, Links
<1>3. r.at # "lfree" => ~g[k].used
  BY <1>2 DEF GivenBack, Good
<1>4. Owned(g, e, x)
  BY <1>1 DEF Owned
<1>5. Scanning(g, x)
  BY <1>1 DEF Scanning, Good
<1>6. Adjusting(g, k, x)
  <2> SUFFICES ASSUME r.at = "lfree" PROVE Adjusting(g, k, x)
    BY <1>1 DEF Adjusting
  <2>1. /\ r.size \in Sizes /\ r.ptr \in Blk(h) /\ h[r.ptr].used /\ Room(h, r.ptr) >= r.size
        /\ l \in Blk(h) /\ (l = r.ptr \/ ~h[l].used)
    BY DEF Good, Adjusting
  <2>2. r.ptr \in Blk(g) /\ g[r.ptr].used /\ g[r.ptr].next = h[r.ptr].next
    BY <2>1 DEF GivenBack, Kept
  <2>3. Room(g, r.ptr) >= r.size
    BY <2>1, <2>2 DEF Room
  <2>4. k \in Blk(g) /\ (k = r.ptr \/ ~g[k].used)
    BY <2>1 DEF GivenBack
  <2>5. x.freed
    BY <1>1
  <2> QED
    BY <1>1, <2>1, <2>2, <2>3, <2>4, <2>5 DEF Adjusting
<1>7. Refused(g, x, 0)
  BY DEF Refused
<1>8. Good(g, k, e, x, 0)
  BY <1>1, <1>3, <1>4, <1>5, <1>6, <1>7 DEF Good, GivenBack
<1> QED
  BY <1>8 DEF x

\* mem_free
LEMMA FreeGood ==
  ASSUME MemParams, NEW h, NEW l, NEW d, NEW r, NEW f, Good(h, l, d, r, f), NEW m \in d
  PROVE  Good(FreeHeap(h, m.ptr), FreeLow(h, l, m.ptr), d \ {m}, NoticedRun(r), 0)
<1> DEFINE g == FreeHeap(h, m.ptr)
           k == FreeLow(h, l, m.ptr)
<1>1. /\ m.ptr \in Blk(h) /\ h[m.ptr].used /\ (r.at = "lfree" => r.ptr # m.ptr)
      /\ d \subseteq [ptr : Ptrs, size : Sizes]
  BY DEF Good, Owned
<1>2. Tiled(h) /\ NoTouch(h) /\ Low(h, l)
  BY DEF Good
<1>3. /\ Tiled(g) /\ NoTouch(g) /\ Low(g, k) /\ k \in Blk(g)
      /\ Kept(h, g, m.ptr) /\ From(h, g, m.ptr) /\ (k = l \/ ~g[k].used)
  BY Zenon, <1>1, <1>2, FreeStep
<1> HIDE DEF g, k
<1>4. GivenBack(h, l, g, k, m.ptr)
  BY <1>3 DEF GivenBack, From
<1>5. Owned(g, d \ {m}, r)
  <2>1. \A n \in d \ {m} : n.ptr \in Blk(g) /\ g[n.ptr].used /\ Room(g, n.ptr) >= n.size
    <3> SUFFICES ASSUME NEW n \in d, n # m
                 PROVE  n.ptr \in Blk(g) /\ g[n.ptr].used /\ Room(g, n.ptr) >= n.size
      OBVIOUS
    <3>1. n.ptr \in Blk(h) /\ h[n.ptr].used /\ Room(h, n.ptr) >= n.size /\ n.ptr # m.ptr
      BY DEF Good, Owned
    <3>2. n.ptr \in Blk(g) /\ g[n.ptr].used /\ g[n.ptr].next = h[n.ptr].next
      BY <3>1, <1>3 DEF Kept
    <3> QED
      BY <3>1, <3>2 DEF Room
  <2>2. \A p \in Blk(g) : g[p].used => (\E n \in d \ {m} : n.ptr = p) \/ (r.at = "lfree" /\ p = r.ptr)
    <3> SUFFICES ASSUME NEW p \in Blk(g), g[p].used
                 PROVE  (\E n \in d \ {m} : n.ptr = p) \/ (r.at = "lfree" /\ p = r.ptr)
      OBVIOUS
    <3>1. p \in Blk(h) /\ h[p].used /\ p # m.ptr
      BY <1>3 DEF From
    <3>2. (\E n \in d : n.ptr = p) \/ (r.at = "lfree" /\ p = r.ptr)
      BY <3>1 DEF Good, Owned
    <3> QED
      BY <3>1, <3>2
  <2>3. /\ \A a, b \in d \ {m} : a.ptr = b.ptr => a = b
        /\ r.at = "lfree" => \A a \in d \ {m} : a.ptr # r.ptr
        /\ d \ {m} \subseteq [ptr : Ptrs, size : Sizes]
    BY DEF Good, Owned
  <2> QED
    BY <2>1, <2>2, <2>3 DEF Owned
<1>6. Good(g, k, d \ {m}, NoticedRun(r), 0)
  BY <1>1, <1>4, <1>5, GivenBackGood
<1> QED
  BY <1>6 DEF g, k

\* What cutting a free block q off the end of the used block m does.
CutOff(h, g, m, q) ==
  /\ Tiled(g) /\ NoTouch(g) /\ Kept(h, g, m)
  /\ m \in Blk(g) /\ g[m].used /\ g[m].next = q /\ q \in Blk(g) /\ ~g[q].used
  /\ \A p \in Blk(g) : p = q \/ (p \in Blk(h) /\ (g[p].used <=> h[p].used))

\* A cut off a used block, with a used block or the end behind it.
LEMMA CutStep ==
  ASSUME MemParams, NEW h, Tiled(h), NoTouch(h), NEW m \in Blk(h), h[m].used,
         h[m].next # MemSize => h[h[m].next].used,
         NEW q \in Int, q >= m + Hdr + MinSize, h[m].next >= q + Hdr + MinSize
  PROVE  CutOff(h, Cut(h, m, q), m, q)
<1> DEFINE g == Cut(h, m, q)
           n == h[m].next
<1>a. /\ Tiled(g) /\ Blk(g) = Blk(h) \cup {q}
      /\ q \in Ptrs /\ q \notin Blk(h) /\ q # MemSize
  BY CutTiled
<1>b. /\ m \in Ptrs /\ n \in Ptrs /\ h \in Heaps /\ m \in Int /\ n \in Int /\ MinSize \in Int
      /\ MinSize > 0
  BY BlockFacts DEF Tiled, MemParams
<1>c. m # q /\ n # m /\ n # q
  BY <1>b DEF Hdr
<1>d. IsCut(g, h, m, q, n)
  BY <1>a, <1>b, <1>c, CutAt DEF Cut
<1>1. /\ Tiled(g) /\ Blk(g) = Blk(h) \cup {q}
      /\ q \in Ptrs /\ q \notin Blk(h) /\ q # MemSize
      /\ \A p \in Ptrs : /\ g[p].next = IF p = m THEN q ELSE IF p = q THEN n ELSE h[p].next
                         /\ g[p].used = IF p = q THEN FALSE ELSE h[p].used
  <2> HIDE DEF g
  <2> QED
    BY Zenon, <1>a, <1>d DEF IsCut
<1>2. Blk(h) \subseteq Ptrs /\ \A p \in Blk(h) : h[p].next \in Blk(h) \cup {MemSize}
  BY BlockFacts DEF Blk
<1> HIDE DEF g
<1>3. /\ m \in Blk(g) /\ g[m].used /\ g[m].next = q /\ q \in Blk(g) /\ ~g[q].used
      /\ \A p \in Blk(g) : p = q \/ (p \in Blk(h) /\ (g[p].used <=> h[p].used))
  BY Zenon, <1>1, <1>2
<1>4. Kept(h, g, m)
  BY Zenon, <1>1, <1>2 DEF Kept
<1>5. ASSUME NEW p \in Blk(g), ~g[p].used, g[p].next # MemSize PROVE g[g[p].next].used
  <2>1. CASE p = q
    BY Zenon, <2>1, <1>1, <1>2, <1>5
  <2>2. CASE p # q
    <3>1. p \in Blk(h) /\ p # m /\ ~h[p].used /\ g[p].next = h[p].next
      BY Zenon, <2>2, <1>1, <1>2, <1>5
    <3>2. h[p].next \in Blk(h) /\ h[h[p].next].used
      BY <3>1, <1>2, <1>5 DEF NoTouch
    <3> QED
      BY Zenon, <3>1, <3>2, <1>1, <1>2
  <2> QED
    BY <2>1, <2>2
<1>6. CutOff(h, g, m, q)
  BY <1>1, <1>3, <1>4, <1>5 DEF CutOff, NoTouch
<1> QED
  BY <1>6 DEF g

\* mem_trim merges the rest with the free block behind.
TrimHeap(h, m, q) == CutTo([h EXCEPT ![h[m].next] = Nothing], m, q, h[h[m].next].next)

\* mem_trim into a free block behind is a merge and a cut.
LEMMA TrimHeapCut ==
  ASSUME MemParams, NEW h, Tiled(h), NEW m \in Blk(h), h[m].next # MemSize,
         NEW q \in Int, q > m, q < h[m].next
  PROVE  TrimHeap(h, m, q) = Cut(Merge(h, m, h[m].next), m, q)
<1> DEFINE n == h[m].next
           nn == h[n].next
           h1 == [h EXCEPT ![n] = Nothing]
           h2 == Merge(h, m, n)
           a == CutTo(h1, m, q, nn)
           b == CutTo(h2, m, q, nn)
<1>1. /\ n \in Blk(h) /\ m \in Int /\ m < n /\ n < nn /\ {m, n, nn} \subseteq Ptrs /\ n \in Int
      /\ nn \in Int /\ m >= 0 /\ n <= MemSize /\ MemSize \in Int /\ h \in Heaps
  BY BlockFacts DEF Blk, Tiled, MemParams
<1>2. q \in Ptrs /\ m # q /\ nn # m /\ nn # q /\ n # m /\ n # nn
  BY <1>1 DEF Ptrs
<1>3. /\ h2 \in Heaps
      /\ \A p \in Ptrs :
              /\ h2[p].next = IF p = m THEN nn ELSE IF p = n THEN MemSize ELSE h[p].next
              /\ h2[p].prev = IF p = n THEN MemSize
                             ELSE IF p = nn /\ p # MemSize THEN m ELSE h[p].prev
              /\ h2[p].used = IF p = n THEN TRUE ELSE h[p].used
  BY ZenonT(60), MergeAt
<1>4. Nothing \in Headers
  BY PtrsInt DEF Nothing, Headers
<1>5. /\ h1 \in Heaps
      /\ \A p \in Ptrs : h1[p] = IF p = n THEN Nothing ELSE h[p]
  BY <1>1, <1>4 DEF Heaps
<1>6. Nothing.next = MemSize /\ Nothing.prev = MemSize /\ Nothing.used = TRUE
  BY DEF Nothing
<1> HIDE DEF h1, h2
<1>7. IsCut(a, h1, m, q, nn)
  BY <1>1, <1>2, <1>5, CutAt
<1>8. IsCut(b, h2, m, q, nn)
  BY <1>1, <1>2, <1>3, CutAt
<1> HIDE DEF a, b
<1>9. \A p \in Ptrs : a[p].next = b[p].next /\ a[p].prev = b[p].prev /\ a[p].used = b[p].used
  <2> SUFFICES ASSUME NEW p \in Ptrs
               PROVE  a[p].next = b[p].next /\ a[p].prev = b[p].prev /\ a[p].used = b[p].used
    OBVIOUS
  <2> HIDE DEF n, nn
  <2>1. /\ a[p].next = (IF p = m THEN q ELSE IF p = q THEN nn ELSE h1[p].next)
        /\ a[p].prev = (IF p = q THEN m ELSE IF p = nn /\ p # MemSize THEN q ELSE h1[p].prev)
        /\ a[p].used = (IF p = q THEN FALSE ELSE h1[p].used)
    BY Zenon, <1>7 DEF IsCut
  <2>2. /\ b[p].next = (IF p = m THEN q ELSE IF p = q THEN nn ELSE h2[p].next)
        /\ b[p].prev = (IF p = q THEN m ELSE IF p = nn /\ p # MemSize THEN q ELSE h2[p].prev)
        /\ b[p].used = (IF p = q THEN FALSE ELSE h2[p].used)
    BY Zenon, <1>8 DEF IsCut
  <2>3. /\ p # m => h1[p].next = h2[p].next
        /\ h1[p].used = h2[p].used
        /\ (p = nn /\ p # MemSize) \/ h1[p].prev = h2[p].prev
    <3>1. CASE p = n
      BY Zenon, <3>1, <1>2, <1>3, <1>5, <1>6
    <3>2. CASE p # n
      <4>1. h1[p] = h[p]
        BY <3>2, <1>5
      <4> QED
        BY Zenon, <3>2, <4>1, <1>3
    <3> QED
      BY <3>1, <3>2
  <2> QED
    BY <2>1, <2>2, <2>3
<1>10. a = b
  BY <1>7, <1>8, <1>9, HeapEq DEF IsCut
<1>11. h2[m].next = nn
  BY Zenon, <1>1, <1>3
<1> QED
  BY <1>10, <1>11 DEF a, b, h1, h2, Cut, TrimHeap

\* mem_trim with a free block behind moves that block forward.
LEMMA TrimMergeStep ==
  ASSUME MemParams, NEW h, Tiled(h), NoTouch(h), NEW m \in Blk(h), h[m].used,
         h[m].next # MemSize, ~h[h[m].next].used, NEW l, Low(h, l),
         NEW q \in Int, q >= m + Hdr + MinSize, q < h[m].next
  PROVE  LET g == TrimHeap(h, m, q)
             k == IF l = h[m].next THEN q ELSE l
         IN  GivenBack(h, l, g, k, m) /\ m \in Blk(g) /\ g[m].used /\ g[m].next = q
<1> DEFINE n == h[m].next
           nn == h[n].next
           j == Merge(h, m, n)
           g == TrimHeap(h, m, q)
           k == IF l = n THEN q ELSE l
<1>1. /\ n \in Blk(h) /\ m \in Int /\ n \in Int /\ nn \in Int /\ m < n /\ nn >= n + 1 + MinSize
      /\ n # nn /\ nn \in Blk(h) \cup {MemSize} /\ Blk(h) \subseteq Ptrs /\ m \in Ptrs /\ n \in Ptrs
      /\ MinSize \in Int /\ MinSize > 0
      /\ \A p \in Blk(h) : p \in Int /\ (p <= m \/ p >= n)
  <2>1. MinSize \in Int /\ MinSize > 0 /\ Blk(h) \subseteq Ptrs
    BY DEF Blk, MemParams
  <2>2. n \in Blk(h) /\ m \in Int /\ m \in Ptrs /\ m < n
    BY BlockFacts
  <2>3. \A p \in Blk(h) : p <= m \/ p >= n
    BY BlockFacts
  <2>4. \A p \in Blk(h) : p \in Int
    BY BlockFacts
  <2> HIDE DEF n
  <2>5. /\ n \in Int /\ n \in Ptrs /\ nn \in Int /\ nn >= n + 1 + MinSize
        /\ nn \in Blk(h) \cup {MemSize}
    BY <2>2, BlockFacts
  <2> HIDE DEF nn
  <2>6. n # nn
    BY <2>1, <2>5
  <2> QED
    BY <2>1, <2>2, <2>3, <2>4, <2>5, <2>6
<1>2. q > m
  BY <1>1 DEF Hdr
<1>3. g = Cut(j, m, q)
  BY <1>2, TrimHeapCut
<1>4. Tiled(j) /\ Blk(j) = Blk(h) \ {n}
  BY MergeTiled
<1>5. IsMerge(j, h, m, n)
  BY MergeIs
<1> HIDE DEF j
<1>6. j[m].next = nn /\ j[m].used /\ m \in Blk(j)
  BY Zenon, <1>1, <1>4, <1>5 DEF IsMerge
<1>7. nn # MemSize => nn \in Ptrs /\ h[nn].used /\ j[nn].used
  BY ZenonT(60), <1>1, <1>5 DEF IsMerge, NoTouch
<1>8. NoTouch(j)
  <2> SUFFICES ASSUME NEW p \in Blk(j), ~j[p].used, j[p].next # MemSize PROVE j[j[p].next].used
    BY DEF NoTouch
  <2>1. p \in Blk(h) /\ p # n /\ p # m /\ p \in Ptrs
    BY <1>1, <1>4, <1>6
  <2>2. j[p].next = h[p].next /\ ~h[p].used
    BY ZenonT(60), <2>1, <1>5 DEF IsMerge
  <2>3. h[p].next \in Blk(h) /\ h[h[p].next].used
    BY <2>1, <2>2, BlockFacts DEF NoTouch
  <2> QED
    BY Zenon, <2>2, <2>3, <1>1, <1>5 DEF IsMerge
<1>9. CutOff(j, g, m, q)
  <2>1. q < n
    OBVIOUS
  <2> HIDE DEF g, n, nn
  <2>2. nn >= q + Hdr + MinSize
    BY <2>1, <1>1 DEF Hdr
  <2> QED
    BY <2>2, <1>3, <1>4, <1>6, <1>7, <1>8, CutStep
<1> HIDE DEF g
<1>10. Kept(h, g, m)
  <2>1. Kept(h, j, m)
    BY Zenon, <1>1, <1>4, <1>5 DEF Kept, IsMerge
  <2> QED
    BY <2>1, <1>9 DEF Kept, CutOff
<1>11. \A p \in Blk(g) : p = q \/ (p \in Blk(h) /\ p # n /\ (g[p].used <=> h[p].used))
  BY ZenonT(60), <1>1, <1>4, <1>5, <1>9 DEF CutOff, IsMerge
<1>12. \A p \in Blk(g) : g[p].used => p \in Blk(h) /\ h[p].used
  BY <1>9, <1>11 DEF CutOff
<1>13. Low(g, k) /\ k \in Blk(g) /\ (k = l \/ ~g[k].used)
  <2>1. CASE l = n
    <3>1. ASSUME NEW p \in Blk(g), ~g[p].used PROVE q <= p
      <4>1. CASE p # q
        <5>1. p \in Blk(h) /\ ~h[p].used
          BY <4>1, <1>11, <3>1
        <5>2. n <= p
          BY <5>1, <2>1 DEF Low
        <5> QED
          BY <5>1, <5>2, <1>1
      <4> QED
        BY <4>1
    <3> QED
      BY <3>1, <2>1, <1>9 DEF Low, CutOff
  <2>2. CASE l # n
    <3>1. l <= n /\ l \in Blk(h) /\ l \in Int
      <4>1. l <= n /\ l \in Blk(h) \cup {MemSize}
        BY <1>1 DEF Low
      <4>2. n < MemSize /\ MemSize \in Int
        BY <1>1, BlockFacts DEF MemParams
      <4>3. l # MemSize
        BY <4>1, <4>2, <1>1
      <4> QED
        BY <4>1, <4>3, <1>1
    <3>2. l <= m
      BY <3>1, <2>2, <1>1
    <3>3. l \in Blk(g)
      <4>1. CASE l = m
        BY <4>1, <1>9 DEF CutOff
      <4>2. CASE l # m
        <5>1. l \in Blk(j)
          BY <3>1, <2>2, <1>4
        <5>2. j[l].used => l \in Blk(g)
          BY <4>2, <5>1, <1>9 DEF CutOff, Kept
        <5>3. Blk(g) = Blk(j) \cup {q}
          <6>1. q >= m + Hdr + MinSize /\ j[m].next >= q + Hdr + MinSize
            BY <1>1, <1>6 DEF Hdr
          <6> QED
            BY <1>3, <1>4, <1>6, <6>1, CutTiled
        <5> QED
          BY <5>1, <5>3
      <4> QED
        BY <4>1, <4>2
    <3>4. ASSUME NEW p \in Blk(g), ~g[p].used PROVE l <= p
      <4>1. CASE p = q
        BY <4>1, <3>1, <3>2, <1>1, <1>2
      <4>2. CASE p # q
        BY <4>2, <1>11, <3>4 DEF Low
      <4> QED
        BY <4>1, <4>2
    <3> QED
      BY <3>3, <3>4, <2>2 DEF Low
  <2> QED
    BY <2>1, <2>2
<1>14. GivenBack(h, l, g, k, m) /\ m \in Blk(g) /\ g[m].used /\ g[m].next = q
  BY <1>9, <1>10, <1>12, <1>13 DEF GivenBack, CutOff
<1> QED
  BY <1>14 DEF g

\* mem_trim with a used block behind makes a new free block.
LEMMA TrimSplitStep ==
  ASSUME MemParams, NEW h, Tiled(h), NoTouch(h), NEW m \in Blk(h), h[m].used,
         h[m].next # MemSize => h[h[m].next].used, NEW l, Low(h, l),
         NEW q \in Int, q >= m + Hdr + MinSize, h[m].next >= q + Hdr + MinSize
  PROVE  LET g == Cut(h, m, q)
             k == IF q < l THEN q ELSE l
         IN  GivenBack(h, l, g, k, m) /\ m \in Blk(g) /\ g[m].used /\ g[m].next = q
<1> DEFINE g == Cut(h, m, q)
           k == IF q < l THEN q ELSE l
<1>1. CutOff(h, g, m, q)
  BY CutStep
<1>2. Blk(g) = Blk(h) \cup {q} /\ q \in Ptrs /\ q # MemSize
  BY CutTiled
<1>3. Blk(h) \subseteq Int /\ MemSize \in Int /\ l \in Int /\ Blk(g) \subseteq Int /\ q <= MemSize
  BY <1>2, PtrsInt DEF Blk, MemParams, Low, Ptrs
<1> HIDE DEF g
<1>4. k \in Blk(g)
  BY <1>2, <1>3 DEF Low
<1>5. ASSUME NEW p \in Blk(g), ~g[p].used PROVE k <= p
  <2>1. CASE p = q
    BY <2>1, <1>3
  <2>2. CASE p # q
    <3>1. l <= p
      BY <2>2, <1>1, <1>5 DEF Low, CutOff
    <3> QED
      BY <3>1, <1>3
  <2> QED
    BY <2>1, <2>2
<1>6. k = l \/ ~g[k].used
  BY <1>1 DEF CutOff
<1>7. \A p \in Blk(g) : g[p].used => p \in Blk(h) /\ h[p].used
  BY <1>1 DEF CutOff
<1>8. GivenBack(h, l, g, k, m) /\ m \in Blk(g) /\ g[m].used /\ g[m].next = q
  BY <1>1, <1>4, <1>5, <1>6, <1>7 DEF GivenBack, CutOff, Low
<1> QED
  BY <1>8 DEF g
=============================================================================

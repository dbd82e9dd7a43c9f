----------------------------- MODULE MemProofs ------------------------------
(***************************************************************************)
(* The heap of mem.c and a pool of memp.c, for every size: each call, each turn *)
(* of mem_malloc's scan and everything another context does in between keeps *)
(* the inductive invariant HeapInv, and HeapInv implies what the runs check. *)
(*                                                                         *)
(* What HeapTiles says is not inductive by itself: that mem_malloc may take the *)
(* block its scan stands on needs what the scan has seen (Scanning), that lfree *)
(* may be advanced needs what lies below it (Adjusting), and both hold only *)
(* because a free in between is noticed through mem_free_count.            *)
(***************************************************************************)
EXTENDS MemBlocks

\* The steps of mem_trim, on the record.
LEMMA NoticedRec ==
  ASSUME NEW h, NEW l, NEW d, NEW r, NEW f, NEW p
  PROVE  Noticed(Rec(h, l, d, r, f, p)) = Rec(h, l, d, NoticedRun(r), f, p)
<1> DEFINE s == Rec(h, l, d, r, f, p)
           x == [r EXCEPT !.freed = TRUE]
<1>1. s.run = r
  BY RecFields
<1>2. [s EXCEPT !.run.freed = TRUE] = [s EXCEPT !.run = x]
  <2> HIDE DEF s
  <2> QED
    BY <1>1
<1>3. [s EXCEPT !.run = x] = Rec(h, l, d, x, f, p)
  <2> HIDE DEF x
  <2> QED
    BY ONLY SetRun
<1>4. [s EXCEPT !.run.freed = TRUE] = Rec(h, l, d, x, f, p)
  BY <1>2, <1>3
<1> HIDE DEF s
<1>5. Noticed(s) = Rec(h, l, d, NoticedRun(r), f, p)
  <2>1. CASE r.at = "idle"
    BY <2>1, <1>1 DEF Noticed, NoticedRun, s
  <2>2. CASE r.at # "idle"
    <3>1. Noticed(s) = [s EXCEPT !.run.freed = TRUE]
      BY <2>2, <1>1 DEF Noticed
    <3>2. NoticedRun(r) = x
      BY <2>2 DEF NoticedRun
    <3> QED
      BY <3>1, <3>2, <1>4
  <2> QED
    BY <2>1, <2>2
<1> QED
  BY <1>5 DEF s

LEMMA TrimNextRec ==
  ASSUME NEW h, NEW l, NEW d, NEW r, NEW f, NEW p, NEW m, NEW q, NEW n
  PROVE  TrimNext(Rec(h, l, d, r, f, p), m, q, n) = Rec(CutTo(h, m, q, n), l, d, r, f, p)
<1> DEFINE s == Rec(h, l, d, r, f, p)
           x == CutTo(h, m, q, n)
<1>1. s.h = h
  BY RecFields
<1>2. TrimNext(s, m, q, n) = [s EXCEPT !.h = x]
  <2> HIDE DEF s
  <2> QED
    BY <1>1 DEF TrimNext, CutTo
<1>3. [s EXCEPT !.h = x] = Rec(x, l, d, r, f, p)
  <2> HIDE DEF x
  <2> QED
    BY ONLY SetHeap
<1> QED
  BY <1>2, <1>3

LEMMA TrimMergeRec ==
  ASSUME NEW h, NEW l, NEW d, NEW r, NEW f, NEW p, NEW m, NEW q
  PROVE  TrimMerge(Rec(h, l, d, r, f, p), m, q) =
           Rec(TrimHeap(h, m, q), IF l = h[m].next THEN q ELSE l, d, r, f, p)
<1> DEFINE s == Rec(h, l, d, r, f, p)
           k == IF l = h[m].next THEN q ELSE l
           x == [h EXCEPT ![h[m].next] = Nothing]
           t == [s EXCEPT !.lfree = IF @ = s.h[m].next THEN q ELSE @, !.h[s.h[m].next] = Nothing]
<1>1. s.h = h /\ s.lfree = l
  BY RecFields
<1>2. t = WithLowHeap(s, k, x)
  <2> HIDE DEF s
  <2> QED
    BY Zenon, <1>1 DEF WithLowHeap
<1>3. WithLowHeap(s, k, x) = Rec(x, k, d, r, f, p)
  BY SetLowHeap
<1>4. t = Rec(x, k, d, r, f, p)
  BY <1>2, <1>3
<1>5. TrimMerge(s, m, q) = TrimNext(t, m, q, s.h[s.h[m].next].next)
  BY DEF TrimMerge
<1> HIDE DEF t, k, x
<1>6. TrimNext(t, m, q, h[h[m].next].next) = Rec(CutTo(x, m, q, h[h[m].next].next), k, d, r, f, p)
  BY <1>4, TrimNextRec
<1>7. TrimMerge(s, m, q) = Rec(CutTo(x, m, q, h[h[m].next].next), k, d, r, f, p)
  <2> HIDE DEF s
  <2> QED
    BY <1>1, <1>5, <1>6
<1> QED
  BY <1>7 DEF TrimHeap, x, k

LEMMA TrimSplitRec ==
  ASSUME NEW h, NEW l, NEW d, NEW r, NEW f, NEW p, NEW m, NEW q
  PROVE  TrimSplit(Rec(h, l, d, r, f, p), m, q) =
           Rec(Cut(h, m, q), IF q < l THEN q ELSE l, d, r, f, p)
<1> DEFINE s == Rec(h, l, d, r, f, p)
           k == IF q < l THEN q ELSE l
           t == [s EXCEPT !.lfree = IF q < @ THEN q ELSE @]
<1>1. s.h = h /\ s.lfree = l
  BY RecFields
<1>2. t = [s EXCEPT !.lfree = k]
  <2> HIDE DEF s
  <2> QED
    BY <1>1
<1>3. [s EXCEPT !.lfree = k] = Rec(h, k, d, r, f, p)
  <2> HIDE DEF k
  <2> QED
    BY ONLY SetLow
<1>4. t = Rec(h, k, d, r, f, p)
  BY <1>2, <1>3
<1>5. TrimSplit(s, m, q) = TrimNext(t, m, q, s.h[m].next)
  BY DEF TrimSplit
<1> HIDE DEF t, k
<1>6. TrimNext(t, m, q, h[m].next) = Rec(CutTo(h, m, q, h[m].next), k, d, r, f, p)
  BY <1>4, TrimNextRec
<1>7. TrimSplit(s, m, q) = Rec(CutTo(h, m, q, h[m].next), k, d, r, f, p)
  <2> HIDE DEF s
  <2> QED
    BY <1>1, <1>5, <1>6
<1> QED
  BY <1>7 DEF Cut, k

\* Requests are positive numbers.
LEMMA SizesPos ==
  ASSUME MemParams
  PROVE  /\ \A z \in Sizes : z \in Int /\ z \in Nat /\ z > 0
         /\ MinSize \in Int /\ MinSize > 0
<1>1. \A z \in Sizes : z \in Nat /\ z # 0
  BY DEF MemParams
<1> QED
  BY <1>1 DEF MemParams

\* The program's record of m after mem_trim.
Resized(d, m, size) == (d \ {m}) \cup {[m EXCEPT !.size = size]}

\* The program still holds the same blocks.
LEMMA ResizedOwned ==
  ASSUME NEW h, NEW d, NEW r, Owned(h, d, r), NEW m \in d, NEW size \in Sizes,
         NEW g, Kept(h, g, m.ptr), \A q \in Blk(g) : g[q].used => q \in Blk(h) /\ h[q].used,
         m.ptr \in Blk(g), g[m.ptr].used, Room(g, m.ptr) >= size
  PROVE  Owned(g, Resized(d, m, size), r)
<1> DEFINE x == [m EXCEPT !.size = size]
           e == (d \ {m}) \cup {x}
<1>1. d \subseteq [ptr : Ptrs, size : Sizes] /\ m \in [ptr : Ptrs, size : Sizes]
  BY DEF Owned
<1>2. x \in [ptr : Ptrs, size : Sizes] /\ x.ptr = m.ptr /\ x.size = size
  BY <1>1
<1>3. e = Resized(d, m, size)
  BY DEF Resized
<1> HIDE DEF x
<1>4. e \subseteq [ptr : Ptrs, size : Sizes]
  BY <1>1, <1>2
<1>5. \A n \in e : n.ptr \in Blk(g) /\ g[n.ptr].used /\ Room(g, n.ptr) >= n.size
  <2> SUFFICES ASSUME NEW n \in e PROVE n.ptr \in Blk(g) /\ g[n.ptr].used /\ Room(g, n.ptr) >= n.size
    OBVIOUS
  <2>1. CASE n = x
    BY <2>1, <1>2
  <2>2. CASE n # x
    <3>1. n \in d /\ n # m
      BY <2>2
    <3>2. n.ptr \in Blk(h) /\ h[n.ptr].used /\ Room(h, n.ptr) >= n.size /\ n.ptr # m.ptr
      BY <3>1 DEF Owned
    <3>3. n.ptr \in Blk(g) /\ g[n.ptr].used /\ g[n.ptr].next = h[n.ptr].next
      BY <3>2 DEF Kept
    <3> QED
      BY <3>2, <3>3 DEF Room
  <2> QED
    BY <2>1, <2>2
<1>6. \A a, b \in e : a.ptr = b.ptr => a = b
  BY <1>2 DEF Owned
<1>7. r.at = "lfree" => \A a \in e : a.ptr # r.ptr
  BY <1>2 DEF Owned
<1>8. \A p \in Blk(g) : g[p].used => (\E n \in e : n.ptr = p) \/ (r.at = "lfree" /\ p = r.ptr)
  BY <1>2 DEF Owned
<1>9. Owned(g, e, r)
  BY <1>4, <1>5, <1>6, <1>7, <1>8 DEF Owned
<1> QED
  BY Zenon, <1>3, <1>9

\* A block that gives nothing back.
LEMMA UnchangedGood ==
  ASSUME NEW h, NEW l, NEW d, NEW r, NEW f, Good(h, l, d, r, f), NEW e, Owned(h, e, r)
  PROVE  Good(h, l, e, r, 0) /\ Good(h, l, e, NoticedRun(r), 0)
<1>1. Good(h, l, e, r, 0)
  BY DEF Good, Refused
<1> DEFINE x == NoticedRun(r)
<1>2. /\ x \in Runs /\ x.at = r.at /\ x.ptr = r.ptr /\ x.size = r.size
      /\ r.at # "idle" => x.freed
  BY NoticedRunFields DEF Good
<1> HIDE DEF x
<1>3. Owned(h, e, x)
  BY <1>2 DEF Owned
<1>4. Scanning(h, x)
  BY <1>2 DEF Scanning, Good
<1>5. Adjusting(h, l, x)
  BY <1>2 DEF Adjusting, Good
<1>6. Good(h, l, e, x, 0)
  BY <1>2, <1>3, <1>4, <1>5 DEF Good, Refused
<1> QED
  BY <1>1, <1>6 DEF x

\* mem_trim
LEMMA TrimGood ==
  ASSUME MemParams, NEW h, NEW l, NEW d, NEW r, NEW f, Good(h, l, d, r, f), NEW p,
         NEW m \in d, NEW size \in Sizes, size < m.size
  PROVE  \E g, k, x :
           /\ Trimmed(Rec(h, l, Resized(d, m, size), r, 0, p), m.ptr, AlignedSize(size),
                      h[m.ptr].next - m.ptr - Hdr) = Rec(g, k, Resized(d, m, size), x, 0, p)
           /\ Good(g, k, Resized(d, m, size), x, 0)
<1> DEFINE a == m.ptr
           n == h[a].next
           e == Resized(d, m, size)
           new == AlignedSize(size)
           old == n - a - Hdr
           q == a + Hdr + new
           s == Rec(h, l, e, r, 0, p)
           t == Trimmed(s, a, new, old)
<1>1. /\ Tiled(h) /\ NoTouch(h) /\ Low(h, l) /\ Owned(h, d, r)
      /\ a \in Blk(h) /\ h[a].used /\ Room(h, a) >= m.size /\ m.size \in Sizes
      /\ r.at = "lfree" => r.ptr # a
  BY DEF Good, Owned
<1>2. /\ a \in Int /\ n \in Int /\ n >= a + 1 + MinSize /\ MinSize \in Int /\ MinSize > 0
      /\ n \in Blk(h) \cup {MemSize} /\ m.size \in Int /\ size \in Int /\ size > 0
  <2>1. m.size \in Int /\ size \in Int /\ size > 0 /\ MinSize \in Int /\ MinSize > 0
    BY <1>1, SizesPos
  <2>2. /\ a \in Int /\ n \in Int /\ n >= a + 1 + MinSize /\ n \in Blk(h) \cup {MemSize}
    BY <1>1, BlockFacts
  <2> QED
    BY <2>1, <2>2
<1>3. new \in Int /\ new >= MinSize /\ new >= size /\ new <= old /\ old \in Int /\ old >= size
  BY <1>1, <1>2 DEF AlignedSize, Room, Hdr
<1>4. q \in Int /\ q >= a + Hdr + MinSize /\ q - (a + Hdr) >= size
  BY <1>2, <1>3 DEF Hdr
<1>5. s.h = h
  BY RecFields
<1>6. Owned(h, e, r)
  <2>1. Kept(h, h, a)
    BY DEF Kept
  <2>2. Room(h, a) >= size
    BY <1>2, <1>3 DEF Room, Hdr
  <2> QED
    BY <1>1, <2>1, <2>2, ResizedOwned
<1>7. ASSUME NEW g, NEW k, GivenBack(h, l, g, k, a), a \in Blk(g), g[a].used, g[a].next = q
      PROVE  Good(g, k, e, NoticedRun(r), 0)
  <2>1. Room(g, a) >= size
    BY <1>4, <1>7 DEF Room
  <2>2. Owned(g, e, r)
    BY <1>1, <1>7, <2>1, ResizedOwned DEF GivenBack
  <2> HIDE DEF e, q
  <2> QED
    BY <1>1, <1>7, <2>2, GivenBackGood
<1>8. CASE new = old
  <2>1. t = s
    BY <1>8 DEF Trimmed
  <2> QED
    BY <1>6, <2>1, UnchangedGood
<1>9. CASE new # old /\ ~h[n].used
  <2>1. n # MemSize
    <3>1. h[MemSize].used
      BY <1>1, PtrsInt DEF Tiled, Links, Blk, Nothing
    <3> QED
      BY <3>1, <1>9
  <2>2. q < n
    BY <1>2, <1>3, <1>9 DEF Hdr
  <2> DEFINE g == TrimHeap(h, a, q)
             k == IF l = n THEN q ELSE l
  <2>3. GivenBack(h, l, g, k, a) /\ a \in Blk(g) /\ g[a].used /\ g[a].next = q
    <3>1. h[a].next # MemSize /\ ~h[h[a].next].used /\ q < h[a].next
      BY <1>9, <2>1, <2>2
    <3> HIDE DEF a, e, s, t, q
    <3> QED
      BY ONLY MemParams, <1>1, <1>4, <3>1, TrimMergeStep DEF g, k, n
  <2>4. Good(g, k, e, NoticedRun(r), 0)
    <3> HIDE DEF g, k, e, q
    <3> QED
      BY <1>7, <2>3
  <2>5. t = Noticed(TrimMerge(s, a, q))
    BY <1>5, <1>9 DEF Trimmed
  <2>6. TrimMerge(s, a, q) = Rec(g, k, e, r, 0, p)
    BY TrimMergeRec
  <2> HIDE DEF g, k
  <2>7. t = Rec(g, k, e, NoticedRun(r), 0, p)
    BY <2>5, <2>6, NoticedRec
  <2> QED
    BY <2>4, <2>7
<1>10. CASE new # old /\ h[n].used /\ new + Hdr + MinSize <= old
  <2>2. n >= q + Hdr + MinSize
    BY <1>2, <1>3, <1>10 DEF Hdr
  <2> DEFINE g == Cut(h, a, q)
             k == IF q < l THEN q ELSE l
  <2>3. GivenBack(h, l, g, k, a) /\ a \in Blk(g) /\ g[a].used /\ g[a].next = q
    <3>1. h[h[a].next].used /\ h[a].next >= q + Hdr + MinSize
      BY <1>10, <2>2
    <3> HIDE DEF a, e, s, t, q
    <3> QED
      BY ONLY MemParams, <1>1, <1>4, <3>1, TrimSplitStep DEF g, k
  <2>4. Good(g, k, e, NoticedRun(r), 0)
    <3> HIDE DEF g, k, e, q
    <3> QED
      BY <1>7, <2>3
  <2>5. t = Noticed(TrimSplit(s, a, q))
    BY <1>5, <1>10 DEF Trimmed
  <2>6. TrimSplit(s, a, q) = Rec(g, k, e, r, 0, p)
    BY TrimSplitRec
  <2> HIDE DEF g, k
  <2>7. t = Rec(g, k, e, NoticedRun(r), 0, p)
    BY <2>5, <2>6, NoticedRec
  <2> QED
    BY <2>4, <2>7
<1>11. CASE new # old /\ h[n].used /\ ~(new + Hdr + MinSize <= old)
  <2>1. t = Noticed(s)
    BY <1>5, <1>11 DEF Trimmed
  <2>2. t = Rec(h, l, e, NoticedRun(r), 0, p)
    BY <2>1, NoticedRec
  <2> QED
    BY <1>6, <2>2, UnchangedGood
<1> QED
  BY <1>8, <1>9, <1>10, <1>11

(***************************************************************************)
(* mem_malloc looking for a block.                                         *)
(***************************************************************************)
ScanRun(r, q) == [r EXCEPT !.at = "scan", !.ptr = q, !.freed = FALSE]

\* One step of the scan, on the record.
LEMMA ScanFromRec ==
  ASSUME NEW h, NEW l, NEW d, NEW r, NEW f, NEW p, NEW q, NEW size
  PROVE  ScanFrom(Rec(h, l, d, r, f, p), q, size) =
           IF q < MemSize - size THEN Rec(h, l, d, ScanRun(r, q), f, p)
                                 ELSE Rec(h, l, d, Idle, r.size, p)
<1> DEFINE s == Rec(h, l, d, r, f, p)
           x == ScanRun(r, q)
<1>1. s.run = r
  BY RecFields
<1>2. [s EXCEPT !.run = x] = Rec(h, l, d, x, f, p)
  <2> HIDE DEF x
  <2> QED
    BY ONLY SetRun
<1>3. WithRunFailed(s, Idle, r.size) = Rec(h, l, d, Idle, r.size, p)
  BY SetRunFailed
<1> HIDE DEF s
<1>4. q < MemSize - size => ScanFrom(s, q, size) = [s EXCEPT !.run = x]
  BY <1>1 DEF ScanFrom, ScanRun
<1>5. ~(q < MemSize - size) => ScanFrom(s, q, size) = WithRunFailed(s, Idle, r.size)
  BY <1>1 DEF ScanFrom, WithRunFailed
<1>6. ScanFrom(s, q, size) =
           IF q < MemSize - size THEN Rec(h, l, d, x, f, p)
                                 ELSE Rec(h, l, d, Idle, r.size, p)
  <2> HIDE DEF x
  <2> QED
    BY <1>2, <1>3, <1>4, <1>5
<1> QED
  BY <1>6 DEF s

\* The fields of a scan, and of no scan.
LEMMA ScanRunFields ==
  ASSUME NEW r \in Runs, NEW q \in Ptrs
  PROVE  /\ ScanRun(r, q) \in Runs /\ ScanRun(r, q).at = "scan" /\ ScanRun(r, q).ptr = q
         /\ ScanRun(r, q).size = r.size /\ ~ScanRun(r, q).freed
BY Zenon DEF ScanRun, Runs

LEMMA IdleFields == MemParams => Idle \in Runs /\ Idle.at = "idle"
BY PtrsInt DEF Idle, Runs

\* Nothing below q is large enough.
NoneBelow(h, q, size) == \A p \in Blk(h) : p < q => h[p].used \/ Room(h, p) < AlignedSize(size)

\* The scan may go on from c when no block below c would do: it finds the
\* next candidate or gives up rightly.
LEMMA ScanFromGood ==
  ASSUME MemParams, NEW h, NEW l, NEW d, NEW r \in Runs, NEW f \in Nat, NEW p,
         Tiled(h), NoTouch(h), Low(h, l), l # MemSize => ~h[l].used,
         Owned(h, d, r), r.at # "lfree", r.size \in Sizes,
         NEW q \in Blk(h) \cup {MemSize}, NoneBelow(h, q, r.size)
  PROVE  \E x, v :
           /\ ScanFrom(Rec(h, l, d, r, f, p), q, AlignedSize(r.size)) = Rec(h, l, d, x, v, p)
           /\ Good(h, l, d, x, v)
<1> DEFINE size == AlignedSize(r.size)
<1>1. /\ q \in Ptrs /\ Blk(h) \subseteq Ptrs /\ Ptrs \subseteq Int /\ MemSize \in Int
  BY PtrsInt DEF Blk
<1>2. size \in Int /\ size > 0 /\ r.size \in Nat
  BY SizesPos DEF AlignedSize
<1> HIDE DEF size
<1>3. CASE q < MemSize - size
  <2> DEFINE x == ScanRun(r, q)
  <2>1. x \in Runs /\ x.at = "scan" /\ x.ptr = q /\ x.size = r.size /\ ~x.freed
    BY <1>1, ScanRunFields
  <2>2. ScanFrom(Rec(h, l, d, r, f, p), q, size) = Rec(h, l, d, x, f, p)
    BY <1>3, ScanFromRec
  <2> HIDE DEF x
  <2>3. q # MemSize
    BY <1>1, <1>2, <1>3
  <2>4. Scanning(h, x)
    BY <2>1, <2>3 DEF Scanning, NoneBelow
  <2>5. Owned(h, d, x)
    BY <2>1 DEF Owned
  <2>6. Good(h, l, d, x, f)
    BY <2>1, <2>4, <2>5 DEF Good, Adjusting, Refused
  <2> QED
    BY <2>2, <2>6 DEF size
<1>4. CASE ~(q < MemSize - size)
  <2>1. ScanFrom(Rec(h, l, d, r, f, p), q, size) = Rec(h, l, d, Idle, r.size, p)
    BY <1>4, ScanFromRec
  <2>2. Idle \in Runs /\ Idle.at = "idle"
    BY IdleFields
  <2>3. Owned(h, d, Idle)
    BY <2>2 DEF Owned
  <2>4. Refused(h, Idle, r.size)
    <3> SUFFICES ASSUME NEW b \in Blk(h), ~h[b].used PROVE Room(h, b) < AlignedSize(r.size)
      BY DEF Refused
    <3>1. b \in Int /\ h[b].next \in Int /\ h[b].next <= MemSize
      BY BlockFacts
    <3>2. CASE b < q
      BY <3>2 DEF NoneBelow
    <3>3. CASE ~(b < q)
      BY <3>1, <3>3, <1>1, <1>2, <1>4 DEF Room, Hdr, size
    <3> QED
      BY <3>2, <3>3
  <2>5. Good(h, l, d, Idle, r.size)
    BY <1>2, <2>2, <2>3, <2>4 DEF Good, Adjusting, Scanning
  <2> QED
    BY <2>1, <2>5 DEF size
<1> QED
  BY <1>3, <1>4

(***************************************************************************)
(* mem_malloc taking the block b.                                          *)
(***************************************************************************)
Taking(g, d, b, size) ==
  /\ Tiled(g) /\ NoTouch(g) /\ size \in Sizes
  /\ b \in Blk(g) /\ g[b].used /\ Room(g, b) >= size
  /\ d \subseteq [ptr : Ptrs, size : Sizes]
  /\ \A m \in d : m.ptr \in Blk(g) /\ g[m.ptr].used /\ Room(g, m.ptr) >= m.size /\ m.ptr # b
  /\ \A m, n \in d : m.ptr = n.ptr => m = n
  /\ \A p \in Blk(g) : g[p].used => p = b \/ \E m \in d : m.ptr = p

\* The block found becomes the program's.
LEMMA ReturnedGood ==
  ASSUME MemParams, NEW g, NEW l, NEW d, NEW b, NEW size, Taking(g, d, b, size),
         Low(g, l), l # MemSize => ~g[l].used, NEW r, NEW f, NEW p
  PROVE  /\ Returned(Rec(g, l, d, r, f, p), b, size) =
              Rec(g, l, d \cup {[ptr |-> b, size |-> size]}, Idle, 0, p)
         /\ Good(g, l, d \cup {[ptr |-> b, size |-> size]}, Idle, 0)
<1> DEFINE s == Rec(g, l, d, r, f, p)
           x == [ptr |-> b, size |-> size]
           e == d \cup {x}
<1>1. s.held = d
  BY RecFields
<1>2. Returned(s, b, size) = WithHeldRunFailed(s, e, Idle, 0)
  <2> HIDE DEF s
  <2> QED
    BY <1>1 DEF Returned, WithHeldRunFailed
<1>3. WithHeldRunFailed(s, e, Idle, 0) = Rec(g, l, e, Idle, 0, p)
  BY SetHeldRunFailed
<1>4. x \in [ptr : Ptrs, size : Sizes] /\ x.ptr = b /\ x.size = size
  BY DEF Taking, Blk
<1> HIDE DEF x
<1>5. Idle \in Runs /\ Idle.at = "idle"
  BY IdleFields
<1>6. Owned(g, e, Idle)
  BY <1>4, <1>5 DEF Owned, Taking
<1>7. Good(g, l, e, Idle, 0)
  BY <1>5, <1>6 DEF Good, Taking, Scanning, Adjusting, Refused
<1> QED
  BY <1>2, <1>3, <1>7 DEF x

\* The search for the next lfree, after the block at b was taken.
AdjustRun(r, b, cur) == [r EXCEPT !.at = "lfree", !.ptr = b, !.cur = cur, !.freed = FALSE]

LEMMA AdjustRunFields ==
  ASSUME NEW r \in Runs, NEW b \in Ptrs, NEW c \in Ptrs
  PROVE  /\ AdjustRun(r, b, c) \in Runs /\ AdjustRun(r, b, c).at = "lfree"
         /\ AdjustRun(r, b, c).ptr = b /\ AdjustRun(r, b, c).cur = c
         /\ AdjustRun(r, b, c).size = r.size /\ ~AdjustRun(r, b, c).freed
BY Zenon DEF AdjustRun, Runs

LEMMA AdjustRec ==
  ASSUME NEW h, NEW l, NEW d, NEW r, NEW f, NEW p, NEW b, NEW c
  PROVE  AdjustLfree(Rec(h, l, d, r, f, p), b, c) =
           IF h[c].used /\ c # MemSize THEN Rec(h, l, d, AdjustRun(r, b, c), f, p)
           ELSE Returned(Rec(h, c, d, r, f, p), b, r.size)
<1> DEFINE s == Rec(h, l, d, r, f, p)
           x == AdjustRun(r, b, c)
<1>1. s.run = r /\ s.h = h
  BY RecFields
<1>2. [s EXCEPT !.run = x] = Rec(h, l, d, x, f, p)
  <2> HIDE DEF x
  <2> QED
    BY ONLY SetRun
<1>3. [s EXCEPT !.lfree = c] = Rec(h, c, d, r, f, p)
  BY ONLY SetLow
<1> HIDE DEF s
<1>4. h[c].used /\ c # MemSize => AdjustLfree(s, b, c) = [s EXCEPT !.run = x]
  BY <1>1 DEF AdjustLfree, AdjustRun
<1>5. ~(h[c].used /\ c # MemSize)
        => AdjustLfree(s, b, c) = Returned([s EXCEPT !.lfree = c], b, r.size)
  BY <1>1 DEF AdjustLfree
<1>6. AdjustLfree(s, b, c) =
           IF h[c].used /\ c # MemSize THEN Rec(h, l, d, x, f, p)
           ELSE Returned(Rec(h, c, d, r, f, p), b, r.size)
  <2> HIDE DEF x
  <2> QED
    BY <1>2, <1>3, <1>4, <1>5
<1> QED
  BY <1>6 DEF s

\* The state s is a heap with blocks h in its inductive state.
Continues(s, h, p) == \E k, e, x, v : s = Rec(h, k, e, x, v, p) /\ Good(h, k, e, x, v)

\* No free block lies below c.
FreeFrom(h, c) == \A q \in Blk(h) : ~h[q].used => c <= q

\* The search goes on from c, or lfree is c and mem_malloc returns.
LEMMA AdjustGood ==
  ASSUME MemParams, NEW g, NEW l, NEW d, NEW r \in Runs, NEW f \in Nat, NEW p, NEW b,
         Taking(g, d, b, r.size), Low(g, l), l \in Blk(g), l = b \/ ~g[l].used,
         NEW c \in Blk(g) \cup {MemSize}, FreeFrom(g, c)
  PROVE  Continues(AdjustLfree(Rec(g, l, d, r, f, p), b, c), g, p)
<1>1. CASE g[c].used /\ c # MemSize
  <2> DEFINE x == AdjustRun(r, b, c)
  <2>1. AdjustLfree(Rec(g, l, d, r, f, p), b, c) = Rec(g, l, d, x, f, p)
    BY <1>1, AdjustRec
  <2>2. b \in Ptrs /\ c \in Ptrs
    BY <1>1 DEF Taking, Blk
  <2>3. x \in Runs /\ x.at = "lfree" /\ x.ptr = b /\ x.cur = c /\ x.size = r.size /\ ~x.freed
    BY <2>2, AdjustRunFields
  <2> HIDE DEF x
  <2>4. Owned(g, d, x)
    BY <2>3 DEF Owned, Taking
  <2>5. Adjusting(g, l, x)
    BY <1>1, <2>3 DEF Adjusting, Taking, FreeFrom
  <2>6. Good(g, l, d, x, f)
    BY <2>3, <2>4, <2>5 DEF Good, Taking, Scanning, Refused
  <2> QED
    BY <2>1, <2>6 DEF Continues
<1>2. CASE ~(g[c].used /\ c # MemSize)
  <2>1. AdjustLfree(Rec(g, l, d, r, f, p), b, c) = Returned(Rec(g, c, d, r, f, p), b, r.size)
    BY <1>2, AdjustRec
  <2>2. Low(g, c) /\ (c # MemSize => ~g[c].used)
    BY <1>2 DEF Low, FreeFrom
  <2> DEFINE e == d \cup {[ptr |-> b, size |-> r.size]}
  <2>3. /\ Returned(Rec(g, c, d, r, f, p), b, r.size) = Rec(g, c, e, Idle, 0, p)
        /\ Good(g, c, e, Idle, 0)
    BY <2>2, ReturnedGood
  <2> HIDE DEF e
  <2> QED
    BY <2>1, <2>3 DEF Continues
<1> QED
  BY <1>1, <1>2

\* What follows the taking of the block at b.
LEMMA TookGood ==
  ASSUME MemParams, NEW g, NEW l, NEW d, NEW r \in Runs, NEW f \in Nat, NEW p, NEW b,
         Taking(g, d, b, r.size), Low(g, l), l \in Blk(g), l = b \/ ~g[l].used
  PROVE  Continues(Took(Rec(g, l, d, r, f, p), b), g, p)
<1> DEFINE s == Rec(g, l, d, r, f, p)
<1>1. s.lfree = l /\ s.run = r
  BY RecFields
<1>2. CASE b = l
  <2>1. Took(s, b) = AdjustLfree(s, b, l)
    <3> HIDE DEF s
    <3> QED
      BY <1>1, <1>2 DEF Took
  <2>2. FreeFrom(g, l)
    BY DEF Low, FreeFrom
  <2>3. Continues(AdjustLfree(s, b, l), g, p)
    <3>1. l \in Blk(g) \cup {MemSize}
      OBVIOUS
    <3> QED
      BY <2>2, <3>1, AdjustGood
  <2> HIDE DEF s
  <2>4. Continues(Took(s, b), g, p)
    BY <2>1, <2>3
  <2> QED
    BY <2>4 DEF s
<1>3. CASE b # l
  <2>1. Took(s, b) = Returned(s, b, r.size)
    <3> HIDE DEF s
    <3> QED
      BY <1>1, <1>3 DEF Took
  <2> DEFINE e == d \cup {[ptr |-> b, size |-> r.size]}
  <2>3. Returned(s, b, r.size) = Rec(g, l, e, Idle, 0, p) /\ Good(g, l, e, Idle, 0)
    BY <1>3, ReturnedGood
  <2> HIDE DEF e
  <2> QED
    BY <2>1, <2>3 DEF Continues
<1> QED
  BY <1>2, <1>3

\* The block is marked used ...
Used(h, m) == [h EXCEPT ![m].used = TRUE]

\* ... and what that leaves at each position.
LEMMA UsedAt ==
  ASSUME NEW h \in Heaps, NEW m \in Ptrs
  PROVE  /\ Used(h, m) \in Heaps
         /\ \A p \in Ptrs : /\ Used(h, m)[p].next = h[p].next
                            /\ Used(h, m)[p].prev = h[p].prev
                            /\ Used(h, m)[p].used = IF p = m THEN TRUE ELSE h[p].used
                            /\ p # m => Used(h, m)[p] = h[p]
<1>1. h[m] \in Headers
  BY DEF Heaps
<1> DEFINE e == [h[m] EXCEPT !.used = TRUE]
<1>2. e \in Headers
  <2>1. \A a \in Headers : [a EXCEPT !.used = TRUE] \in Headers
    BY Zenon DEF Headers
  <2> QED
    BY <1>1, <2>1
<1>3. e.next = h[m].next /\ e.prev = h[m].prev /\ e.used = TRUE
  BY <1>1 DEF Headers
<1>5. Used(h, m) = [h EXCEPT ![m] = e]
  BY DEF Used
<1> HIDE DEF e
<1>6. [h EXCEPT ![m] = e] \in Heaps
  BY <1>2 DEF Heaps
<1>7. \A p \in Ptrs : [h EXCEPT ![m] = e][p] = IF p = m THEN e ELSE h[p]
  BY DEF Heaps
<1> QED
  BY Zenon, <1>3, <1>5, <1>6, <1>7

\* Marking a block used keeps the heap tiled.
LEMMA UsedTiled ==
  ASSUME MemParams, NEW h, Tiled(h), NEW m \in Blk(h)
  PROVE  Tiled(Used(h, m)) /\ Blk(Used(h, m)) = Blk(h)
<1> DEFINE g == Used(h, m)
<1>0. h \in Heaps /\ m \in Ptrs /\ Blk(h) \subseteq Ptrs /\ 0 \in Ptrs
  BY PtrsInt DEF Tiled, Blk
<1>1. /\ g \in Heaps
      /\ \A p \in Ptrs : g[p].next = h[p].next /\ g[p].prev = h[p].prev /\ (p # m => g[p] = h[p])
  BY ZenonT(60), <1>0, UsedAt
<1>2. g[m] # Nothing
  <2>1. h[m].prev # MemSize
    BY <1>0, BlockPrev
  <2> HIDE DEF g
  <2> QED
    BY <2>1, <1>0, <1>1 DEF Nothing
<1> HIDE DEF g
<1>3. Blk(g) = Blk(h)
  BY <1>0, <1>1, <1>2 DEF Blk
<1>4. Links(h, Blk(h)) /\ \A p \in Blk(h) : h[p].next \in Ptrs /\ h[p].prev \in Ptrs
  BY <1>0 DEF Tiled, Heaps, Headers, Blk
<1>5. Links(g, Blk(g))
  BY <1>0, <1>1, <1>3, <1>4 DEF Links
<1>6. Tiled(g) /\ Blk(g) = Blk(h)
  BY <1>1, <1>3, <1>5 DEF Tiled
<1> QED
  BY <1>6 DEF g
\* ... and its end becomes a block of its own if it is large enough.
SplitHeap(h, b, size) ==
  IF h[b].next - (b + Hdr) >= size + Hdr + MinSize THEN Cut(h, b, b + Hdr + size) ELSE h

\* The split of mem_malloc, on the record.
LEMMA SplitRec ==
  ASSUME NEW h, NEW l, NEW d, NEW r, NEW f, NEW p, NEW b, NEW size
  PROVE  Split(Rec(h, l, d, r, f, p), b, size) = Rec(SplitHeap(h, b, size), l, d, r, f, p)
<1> DEFINE s == Rec(h, l, d, r, f, p)
<1>1. s.h = h
  BY RecFields
<1>2. TrimNext(s, b, b + Hdr + size, h[b].next) = Rec(CutTo(h, b, b + Hdr + size, h[b].next), l, d, r, f, p)
  BY TrimNextRec
<1> HIDE DEF s
<1>3. Split(s, b, size) = IF h[b].next - (b + Hdr) >= size + Hdr + MinSize
                          THEN TrimNext(s, b, b + Hdr + size, h[b].next) ELSE s
  BY <1>1 DEF Split
<1>4. Split(s, b, size) = IF h[b].next - (b + Hdr) >= size + Hdr + MinSize
                          THEN Rec(CutTo(h, b, b + Hdr + size, h[b].next), l, d, r, f, p)
                          ELSE Rec(h, l, d, r, f, p)
  BY <1>2, <1>3 DEF s
<1> QED
  BY <1>4 DEF s, SplitHeap, Cut

\* Taking the block at b, split or whole, keeps the heap tiled, no two free
\* blocks touching, and lfree at or below the lowest free block.
LEMMA TakeStep ==
  ASSUME MemParams, NEW h, NEW l, NEW d, NEW r, NEW f, Good(h, l, d, r, f),
         r.at # "lfree", NEW size \in Sizes, NEW b \in Blk(h), ~h[b].used,
         Room(h, b) >= AlignedSize(size)
  PROVE  LET g == SplitHeap(Used(h, b), b, AlignedSize(size))
         IN  Taking(g, d, b, size) /\ Low(g, l) /\ l \in Blk(g) /\ (l = b \/ ~g[l].used)
<1> DEFINE j == Used(h, b)
           al == AlignedSize(size)
           q == b + Hdr + al
           n == h[b].next
           g == SplitHeap(j, b, al)
<1>1. Tiled(h) /\ NoTouch(h) /\ Low(h, l) /\ Owned(h, d, r) /\ (l # MemSize => ~h[l].used)
  BY DEF Good
<1>2. /\ b \in Int /\ n \in Int /\ n \in Blk(h) \cup {MemSize} /\ Blk(h) \subseteq Ptrs
      /\ Ptrs \subseteq Int /\ b < MemSize /\ MemSize \in Int /\ h \in Heaps /\ b \in Ptrs
  BY <1>1, BlockFacts, PtrsInt DEF Blk, Tiled
<1>3. size \in Int /\ size > 0 /\ al \in Int /\ al >= size /\ al >= MinSize /\ MinSize \in Int /\ MinSize > 0
  BY SizesPos DEF AlignedSize
<1>4. Tiled(j) /\ Blk(j) = Blk(h)
  BY <1>1, UsedTiled
<1>5. \A p \in Ptrs : j[p].next = h[p].next /\ j[p].used = IF p = b THEN TRUE ELSE h[p].used
  BY ZenonT(60), <1>2, UsedAt
<1> HIDE DEF j, al
<1>6. NoTouch(j)
  <2> SUFFICES ASSUME NEW p \in Blk(j), ~j[p].used, j[p].next # MemSize PROVE j[j[p].next].used
    BY DEF NoTouch
  <2>1. p \in Blk(h) /\ p # b /\ ~h[p].used /\ j[p].next = h[p].next
    BY ZenonT(60), <1>2, <1>4, <1>5
  <2>2. h[p].next \in Blk(h) /\ h[h[p].next].used
    BY <2>1, <1>1, BlockFacts DEF NoTouch
  <2> QED
    BY Zenon, <2>1, <2>2, <1>2, <1>5
<1>7. j[b].used /\ j[b].next = n /\ (n # MemSize => j[n].used)
  BY ZenonT(60), <1>1, <1>2, <1>5 DEF NoTouch
<1>8. l <= b /\ l \in Blk(h) /\ l \in Int
  <2>1. l <= b /\ l \in Blk(h) \cup {MemSize}
    BY <1>1 DEF Low
  <2>2. l # MemSize
    BY <2>1, <1>2
  <2> QED
    BY <2>1, <2>2, <1>2
<1>9. /\ Tiled(g) /\ NoTouch(g) /\ b \in Blk(g) /\ g[b].used /\ Room(g, b) >= size
      /\ \A p \in Blk(h) : p # b => p \in Blk(g) /\ (g[p].used <=> h[p].used) /\ g[p].next = h[p].next
      /\ \A p \in Blk(g) : (p \in Blk(h) /\ p # b) \/ p = b \/ (p > b /\ ~g[p].used)
  <2>1. CASE n - (b + Hdr) >= al + Hdr + MinSize
    <3>1. g = Cut(j, b, q)
      BY <2>1, <1>7 DEF SplitHeap
    <3>2. q \in Int /\ q >= b + Hdr + MinSize /\ n >= q + Hdr + MinSize /\ q > b /\ q - (b + Hdr) >= size
      BY <2>1, <1>2, <1>3 DEF Hdr
    <3>3. CutOff(j, g, b, q)
      BY <3>1, <3>2, <1>4, <1>6, <1>7, CutStep
    <3>4. Blk(g) = Blk(h) \cup {q} /\ q \in Ptrs /\ q \notin Blk(h)
      BY <3>1, <3>2, <1>4, <1>7, CutTiled
    <3>5. n # b /\ n # q
      BY <3>2, <1>2, <1>3 DEF Hdr
    <3>6. IsCut(g, j, b, q, n)
      <4>1. j \in Heaps
        BY <1>4 DEF Tiled
      <4>2. n \in Ptrs
        BY <1>2, PtrsInt
      <4>3. g = CutTo(j, b, q, n)
        BY <3>1, <1>7 DEF Cut
      <4> HIDE DEF g, q, n
      <4>4. b # q
        BY <3>2, <1>2
      <4> QED
        BY <4>1, <4>2, <4>3, <4>4, <3>4, <3>5, <1>2, CutAt
    <3> HIDE DEF g, q
    <3>7. \A p \in Blk(h) : p # b => p \in Blk(g) /\ (g[p].used <=> h[p].used) /\ g[p].next = h[p].next
      BY ZenonT(60), <3>4, <3>6, <1>2, <1>5 DEF IsCut
    <3>8. Room(g, b) >= size
      BY <3>2, <3>3 DEF CutOff, Room
    <3> QED
      BY ZenonT(60), <3>2, <3>3, <3>4, <3>7, <3>8 DEF CutOff
  <2>2. CASE ~(n - (b + Hdr) >= al + Hdr + MinSize)
    <3>1. g = j
      BY <2>2, <1>7 DEF SplitHeap
    <3>2. Room(j, b) >= size
      BY <1>2, <1>3, <1>7 DEF Room, Hdr, al
    <3> HIDE DEF g
    <3> QED
      BY Zenon, <3>1, <3>2, <1>2, <1>4, <1>5, <1>6, <1>7
  <2> QED
    BY ZenonT(60), <2>1, <2>2
<1> HIDE DEF g
<1>10. Low(g, l) /\ l \in Blk(g) /\ (l = b \/ ~g[l].used)
  <2>1. l \in Blk(g)
    BY <1>8, <1>9
  <2>2. ASSUME NEW p \in Blk(g), ~g[p].used PROVE l <= p
    <3>1. CASE p \in Blk(h) /\ p # b
      BY <3>1, <2>2, <1>1, <1>9 DEF Low
    <3>2. CASE p > b
      <4>1. p \in Int
        BY <1>2, <2>2 DEF Blk
      <4> QED
        BY <4>1, <3>2, <1>2, <1>8
    <3> QED
      BY <3>1, <3>2, <2>2, <1>9
  <2>3. l = b \/ ~g[l].used
    <3>1. l # MemSize
      BY <1>2, <1>8
    <3> QED
      BY <3>1, <1>1, <1>8, <1>9
  <2> QED
    BY <2>1, <2>2, <2>3 DEF Low
<1>11. Taking(g, d, b, size)
  <2>1. \A m \in d : m.ptr \in Blk(g) /\ g[m.ptr].used /\ Room(g, m.ptr) >= m.size /\ m.ptr # b
    <3> SUFFICES ASSUME NEW m \in d
                 PROVE  m.ptr \in Blk(g) /\ g[m.ptr].used /\ Room(g, m.ptr) >= m.size /\ m.ptr # b
      OBVIOUS
    <3>1. m.ptr \in Blk(h) /\ h[m.ptr].used /\ Room(h, m.ptr) >= m.size
      BY <1>1 DEF Owned
    <3>2. m.ptr # b
      BY <3>1
    <3>3. m.ptr \in Blk(g) /\ g[m.ptr].used /\ g[m.ptr].next = h[m.ptr].next
      BY <3>1, <3>2, <1>9
    <3> QED
      BY <3>1, <3>2, <3>3 DEF Room
  <2>2. \A p \in Blk(g) : g[p].used => p = b \/ \E m \in d : m.ptr = p
    BY <1>1, <1>9 DEF Owned
  <2> QED
    BY <2>1, <2>2, <1>1, <1>9 DEF Taking, Owned
<1> QED
  BY <1>10, <1>11 DEF g, j, al

\* mem_init
LEMMA InitGood == ASSUME MemParams PROVE Good(mem_init, 0, {}, Idle, 0)
<1> DEFINE h == mem_init
<1>1. Ptrs \subseteq Int /\ 0 \in Ptrs /\ MemSize \in Ptrs /\ MemSize # 0 /\ MemSize \in Int
  BY PtrsInt DEF MemParams, Hdr
<1>2. h \in Heaps
  BY <1>1 DEF mem_init, Heaps, Headers, Nothing
<1>3. h[0].next = MemSize /\ h[0].prev = 0 /\ ~h[0].used
  BY <1>1 DEF mem_init
<1>4. \A p \in Ptrs : p # 0 => h[p] = Nothing
  BY DEF mem_init
<1> HIDE DEF h
<1>5. Blk(h) = {0}
  <2>1. h[0] # Nothing
    BY <1>3 DEF Nothing
  <2> QED
    BY Zenon, <1>1, <1>4, <2>1 DEF Blk
<1>6. Tiled(h)
  <2>1. MemSize >= 0 + Hdr + MinSize
    BY DEF MemParams, Hdr
  <2> QED
    BY <1>1, <1>2, <1>3, <1>5, <2>1 DEF Tiled, Links
<1>7. NoTouch(h) /\ Low(h, 0)
  BY <1>1, <1>3, <1>5 DEF NoTouch, Low
<1>8. Idle \in Runs /\ Idle.at = "idle"
  BY IdleFields
<1>9. Owned(h, {}, Idle)
  BY <1>3, <1>5 DEF Owned
<1>10. Good(h, 0, {}, Idle, 0)
  BY <1>3, <1>6, <1>7, <1>8, <1>9 DEF Good, Scanning, Adjusting, Refused
<1> QED
  BY <1>10 DEF h

\* Every operation of the heap takes a good state to a good state.
FreeResult(s, m) == Noticed(Freed([s EXCEPT !.held = @ \ {m}, !.failed = 0], m.ptr))

\* mem_free of a block the program holds.
LEMMA FreeKeeps ==
  ASSUME MemParams, NEW h, NEW l, NEW d, NEW r, NEW f, NEW p, Good(h, l, d, r, f),
         NEW s, s = Rec(h, l, d, r, f, p), NEW m \in d
  PROVE  \E g, k, e, x, v :
           /\ FreeResult(s, m) = Rec(g, k, e, x, v, p)
           /\ Good(g, k, e, x, v)
<1> DEFINE e == d \ {m}
           t == [s EXCEPT !.held = @ \ {m}, !.failed = 0]
           g == FreeHeap(h, m.ptr)
           k == FreeLow(h, l, m.ptr)
           u == Unused(h, m.ptr)
           w == IF m.ptr < l THEN m.ptr ELSE l
<1>1. t = WithHeldFailed(s, e, 0)
  <2>1. s.held = d
    BY RecFields
  <2> QED
    BY <2>1 DEF WithHeldFailed
<1>2. WithHeldFailed(s, e, 0) = Rec(h, l, e, r, 0, p)
  BY SetHeldFailed
<1>3. t = Rec(h, l, e, r, 0, p)
  BY <1>1, <1>2
<1> HIDE DEF t
<1>4. Freed(t, m.ptr) = plug_holes(Rec(u, w, e, r, 0, p), m.ptr)
  BY <1>3, FreedRec
<1>5. u[m.ptr].prev = h[m.ptr].prev
  <2>1. h \in Heaps /\ m.ptr \in Ptrs
    BY DEF Good, Tiled, Owned, Blk
  <2> QED
    BY Zenon, <2>1, UnusedAt
<1>6. plug_holes(Rec(u, w, e, r, 0, p), m.ptr) = Rec(g, k, e, r, 0, p)
  BY <1>5, PlugHolesRec DEF FreeHeap, FreeLow
<1>7. Good(g, k, e, NoticedRun(r), 0)
  BY FreeGood
<1> HIDE DEF g, k, e, u, w
<1>8. Noticed(Freed(t, m.ptr)) = Rec(g, k, e, NoticedRun(r), 0, p)
  BY <1>4, <1>6, NoticedRec
<1>9. FreeResult(s, m) = Noticed(Freed(t, m.ptr))
  BY DEF FreeResult, t
<1> QED
  BY <1>7, <1>8, <1>9

\* mem_trim to a smaller size.
TrimResult(s, m, size) ==
  Trimmed([s EXCEPT !.held = (@ \ {m}) \union {[m EXCEPT !.size = size]}, !.failed = 0],
          m.ptr, AlignedSize(size), s.h[m.ptr].next - m.ptr - Hdr)

LEMMA TrimKeeps ==
  ASSUME MemParams, NEW h, NEW l, NEW d, NEW r, NEW f, NEW p, Good(h, l, d, r, f),
         NEW s, s = Rec(h, l, d, r, f, p), NEW m \in d, NEW size \in Sizes, size < m.size
  PROVE  \E g, k, e, x, v :
           /\ TrimResult(s, m, size) = Rec(g, k, e, x, v, p)
           /\ Good(g, k, e, x, v)
<1> DEFINE e == Resized(d, m, size)
           t == [s EXCEPT !.held = (@ \ {m}) \union {[m EXCEPT !.size = size]}, !.failed = 0]
<1>0. s.held = d /\ s.h = h
  BY RecFields
<1>1. t = WithHeldFailed(s, e, 0)
  BY <1>0 DEF WithHeldFailed, Resized
<1>2. WithHeldFailed(s, e, 0) = Rec(h, l, e, r, 0, p)
  BY SetHeldFailed
<1>3. t = Rec(h, l, e, r, 0, p)
  BY <1>1, <1>2
<1>4. \E g, k, x :
           /\ Trimmed(Rec(h, l, e, r, 0, p), m.ptr, AlignedSize(size),
                      h[m.ptr].next - m.ptr - Hdr) = Rec(g, k, e, x, 0, p)
           /\ Good(g, k, e, x, 0)
  BY TrimGood
<1> HIDE DEF t, e
<1>5. \E g, k, x :
           /\ Trimmed(t, m.ptr, AlignedSize(size), s.h[m.ptr].next - m.ptr - Hdr) = Rec(g, k, e, x, 0, p)
           /\ Good(g, k, e, x, 0)
  BY <1>0, <1>3, <1>4
<1>6. TrimResult(s, m, size) = Trimmed(t, m.ptr, AlignedSize(size), s.h[m.ptr].next - m.ptr - Hdr)
  BY DEF TrimResult, t
<1> QED
  BY <1>5, <1>6

\* mem_malloc begins.
MallocResult(s, size) ==
  ScanFrom([s EXCEPT !.run.size = size, !.failed = 0], s.lfree, AlignedSize(size))

LEMMA MallocKeeps ==
  ASSUME MemParams, NEW h, NEW l, NEW d, NEW r, NEW f, NEW p, Good(h, l, d, r, f),
         NEW s, s = Rec(h, l, d, r, f, p), NEW size \in Sizes, r.at = "idle"
  PROVE  \E g, k, e, x, v :
           /\ MallocResult(s, size) = Rec(g, k, e, x, v, p)
           /\ Good(g, k, e, x, v)
<1> DEFINE y == [r EXCEPT !.size = size]
           t == [s EXCEPT !.run.size = size, !.failed = 0]
<1>0. s.run = r /\ s.lfree = l
  BY RecFields
<1>1. t = WithRunFailed(s, y, 0)
  BY <1>0 DEF WithRunFailed
<1>2. WithRunFailed(s, y, 0) = Rec(h, l, d, y, 0, p)
  BY SetRunFailed
<1>3. t = Rec(h, l, d, y, 0, p)
  BY <1>1, <1>2
<1>4. y \in Runs /\ y.at = "idle" /\ y.size = size
  <2>1. r \in Runs /\ size \in Nat
    BY SizesPos DEF Good
  <2> QED
    BY <2>1 DEF Runs
<1> HIDE DEF t, y
<1>5. /\ Tiled(h) /\ NoTouch(h) /\ Low(h, l) /\ (l # MemSize => ~h[l].used)
      /\ Owned(h, d, y) /\ l \in Blk(h) \cup {MemSize}
  BY <1>4 DEF Good, Low, Owned
<1>6. NoneBelow(h, l, y.size)
  <2> SUFFICES ASSUME NEW q \in Blk(h), q < l, ~h[q].used PROVE FALSE
    BY DEF NoneBelow
  <2>1. l <= q
    BY <1>5 DEF Low
  <2>2. q \in Int /\ l \in Int
    BY <1>5, PtrsInt DEF Blk
  <2> QED
    BY <2>1, <2>2
<1>7. \E x, v : /\ ScanFrom(Rec(h, l, d, y, 0, p), l, AlignedSize(y.size)) = Rec(h, l, d, x, v, p)
                /\ Good(h, l, d, x, v)
  BY <1>4, <1>5, <1>6, ScanFromGood
<1>8. \E x, v : /\ ScanFrom(t, s.lfree, AlignedSize(size)) = Rec(h, l, d, x, v, p)
                /\ Good(h, l, d, x, v)
  BY <1>0, <1>3, <1>4, <1>7
<1>9. MallocResult(s, size) = ScanFrom(t, s.lfree, AlignedSize(size))
  BY DEF MallocResult, t
<1> QED
  BY <1>8, <1>9

\* mem_malloc takes the block b.
LEMMA TakeGood ==
  ASSUME MemParams, NEW h, NEW l, NEW d, NEW r, NEW f, NEW p, Good(h, l, d, r, f),
         r.at = "scan", NEW b \in Blk(h), ~h[b].used, Room(h, b) >= AlignedSize(r.size)
  PROVE  \E g, k, e, x, v :
           /\ Take(Rec(h, l, d, r, f, p), b, AlignedSize(r.size)) = Rec(g, k, e, x, v, p)
           /\ Good(g, k, e, x, v)
<1> DEFINE s == Rec(h, l, d, r, f, p)
           al == AlignedSize(r.size)
           j == Used(h, b)
           g == SplitHeap(j, b, al)
<1>1. s.h = h
  BY RecFields
<1>2. [s EXCEPT !.h = j] = Rec(j, l, d, r, f, p)
  <2> HIDE DEF j
  <2> QED
    BY ONLY SetHeap
<1>3. [s EXCEPT !.h[b].used = TRUE] = [s EXCEPT !.h = j]
  BY <1>1 DEF Used
<1>4. Take(s, b, al) = Took(Split([s EXCEPT !.h[b].used = TRUE], b, al), b)
  BY DEF Take
<1>5. Split(Rec(j, l, d, r, f, p), b, al) = Rec(g, l, d, r, f, p)
  <2> HIDE DEF j, al
  <2> QED
    BY SplitRec
<1>6. r \in Runs /\ f \in Nat /\ r.size \in Sizes /\ r.at # "lfree"
  BY DEF Good, Scanning
<1>7. Taking(g, d, b, r.size) /\ Low(g, l) /\ l \in Blk(g) /\ (l = b \/ ~g[l].used)
  BY <1>6, TakeStep
<1> HIDE DEF g, j, al, s
<1>8. Continues(Took(Rec(g, l, d, r, f, p), b), g, p)
  BY <1>6, <1>7, TookGood
<1>9. Take(s, b, al) = Took(Rec(g, l, d, r, f, p), b)
  BY <1>2, <1>3, <1>4, <1>5
<1>10. \E k, e, x, v : Take(s, b, al) = Rec(g, k, e, x, v, p) /\ Good(g, k, e, x, v)
  BY <1>8, <1>9 DEF Continues
<1> QED
  BY <1>10 DEF s, al

\* One turn of the loop of mem_malloc.
LEMMA ScanKeeps ==
  ASSUME MemParams, NEW h, NEW l, NEW d, NEW r, NEW f, NEW p, Good(h, l, d, r, f),
         NEW s, s = Rec(h, l, d, r, f, p), r.at = "scan"
  PROVE  \E g, k, e, x, v :
           /\ ScanStep(s, AlignedSize(s.run.size)) = Rec(g, k, e, x, v, p)
           /\ Good(g, k, e, x, v)
<1>1. s.run = r /\ s.lfree = l /\ s.h = h
  BY RecFields
<1>2. /\ r \in Runs /\ f \in Nat /\ r.size \in Sizes /\ r.at # "lfree"
      /\ Tiled(h) /\ NoTouch(h) /\ Low(h, l) /\ (l # MemSize => ~h[l].used) /\ Owned(h, d, r)
      /\ l \in Blk(h) \cup {MemSize}
  BY DEF Good, Scanning, Low
<1>3. Ptrs \subseteq Int /\ Blk(h) \subseteq Ptrs /\ MemSize \in Int
  BY PtrsInt DEF Blk
<1>4. CASE r.freed
  <2>1. NoneBelow(h, l, r.size)
    <3> SUFFICES ASSUME NEW q \in Blk(h), q < l, ~h[q].used PROVE FALSE
      BY DEF NoneBelow
    <3>1. l <= q
      BY <1>2 DEF Low
    <3>2. q \in Int /\ l \in Int
      BY ZenonT(60), <1>2, <1>3
    <3> QED
      BY <3>1, <3>2
  <2>2. \E x, v : /\ ScanFrom(Rec(h, l, d, r, f, p), l, AlignedSize(r.size)) = Rec(h, l, d, x, v, p)
                  /\ Good(h, l, d, x, v)
    BY <1>2, <2>1, ScanFromGood
  <2>3. ScanStep(s, AlignedSize(s.run.size)) = ScanFrom(Rec(h, l, d, r, f, p), l, AlignedSize(r.size))
    BY <1>1, <1>4 DEF ScanStep
  <2> QED
    BY <2>2, <2>3
<1>5. CASE ~r.freed
  <2> DEFINE b == r.ptr
  <2>1. b \in Blk(h) /\ NoneBelow(h, b, r.size)
    BY <1>5 DEF Good, Scanning, NoneBelow
  <2>2. CASE Fits(s, b, AlignedSize(r.size))
    <3>1. ~h[b].used /\ Room(h, b) >= AlignedSize(r.size)
      BY <1>1, <2>2 DEF Fits, Room
    <3>2. \E g, k, e, x, v :
            /\ Take(Rec(h, l, d, r, f, p), b, AlignedSize(r.size)) = Rec(g, k, e, x, v, p)
            /\ Good(g, k, e, x, v)
      BY <2>1, <3>1, TakeGood
    <3>3. ScanStep(s, AlignedSize(s.run.size)) = Take(Rec(h, l, d, r, f, p), b, AlignedSize(r.size))
      BY <1>1, <1>5, <2>2 DEF ScanStep
    <3> QED
      BY <3>2, <3>3
  <2>3. CASE ~Fits(s, b, AlignedSize(r.size))
    <3> DEFINE n == h[b].next
    <3>1. h[b].used \/ ~(Room(h, b) >= AlignedSize(r.size))
      BY <1>1, <2>3 DEF Fits, Room
    <3>2. /\ n \in Blk(h) \cup {MemSize} /\ n \in Int /\ b \in Int
          /\ \A q \in Blk(h) : q <= b \/ q >= n
      BY Zenon, <1>2, <2>1, BlockFacts
    <3>3. AlignedSize(r.size) \in Int
      <4>1. r.size \in Int
        BY <1>2, SizesPos
      <4> QED
        BY <4>1 DEF AlignedSize, MemParams
    <3>4. Room(h, b) \in Int
      BY <3>2 DEF Room, Hdr
    <3>5. h[b].used \/ Room(h, b) < AlignedSize(r.size)
      BY <3>1, <3>3, <3>4
    <3> HIDE DEF n
    <3>6. NoneBelow(h, n, r.size)
      <4> SUFFICES ASSUME NEW q \in Blk(h), q < n
                   PROVE  h[q].used \/ Room(h, q) < AlignedSize(r.size)
        BY DEF NoneBelow
      <4>1. q <= b /\ q \in Int
        BY <1>3, <3>2
      <4>2. CASE q = b
        BY <3>5, <4>2
      <4>3. CASE q < b
        BY <2>1, <4>3 DEF NoneBelow
      <4> QED
        BY <3>2, <4>1, <4>2, <4>3
    <3>7. \E x, v : /\ ScanFrom(Rec(h, l, d, r, f, p), n, AlignedSize(r.size)) = Rec(h, l, d, x, v, p)
                    /\ Good(h, l, d, x, v)
      BY <1>2, <3>2, <3>6, ScanFromGood
    <3>8. ScanStep(s, AlignedSize(s.run.size)) = ScanFrom(Rec(h, l, d, r, f, p), n, AlignedSize(r.size))
      BY <1>1, <1>5, <2>3 DEF ScanStep, n
    <3> QED
      BY <3>7, <3>8
  <2> QED
    BY <2>2, <2>3
<1> QED
  BY <1>4, <1>5

\* One turn of the search for the new lowest free block.
LEMMA LfreeKeeps ==
  ASSUME MemParams, NEW h, NEW l, NEW d, NEW r, NEW f, NEW p, Good(h, l, d, r, f),
         NEW s, s = Rec(h, l, d, r, f, p), r.at = "lfree"
  PROVE  \E g, k, e, x, v : LfreeStep(s) = Rec(g, k, e, x, v, p) /\ Good(g, k, e, x, v)
<1> DEFINE b == r.ptr
           c == h[r.cur].next
<1>1. s.run = r /\ s.lfree = l /\ s.h = h
  BY RecFields
<1>2. /\ r \in Runs /\ f \in Nat /\ Tiled(h) /\ NoTouch(h) /\ Low(h, l)
      /\ r.size \in Sizes /\ b \in Blk(h) /\ h[b].used /\ Room(h, b) >= r.size
      /\ l \in Blk(h) /\ (l = b \/ ~h[l].used)
  BY DEF Good, Adjusting
<1>3. Taking(h, d, b, r.size)
  BY Zenon, <1>2 DEF Good, Owned, Taking
<1>4. CASE r.freed
  <2>1. LfreeStep(s) = Took(Rec(h, l, d, r, f, p), b)
    BY <1>1, <1>4 DEF LfreeStep
  <2>2. Continues(Took(Rec(h, l, d, r, f, p), b), h, p)
    BY Zenon, <1>2, <1>3, TookGood
  <2> QED
    BY <2>1, <2>2 DEF Continues
<1>5. CASE ~r.freed
  <2>1. LfreeStep(s) = AdjustLfree(Rec(h, l, d, r, f, p), b, c)
    BY <1>1, <1>5 DEF LfreeStep
  <2>2. r.cur \in Blk(h) /\ h[r.cur].used /\ \A q \in Blk(h) : ~h[q].used => r.cur <= q
    BY <1>5 DEF Good, Adjusting
  <2>3. /\ c \in Blk(h) \cup {MemSize} /\ r.cur \in Int
        /\ \A q \in Blk(h) : q <= r.cur \/ q >= c
    BY Zenon, <1>2, <2>2, BlockFacts
  <2>4. FreeFrom(h, c)
    <3> SUFFICES ASSUME NEW q \in Blk(h), ~h[q].used PROVE c <= q
      BY DEF FreeFrom
    <3>1. q \in Int /\ c \in Int /\ r.cur <= q /\ q # r.cur
      BY <2>2, <2>3, PtrsInt DEF Blk
    <3> HIDE DEF c
    <3> QED
      BY <2>3, <3>1
  <2> HIDE DEF c
  <2>5. Continues(AdjustLfree(Rec(h, l, d, r, f, p), b, c), h, p)
    <3> HIDE DEF b
    <3> QED
      BY ONLY MemParams, <1>2, <1>3, <2>3, <2>4, AdjustGood
  <2> QED
    BY <2>1, <2>5 DEF Continues
<1> QED
  BY <1>4, <1>5

(***************************************************************************)
(* The pool: the free list and what is handed out share the elements.      *)
(***************************************************************************)
PoolOK(p) ==
  /\ p = [tab |-> p.tab, out |-> p.out]
  /\ p.tab \in Seq(1..PoolNum) /\ p.out \subseteq 1..PoolNum
  /\ \A i, j \in 1..Len(p.tab) : p.tab[i] = p.tab[j] => i = j
  /\ \A i \in 1..Len(p.tab) : p.tab[i] \notin p.out
  /\ \A e \in 1..PoolNum : e \in p.out \/ \E i \in 1..Len(p.tab) : p.tab[i] = e

\* memp_init_pool
LEMMA PoolInit == MemParams => PoolOK(memp_init_pool)
<1> SUFFICES ASSUME MemParams PROVE PoolOK(memp_init_pool)
  OBVIOUS
<1> DEFINE t == [i \in 1..PoolNum |-> PoolNum + 1 - i]
<1>0. PoolNum \in Nat
  BY DEF MemParams
<1>1. t \in Seq(1..PoolNum) /\ Len(t) = PoolNum
  BY <1>0
<1>2. \A i \in 1..PoolNum : t[i] = PoolNum + 1 - i
  OBVIOUS
<1>3. memp_init_pool = [tab |-> t, out |-> {}]
  BY DEF memp_init_pool
<1> HIDE DEF t
<1>4. \A i, j \in 1..Len(t) : t[i] = t[j] => i = j
  BY <1>0, <1>1, <1>2
<1>5. \A e \in 1..PoolNum : \E i \in 1..Len(t) : t[i] = e
  <2> TAKE e \in 1..PoolNum
  <2>1. PoolNum + 1 - e \in 1..Len(t) /\ t[PoolNum + 1 - e] = e
    BY <1>0, <1>1, <1>2
  <2> QED
    BY <2>1
<1> QED
  BY <1>1, <1>3, <1>4, <1>5 DEF PoolOK

\* The elements of a sequence are in its set.
LEMMA SeqElement == \A S : \A t \in Seq(S) : \A i \in 1..Len(t) : t[i] \in S
OBVIOUS

\* memp_malloc takes the first element.
LEMMA PoolTake ==
  ASSUME NEW p, PoolOK(p), p.tab # <<>>
  PROVE  PoolOK([tab |-> Tail(p.tab), out |-> p.out \union {Head(p.tab)}])
<1> DEFINE t == p.tab
           u == Tail(t)
           o == p.out \union {Head(t)}
<1>1. t \in Seq(1..PoolNum) /\ t # <<>> /\ Len(t) \in Nat
  BY DEF PoolOK
<1> HIDE DEF t
<1>a. Len(t) >= 1
  BY <1>1
<1>b. u \in Seq(1..PoolNum) /\ Len(u) = Len(t) - 1
  BY <1>1
<1>c. \A i \in 1..Len(u) : u[i] = t[i + 1]
  BY <1>1, <1>b
<1>2. /\ u \in Seq(1..PoolNum) /\ Len(u) = Len(t) - 1 /\ Head(t) = t[1] /\ Len(t) >= 1
      /\ \A i \in 1..Len(u) : u[i] = t[i + 1] /\ i + 1 \in 1..Len(t)
  BY <1>1, <1>a, <1>b, <1>c
<1>3. t[1] \in 1..PoolNum
  <2>1. 1 \in 1..Len(t)
    BY <1>1, <1>a
  <2> QED
    BY Zenon, <1>1, <2>1, SeqElement
<1>4. /\ \A i, j \in 1..Len(t) : t[i] = t[j] => i = j
      /\ \A i \in 1..Len(t) : t[i] \notin p.out
      /\ \A e \in 1..PoolNum : e \in p.out \/ \E i \in 1..Len(t) : t[i] = e
      /\ p.out \subseteq 1..PoolNum
  BY DEF PoolOK, t
<1> HIDE DEF u
<1>5. \A i, j \in 1..Len(u) : u[i] = u[j] => i = j
  BY <1>1, <1>2, <1>4
<1>6. \A i \in 1..Len(u) : u[i] \notin o
  BY <1>1, <1>2, <1>4
<1>7. \A e \in 1..PoolNum : e \in o \/ \E i \in 1..Len(u) : u[i] = e
  <2> TAKE e \in 1..PoolNum
  <2>1. CASE e \in p.out
    BY <2>1
  <2>2. CASE \E i \in 1..Len(t) : t[i] = e
    <3>1. PICK i \in 1..Len(t) : t[i] = e
      BY <2>2
    <3>2. CASE i = 1
      BY <1>2, <3>1, <3>2
    <3>3. CASE i # 1
      <4>1. i - 1 \in 1..Len(u) /\ (i - 1) + 1 = i
        BY <1>1, <1>2, <3>3
      <4>2. u[i - 1] = t[(i - 1) + 1]
        BY <1>2, <4>1
      <4>3. u[i - 1] = e
        BY <3>1, <4>1, <4>2
      <4> QED
        BY <4>1, <4>3
    <3> QED
      BY <3>2, <3>3
  <2> QED
    BY <1>4, <2>1, <2>2
<1>8. o \subseteq 1..PoolNum
  BY <1>2, <1>3, <1>4
<1> HIDE DEF o
<1>9. PoolOK([tab |-> u, out |-> o])
  BY <1>2, <1>5, <1>6, <1>7, <1>8 DEF PoolOK
<1> QED
  BY <1>9 DEF t, u, o

\* memp_free puts it back first.
LEMMA PoolGive ==
  ASSUME NEW p, PoolOK(p), NEW e \in p.out
  PROVE  PoolOK([tab |-> <<e>> \o p.tab, out |-> p.out \ {e}])
<1> DEFINE t == p.tab
           u == <<e>> \o t
           o == p.out \ {e}
<1>1. t \in Seq(1..PoolNum) /\ Len(t) \in Nat /\ e \in 1..PoolNum
  BY DEF PoolOK
<1>2. /\ u \in Seq(1..PoolNum) /\ Len(u) = Len(t) + 1 /\ u[1] = e
      /\ \A i \in 1..Len(u) : i # 1 => u[i] = t[i - 1] /\ i - 1 \in 1..Len(t)
  BY <1>1
<1>4. /\ \A i, j \in 1..Len(t) : t[i] = t[j] => i = j
      /\ \A i \in 1..Len(t) : t[i] \notin p.out
      /\ \A x \in 1..PoolNum : x \in p.out \/ \E i \in 1..Len(t) : t[i] = x
      /\ p.out \subseteq 1..PoolNum
  BY DEF PoolOK
<1> HIDE DEF t, u
<1>5. \A i, j \in 1..Len(u) : u[i] = u[j] => i = j
  <2> TAKE i, j \in 1..Len(u)
  <2> HAVE u[i] = u[j]
  <2>1. i \in Int /\ j \in Int
    BY <1>1, <1>2
  <2>2. CASE i = 1 \/ j = 1
    BY <1>2, <1>4, <2>2
  <2>3. CASE i # 1 /\ j # 1
    <3>1. i - 1 = j - 1
      BY <1>2, <1>4, <2>3
    <3> QED
      BY <2>1, <3>1
  <2> QED
    BY <2>2, <2>3
<1>6. \A i \in 1..Len(u) : u[i] \notin o
  BY Zenon, <1>2, <1>4
<1>7. \A x \in 1..PoolNum : x \in o \/ \E i \in 1..Len(u) : u[i] = x
  <2> TAKE x \in 1..PoolNum
  <2>0. 1 \in 1..Len(u)
    BY <1>1, <1>2
  <2>1. CASE x = e
    BY <1>2, <2>0, <2>1
  <2>2. CASE x # e /\ x \in p.out
    BY <2>2
  <2>3. CASE \E i \in 1..Len(t) : t[i] = x
    <3>1. PICK i \in 1..Len(t) : t[i] = x
      BY <2>3
    <3>2. i + 1 \in 1..Len(u) /\ i + 1 # 1 /\ (i + 1) - 1 = i
      BY <1>1, <1>2
    <3>3. u[i + 1] = t[(i + 1) - 1]
      BY <1>2, <3>2
    <3>4. u[i + 1] = x
      BY <3>1, <3>2, <3>3
    <3> QED
      BY <3>2, <3>4
  <2> QED
    BY <1>4, <2>1, <2>2, <2>3
<1>8. o \subseteq 1..PoolNum
  BY <1>4
<1> HIDE DEF o
<1>9. PoolOK([tab |-> u, out |-> o])
  BY <1>2, <1>5, <1>6, <1>7, <1>8 DEF PoolOK
<1> QED
  BY <1>9 DEF t, u, o

\* The inductive invariant.
HeapInv == MemInv /\ PoolOK(mem.pool)

\* It holds at the start ...
LEMMA InitInv == MemInit => HeapInv
<1> SUFFICES ASSUME MemInit PROVE HeapInv
  OBVIOUS
<1> USE MemAssumption
<1>1. mem = Rec(mem_init, 0, {}, Idle, 0, memp_init_pool)
  BY DEF MemInit, Rec
<1>2. Good(mem_init, 0, {}, Idle, 0) /\ PoolOK(memp_init_pool)
  BY InitGood, PoolInit
<1>3. /\ mem.h = mem_init /\ mem.lfree = 0 /\ mem.held = {} /\ mem.run = Idle
      /\ mem.failed = 0 /\ mem.pool = memp_init_pool
  BY <1>1, RecFields
<1> QED
  BY <1>1, <1>2, <1>3 DEF HeapInv, MemInv

\* (a state given by its fields)
LEMMA RecInv ==
  ASSUME NEW h, NEW l, NEW d, NEW r, NEW f, NEW p,
         mem' = Rec(h, l, d, r, f, p), Good(h, l, d, r, f), PoolOK(p)
  PROVE  HeapInv'
<1>3. /\ mem'.h = h /\ mem'.lfree = l /\ mem'.held = d /\ mem'.run = r
      /\ mem'.failed = f /\ mem'.pool = p
  BY RecFields
<1> QED
  BY <1>3 DEF HeapInv, MemInv

\* ... is kept by every step ...
LEMMA NextInv == HeapInv /\ [MemNext]_mem => HeapInv'
<1> SUFFICES ASSUME HeapInv, [MemNext]_mem PROVE HeapInv'
  OBVIOUS
<1> USE MemAssumption
<1> DEFINE h == mem.h
           l == mem.lfree
           d == mem.held
           r == mem.run
           f == mem.failed
           p == mem.pool
<1>0. Good(h, l, d, r, f) /\ mem = Rec(h, l, d, r, f, p) /\ PoolOK(p)
  BY DEF HeapInv, MemInv
<1>1. ASSUME NEW size \in Sizes, mem_malloc(size) PROVE HeapInv'
  <2>1. r.at = "idle"
    BY <1>1 DEF mem_malloc
  <2>2. mem' = MallocResult(mem, size)
    BY <1>1 DEF mem_malloc, MallocResult
  <2> HIDE DEF h, l, d, r, f, p
  <2>3. \E g, k, e, x, v : mem' = Rec(g, k, e, x, v, p) /\ Good(g, k, e, x, v)
    BY <1>0, <2>1, <2>2, MallocKeeps
  <2> QED
    BY <1>0, <2>3, RecInv
<1>2. ASSUME Scan PROVE HeapInv'
  <2>1. r.at = "scan" /\ mem' = ScanStep(mem, AlignedSize(mem.run.size))
    BY <1>2 DEF Scan
  <2> HIDE DEF h, l, d, r, f, p
  <2>3. \E g, k, e, x, v : mem' = Rec(g, k, e, x, v, p) /\ Good(g, k, e, x, v)
    BY <1>0, <2>1, ScanKeeps
  <2> QED
    BY <1>0, <2>3, RecInv
<1>3. ASSUME Lfree PROVE HeapInv'
  <2>1. r.at = "lfree" /\ mem' = LfreeStep(mem)
    BY <1>3 DEF Lfree
  <2> HIDE DEF h, l, d, r, f, p
  <2>3. \E g, k, e, x, v : mem' = Rec(g, k, e, x, v, p) /\ Good(g, k, e, x, v)
    BY <1>0, <2>1, LfreeKeeps
  <2> QED
    BY <1>0, <2>3, RecInv
<1>4. ASSUME NEW m \in mem.held, mem_free(m) PROVE HeapInv'
  <2>0. mem' = FreeResult(mem, m) \/ mem' = mem
    BY <1>4 DEF mem_free, FreeResult
  <2>1. CASE mem' = FreeResult(mem, m)
    <3>1. m \in d
      OBVIOUS
    <3> HIDE DEF h, l, d, r, f, p
    <3>3. \E g, k, e, x, v : mem' = Rec(g, k, e, x, v, p) /\ Good(g, k, e, x, v)
      BY <1>0, <2>1, <3>1, FreeKeeps
    <3> QED
      BY <1>0, <3>3, RecInv
  <2>2. CASE mem' = mem
    <3> HIDE DEF h, l, d, r, f, p
    <3> QED
      BY <1>0, <2>2, RecInv
  <2> QED
    BY <2>0, <2>1, <2>2
<1>5. ASSUME NEW m \in mem.held, NEW size \in Sizes, mem_trim(m, size) PROVE HeapInv'
  <2>1. /\ m \in d /\ size < m.size
        /\ mem' = TrimResult(mem, m, size)
    BY <1>5 DEF mem_trim, TrimResult
  <2> HIDE DEF h, l, d, r, f, p
  <2>3. \E g, k, e, x, v : mem' = Rec(g, k, e, x, v, p) /\ Good(g, k, e, x, v)
    BY <1>0, <2>1, TrimKeeps
  <2> QED
    BY <1>0, <2>3, RecInv
<1>6. ASSUME memp_malloc PROVE HeapInv'
  <2> DEFINE q == [tab |-> Tail(p.tab), out |-> p.out \union {Head(p.tab)}]
  <2>1. p.tab # <<>> /\ mem' = [mem EXCEPT !.pool = q]
    BY <1>6 DEF memp_malloc
  <2> HIDE DEF h, l, d, r, f, p
  <2>2. PoolOK(q)
    BY <1>0, <2>1, PoolTake
  <2> HIDE DEF q
  <2>3. [Rec(h, l, d, r, f, p) EXCEPT !.pool = q] = Rec(h, l, d, r, f, q)
    BY ONLY SetPool
  <2>4. mem' = Rec(h, l, d, r, f, q)
    BY <1>0, <2>1, <2>3
  <2> QED
    BY <1>0, <2>2, <2>4, RecInv
<1>7. ASSUME NEW e \in mem.pool.out, memp_free(e) PROVE HeapInv'
  <2> DEFINE q == [tab |-> <<e>> \o p.tab, out |-> p.out \ {e}]
  <2>1. e \in p.out /\ mem' = [mem EXCEPT !.pool = q]
    BY <1>7 DEF memp_free
  <2> HIDE DEF h, l, d, r, f, p
  <2>2. PoolOK(q)
    BY <1>0, <2>1, PoolGive
  <2> HIDE DEF q
  <2>3. [Rec(h, l, d, r, f, p) EXCEPT !.pool = q] = Rec(h, l, d, r, f, q)
    BY ONLY SetPool
  <2>4. mem' = Rec(h, l, d, r, f, q)
    BY <1>0, <2>1, <2>3
  <2> QED
    BY <1>0, <2>2, <2>4, RecInv
<1>8. ASSUME UNCHANGED mem PROVE HeapInv'
  BY <1>8 DEF HeapInv, MemInv
<1> QED
  BY Zenon, <1>1, <1>2, <1>3, <1>4, <1>5, <1>6, <1>7, <1>8 DEF MemNext

\* ... and implies what the runs check.
LEMMA InvTiles == HeapInv => HeapTiles
<1> SUFFICES ASSUME HeapInv PROVE HeapTiles
  OBVIOUS
<1> USE MemAssumption
<1> DEFINE h == mem.h
           l == mem.lfree
           d == mem.held
           r == mem.run
           f == mem.failed
<1>0. Good(h, l, d, r, f)
  BY DEF HeapInv, MemInv
<1>1. Chain = Blk(h)
  BY DEF Chain, Blk
<1>2. Tiled(h) /\ NoTouch(h) /\ Low(h, l) /\ Owned(h, d, r)
  BY <1>0 DEF Good
<1>3. MemSize \in Int /\ MinSize \in Int /\ MinSize > 0 /\ Blk(h) \subseteq Int
  BY PtrsInt DEF MemParams, Blk
<1>4. 0 \in Blk(h)
  BY <1>2 DEF Tiled, Links
<1>5. ASSUME NEW p \in Blk(h)
      PROVE  /\ h[p].next > p + Hdr
             /\ h[p].next \in Blk(h) \union {MemSize}
             /\ (p + 1)..(h[p].next - 1) \intersect Blk(h) = {}
             /\ p > 0 => h[h[p].prev].next = p
             /\ h[p].used <=> p \in Taken
             /\ ~h[p].used /\ h[p].next # MemSize => h[h[p].next].used
  <2>1. /\ p \in Int /\ h[p].next \in Int /\ h[p].next >= p + 1 + MinSize
        /\ h[p].next \in Blk(h) \union {MemSize}
        /\ \A q \in Blk(h) : q <= p \/ q >= h[p].next
        /\ p > 0 => h[h[p].prev].next = p
    BY ZenonT(60), <1>2, BlockFacts
  <2>2. h[p].next > p + Hdr
    BY <1>3, <2>1 DEF Hdr
  <2>3. (p + 1)..(h[p].next - 1) \intersect Blk(h) = {}
    <3> SUFFICES ASSUME NEW q \in Blk(h), q \in (p + 1)..(h[p].next - 1) PROVE FALSE
      OBVIOUS
    <3> QED
      BY <2>1
  <2>4. h[p].used => p \in Taken
    BY <1>2 DEF Owned, Taken
  <2>5. p \in Taken => h[p].used
    <3> SUFFICES ASSUME p \in Taken PROVE h[p].used
      OBVIOUS
    <3>1. CASE \E m \in d : p = m.ptr
      BY ZenonT(60), <1>2, <3>1 DEF Owned
    <3>2. CASE r.at = "lfree" /\ p = r.ptr
      BY <1>0, <3>2 DEF Good, Adjusting
    <3> QED
      BY <3>1, <3>2 DEF Taken
  <2>6. h[p].used \in BOOLEAN
    BY <1>2, BlockFacts DEF Headers
  <2>7. ~h[p].used /\ h[p].next # MemSize => h[h[p].next].used
    BY <1>2 DEF NoTouch
  <2> QED
    BY <2>1, <2>2, <2>3, <2>4, <2>5, <2>6, <2>7
<1>6. ASSUME NEW m \in d PROVE m.ptr \in Blk(h) /\ h[m.ptr].next - m.ptr - Hdr >= m.size
  <2>1. m.ptr \in Blk(h) /\ Room(h, m.ptr) >= m.size /\ m.size \in Sizes
    BY <1>2 DEF Owned
  <2>2. h[m.ptr].next \in Int /\ m.ptr \in Int
    BY <1>2, <2>1, BlockFacts
  <2>3. m.size \in Int
    BY <2>1, SizesPos
  <2> QED
    BY <2>1, <2>2, <2>3 DEF Room, Hdr
<1>7. (\A p \in Blk(h) : ~h[p].used => l <= p) /\ l \in Blk(h) \union {MemSize}
  BY <1>2 DEF Low
<1>8. r.at # "lfree" /\ l # MemSize => ~h[l].used
  BY <1>0 DEF Good
<1> QED
  BY Zenon, <1>1, <1>4, <1>5, <1>6, <1>7, <1>8 DEF HeapTiles

LEMMA InvRefuses == HeapInv => MallocFailsRightly
<1> SUFFICES ASSUME HeapInv, mem.failed # 0, mem.run.at = "idle",
                    NEW p \in Chain, Fits(mem, p, AlignedSize(mem.failed))
             PROVE  FALSE
  BY DEF MallocFailsRightly
<1> USE MemAssumption
<1>0. Good(mem.h, mem.lfree, mem.held, mem.run, mem.failed)
  BY DEF HeapInv, MemInv
<1>1. p \in Blk(mem.h)
  BY DEF Chain, Blk
<1>2. mem.h[p].used \/ Room(mem.h, p) < AlignedSize(mem.failed)
  BY <1>0, <1>1 DEF Good, Refused
<1>3. ~mem.h[p].used /\ Room(mem.h, p) >= AlignedSize(mem.failed)
  BY DEF Fits, Room
<1>4. Room(mem.h, p) \in Int
  <2>1. mem.h[p].next \in Int /\ p \in Int
    BY ZenonT(60), <1>0, <1>1, BlockFacts DEF Good
  <2> QED
    BY <2>1 DEF Room, Hdr
<1>5. AlignedSize(mem.failed) \in Int
  BY <1>0 DEF Good, AlignedSize, MemParams
<1> QED
  BY <1>2, <1>3, <1>4, <1>5

LEMMA InvPool == HeapInv => PoolConserved
<1> SUFFICES ASSUME HeapInv PROVE PoolConserved
  OBVIOUS
<1> DEFINE t == mem.pool.tab
           o == mem.pool.out
<1>1. /\ t \in Seq(1..PoolNum) /\ o \subseteq 1..PoolNum
      /\ \A i, j \in 1..Len(t) : t[i] = t[j] => i = j
      /\ \A i \in 1..Len(t) : t[i] \notin o
      /\ \A e \in 1..PoolNum : e \in o \/ \E i \in 1..Len(t) : t[i] = e
  BY DEF HeapInv, PoolOK
<1> HIDE DEF t, o
<1>2. DOMAIN t = 1..Len(t)
  BY <1>1
<1>3. \A i \in 1..Len(t) : t[i] \in 1..PoolNum
  BY Zenon, <1>1, SeqElement
<1>4. IsInjective(t)
  BY <1>1, <1>2 DEF IsInjective
<1>5. Range(t) \intersect o = {}
  BY <1>1, <1>2 DEF Range
<1>6. \A e \in Range(t) : e \in 1..PoolNum
  BY <1>2, <1>3 DEF Range
<1>7. \A e \in 1..PoolNum : e \in o \/ e \in Range(t)
  BY <1>1, <1>2 DEF Range
<1> QED
  BY <1>1, <1>4, <1>5, <1>6, <1>7 DEF PoolConserved, t, o

\* In every reachable state of a heap of any size, for requests of any sizes
\* and a pool of any length, whatever mem_free and mem_trim do in the windows
\* of mem_malloc's scan, the inductive invariant holds.
THEOREM HeapInvariant == MemSpec => []HeapInv
BY InitInv, NextInv, PTL DEF MemSpec

\* The blocks always cover the heap with links that agree, no two free blocks
\* touch, the used blocks are those the program holds, each large enough, and
\* lfree is the lowest free block (mem_malloc, mem_free, mem_trim).
THEOREM HeapAlwaysTiles == MemSpec => []HeapTiles
BY HeapInvariant, InvTiles, PTL

\* mem_malloc returns NULL only when no free block is large enough: the
\* restart on mem_free_count makes the unprotected scan sound.
THEOREM MallocRefusesRightly == MemSpec => []MallocFailsRightly
BY HeapInvariant, InvRefuses, PTL

\* memp_malloc and memp_free neither lose nor duplicate an element.
THEOREM PoolAlwaysConserved == MemSpec => []PoolConserved
BY HeapInvariant, InvPool, PTL
=============================================================================

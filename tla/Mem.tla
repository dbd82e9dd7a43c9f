-------------------------------- MODULE Mem --------------------------------
(***************************************************************************)
(* The heap of src/core/mem.c (first fit over a list of blocks laid out in *)
(* one array, with a header in front of each) and the pools of             *)
(* src/core/memp.c (a free list per pool), with                            *)
(* LWIP_ALLOW_MEM_FREE_FROM_OTHER_CONTEXT: mem_malloc opens its protection *)
(* once per block it looks at, and mem_free or mem_trim of an interrupt or *)
(* another task may run in each of these windows.                          *)
(*                                                                         *)
(* Sizes are in alignment units; a header takes one unit (SIZEOF_STRUCT_MEM)*)
(* and MinSize units are the smallest payload.  A header that a merge      *)
(* leaves behind is garbage (Nothing).                                     *)
(***************************************************************************)
EXTENDS Integers, FiniteSets, Sequences, Functions

CONSTANTS MemSize,       \* MEM_SIZE_ALIGNED
          MinSize,       \* MIN_SIZE_ALIGNED
          Sizes,         \* sizes the program asks for
          MaxBlocks,     \* blocks the program holds at a time
          PoolNum,       \* elements of the pool
          OtherContext   \* LWIP_ALLOW_MEM_FREE_FROM_OTHER_CONTEXT

VARIABLE mem

Hdr == 1

MemParams == /\ MemSize \in Nat /\ MinSize \in Nat \ {0}
             /\ Hdr + MinSize <= MemSize
             /\ Sizes \subseteq Nat \ {0}
             /\ PoolNum \in Nat

ASSUME MemAssumption == MemParams

Ptrs == 0..MemSize

\* the headers, the lowest free block, the blocks the program holds with
\* the size it asked for, the running mem_malloc, the size the last failed
\* mem_malloc asked for, and the pool
Idle == [at |-> "idle", ptr |-> 0, size |-> 0, cur |-> 0, freed |-> FALSE]

Nothing == [next |-> MemSize, prev |-> MemSize, used |-> TRUE]

mem_init == [p \in Ptrs |->
               IF p = 0 THEN [next |-> MemSize, prev |-> 0, used |-> FALSE]
               ELSE Nothing]

memp_init_pool == [tab |-> [i \in 1..PoolNum |-> PoolNum + 1 - i], out |-> {}]

MemInit == mem = [h |-> mem_init, lfree |-> 0, held |-> {}, run |-> Idle,
                  failed |-> 0, pool |-> memp_init_pool]

AlignedSize(size) == IF size < MinSize THEN MinSize ELSE size

(***************************************************************************)
(* Linking: the header of p, and the prev of the block that follows it.    *)
(***************************************************************************)
SetPrev(h, p, prev) == IF p = MemSize THEN h ELSE [h EXCEPT ![p].prev = prev]

\* plug_holes: m was freed; merge it with a free successor ...
PlugNext(s, m, n) ==
  IF m # n /\ ~s.h[n].used /\ n # MemSize
  THEN [s EXCEPT !.lfree = IF @ = n THEN m ELSE @,
                 !.h = SetPrev([@ EXCEPT ![m].next = s.h[n].next, ![n] = Nothing],
                               s.h[n].next, m)]
  ELSE s

\* ... and with a free predecessor
PlugPrev(s, m, p) ==
  IF p # m /\ ~s.h[p].used
  THEN [s EXCEPT !.lfree = IF @ = m THEN p ELSE @,
                 !.h = SetPrev([@ EXCEPT ![p].next = s.h[m].next, ![m] = Nothing],
                               s.h[m].next, p)]
  ELSE s

plug_holes(s, m) == PlugPrev(PlugNext(s, m, s.h[m].next), m, s.h[m].prev)

\* mem_link_valid
mem_link_valid(h, m) ==
  /\ h[m].prev = m \/ h[h[m].prev].next = m
  /\ h[m].next = MemSize \/ h[h[m].next].prev = m

MayInterrupt(s) == s.run.at = "idle" \/ OtherContext

Noticed(s) == IF s.run.at = "idle" THEN s ELSE [s EXCEPT !.run.freed = TRUE]

(***************************************************************************)
(* mem_free                                                                *)
(***************************************************************************)
\* Mutant: lfree is not lowered to a block freed below it.
FreedAbove(s, m) == plug_holes([s EXCEPT !.h[m].used = FALSE], m)

Freed(s, m) == plug_holes([s EXCEPT !.h[m].used = FALSE,
                                    !.lfree = IF m < @ THEN m ELSE @], m)

mem_free(m) ==
  /\ MayInterrupt(mem)
  /\ m \in mem.held
  /\ mem' = IF mem.h[m.ptr].used /\ mem_link_valid(mem.h, m.ptr)
            THEN Noticed(Freed([mem EXCEPT !.held = @ \ {m}, !.failed = 0], m.ptr))
            ELSE mem

(***************************************************************************)
(* mem_trim: give back the end of a block.  The new block starts at p2.    *)
(***************************************************************************)
TrimNext(s, m, p2, next) ==
  [s EXCEPT !.h = SetPrev([@ EXCEPT ![p2] = [next |-> next, prev |-> m, used |-> FALSE],
                                    ![m].next = p2], next, p2)]

TrimMerge(s, m, p2) ==
  TrimNext([s EXCEPT !.lfree = IF @ = s.h[m].next THEN p2 ELSE @,
                     !.h[s.h[m].next] = Nothing],
           m, p2, s.h[s.h[m].next].next)

TrimSplit(s, m, p2) ==
  TrimNext([s EXCEPT !.lfree = IF p2 < @ THEN p2 ELSE @], m, p2, s.h[m].next)

Trimmed(s, m, new, old) ==
  IF new = old THEN s
  ELSE IF ~s.h[s.h[m].next].used THEN Noticed(TrimMerge(s, m, m + Hdr + new))
  ELSE IF new + Hdr + MinSize <= old THEN Noticed(TrimSplit(s, m, m + Hdr + new))
  ELSE Noticed(s)

mem_trim(m, size) ==
  /\ MayInterrupt(mem)
  /\ m \in mem.held
  /\ size < m.size
  /\ mem' = Trimmed([mem EXCEPT !.held = (@ \ {m}) \union {[m EXCEPT !.size = size]},
                               !.failed = 0],
                    m.ptr, AlignedSize(size), mem.h[m.ptr].next - m.ptr - Hdr)

(***************************************************************************)
(* mem_malloc.  at = "scan": protection is open, the block at ptr is next  *)
(* to be looked at.  at = "lfree": the block is taken and the search for   *)
(* the new lowest free block has reached cur.                              *)
(***************************************************************************)
Fits(s, p, size) == ~s.h[p].used /\ s.h[p].next - (p + Hdr) >= size

Split(s, p, size) ==
  IF s.h[p].next - (p + Hdr) >= size + Hdr + MinSize
  THEN TrimNext(s, p, p + Hdr + size, s.h[p].next)
  ELSE s

Returned(s, p, size) ==
  [s EXCEPT !.held = @ \union {[ptr |-> p, size |-> size]}, !.run = Idle, !.failed = 0]

\* mem_malloc_adjust_lfree: cur is a used block, or the search is over
AdjustLfree(s, p, cur) ==
  IF s.h[cur].used /\ cur # MemSize
  THEN [s EXCEPT !.run = [@ EXCEPT !.at = "lfree", !.ptr = p, !.cur = cur, !.freed = FALSE]]
  ELSE Returned([s EXCEPT !.lfree = cur], p, s.run.size)

Took(s, p) == IF p = s.lfree THEN AdjustLfree(s, p, s.lfree) ELSE Returned(s, p, s.run.size)

Take(s, p, size) == Took(Split([s EXCEPT !.h[p].used = TRUE], p, size), p)

\* the loop condition, before the window opens for the block at p
ScanFrom(s, p, size) ==
  IF p < MemSize - size
  THEN [s EXCEPT !.run = [@ EXCEPT !.at = "scan", !.ptr = p, !.freed = FALSE]]
  ELSE [s EXCEPT !.run = Idle, !.failed = s.run.size]

mem_malloc(size) ==
  /\ mem.run.at = "idle"
  /\ Cardinality(mem.held) < MaxBlocks
  /\ mem' = ScanFrom([mem EXCEPT !.run.size = size, !.failed = 0], mem.lfree, AlignedSize(size))

\* Mutant: what was freed while the window was open is not noticed.
ScanOnward(s, size) ==
  IF Fits(s, s.run.ptr, size) THEN Take(s, s.run.ptr, size)
  ELSE ScanFrom(s, s.h[s.run.ptr].next, size)

\* after the window: start over when something was freed, else look at ptr
ScanStep(s, size) ==
  IF s.run.freed THEN ScanFrom(s, s.lfree, size)
  ELSE IF Fits(s, s.run.ptr, size) THEN Take(s, s.run.ptr, size)
  ELSE ScanFrom(s, s.h[s.run.ptr].next, size)

Scan == mem.run.at = "scan" /\ mem' = ScanStep(mem, AlignedSize(mem.run.size))

LfreeStep(s) == IF s.run.freed THEN Took(s, s.run.ptr)
                ELSE AdjustLfree(s, s.run.ptr, s.h[s.run.cur].next)

Lfree == mem.run.at = "lfree" /\ mem' = LfreeStep(mem)

(***************************************************************************)
(* memp: take the first element of the free list, put one back in front.   *)
(***************************************************************************)
memp_malloc ==
  /\ mem.pool.tab # <<>>
  /\ mem' = [mem EXCEPT !.pool = [tab |-> Tail(@.tab), out |-> @.out \union {Head(@.tab)}]]

memp_free(e) ==
  /\ e \in mem.pool.out
  /\ mem' = [mem EXCEPT !.pool = [tab |-> <<e>> \o @.tab, out |-> @.out \ {e}]]

MemNext ==
  \/ \E size \in Sizes : mem_malloc(size)
  \/ Scan
  \/ Lfree
  \/ \E m \in mem.held : mem_free(m)
  \/ \E m \in mem.held, size \in Sizes : mem_trim(m, size)
  \/ memp_malloc
  \/ \E e \in mem.pool.out : memp_free(e)

MemSpec == MemInit /\ [][MemNext]_mem

----------------------------------------------------------------------------
\* the blocks of the heap
Chain == {p \in Ptrs : mem.h[p] # Nothing}

Taken == {m.ptr : m \in mem.held}
         \union (IF mem.run.at = "lfree" THEN {mem.run.ptr} ELSE {})

(***************************************************************************)
(* Whatever frees and trims happen inside the windows of mem_malloc: the   *)
(* blocks cover the heap one after the other with prev links that agree,   *)
(* no two free blocks touch (what mem_sanity asserts), the used blocks are *)
(* the ones the program holds, each as large as it asked for, and lfree is *)
(* the lowest free block, so that the search of mem_malloc misses none.    *)
(***************************************************************************)
HeapTiles ==
  /\ 0 \in Chain
  /\ \A p \in Chain : /\ mem.h[p].next > p + Hdr
                      /\ mem.h[p].next \in Chain \union {MemSize}
                      /\ (p + 1)..(mem.h[p].next - 1) \intersect Chain = {}
                      /\ p > 0 => mem.h[mem.h[p].prev].next = p
                      /\ mem.h[p].used <=> p \in Taken
                      /\ ~mem.h[p].used /\ mem.h[p].next # MemSize => mem.h[mem.h[p].next].used
  /\ \A m \in mem.held : m.ptr \in Chain /\ mem.h[m.ptr].next - m.ptr - Hdr >= m.size
  /\ \A p \in Chain : ~mem.h[p].used => mem.lfree <= p
  /\ mem.lfree \in Chain \union {MemSize}
  /\ mem.run.at # "lfree" /\ mem.lfree # MemSize => ~mem.h[mem.lfree].used

\* mem_malloc returns NULL only when no free block is large enough at the
\* moment it gives up.
MallocFailsRightly ==
  mem.failed # 0 /\ mem.run.at = "idle"
    => \/ \A p \in Chain : ~Fits(mem, p, AlignedSize(mem.failed))
       \/ mem.failed > MemSize

\* The elements of a pool are each on the free list once or handed out.
PoolConserved == /\ IsInjective(mem.pool.tab)
                 /\ Range(mem.pool.tab) \intersect mem.pool.out = {}
                 /\ Range(mem.pool.tab) \union mem.pool.out = 1..PoolNum
=============================================================================

--------------------------- MODULE TcpPcbsProofs ----------------------------
(***************************************************************************)
(* The invariant of the registry, and what the functions of TcpPcbs do to it, *)
(* for pools, port ranges, priorities and backlogs of any size.            *)
(*                                                                         *)
(* Inv is the inductive invariant, as a predicate of a registry, so that it *)
(* can be shown of the registries between two calls of a handler.  It adds *)
(* to the properties of TcpPcbs that a block which is not active never counts *)
(* in a backlog and that one without a connection has no listener.  Most   *)
(* handlers are compositions of four transformations: blocks are retired,  *)
(* relabelled, accepted from a backlog, or allocated.                      *)
(***************************************************************************)
EXTENDS TcpPcbs, FiniteSetTheorems, WellFoundedInduction, TLAPS

PcbOK(r, p) ==
  /\ p \in r.active <=> r.pcb[p].state \in ActiveState
  /\ p \in r.tw <=> r.pcb[p].state = "TIME_WAIT"
  /\ p \in r.bound => r.pcb[p].state = "CLOSED" /\ r.pcb[p].local_port # 0
  /\ r.pcb[p].listener # NULL =>
       /\ r.pcb[p].listener \in r.listen
       /\ r.pcb[p].state \notin {"FREE", "CLOSED"}
       /\ r.pcb[p].state \notin ActiveState => ~r.pcb[p].backlogpend

LpcbOK(r, l) ==
  /\ l \in r.listen <=> r.lpcb[l].state = "LISTEN"
  /\ l \in r.listen => /\ r.lpcb[l].accepts_pending = Cardinality(Pending(r, Pcbs, l))
                       /\ r.lpcb[l].accepts_pending <= r.lpcb[l].backlog

BoundOK(r) ==
  \A p, q \in r.bound : r.pcb[p].local_port = r.pcb[q].local_port => p = q

Inv(r) ==
  /\ r \in Registry
  /\ \A p \in Pcbs : PcbOK(r, p)
  /\ \A l \in Lpcbs : LpcbOK(r, l)
  /\ BoundOK(r)

\* A connection that is being opened for a listener counts in its backlog.  Not
\* part of Inv: tcp_close_shutdown_fin breaks it on the way.
SynPending(r) ==
  \A p \in Pcbs : TCP_LISTEN_BACKLOG /\ r.pcb[p].state = "SYN_RCVD"
                    /\ r.pcb[p].listener # NULL => r.pcb[p].backlogpend

\* What a listener that is open in r can rely on in q.
Keeps(r, q) ==
  /\ q.listen = r.listen
  /\ \A l \in r.listen : /\ q.lpcb[l].backlog = r.lpcb[l].backlog
                         /\ q.lpcb[l].accepts_pending <= r.lpcb[l].accepts_pending

\* What every way of giving the blocks of D back comes to.
Retired(r, q, D) ==
  /\ q \in Registry
  /\ \A p \in Pcbs : q.pcb[p] = IF p \in D THEN FreePcb ELSE r.pcb[p]
  /\ q.active = r.active \ D /\ q.tw = r.tw \ D /\ q.bound = r.bound \ D
  /\ q.listen = r.listen
  /\ \A l \in Lpcbs :
       /\ q.lpcb[l].state = r.lpcb[l].state
       /\ q.lpcb[l].backlog = r.lpcb[l].backlog
       /\ q.lpcb[l].accepts_pending
            = r.lpcb[l].accepts_pending - Cardinality(Pending(r, D, l))

-----------------------------------------------------------------------------
\* FreePcb, FreeLpcb and the block tcp_alloc returns have the types of the pools.
LEMMA FreeTypes ==
  /\ FreePcb \in Pcb
  /\ FreeLpcb \in Lpcb
  /\ \A prio \in Nat : NewPcb(prio) \in Pcb
<1>1. 0 \in 0..(U16 - 1)
  BY PortAssumption
<1>2. FreePcb \in Pcb /\ FreeLpcb \in Lpcb
  BY <1>1 DEF FreePcb, FreeLpcb, Pcb, Lpcb
<1>3. ASSUME NEW prio \in Nat PROVE NewPcb(prio) \in Pcb
  BY <1>2, Zenon DEF NewPcb, Pcb
<1> QED
  BY <1>2, <1>3

\* The blocks pending at a listener are finitely many.
LEMMA PendingFinite ==
  ASSUME NEW r, NEW D \in SUBSET Pcbs, NEW l
  PROVE  /\ IsFiniteSet(Pending(r, D, l))
         /\ Cardinality(Pending(r, D, l)) \in Nat
<1>1. Pending(r, D, l) \in SUBSET Pcbs
  BY DEF Pending
<1> QED
  BY <1>1, PoolAssumption, FS_Subset, FS_CardinalityType

\* A listener counts one more for one block more.
LEMMA OneMore ==
  ASSUME NEW S, IsFiniteSet(S), NEW x, x \notin S, NEW T, T = S \cup {x}
  PROVE  Cardinality(T) = Cardinality(S) + 1
BY FS_AddElement

\* A counter within its limit c is below it once it is decremented.
LEMMA OneLess ==
  ASSUME NEW a \in Int, NEW c \in Nat, a <= c, NEW b, b = a - 1, NEW d, d = c
  PROVE  b < d
OBVIOUS

\* Taking the pending blocks of D away leaves the difference of the counts.
LEMMA PendingDifference ==
  ASSUME NEW r, NEW q, NEW D \in SUBSET Pcbs, NEW l,
         Pending(q, Pcbs, l) = Pending(r, Pcbs, l) \ Pending(r, D, l)
  PROVE  Cardinality(Pending(q, Pcbs, l))
           = Cardinality(Pending(r, Pcbs, l)) - Cardinality(Pending(r, D, l))
<1>1. Pending(r, Pcbs, l) \cap Pending(r, D, l) = Pending(r, D, l)
  BY DEF Pending
<1>2. IsFiniteSet(Pending(r, Pcbs, l)) /\ IsFiniteSet(Pending(r, D, l))
  BY PendingFinite
<1> DEFINE S == Pending(r, Pcbs, l)
           T == Pending(r, D, l)
<1> HIDE DEF S, T
<1>3. Cardinality(S \ T) = Cardinality(S) - Cardinality(S \cap T)
  BY <1>2, FS_Difference DEF S, T
<1> QED
  BY <1>1, <1>3 DEF S, T

\* Setting one field of a listener.
LEMMA LpcbUpdate ==
  ASSUME NEW x \in Lpcb, NEW n \in Int, NEW y, y = [x EXCEPT !.accepts_pending = n]
  PROVE  /\ y \in Lpcb /\ y.accepts_pending = n /\ y.state = x.state
         /\ y.backlog = x.backlog /\ y.local_port = x.local_port /\ y.prio = x.prio
BY DEF Lpcb

\* Setting one field of a connection.
LEMMA PcbUpdate ==
  ASSUME NEW x \in Pcb, NEW b \in BOOLEAN, NEW y, y = [x EXCEPT !.backlogpend = b]
  PROVE  /\ y \in Pcb /\ y.backlogpend = b /\ y.state = x.state
         /\ y.local_port = x.local_port /\ y.listener = x.listener
         /\ y.closepend = x.closepend /\ y.prio = x.prio
BY DEF Pcb

\* Relabelling: a handler that only moves blocks between the states of
\* tcp_active_pcbs, or changes their priority or TF_CLOSEPEND, keeps Inv.
LEMMA RelabelInv ==
  ASSUME NEW r, Inv(r), NEW f \in [Pcbs -> Pcb],
         \A p \in Pcbs : /\ f[p].local_port = r.pcb[p].local_port
                         /\ f[p].listener = r.pcb[p].listener
                         /\ f[p].backlogpend = r.pcb[p].backlogpend
                         /\ \/ f[p].state = r.pcb[p].state
                            \/ f[p].state \in ActiveState /\ r.pcb[p].state \in ActiveState
  PROVE  Inv([r EXCEPT !.pcb = f]) /\ Keeps(r, [r EXCEPT !.pcb = f])
<1> DEFINE q == [r EXCEPT !.pcb = f]
<1>1. r \in Registry /\ q \in Registry
  BY DEF Inv, Registry
<1>2. /\ q.pcb = f /\ q.lpcb = r.lpcb /\ q.bound = r.bound /\ q.active = r.active
      /\ q.tw = r.tw /\ q.listen = r.listen
  BY <1>1 DEF Registry
<1> HIDE DEF q
<1>3. ASSUME NEW p \in Pcbs PROVE PcbOK(q, p)
  BY <1>2, PcbOK(r, p) DEF Inv, PcbOK, ActiveState
<1>4. ASSUME NEW l \in Lpcbs PROVE LpcbOK(q, l)
  <2>1. Pending(q, Pcbs, l) = Pending(r, Pcbs, l)
    BY <1>2 DEF Pending
  <2> QED
    BY <2>1, <1>2, LpcbOK(r, l) DEF Inv, LpcbOK
<1>5. BoundOK(q)
  BY <1>1, <1>2 DEF Inv, BoundOK, Registry
<1>6. Keeps(r, q)
  BY <1>1, <1>2 DEF Keeps, Registry, Lpcb
<1> QED
  BY <1>1, <1>3, <1>4, <1>5, <1>6 DEF Inv, q

\* Retiring any blocks keeps Inv: they leave every list and every backlog.
LEMMA RetiredInv ==
  ASSUME NEW r, Inv(r), NEW D \in SUBSET Pcbs, NEW q, Retired(r, q, D)
  PROVE  /\ Inv(q) /\ Keeps(r, q) /\ (SynPending(r) => SynPending(q))
         /\ \A p \in D : q.pcb[p] = FreePcb /\ p \notin q.bound
<1>1. r \in Registry /\ q \in Registry
  BY DEF Inv, Retired
<1>2. ASSUME NEW p \in Pcbs PROVE PcbOK(q, p)
  BY PcbOK(r, p) DEF Inv, Retired, PcbOK, FreePcb, ActiveState
<1>3. ASSUME NEW l \in Lpcbs PROVE LpcbOK(q, l)
  <2>1. Pending(q, Pcbs, l) = Pending(r, Pcbs, l) \ Pending(r, D, l)
    BY DEF Retired, Pending, FreePcb
  <2>2. Cardinality(Pending(q, Pcbs, l))
          = Cardinality(Pending(r, Pcbs, l)) - Cardinality(Pending(r, D, l))
    BY <2>1, PendingDifference
  <2>3. /\ q.lpcb[l].state = r.lpcb[l].state /\ q.lpcb[l].backlog = r.lpcb[l].backlog
        /\ q.lpcb[l].accepts_pending = r.lpcb[l].accepts_pending - Cardinality(Pending(r, D, l))
        /\ q.listen = r.listen
    BY DEF Retired
  <2>4. /\ r.lpcb[l].accepts_pending \in Int /\ r.lpcb[l].backlog \in Nat
        /\ Cardinality(Pending(r, D, l)) \in Nat
    BY <1>1, PendingFinite DEF Registry, Lpcb
  <2> QED
    BY <2>2, <2>3, <2>4, LpcbOK(r, l) DEF Inv, LpcbOK
<1>4. BoundOK(q)
  BY <1>1 DEF Inv, BoundOK, Registry, Retired
<1>5. Keeps(r, q)
  <2> SUFFICES ASSUME NEW l \in r.listen
               PROVE  /\ q.lpcb[l].backlog = r.lpcb[l].backlog
                      /\ q.lpcb[l].accepts_pending <= r.lpcb[l].accepts_pending
    BY DEF Keeps, Retired
  <2>1. l \in Lpcbs
    BY <1>1 DEF Registry
  <2>2. /\ r.lpcb[l].accepts_pending \in Int
        /\ Cardinality(Pending(r, D, l)) \in Nat
    BY <1>1, <2>1, PendingFinite DEF Registry, Lpcb
  <2> QED
    BY <2>1, <2>2 DEF Retired
<1>6. \A p \in D : q.pcb[p] = FreePcb /\ p \notin q.bound
  BY DEF Retired
<1>7. SynPending(r) => SynPending(q)
  BY DEF Retired, SynPending, FreePcb
<1> QED
  BY <1>1, <1>2, <1>3, <1>4, <1>5, <1>6, <1>7 DEF Inv

\* Accepting blocks from a backlog: what tcp_backlog_accepted changes.
LEMMA AcceptedFields ==
  ASSUME NEW r \in Registry, NEW D \in SUBSET Pcbs, NEW q, q = tcp_backlog_accepted(r, D)
  PROVE  /\ q \in Registry
         /\ q.active = r.active /\ q.tw = r.tw /\ q.bound = r.bound
         /\ q.listen = r.listen /\ q.tcp_port = r.tcp_port
         /\ \A p \in Pcbs :
              /\ q.pcb[p].state = r.pcb[p].state
              /\ q.pcb[p].local_port = r.pcb[p].local_port
              /\ q.pcb[p].listener = r.pcb[p].listener
              /\ q.pcb[p].closepend = r.pcb[p].closepend
              /\ q.pcb[p].prio = r.pcb[p].prio
              /\ q.pcb[p].backlogpend =
                   (r.pcb[p].backlogpend /\ ~(p \in D /\ r.pcb[p].listener # NULL))
              /\ p \notin D \/ r.pcb[p].listener = NULL => q.pcb[p] = r.pcb[p]
         /\ \A l \in Lpcbs :
              /\ q.lpcb[l].state = r.lpcb[l].state
              /\ q.lpcb[l].backlog = r.lpcb[l].backlog /\ r.lpcb[l].backlog \in Nat
              /\ r.lpcb[l].accepts_pending \in Int
              /\ q.lpcb[l].accepts_pending
                   = r.lpcb[l].accepts_pending - Cardinality(Pending(r, D, l))
<1> DEFINE b(p) == r.pcb[p].backlogpend /\ ~(p \in D /\ r.pcb[p].listener # NULL)
           n(l) == r.lpcb[l].accepts_pending - Cardinality(Pending(r, D, l))
           f == [p \in Pcbs |-> [r.pcb[p] EXCEPT !.backlogpend = b(p)]]
           g == [l \in Lpcbs |-> [r.lpcb[l] EXCEPT !.accepts_pending = n(l)]]
<1>1. q = [r EXCEPT !.lpcb = g, !.pcb = f]
  BY DEF tcp_backlog_accepted
<1>2. ASSUME NEW p \in Pcbs
      PROVE  /\ f[p] \in Pcb /\ f[p].backlogpend = b(p) /\ f[p].state = r.pcb[p].state
             /\ f[p].local_port = r.pcb[p].local_port
             /\ f[p].listener = r.pcb[p].listener
             /\ f[p].closepend = r.pcb[p].closepend /\ f[p].prio = r.pcb[p].prio
             /\ p \notin D \/ r.pcb[p].listener = NULL => f[p] = r.pcb[p]
  <2>1. r.pcb[p] \in Pcb
    BY DEF Registry
  <2>2. b(p) \in BOOLEAN
    OBVIOUS
  <2>3. f[p] = [r.pcb[p] EXCEPT !.backlogpend = b(p)]
    OBVIOUS
  <2>4. p \notin D \/ r.pcb[p].listener = NULL => b(p) = r.pcb[p].backlogpend
    BY <2>1, Zenon DEF Pcb
  <2> HIDE DEF b, f
  <2>5. p \notin D \/ r.pcb[p].listener = NULL => f[p] = r.pcb[p]
    BY <2>1, <2>3, <2>4 DEF Pcb
  <2> QED
    BY <2>1, <2>2, <2>3, <2>5, PcbUpdate
<1>3. ASSUME NEW l \in Lpcbs
      PROVE  /\ g[l] \in Lpcb /\ g[l].accepts_pending = n(l) /\ g[l].state = r.lpcb[l].state
             /\ g[l].backlog = r.lpcb[l].backlog /\ r.lpcb[l].backlog \in Nat
             /\ r.lpcb[l].accepts_pending \in Int
             /\ g[l] = [r.lpcb[l] EXCEPT !.accepts_pending = n(l)]
  <2>1. r.lpcb[l] \in Lpcb
    BY DEF Registry
  <2>2. /\ n(l) \in Int /\ r.lpcb[l].backlog \in Nat /\ r.lpcb[l].accepts_pending \in Int
    BY <2>1, PendingFinite DEF Lpcb
  <2>3. g[l] = [r.lpcb[l] EXCEPT !.accepts_pending = n(l)]
    OBVIOUS
  <2> HIDE DEF n, g
  <2> QED
    BY <2>1, <2>2, <2>3, LpcbUpdate
<1>4. f \in [Pcbs -> Pcb] /\ g \in [Lpcbs -> Lpcb]
  BY <1>2, <1>3
<1> HIDE DEF f, g
<1>5. /\ q \in Registry /\ q.pcb = f /\ q.lpcb = g
      /\ q.active = r.active /\ q.tw = r.tw /\ q.bound = r.bound
      /\ q.listen = r.listen /\ q.tcp_port = r.tcp_port
  BY <1>1, <1>4, Zenon DEF Registry
<1> QED
  BY <1>2, <1>3, <1>5, Zenon

\* The same for one listener.
LEMMA AcceptedCount ==
  ASSUME NEW r \in Registry, NEW D \in SUBSET Pcbs, NEW l \in Lpcbs, NEW q,
         q = tcp_backlog_accepted(r, D)
  PROVE  /\ q.lpcb[l].accepts_pending
              = r.lpcb[l].accepts_pending - Cardinality(Pending(r, D, l))
         /\ q.lpcb[l].backlog = r.lpcb[l].backlog
         /\ r.lpcb[l].accepts_pending \in Int /\ r.lpcb[l].backlog \in Nat
BY AcceptedFields

\* tcp_backlog_accepted keeps Inv, whatever blocks it is called for.
LEMMA AcceptedInv ==
  ASSUME NEW r, Inv(r), NEW D \in SUBSET Pcbs
  PROVE  Inv(tcp_backlog_accepted(r, D)) /\ Keeps(r, tcp_backlog_accepted(r, D))
<1> DEFINE q == tcp_backlog_accepted(r, D)
<1>0. q = tcp_backlog_accepted(r, D)
  OBVIOUS
<1> HIDE DEF q
<1>1. r \in Registry
  BY DEF Inv
<1>2. /\ q \in Registry
      /\ q.active = r.active /\ q.tw = r.tw /\ q.bound = r.bound /\ q.listen = r.listen
      /\ \A p \in Pcbs : /\ q.pcb[p].state = r.pcb[p].state
                         /\ q.pcb[p].local_port = r.pcb[p].local_port
                         /\ q.pcb[p].listener = r.pcb[p].listener
                         /\ q.pcb[p].backlogpend =
                              (r.pcb[p].backlogpend /\ ~(p \in D /\ r.pcb[p].listener # NULL))
  BY <1>0, <1>1, AcceptedFields
<1>3. ASSUME NEW l \in Lpcbs
      PROVE
        /\ q.lpcb[l].state = r.lpcb[l].state /\ q.lpcb[l].backlog = r.lpcb[l].backlog
        /\ q.lpcb[l].accepts_pending = r.lpcb[l].accepts_pending - Cardinality(Pending(r, D, l))
        /\ r.lpcb[l].accepts_pending \in Int /\ r.lpcb[l].backlog \in Nat
  BY <1>0, <1>1, AcceptedFields, PendingFinite
<1>5. ASSUME NEW p \in Pcbs PROVE PcbOK(q, p)
  BY <1>2, PcbOK(r, p), Zenon DEF Inv, PcbOK
<1>6. ASSUME NEW l \in Lpcbs PROVE LpcbOK(q, l)
  <2>1. l # NULL
    BY PoolAssumption
  <2>2. Pending(q, Pcbs, l) = Pending(r, Pcbs, l) \ Pending(r, D, l)
    BY <1>2, <2>1, Zenon DEF Pending
  <2>3. Cardinality(Pending(q, Pcbs, l))
          = Cardinality(Pending(r, Pcbs, l)) - Cardinality(Pending(r, D, l))
    BY <2>2, PendingDifference
  <2>4. Cardinality(Pending(r, D, l)) \in Nat
    BY PendingFinite
  <2> QED
    BY <2>3, <2>4, <1>2, <1>3, LpcbOK(r, l) DEF Inv, LpcbOK
<1>7. BoundOK(q)
  BY <1>1, <1>2 DEF Inv, BoundOK, Registry
<1>8. Keeps(r, q)
  <2> SUFFICES ASSUME NEW l \in r.listen
               PROVE  /\ q.lpcb[l].backlog = r.lpcb[l].backlog
                      /\ q.lpcb[l].accepts_pending <= r.lpcb[l].accepts_pending
    BY <1>2 DEF Keeps
  <2>1. l \in Lpcbs
    BY <1>1 DEF Registry
  <2> QED
    BY <1>3, <2>1, PendingFinite
<1> QED
  BY <1>2, <1>5, <1>6, <1>7, <1>8 DEF Inv, q

\* RemoveActive of blocks that are active retires them.
LEMMA RemoveActiveRetires ==
  ASSUME NEW r, Inv(r), NEW D \in SUBSET r.active
  PROVE  Retired(r, RemoveActive(r, D), D)
<1> DEFINE A == {p \in D : r.pcb[p].state \in ActiveState}
           m == tcp_backlog_accepted(r, A)
           q == RemoveActive(r, D)
<1>1. r \in Registry /\ D \in SUBSET Pcbs
  BY DEF Inv, Registry
<1>2. A = D
  <2> SUFFICES ASSUME NEW p \in D PROVE r.pcb[p].state \in ActiveState
    OBVIOUS
  <2> QED
    BY <1>1, PcbOK(r, p) DEF Inv, PcbOK
<1>3. q = [m EXCEPT !.active = @ \ D,
                    !.pcb = [p \in Pcbs |-> IF p \in D THEN FreePcb ELSE m.pcb[p]]]
  BY DEF RemoveActive, tcp_free, tcp_pcb_purge
<1>4. m = tcp_backlog_accepted(r, D)
  BY <1>2
<1> HIDE DEF m, q
<1>5. /\ m \in Registry /\ m.active = r.active /\ m.tw = r.tw /\ m.bound = r.bound
      /\ m.listen = r.listen
      /\ \A p \in Pcbs : p \notin D => m.pcb[p] = r.pcb[p]
  BY <1>1, <1>4, AcceptedFields
<1>6. ASSUME NEW l \in Lpcbs
      PROVE  /\ m.lpcb[l].state = r.lpcb[l].state /\ m.lpcb[l].backlog = r.lpcb[l].backlog
             /\ m.lpcb[l].accepts_pending
                  = r.lpcb[l].accepts_pending - Cardinality(Pending(r, D, l))
  BY <1>1, <1>4, AcceptedFields
<1>7. /\ q.active = r.active \ D /\ q.tw = r.tw /\ q.bound = r.bound
      /\ q.listen = r.listen /\ q.lpcb = m.lpcb
      /\ q.pcb = [p \in Pcbs |-> IF p \in D THEN FreePcb ELSE m.pcb[p]]
  BY <1>3, <1>5 DEF Registry
<1>8. q \in Registry
  <2>1. [p \in Pcbs |-> IF p \in D THEN FreePcb ELSE m.pcb[p]] \in [Pcbs -> Pcb]
    BY <1>5, FreeTypes DEF Registry
  <2> QED
    BY <1>3, <1>5, <2>1, Zenon DEF Registry
<1>9. r.tw \ D = r.tw /\ r.bound \ D = r.bound
  <2> SUFFICES ASSUME NEW p \in D PROVE p \notin r.tw /\ p \notin r.bound
    OBVIOUS
  <2> QED
    BY <1>1, PcbOK(r, p) DEF Inv, PcbOK, ActiveState
<1> QED
  BY <1>5, <1>6, <1>7, <1>8, <1>9 DEF Retired, q

\* A block that is not active is in nobody's backlog.
LEMMA InactiveNotPending ==
  ASSUME NEW r, Inv(r), NEW D \in SUBSET Pcbs, NEW l \in Lpcbs,
         \A p \in D : r.pcb[p].state \notin ActiveState
  PROVE  Pending(r, D, l) = {} /\ Cardinality(Pending(r, D, l)) = 0
<1> SUFFICES ASSUME NEW p \in D, r.pcb[p].backlogpend, r.pcb[p].listener = l
             PROVE  FALSE
  BY FS_EmptySet, Zenon DEF Pending
<1> QED
  BY PcbOK(r, p), PoolAssumption DEF Inv, PcbOK

\* tcp_abandon retires its blocks, whichever lists they are on.
LEMMA AbandonRetires ==
  ASSUME NEW r, Inv(r), NEW D \in SUBSET Pcbs
  PROVE  Retired(r, tcp_abandon(r, D), D)
<1> DEFINE C == InState(r, D, "CLOSED")
           c == tcp_backlog_accepted(r, C)
           d == [c EXCEPT !.tw = @ \ D, !.bound = @ \ D]
           A == {p \in D : d.pcb[p].state \in ActiveState}
           m == tcp_backlog_accepted(d, A)
           f == [p \in Pcbs |-> IF p \in D THEN FreePcb ELSE m.pcb[p]]
           q == [m EXCEPT !.active = @ \ D, !.pcb = f]
<1>1. r \in Registry /\ C \in SUBSET Pcbs /\ A \in SUBSET Pcbs
  BY DEF Inv, InState
<1>2. tcp_abandon(r, D) = q
  BY DEF tcp_abandon, RemoveActive, tcp_free, tcp_pcb_purge
<1>3. ASSUME NEW p \in C PROVE r.pcb[p].listener = NULL /\ r.pcb[p].state \notin ActiveState
  BY <1>1, PcbOK(r, p) DEF Inv, PcbOK, InState, ActiveState
<1>4. /\ c \in Registry /\ c.active = r.active /\ c.tw = r.tw /\ c.bound = r.bound
      /\ c.listen = r.listen /\ \A p \in Pcbs : c.pcb[p] = r.pcb[p]
  <2> HIDE DEF C
  <2> QED
    BY <1>1, <1>3, AcceptedFields
<1>5. ASSUME NEW l \in Lpcbs
      PROVE  /\ c.lpcb[l].state = r.lpcb[l].state /\ c.lpcb[l].backlog = r.lpcb[l].backlog
             /\ c.lpcb[l].accepts_pending = r.lpcb[l].accepts_pending
  <2>1. Cardinality(Pending(r, C, l)) = 0
    BY <1>1, <1>3, InactiveNotPending
  <2> HIDE DEF C
  <2> QED
    BY <1>1, <2>1, AcceptedFields
<1> HIDE DEF c
<1>6. /\ d \in Registry /\ d.active = r.active /\ d.tw = r.tw \ D /\ d.bound = r.bound \ D
      /\ d.listen = r.listen /\ d.lpcb = c.lpcb /\ \A p \in Pcbs : d.pcb[p] = r.pcb[p]
  BY <1>4, Zenon DEF Registry
<1> HIDE DEF d
<1>7. /\ m \in Registry /\ m.active = r.active /\ m.tw = r.tw \ D /\ m.bound = r.bound \ D
      /\ m.listen = r.listen /\ \A p \in Pcbs : p \notin D => m.pcb[p] = r.pcb[p]
  <2>1. \A p \in Pcbs : p \notin D => p \notin A
    OBVIOUS
  <2> HIDE DEF A
  <2> QED
    BY <1>1, <1>6, <2>1, AcceptedFields
<1>8. ASSUME NEW l \in Lpcbs
      PROVE  /\ m.lpcb[l].state = r.lpcb[l].state /\ m.lpcb[l].backlog = r.lpcb[l].backlog
             /\ m.lpcb[l].accepts_pending
                  = r.lpcb[l].accepts_pending - Cardinality(Pending(r, D, l))
  <2>1. Pending(d, A, l) = Pending(r, D, l)
    <3>1. ASSUME NEW p \in D, r.pcb[p].backlogpend, r.pcb[p].listener = l
          PROVE  r.pcb[p].state \in ActiveState
      BY <3>1, PcbOK(r, p), PoolAssumption DEF Inv, PcbOK
    <3> QED
      BY <1>6, <3>1 DEF Pending
  <2> HIDE DEF A
  <2> QED
    BY <1>1, <1>5, <1>6, <2>1, AcceptedFields
<1> HIDE DEF m
<1>9. f \in [Pcbs -> Pcb]
  BY <1>7, FreeTypes DEF Registry
<1>10. \A p \in Pcbs : f[p] = IF p \in D THEN FreePcb ELSE r.pcb[p]
  BY <1>7
<1> HIDE DEF f
<1>11. /\ q \in Registry /\ q.active = r.active \ D /\ q.tw = r.tw \ D
       /\ q.bound = r.bound \ D /\ q.listen = r.listen /\ q.lpcb = m.lpcb /\ q.pcb = f
  BY <1>7, <1>9, Zenon DEF Registry
<1> HIDE DEF q
<1> QED
  BY <1>2, <1>8, <1>10, <1>11 DEF Retired

\* tcp_free of blocks that are not active, with the unlinking its callers do,
\* retires them.
LEMMA FreeRetires ==
  ASSUME NEW r, Inv(r), NEW E \in SUBSET Pcbs, NEW q \in Registry,
         \A p \in E : r.pcb[p].state \notin ActiveState,
         \A p \in Pcbs : q.pcb[p] = IF p \in E THEN FreePcb ELSE r.pcb[p],
         q.active = r.active, q.tw = r.tw \ E, q.bound = r.bound \ E,
         q.listen = r.listen, q.lpcb = r.lpcb
  PROVE  Retired(r, q, E)
<1>1. r \in Registry
  BY DEF Inv
<1>2. r.active \ E = r.active
  <2> SUFFICES ASSUME NEW p \in E PROVE p \notin r.active
    OBVIOUS
  <2> QED
    BY PcbOK(r, p) DEF Inv, PcbOK
<1>3. ASSUME NEW l \in Lpcbs
      PROVE  q.lpcb[l].accepts_pending
               = r.lpcb[l].accepts_pending - Cardinality(Pending(r, E, l))
  <2>1. Cardinality(Pending(r, E, l)) = 0
    BY InactiveNotPending
  <2> QED
    BY <1>1, <2>1 DEF Registry, Lpcb
<1> QED
  BY <1>2, <1>3 DEF Retired

\* What a listener can rely on after one call it can rely on after two.
LEMMA KeepsTrans ==
  ASSUME NEW a \in Registry, NEW b \in Registry, NEW c \in Registry, Keeps(a, b), Keeps(b, c)
  PROVE  Keeps(a, c)
<1> SUFFICES ASSUME NEW l \in a.listen
             PROVE  /\ c.lpcb[l].backlog = a.lpcb[l].backlog
                    /\ c.lpcb[l].accepts_pending <= a.lpcb[l].accepts_pending
  BY DEF Keeps
<1>1. l \in Lpcbs
  BY DEF Registry
<1>2. /\ a.lpcb[l].accepts_pending \in Int /\ b.lpcb[l].accepts_pending \in Int
      /\ c.lpcb[l].accepts_pending \in Int
  BY <1>1 DEF Registry, Lpcb
<1> QED
  BY <1>2 DEF Keeps

\* tcp_close_shutdown_fin keeps Inv, whichever FINs find memory.
LEMMA CloseFinInv ==
  ASSUME NEW r, Inv(r), NEW D \in SUBSET Pcbs, NEW Sent
  PROVE  /\ Inv(tcp_close_shutdown_fin(r, D, Sent))
         /\ Keeps(r, tcp_close_shutdown_fin(r, D, Sent))
         /\ SynPending(r) => SynPending(tcp_close_shutdown_fin(r, D, Sent))
<1> DEFINE S == InState(r, D \cap Sent, "SYN_RCVD")
           q == tcp_backlog_accepted(r, S)
           f == [p \in Pcbs |->
                   IF p \notin D \/ FinState(r.pcb[p].state) = r.pcb[p].state THEN q.pcb[p]
                   ELSE IF p \in Sent
                   THEN [q.pcb[p] EXCEPT !.state = FinState(r.pcb[p].state)]
                   ELSE [q.pcb[p] EXCEPT !.closepend = TRUE]]
           z == [q EXCEPT !.pcb = f]
<1>1. tcp_close_shutdown_fin(r, D, Sent) = z
  BY DEF tcp_close_shutdown_fin
<1>2. r \in Registry /\ S \in SUBSET Pcbs
  BY DEF Inv, InState
<1> HIDE DEF S
<1>3. Inv(q) /\ Keeps(r, q)
  BY <1>2, AcceptedInv
<1>4. /\ q \in Registry
      /\ \A p \in Pcbs : /\ q.pcb[p].state = r.pcb[p].state
                         /\ p \notin S => q.pcb[p] = r.pcb[p]
  BY <1>2, AcceptedFields
<1> HIDE DEF q
<1>5. ASSUME NEW p \in Pcbs
      PROVE  /\ f[p] \in Pcb
             /\ f[p].local_port = q.pcb[p].local_port
             /\ f[p].listener = q.pcb[p].listener
             /\ f[p].backlogpend = q.pcb[p].backlogpend
             /\ \/ f[p].state = q.pcb[p].state
                \/ f[p].state \in ActiveState /\ q.pcb[p].state \in ActiveState
  <2>1. q.pcb[p] \in Pcb
    BY <1>4 DEF Registry
  <2>2. CASE p \notin D \/ FinState(r.pcb[p].state) = r.pcb[p].state
    <3>1. f[p] = q.pcb[p]
      BY <2>2
    <3> QED
      BY <2>1, <3>1, Zenon
  <2>3. CASE p \in D /\ FinState(r.pcb[p].state) # r.pcb[p].state
    <3>1. /\ r.pcb[p].state \in ActiveState
          /\ FinState(r.pcb[p].state) \in ActiveState
      BY <2>3 DEF FinState, ActiveState
    <3>2. CASE p \in Sent
      <4>1. f[p] = [q.pcb[p] EXCEPT !.state = FinState(r.pcb[p].state)]
        BY <2>3, <3>2
      <4> QED
        BY <1>4, <2>1, <3>1, <4>1 DEF Pcb
    <3>3. CASE p \notin Sent
      <4>1. f[p] = [q.pcb[p] EXCEPT !.closepend = TRUE]
        BY <2>3, <3>3
      <4> QED
        BY <2>1, <4>1, Zenon DEF Pcb
    <3> QED
      BY <3>2, <3>3
  <2> QED
    BY <2>2, <2>3
<1>6. f \in [Pcbs -> Pcb]
  BY <1>5
<1>7. ASSUME NEW p \in Pcbs, f[p].state = "SYN_RCVD"
      PROVE  /\ p \notin S /\ r.pcb[p].state = "SYN_RCVD"
  <2>1. q.pcb[p] \in Pcb
    BY <1>4 DEF Registry
  <2>2. CASE p \in D /\ p \in Sent /\ FinState(r.pcb[p].state) # r.pcb[p].state
    <3>1. f[p] = [q.pcb[p] EXCEPT !.state = FinState(r.pcb[p].state)]
      BY <2>2
    <3>2. f[p].state = FinState(r.pcb[p].state)
      BY <2>1, <3>1 DEF Pcb
    <3>3. FinState(r.pcb[p].state) # "SYN_RCVD"
      BY <2>2 DEF FinState
    <3> QED
      BY <1>7, <3>2, <3>3
  <2>3. CASE ~(p \in D /\ p \in Sent /\ FinState(r.pcb[p].state) # r.pcb[p].state)
    <3>1. f[p].state = q.pcb[p].state
      BY <2>1, <2>3 DEF Pcb
    <3>2. r.pcb[p].state = "SYN_RCVD" /\ FinState("SYN_RCVD") # "SYN_RCVD"
      BY <1>4, <1>7, <3>1 DEF FinState
    <3> QED
      BY <2>3, <3>2 DEF S, InState
  <2> QED
    BY <2>2, <2>3
<1> HIDE DEF f
<1>8. Inv(z) /\ Keeps(q, z) /\ z.pcb = f
  BY <1>3, <1>4, <1>5, <1>6, RelabelInv DEF Registry
<1>9. z \in Registry
  BY <1>8 DEF Inv
<1> HIDE DEF z
<1>10. SynPending(r) => SynPending(z)
  BY <1>4, <1>5, <1>7, <1>8 DEF SynPending
<1> QED
  BY <1>1, <1>2, <1>3, <1>4, <1>8, <1>9, <1>10, KeepsTrans

\* tcp_handle_closepend keeps Inv.
LEMMA ClosependInv ==
  ASSUME NEW r, Inv(r), NEW Sent
  PROVE  /\ Inv(tcp_handle_closepend(r, Sent))
         /\ Keeps(r, tcp_handle_closepend(r, Sent))
         /\ SynPending(r) => SynPending(tcp_handle_closepend(r, Sent))
<1> DEFINE f == [p \in Pcbs |-> [r.pcb[p] EXCEPT !.closepend = @ /\ p \notin r.active]]
           q == [r EXCEPT !.pcb = f]
           z == tcp_close_shutdown_fin(q, ClosePend(r), Sent)
<1>1. tcp_handle_closepend(r, Sent) = z
  BY DEF tcp_handle_closepend
<1>2. r \in Registry /\ ClosePend(r) \in SUBSET Pcbs
  BY DEF Inv, ClosePend, Registry
<1>3. ASSUME NEW p \in Pcbs
      PROVE  /\ f[p] \in Pcb
             /\ f[p].local_port = r.pcb[p].local_port /\ f[p].listener = r.pcb[p].listener
             /\ f[p].backlogpend = r.pcb[p].backlogpend /\ f[p].state = r.pcb[p].state
  <2> DEFINE b == r.pcb[p].closepend /\ p \notin r.active
  <2>1. r.pcb[p] \in Pcb /\ b \in BOOLEAN
    BY <1>2 DEF Registry
  <2>2. f[p] = [r.pcb[p] EXCEPT !.closepend = b]
    OBVIOUS
  <2> HIDE DEF f, b
  <2> QED
    BY <2>1, <2>2 DEF Pcb
<1>4. f \in [Pcbs -> Pcb]
  BY <1>3
<1> HIDE DEF f
<1>5. Inv(q) /\ Keeps(r, q) /\ q.pcb = f
  BY <1>2, <1>3, <1>4, RelabelInv DEF Registry
<1> HIDE DEF q
<1>6. Inv(z) /\ Keeps(q, z) /\ (SynPending(q) => SynPending(z))
  BY <1>2, <1>5, CloseFinInv
<1>7. q \in Registry /\ z \in Registry
  BY <1>5, <1>6 DEF Inv
<1>8. SynPending(r) => SynPending(q)
  BY <1>3, <1>5 DEF SynPending
<1> HIDE DEF z
<1> QED
  BY <1>1, <1>2, <1>5, <1>6, <1>7, <1>8, KeepsTrans

\* A block that was free and is handed out: CLOSED, on no list.
LEMMA FreshInv ==
  ASSUME NEW r, Inv(r), NEW p \in Pcbs, r.pcb[p].state = "FREE", NEW prio \in Nat,
         NEW q, q = [r EXCEPT !.pcb[p] = NewPcb(prio)]
  PROVE  /\ Inv(q) /\ Keeps(r, q) /\ (SynPending(r) => SynPending(q))
         /\ q.pcb[p].state = "CLOSED" /\ p \notin q.bound
<1>1. r \in Registry
  BY DEF Inv
<1>2. /\ NewPcb(prio) \in Pcb /\ NewPcb(prio).state = "CLOSED"
      /\ NewPcb(prio).listener = NULL
  BY FreeTypes, Zenon DEF NewPcb, FreePcb
<1>3. /\ q \in Registry /\ q.lpcb = r.lpcb /\ q.bound = r.bound /\ q.active = r.active
      /\ q.tw = r.tw /\ q.listen = r.listen
      /\ q.pcb[p] = NewPcb(prio) /\ \A x \in Pcbs : x # p => q.pcb[x] = r.pcb[x]
  BY <1>1, <1>2 DEF Registry
<1>4. p \notin r.bound
  BY PcbOK(r, p) DEF Inv, PcbOK
<1>5. ASSUME NEW x \in Pcbs PROVE PcbOK(q, x)
  BY <1>2, <1>3, PcbOK(r, x) DEF Inv, PcbOK, ActiveState
<1>6. ASSUME NEW l \in Lpcbs PROVE LpcbOK(q, l)
  <2>1. Pending(q, Pcbs, l) = Pending(r, Pcbs, l)
    BY <1>2, <1>3, PcbOK(r, p), PoolAssumption DEF Pending, Inv, PcbOK
  <2> QED
    BY <2>1, <1>3, LpcbOK(r, l) DEF Inv, LpcbOK
<1>7. BoundOK(q)
  BY <1>1, <1>3, <1>4 DEF Inv, BoundOK, Registry
<1>8. Keeps(r, q)
  BY <1>1, <1>3 DEF Keeps, Registry, Lpcb
<1>9. SynPending(r) => SynPending(q)
  BY <1>2, <1>3 DEF SynPending
<1> QED
  BY <1>2, <1>3, <1>4, <1>5, <1>6, <1>7, <1>8, <1>9 DEF Inv

\* Every outcome of tcp_alloc satisfies Inv, and the block it returns is CLOSED
\* and on no list: the victims of its cascade have been retired first.
LEMMA AllocInv ==
  ASSUME NEW r, Inv(r), NEW prio \in Nat, NEW a \in tcp_alloc(r, prio)
  PROVE  /\ Inv(a.r) /\ Keeps(r, a.r) /\ (SynPending(r) => SynPending(a.r))
         /\ a.p # NULL => a.p \in Pcbs /\ a.r.pcb[a.p].state = "CLOSED" /\ a.p \notin a.r.bound
<1> DEFINE Fresh(q, p) == [r |-> [q EXCEPT !.pcb[p] = NewPcb(prio)], p |-> p]
           free == {p \in Pcbs : r.pcb[p].state = "FREE"}
<1>1. r \in Registry
  BY DEF Inv
<1>2. CASE free # {}
  <2>1. PICK p \in free : a = Fresh(r, p)
    BY <1>2 DEF tcp_alloc
  <2> DEFINE z == [r EXCEPT !.pcb[p] = NewPcb(prio)]
  <2>2. a.p = p /\ a.r = z
    BY <2>1
  <2>3. p \in Pcbs /\ r.pcb[p].state = "FREE"
    OBVIOUS
  <2>4. /\ Inv(z) /\ Keeps(r, z) /\ (SynPending(r) => SynPending(z))
        /\ z.pcb[p].state = "CLOSED" /\ p \notin z.bound
    BY <2>3, FreshInv, Zenon
  <2> HIDE DEF z
  <2> QED
    BY <2>2, <2>3, <2>4
<1>3. CASE free = {}
  <2>1. PICK Sent \in SUBSET ClosePend(r) :
          LET q == tcp_handle_closepend(r, Sent) IN
          a \in IF Victims(q, prio) = {} THEN {[r |-> q, p |-> NULL]}
                ELSE {Fresh(tcp_abandon(q, {v}), v) : v \in Victims(q, prio)}
    BY <1>3, Zenon DEF tcp_alloc
  <2> DEFINE q == tcp_handle_closepend(r, Sent)
  <2>2. Inv(q) /\ Keeps(r, q) /\ (SynPending(r) => SynPending(q)) /\ q \in Registry
    BY ClosependInv DEF Inv
  <2>3. CASE Victims(q, prio) = {}
    <3>1. a.r = q /\ a.p = NULL
      BY <2>1, <2>3
    <3> QED
      BY <2>2, <3>1
  <2>4. CASE Victims(q, prio) # {}
    <3>1. PICK v \in Victims(q, prio) : a = Fresh(tcp_abandon(q, {v}), v)
      BY <2>1, <2>4, Zenon
    <3> HIDE DEF q
    <3>2. v \in Pcbs
      BY <2>2, <3>1 DEF Victims, InState, LowestBelow, Registry
    <3> DEFINE d == tcp_abandon(q, {v})
    <3> DEFINE z == [d EXCEPT !.pcb[v] = NewPcb(prio)]
    <3>3. a.p = v /\ a.r = z
      BY <3>1
    <3>4. Retired(q, d, {v})
      BY <2>2, <3>2, AbandonRetires
    <3> HIDE DEF d
    <3>5. Inv(d) /\ Keeps(q, d) /\ (SynPending(q) => SynPending(d)) /\ d.pcb[v] = FreePcb
      BY <2>2, <3>2, <3>4, RetiredInv
    <3>6. d.pcb[v].state = "FREE"
      BY <3>5 DEF FreePcb
    <3>7. /\ Inv(z) /\ Keeps(d, z) /\ (SynPending(d) => SynPending(z))
          /\ z.pcb[v].state = "CLOSED" /\ v \notin z.bound
      BY <3>2, <3>5, <3>6, FreshInv, Zenon
    <3> HIDE DEF z
    <3>8. Keeps(r, d) /\ d \in Registry /\ z \in Registry
      BY <1>1, <2>2, <3>5, <3>7, KeepsTrans DEF Inv
    <3> QED
      BY <1>1, <2>2, <3>2, <3>3, <3>5, <3>7, <3>8, KeepsTrans
  <2> QED
    BY <2>3, <2>4
<1> QED
  BY <1>2, <1>3

-----------------------------------------------------------------------------
\* The u16_t tcp_port stays in range, however far tcp_new_port has to look.
LEMMA PortAfterType ==
  ASSUME NEW t \in 0..(U16 - 1), NEW k \in 1..(NPorts + 1)
  PROVE  PortAfter(t, k) \in 0..(U16 - 1)
BY PortAssumption DEF PortAfter, NPorts

\* tcp_new_port looks at most one port more than the range has, and stops at a
\* port that is in use only after looking at all of them.
LEMMA RoundsType ==
  ASSUME NEW r
  PROVE  /\ Rounds(r) \in 1..(NPorts + 1)
         /\ Rounds(r) <= NPorts => PortAfter(r.tcp_port, Rounds(r)) \notin PortsInUse(r)
<1> DEFINE free == {k \in 1..NPorts : PortAfter(r.tcp_port, k) \notin PortsInUse(r)}
<1>1. NPorts \in Nat \ {0}
  BY PortAssumption DEF NPorts
<1>2. CASE free = {}
  <2>1. Rounds(r) = NPorts + 1
    BY <1>2 DEF Rounds
  <2> QED
    BY <1>1, <2>1
<1>3. CASE free # {}
  <2>1. free \subseteq Nat
    BY <1>1
  <2>2. \E k \in free : \A j \in free : ~(<<j, k>> \in OpToRel(<, Nat))
    <3> HIDE DEF free
    <3> QED
      BY <1>3, <2>1, NatLessThanWellFounded, WFMin, Zenon
  <2>3. PICK k \in free : \A j \in free : ~(<<j, k>> \in OpToRel(<, Nat))
    BY <2>2, Zenon
  <2>4. ASSUME NEW j \in free PROVE k <= j
    <3>1. <<j, k>> \in OpToRel(<, Nat) <=> <<j, k>> \in Nat \X Nat /\ j < k
      BY DEF OpToRel
    <3>2. ~(j < k)
      BY <2>1, <2>3, <3>1, Zenon
    <3> QED
      BY <2>1, <3>2
  <2>5. Rounds(r) = CHOOSE m \in free : \A j \in free : m <= j
    BY <1>3 DEF Rounds
  <2>6. Rounds(r) \in free
    BY <2>4, <2>5
  <2> QED
    BY <1>1, <2>6
<1> QED
  BY <1>2, <1>3

\* What tcp_new_port returns is 0 or a port nobody on a list has.
LEMMA NewPort ==
  ASSUME NEW r \in Registry
  PROVE  /\ tcp_new_port(r).port \in 0..(U16 - 1)
         /\ tcp_new_port(r).port # 0 => tcp_new_port(r).port \notin PortsInUse(r)
         /\ \E t \in 0..(U16 - 1) : tcp_new_port(r).r = [r EXCEPT !.tcp_port = t]
<1> DEFINE t == PortAfter(r.tcp_port, Rounds(r))
<1>1. t \in 0..(U16 - 1)
  BY RoundsType, PortAfterType DEF Registry
<1>2. NPorts \in Int /\ Rounds(r) \in Int
  BY RoundsType, PortAssumption DEF NPorts
<1>3. 0 \in 0..(U16 - 1)
  BY PortAssumption
<1> QED
  BY <1>1, <1>2, <1>3, RoundsType DEF tcp_new_port

-----------------------------------------------------------------------------
\* q differs from r in the block p only, which has its listener in both.
OneBlock(r, q, p) ==
  /\ q \in Registry /\ q.listen = r.listen
  /\ \A x \in Pcbs : x # p => /\ q.pcb[x] = r.pcb[x]
                              /\ x \in q.active <=> x \in r.active
                              /\ x \in q.tw <=> x \in r.tw
                              /\ x \in q.bound <=> x \in r.bound
  /\ PcbOK(q, p)
  /\ p \in q.bound =>
       \A x \in r.bound : x # p => r.pcb[x].local_port # q.pcb[p].local_port

\* A handler that changes one block and leaves the backlogs alone keeps Inv.
LEMMA OneBlockInv ==
  ASSUME NEW r, Inv(r), NEW p \in Pcbs, NEW q, OneBlock(r, q, p), q.lpcb = r.lpcb,
         q.pcb[p].listener = r.pcb[p].listener,
         q.pcb[p].backlogpend = r.pcb[p].backlogpend
  PROVE  Inv(q)
<1>1. r \in Registry /\ q \in Registry
  BY DEF Inv, OneBlock
<1>2. ASSUME NEW x \in Pcbs PROVE PcbOK(q, x)
  <2>1. CASE x = p
    BY <2>1 DEF OneBlock
  <2>2. CASE x # p
    BY <2>2, PcbOK(r, x) DEF Inv, OneBlock, PcbOK
  <2> QED
    BY <2>1, <2>2
<1>3. ASSUME NEW l \in Lpcbs PROVE LpcbOK(q, l)
  <2>1. Pending(q, Pcbs, l) = Pending(r, Pcbs, l)
    BY DEF Pending, OneBlock
  <2> QED
    BY <2>1, LpcbOK(r, l) DEF Inv, LpcbOK, OneBlock
<1>4. BoundOK(q)
  <2> SUFFICES ASSUME NEW x \in q.bound, NEW y \in q.bound,
                      q.pcb[x].local_port = q.pcb[y].local_port
               PROVE  x = y
    BY DEF BoundOK
  <2>1. x \in Pcbs /\ y \in Pcbs
    BY <1>1 DEF Registry
  <2>2. CASE x # p /\ y # p
    BY <2>1, <2>2 DEF Inv, BoundOK, OneBlock
  <2>3. CASE x = p \/ y = p
    BY <2>1, <2>3 DEF OneBlock
  <2> QED
    BY <2>2, <2>3
<1> QED
  BY <1>1, <1>2, <1>3, <1>4 DEF Inv

\* From r to q the block p starts to count in the backlog of l, which has room.
Joins(r, q, p, l) ==
  /\ r.pcb[p].listener = NULL \/ ~r.pcb[p].backlogpend
  /\ q.pcb[p].listener = l /\ q.pcb[p].backlogpend
  /\ \A k \in Lpcbs : k # l => q.lpcb[k] = r.lpcb[k]
  /\ q.lpcb[l].state = r.lpcb[l].state /\ q.lpcb[l].backlog = r.lpcb[l].backlog
  /\ q.lpcb[l].accepts_pending = r.lpcb[l].accepts_pending + 1
  /\ r.lpcb[l].accepts_pending < r.lpcb[l].backlog

\* A block that joins the backlog of an open listener with room keeps Inv.
LEMMA JoinInv ==
  ASSUME NEW r, Inv(r), NEW p \in Pcbs, NEW q, OneBlock(r, q, p), p \notin q.bound,
         NEW l \in r.listen, Joins(r, q, p, l)
  PROVE  Inv(q)
<1>0. SUFFICES ASSUME
         r.pcb[p].listener = NULL \/ ~r.pcb[p].backlogpend,
         q.pcb[p].listener = l, q.pcb[p].backlogpend,
         \A k \in Lpcbs : k # l => q.lpcb[k] = r.lpcb[k],
         q.lpcb[l].state = r.lpcb[l].state, q.lpcb[l].backlog = r.lpcb[l].backlog,
         q.lpcb[l].accepts_pending = r.lpcb[l].accepts_pending + 1,
         r.lpcb[l].accepts_pending < r.lpcb[l].backlog
             PROVE  Inv(q)
  BY DEF Joins
<1>1. r \in Registry /\ q \in Registry /\ l \in Lpcbs /\ NULL \notin Lpcbs
  BY PoolAssumption DEF Inv, OneBlock, Registry
<1>2. ASSUME NEW x \in Pcbs PROVE PcbOK(q, x)
  <2>1. CASE x = p
    BY <2>1 DEF OneBlock
  <2>2. CASE x # p
    BY <2>2, PcbOK(r, x) DEF Inv, OneBlock, PcbOK
  <2> QED
    BY <2>1, <2>2
<1>3. ASSUME NEW k \in Lpcbs PROVE LpcbOK(q, k)
  <2>1. CASE k # l
    <3>1. Pending(q, Pcbs, k) = Pending(r, Pcbs, k)
      BY <1>0, <1>1, <2>1 DEF Pending, OneBlock
    <3> QED
      BY <1>0, <2>1, <3>1, LpcbOK(r, k) DEF Inv, LpcbOK, OneBlock
  <2>2. CASE k = l
    <3>1. Pending(q, Pcbs, l) = Pending(r, Pcbs, l) \cup {p} /\ p \notin Pending(r, Pcbs, l)
      BY <1>0, <1>1 DEF Pending, OneBlock
    <3>2. IsFiniteSet(Pending(r, Pcbs, l))
      BY PendingFinite
    <3>3. Cardinality(Pending(q, Pcbs, l)) = Cardinality(Pending(r, Pcbs, l)) + 1
      BY <3>1, <3>2, OneMore, Zenon
    <3>4. r.lpcb[l].accepts_pending \in Int /\ r.lpcb[l].backlog \in Nat
      BY <1>1 DEF Registry, Lpcb
    <3> QED
      BY <1>0, <2>2, <3>3, <3>4, LpcbOK(r, l) DEF Inv, LpcbOK, OneBlock
  <2> QED
    BY <2>1, <2>2
<1>4. BoundOK(q)
  BY <1>1 DEF Inv, BoundOK, OneBlock, Registry
<1> QED
  BY <1>1, <1>2, <1>3, <1>4 DEF Inv

-----------------------------------------------------------------------------
\* The invariant between two calls.
Good(r) == Inv(r) /\ SynPending(r)

\* Retiring keeps the invariant.
LEMMA RetiredGood ==
  ASSUME NEW r, Good(r), NEW D \in SUBSET Pcbs, NEW q, Retired(r, q, D)
  PROVE  Good(q)
BY RetiredInv DEF Good

\* Aborting any blocks keeps the invariant.
LEMMA AbandonGood ==
  ASSUME NEW r, Good(r), NEW D \in SUBSET Pcbs
  PROVE  Good(tcp_abandon(r, D))
<1>1. Retired(r, tcp_abandon(r, D), D)
  BY AbandonRetires DEF Good
<1> QED
  BY <1>1, RetiredGood

\* Removing active blocks keeps the invariant.
LEMMA RemoveActiveGood ==
  ASSUME NEW r, Good(r), NEW D \in SUBSET r.active
  PROVE  Good(RemoveActive(r, D))
<1>1. Retired(r, RemoveActive(r, D), D)
  BY RemoveActiveRetires DEF Good
<1>2. D \in SUBSET Pcbs
  BY DEF Good, Inv, Registry
<1> QED
  BY <1>1, <1>2, RetiredGood

\* Accepting blocks that are no longer in SYN_RCVD keeps the invariant.
LEMMA AcceptedGood ==
  ASSUME NEW r, Good(r), NEW D \in SUBSET Pcbs,
         \A p \in D : r.pcb[p].state # "SYN_RCVD"
  PROVE  Good(tcp_backlog_accepted(r, D))
<1> DEFINE q == tcp_backlog_accepted(r, D)
<1>1. Inv(q)
  BY AcceptedInv DEF Good
<1>2. \A p \in Pcbs : /\ q.pcb[p].state = r.pcb[p].state
                      /\ p \notin D => q.pcb[p] = r.pcb[p]
  BY AcceptedFields DEF Good, Inv
<1> HIDE DEF q
<1>3. SynPending(q)
  BY <1>2 DEF Good, SynPending
<1> QED
  BY <1>1, <1>3 DEF Good, q

\* A connection that moves to another active state than SYN_RCVD, or gets
\* another priority, keeps the invariant.
LEMMA MoveGood ==
  ASSUME NEW r, Good(r), NEW p \in Pcbs, NEW x \in Pcb,
         x.local_port = r.pcb[p].local_port, x.listener = r.pcb[p].listener,
         x.backlogpend = r.pcb[p].backlogpend,
         \/ x.state = r.pcb[p].state
         \/ x.state \in ActiveState \ {"SYN_RCVD"} /\ r.pcb[p].state \in ActiveState
  PROVE  Good([r EXCEPT !.pcb[p] = x])
<1> DEFINE f == [r.pcb EXCEPT ![p] = x]
           q == [r EXCEPT !.pcb = f]
<1>1. r \in Registry
  BY DEF Good, Inv
<1>2. r.pcb \in [Pcbs -> Pcb]
  BY <1>1 DEF Registry
<1>3. f \in [Pcbs -> Pcb] /\ f[p] = x /\ \A y \in Pcbs : y # p => f[y] = r.pcb[y]
  BY <1>2
<1> HIDE DEF f
<1>4. Inv(q)
  BY <1>3, RelabelInv DEF Good
<1>5. q.pcb = f
  BY <1>1 DEF Registry
<1>6. SynPending(q)
  BY <1>3, <1>5 DEF Good, SynPending
<1>7. [r EXCEPT !.pcb[p] = x] = q
  BY <1>1 DEF f, Registry
<1> QED
  BY <1>4, <1>6, <1>7 DEF Good

-----------------------------------------------------------------------------
(* Every call of the raw API and every timer keeps the invariant of the    *)
(* registry: one lemma per handler.                                        *)

\* tcp_new, whichever block tcp_alloc frees for it.
LEMMA NewStep ==
  ASSUME Good(reg), tcp_new
  PROVE  Good(reg')
<1>1. PICK a \in tcp_alloc(reg, TCP_PRIO_NORMAL) : reg' = a.r
  BY DEF tcp_new
<1>2. Inv(a.r) /\ (SynPending(reg) => SynPending(a.r))
  BY PrioAssumption, AllocInv DEF Good
<1> QED
  BY <1>1, <1>2 DEF Good

\* tcp_setprio.
LEMMA SetprioStep ==
  ASSUME Good(reg), NEW p \in Pcbs, NEW prio \in Prios, tcp_setprio(p, prio)
  PROVE  Good(reg')
<1> DEFINE x == [reg.pcb[p] EXCEPT !.prio = prio]
<1>1. reg.pcb[p] \in Pcb /\ prio \in Nat
  BY PrioAssumption DEF Good, Inv, Registry
<1>2. /\ x \in Pcb /\ x.local_port = reg.pcb[p].local_port
      /\ x.listener = reg.pcb[p].listener /\ x.state = reg.pcb[p].state
      /\ x.backlogpend = reg.pcb[p].backlogpend
  BY <1>1 DEF Pcb
<1>3. reg' = [reg EXCEPT !.pcb[p] = x]
  BY DEF tcp_setprio
<1> HIDE DEF x
<1> QED
  BY <1>2, <1>3, MoveGood

\* tcp_process, for the segments that leave the connection active.
LEMMA ProcessStep ==
  ASSUME Good(reg), NEW p \in Pcbs, NEW s \in ActiveState, tcp_process(p, s)
  PROVE  Good(reg')
<1> DEFINE x == [reg.pcb[p] EXCEPT !.state = s]
<1>1. reg.pcb[p] \in Pcb
  BY DEF Good, Inv, Registry
<1>2. /\ x \in Pcb /\ x.local_port = reg.pcb[p].local_port
      /\ x.listener = reg.pcb[p].listener /\ x.state = s
      /\ x.backlogpend = reg.pcb[p].backlogpend
  BY <1>1 DEF Pcb
<1>3. reg' = [reg EXCEPT !.pcb[p] = x]
  BY DEF tcp_process
<1>4. s # "SYN_RCVD" /\ reg.pcb[p].state \in ActiveState
  BY DEF tcp_process, Moves, ActiveState
<1> HIDE DEF x
<1> QED
  BY <1>2, <1>3, <1>4, MoveGood

\* tcp_close_shutdown_fin of one block, with and without memory for the FIN.
LEMMA CloseFinGood ==
  ASSUME NEW r, Good(r), NEW p \in Pcbs, NEW Sent
  PROVE  Good(tcp_close_shutdown_fin(r, {p}, Sent))
<1>1. {p} \in SUBSET Pcbs
  OBVIOUS
<1> QED
  BY <1>1, CloseFinInv DEF Good

\* tcp_shutdown of the sending side.
LEMMA ShutdownStep ==
  ASSUME Good(reg), NEW p \in Pcbs, NEW ok \in BOOLEAN, tcp_shutdown(p, ok)
  PROVE  Good(reg')
BY CloseFinGood DEF tcp_shutdown

\* tcp_abort.
LEMMA AbortStep ==
  ASSUME Good(reg), NEW p \in Pcbs, tcp_abort(p)
  PROVE  Good(reg')
<1>1. {p} \in SUBSET Pcbs
  OBVIOUS
<1> QED
  BY <1>1, AbandonGood DEF tcp_abort

\* tcp_backlog_accepted, called by the application.
LEMMA AcceptedStep ==
  ASSUME Good(reg), NEW p \in Pcbs, Accepted(p)
  PROVE  Good(reg')
<1>1. {p} \in SUBSET Pcbs /\ \A x \in {p} : reg.pcb[x].state # "SYN_RCVD"
  BY DEF Accepted
<1> QED
  BY <1>1, AcceptedGood DEF Accepted

\* tcp_input's removal of a connection.
LEMMA RemovesStep ==
  ASSUME Good(reg), NEW p \in Pcbs, InputRemoves(p)
  PROVE  Good(reg')
<1>1. {p} \in SUBSET reg.active
  BY DEF InputRemoves
<1> QED
  BY <1>1, RemoveActiveGood DEF InputRemoves

\* tcp_fasttmr.
LEMMA FasttmrStep ==
  ASSUME Good(reg), tcp_fasttmr
  PROVE  Good(reg')
BY ClosependInv DEF tcp_fasttmr, Good

\* tcp_netif_ip_addr_changed.
LEMMA NetifStep ==
  ASSUME Good(reg), tcp_netif_ip_addr_changed
  PROVE  Good(reg')
<1>1. PICK D \in SUBSET (reg.active \cup reg.bound) : reg' = tcp_abandon(reg, D)
  BY DEF tcp_netif_ip_addr_changed
<1>2. D \in SUBSET Pcbs
  BY DEF Good, Inv, Registry
<1> QED
  BY <1>1, <1>2, AbandonGood

\* tcp_free of blocks that are on no active list, and their unlinking.
LEMMA UnlinkGood ==
  ASSUME NEW r, Good(r), NEW E \in SUBSET Pcbs, NEW q,
         \A p \in E : r.pcb[p].state \notin ActiveState,
         q = [tcp_free(r, E) EXCEPT !.tw = r.tw \ E, !.bound = r.bound \ E]
  PROVE  Good(q)
<1> DEFINE f == [p \in Pcbs |-> IF p \in E THEN FreePcb ELSE r.pcb[p]]
<1>1. r \in Registry
  BY DEF Good, Inv
<1>2. f \in [Pcbs -> Pcb] /\ \A p \in Pcbs : f[p] = IF p \in E THEN FreePcb ELSE r.pcb[p]
  BY <1>1, FreeTypes DEF Registry
<1>3. q = [r EXCEPT !.pcb = f, !.tw = r.tw \ E, !.bound = r.bound \ E]
  BY <1>1 DEF tcp_free, Registry
<1> HIDE DEF f
<1>4. /\ q \in Registry /\ q.pcb = f /\ q.tw = r.tw \ E /\ q.bound = r.bound \ E
      /\ q.active = r.active /\ q.listen = r.listen /\ q.lpcb = r.lpcb
  <2> DEFINE t == r.tw \ E
             b == r.bound \ E
  <2>1. t \in SUBSET Pcbs /\ b \in SUBSET Pcbs
    BY <1>1 DEF Registry
  <2>2. q = [r EXCEPT !.pcb = f, !.tw = t, !.bound = b]
    BY <1>3
  <2> HIDE DEF t, b
  <2>3. /\ q.pcb = f /\ q.tw = t /\ q.bound = b
        /\ q.active = r.active /\ q.listen = r.listen /\ q.lpcb = r.lpcb
    BY <1>1, <2>2, Zenon DEF Registry
  <2>4. q \in Registry
    BY <1>1, <1>2, <2>1, <2>2, Zenon DEF Registry
  <2> QED
    BY <2>3, <2>4 DEF t, b
<1>5. Retired(r, q, E)
  BY <1>2, <1>4, FreeRetires, Zenon DEF Good
<1> QED
  BY <1>5, RetiredGood

\* tcp_slowtmr, whatever connections it gives up on or forgets.
LEMMA SlowtmrStep ==
  ASSUME Good(reg), tcp_slowtmr
  PROVE  Good(reg')
<1>1. PICK D \in SUBSET reg.active, E \in SUBSET reg.tw :
        reg' = [tcp_free(RemoveActive(reg, D), E) EXCEPT !.tw = @ \ E]
  BY Zenon DEF tcp_slowtmr
<1> DEFINE r == RemoveActive(reg, D)
<1>2. Good(r)
  BY RemoveActiveGood
<1>3. Retired(reg, r, D)
  BY RemoveActiveRetires DEF Good
<1> HIDE DEF r
<1>4. reg \in Registry /\ r \in Registry /\ E \in SUBSET Pcbs
  BY <1>2 DEF Good, Inv, Registry
<1>5. ASSUME NEW p \in E
      PROVE  r.pcb[p].state \notin ActiveState /\ p \notin r.bound
  <2>1. p \in Pcbs /\ reg.pcb[p].state = "TIME_WAIT"
    BY <1>4, PcbOK(reg, p) DEF Good, Inv, PcbOK
  <2>2. r.pcb[p].state \in {"FREE", "TIME_WAIT"}
    BY <1>3, <2>1 DEF Retired, FreePcb
  <2> QED
    BY <1>2, <2>1, <2>2, PcbOK(r, p) DEF Good, Inv, PcbOK, ActiveState
<1>6. reg' = [tcp_free(r, E) EXCEPT !.tw = r.tw \ E, !.bound = r.bound \ E]
  <2>1. r.bound \ E = r.bound
    BY <1>5
  <2>2. reg' = [tcp_free(r, E) EXCEPT !.tw = @ \ E]
    BY <1>1 DEF r
  <2> QED
    BY <1>4, <2>1, <2>2, Zenon DEF tcp_free, Registry
<1> QED
  BY <1>2, <1>4, <1>5, <1>6, UnlinkGood, Zenon

\* tcp_close, in every state of the connection.
LEMMA CloseStep ==
  ASSUME Good(reg), NEW p \in Pcbs, NEW unread \in BOOLEAN, NEW ok \in BOOLEAN,
         tcp_close(p, unread, ok)
  PROVE  Good(reg')
<1> DEFINE s == reg.pcb[p].state
<1>1. CASE (unread /\ s \in {"ESTABLISHED", "CLOSE_WAIT"}) \/ s = "SYN_SENT"
  <2>1. s \in ActiveState
    BY <1>1 DEF ActiveState
  <2>2. {p} \in SUBSET reg.active
    BY <2>1, PcbOK(reg, p) DEF Good, Inv, PcbOK
  <2> QED
    BY <1>1, <2>2, RemoveActiveGood DEF tcp_close
<1>2. CASE s = "CLOSED"
  <2>1. s \notin ActiveState /\ p \notin reg.tw /\ reg \in Registry
    BY <1>2, PcbOK(reg, p) DEF Good, Inv, PcbOK, ActiveState
  <2>2. reg.tw \ {p} = reg.tw
    BY <2>1
  <2>3. reg' = [tcp_free(reg, {p}) EXCEPT !.bound = @ \ {p}]
    BY <1>2 DEF tcp_close
  <2>4. reg' = [tcp_free(reg, {p}) EXCEPT !.tw = reg.tw \ {p}, !.bound = reg.bound \ {p}]
    BY <2>1, <2>2, <2>3, Zenon DEF tcp_free, Registry
  <2> QED
    BY <2>1, <2>4, UnlinkGood, Zenon
<1>3. CASE ~((unread /\ s \in {"ESTABLISHED", "CLOSE_WAIT"}) \/ s = "SYN_SENT") /\ s # "CLOSED"
  BY <1>3, CloseFinGood DEF tcp_close
<1> QED
  BY <1>1, <1>2, <1>3

\* The move of a connection to TIME_WAIT.
LEMMA TimeWaitStep ==
  ASSUME Good(reg), NEW p \in Pcbs, EnterTimeWait(p)
  PROVE  Good(reg')
<1> DEFINE r == tcp_backlog_accepted(reg, {p})
           x == [r.pcb[p] EXCEPT !.state = "TIME_WAIT"]
           q == [r EXCEPT !.pcb = [r.pcb EXCEPT ![p] = x],
                          !.active = r.active \ {p}, !.tw = r.tw \cup {p}]
<1>1. reg.pcb[p].state \in ActiveState \ {"SYN_RCVD"} /\ reg \in Registry
  BY DEF EnterTimeWait, ActiveState, Good, Inv
<1>2. {y \in {p} : reg.pcb[y].state \in ActiveState} = {p}
  BY <1>1
<1>3. tcp_pcb_purge(reg, {p}) = r
  BY <1>2 DEF tcp_pcb_purge
<1>4. {p} \in SUBSET Pcbs /\ \A y \in {p} : reg.pcb[y].state # "SYN_RCVD"
  BY <1>1
<1>5. Good(r)
  BY <1>4, AcceptedGood
<1>6. r = tcp_backlog_accepted(reg, {p})
  OBVIOUS
<1> HIDE DEF r
<1>15. /\ r.pcb[p].state = reg.pcb[p].state /\ r.pcb[p].listener = reg.pcb[p].listener
       /\ r.pcb[p].backlogpend =
            (reg.pcb[p].backlogpend /\ ~(p \in {p} /\ reg.pcb[p].listener # NULL))
  BY <1>1, <1>4, <1>6, AcceptedFields
<1>16. r.pcb[p].listener # NULL => ~r.pcb[p].backlogpend
  BY <1>15, Zenon
<1>7. r \in Registry /\ r.pcb[p] \in Pcb
  BY <1>5 DEF Good, Inv, Registry
<1>8. /\ x \in Pcb /\ x.local_port = r.pcb[p].local_port /\ x.state = "TIME_WAIT"
      /\ x.listener = r.pcb[p].listener /\ x.backlogpend = r.pcb[p].backlogpend
  BY <1>7 DEF Pcb
<1>9. reg' = q
  BY <1>3, <1>7, Zenon DEF EnterTimeWait, Registry
<1> HIDE DEF x
<1>10. /\ q \in Registry /\ q.pcb[p] = x /\ \A y \in Pcbs : y # p => q.pcb[y] = r.pcb[y]
       /\ q.active = r.active \ {p} /\ q.tw = r.tw \cup {p} /\ q.bound = r.bound
       /\ q.listen = r.listen /\ q.lpcb = r.lpcb
  BY <1>7, <1>8, Zenon DEF Registry
<1> HIDE DEF q
<1>11. PcbOK(q, p) /\ p \notin q.bound
  BY <1>1, <1>5, <1>15, <1>16, <1>8, <1>10, PcbOK(r, p) DEF Good, Inv, PcbOK, ActiveState
<1>12. OneBlock(r, q, p)
  BY <1>10, <1>11 DEF OneBlock
<1>13. Inv(q)
  BY <1>5, <1>8, <1>10, <1>12, OneBlockInv DEF Good
<1>14. SynPending(q)
  BY <1>5, <1>8, <1>10 DEF Good, SynPending
<1> QED
  BY <1>9, <1>13, <1>14 DEF Good

\* The close of a listener: no connection keeps a link to it.
LEMMA ListenClosedStep ==
  ASSUME Good(reg), NEW l \in Lpcbs, tcp_listen_closed(l)
  PROVE  Good(reg')
<1> DEFINE f == [p \in Pcbs |->
                   IF p \in reg.bound \cup reg.active \cup reg.tw /\ reg.pcb[p].listener = l
                   THEN [reg.pcb[p] EXCEPT !.listener = NULL] ELSE reg.pcb[p]]
           g == [reg.lpcb EXCEPT ![l] = FreeLpcb]
           m == reg.listen \ {l}
           q == [reg EXCEPT !.lpcb = g, !.listen = m, !.pcb = f]
<1>1. reg \in Registry /\ NULL \notin Lpcbs
  BY PoolAssumption DEF Good, Inv
<1>2. ASSUME NEW p \in Pcbs
      PROVE  /\ f[p] \in Pcb /\ f[p].state = reg.pcb[p].state
             /\ f[p].local_port = reg.pcb[p].local_port
             /\ f[p].backlogpend = reg.pcb[p].backlogpend
             /\ f[p].listener = IF reg.pcb[p].listener = l THEN NULL ELSE reg.pcb[p].listener
  <2>1. reg.pcb[p] \in Pcb
    BY <1>1 DEF Registry
  <2>2. reg.pcb[p].listener = l => p \in reg.active \/ p \in reg.tw
    BY <1>1, <2>1, PcbOK(reg, p) DEF Good, Inv, PcbOK, Pcb
  <2>3. f[p] = IF reg.pcb[p].listener = l
               THEN [reg.pcb[p] EXCEPT !.listener = NULL] ELSE reg.pcb[p]
    BY <2>2
  <2> QED
    BY <2>1, <2>3 DEF Pcb
<1>3. f \in [Pcbs -> Pcb]
  BY <1>2
<1>4. /\ g \in [Lpcbs -> Lpcb] /\ g[l] = FreeLpcb /\ m \in SUBSET Lpcbs
      /\ \A k \in Lpcbs : k # l => g[k] = reg.lpcb[k]
  BY <1>1, FreeTypes DEF Registry
<1>5. reg' = q
  BY <1>1 DEF tcp_listen_closed, Registry
<1>6. m = reg.listen \ {l}
  OBVIOUS
<1> HIDE DEF f, g, m
<1>7. /\ q \in Registry /\ q.pcb = f /\ q.lpcb = g /\ q.listen = m /\ q.active = reg.active
      /\ q.tw = reg.tw /\ q.bound = reg.bound
  BY <1>1, <1>3, <1>4, Zenon DEF Registry
<1> HIDE DEF q
<1>8. ASSUME NEW p \in Pcbs PROVE PcbOK(q, p)
  BY <1>2, <1>6, <1>7, PcbOK(reg, p) DEF Good, Inv, PcbOK
<1>9. ASSUME NEW k \in Lpcbs PROVE LpcbOK(q, k)
  <2>1. CASE k = l
    BY <1>4, <1>6, <1>7, <2>1 DEF LpcbOK, FreeLpcb
  <2>2. CASE k # l
    <3>1. Pending(q, Pcbs, k) = Pending(reg, Pcbs, k)
      BY <1>1, <1>2, <1>7, <2>2 DEF Pending
    <3> QED
      BY <1>4, <1>6, <1>7, <2>2, <3>1, LpcbOK(reg, k) DEF Good, Inv, LpcbOK
  <2> QED
    BY <2>1, <2>2
<1>10. BoundOK(q)
  BY <1>1, <1>2, <1>7 DEF Good, Inv, BoundOK, Registry
<1>11. SynPending(q)
  BY <1>2, <1>7 DEF Good, SynPending
<1> QED
  BY <1>5, <1>7, <1>8, <1>9, <1>10, <1>11 DEF Good, Inv

\* A listener that is opened has no connections yet.
LEMMA OpenGood ==
  ASSUME NEW r, Good(r), NEW l \in Lpcbs, r.lpcb[l].state = "FREE", NEW x \in Lpcb,
         x.state = "LISTEN", x.accepts_pending = 0, NEW q,
         q = [r EXCEPT !.lpcb[l] = x, !.listen = @ \cup {l}]
  PROVE  Good(q)
<1> DEFINE g == [r.lpcb EXCEPT ![l] = x]
           m == r.listen \cup {l}
<1>1. r \in Registry /\ NULL \notin Lpcbs
  BY PoolAssumption DEF Good, Inv
<1>2. /\ g \in [Lpcbs -> Lpcb] /\ g[l] = x /\ m \in SUBSET Lpcbs
      /\ \A k \in Lpcbs : k # l => g[k] = r.lpcb[k]
  BY <1>1 DEF Registry
<1>3. q = [r EXCEPT !.lpcb = g, !.listen = m] /\ m = r.listen \cup {l}
  BY <1>1 DEF Registry
<1> HIDE DEF g, m
<1>4. /\ q \in Registry /\ q.pcb = r.pcb /\ q.lpcb = g /\ q.listen = m
      /\ q.active = r.active /\ q.tw = r.tw /\ q.bound = r.bound
  BY <1>1, <1>2, <1>3, Zenon DEF Registry
<1>5. l \notin r.listen
  BY LpcbOK(r, l) DEF Good, Inv, LpcbOK
<1>6. ASSUME NEW p \in Pcbs PROVE PcbOK(q, p)
  BY <1>3, <1>4, PcbOK(r, p) DEF Good, Inv, PcbOK
<1>7. ASSUME NEW k \in Lpcbs PROVE LpcbOK(q, k)
  <2>1. CASE k = l
    <3>1. ASSUME NEW p \in Pcbs PROVE r.pcb[p].listener # l
      BY <1>1, <1>5, PcbOK(r, p) DEF Good, Inv, PcbOK
    <3>2. Pending(q, Pcbs, l) = {}
      BY <1>4, <3>1 DEF Pending
    <3>3. Cardinality(Pending(q, Pcbs, l)) = 0
      BY <3>2, FS_EmptySet
    <3>4. x.accepts_pending <= x.backlog
      BY DEF Lpcb
    <3> QED
      BY <1>2, <1>3, <1>4, <2>1, <3>3, <3>4 DEF LpcbOK
  <2>2. CASE k # l
    <3>1. Pending(q, Pcbs, k) = Pending(r, Pcbs, k)
      BY <1>4 DEF Pending
    <3> QED
      BY <1>2, <1>3, <1>4, <2>2, <3>1, LpcbOK(r, k) DEF Good, Inv, LpcbOK
  <2> QED
    BY <2>1, <2>2
<1>8. BoundOK(q) /\ SynPending(q)
  BY <1>4 DEF Good, Inv, BoundOK, SynPending
<1> QED
  BY <1>4, <1>6, <1>7, <1>8 DEF Good, Inv

\* tcp_listen_with_backlog: the bound block is given back, the listener opened.
LEMMA ListenStep ==
  ASSUME Good(reg), NEW p \in Pcbs, NEW l \in Lpcbs, NEW backlog \in Backlogs,
         tcp_listen_with_backlog(p, l, backlog)
  PROVE  Good(reg')
<1> DEFINE r == [tcp_free(reg, {p}) EXCEPT !.tw = reg.tw \ {p}, !.bound = reg.bound \ {p}]
           n == IF backlog = 0 THEN 1 ELSE backlog
           x == [state |-> "LISTEN", local_port |-> reg.pcb[p].local_port,
                 prio |-> reg.pcb[p].prio, accepts_pending |-> 0, backlog |-> n]
<1>1. /\ reg \in Registry /\ reg.pcb[p].state = "CLOSED" /\ reg.lpcb[l].state = "FREE"
      /\ "CLOSED" \notin ActiveState
  BY DEF Good, Inv, tcp_listen_with_backlog, ActiveState
<1>2. {p} \in SUBSET Pcbs /\ (\A y \in {p} : reg.pcb[y].state \notin ActiveState)
  BY <1>1
<1>3. Good(r)
  BY <1>2, UnlinkGood, Zenon
<1>4. n \in Nat
  BY BacklogAssumption
<1> HIDE DEF n
<1>5. x \in Lpcb /\ x.state = "LISTEN" /\ x.accepts_pending = 0
  BY <1>1, <1>4 DEF Registry, Pcb, Lpcb
<1>6. reg.tw \ {p} = reg.tw
  BY <1>1, PcbOK(reg, p) DEF Good, Inv, PcbOK
<1>7. r.lpcb = reg.lpcb /\ r.listen = reg.listen
  BY <1>1 DEF tcp_free, Registry
<1>8. reg' = [r EXCEPT !.lpcb[l] = x, !.listen = @ \cup {l}]
  <2>1. reg' = [tcp_free(reg, {p}) EXCEPT
                  !.bound = @ \ {p}, !.lpcb[l] = x, !.listen = @ \cup {l}]
    BY DEF tcp_listen_with_backlog, n
  <2> HIDE DEF x
  <2> QED
    BY <1>1, <1>6, <2>1, Zenon DEF tcp_free, Registry
<1> HIDE DEF r, x
<1> QED
  BY <1>1, <1>3, <1>5, <1>7, <1>8, OpenGood, Zenon

\* tcp_new_port keeps the invariant.
LEMMA PortGood ==
  ASSUME NEW r, Good(r), NEW t \in 0..(U16 - 1), NEW q, q = [r EXCEPT !.tcp_port = t]
  PROVE  /\ Good(q) /\ q.pcb = r.pcb /\ q.bound = r.bound
         /\ PortsInUse(q) = PortsInUse(r)
<1>1. r \in Registry
  BY DEF Good, Inv
<1>2. /\ q \in Registry /\ q.pcb = r.pcb /\ q.lpcb = r.lpcb /\ q.listen = r.listen
      /\ q.active = r.active /\ q.tw = r.tw /\ q.bound = r.bound
  BY <1>1 DEF Registry
<1>3. ASSUME NEW p \in Pcbs PROVE PcbOK(q, p)
  BY <1>2, PcbOK(r, p) DEF Good, Inv, PcbOK
<1>4. ASSUME NEW l \in Lpcbs PROVE LpcbOK(q, l)
  <2>1. Pending(q, Pcbs, l) = Pending(r, Pcbs, l)
    BY <1>2 DEF Pending
  <2> QED
    BY <1>2, <2>1, LpcbOK(r, l) DEF Good, Inv, LpcbOK
<1>5. BoundOK(q) /\ SynPending(q) /\ PortsInUse(q) = PortsInUse(r)
  BY <1>2 DEF Good, Inv, BoundOK, SynPending, PortsInUse
<1> QED
  BY <1>2, <1>3, <1>4, <1>5 DEF Good, Inv

\* tcp_bind: the port is nobody else's.
LEMMA BindGood ==
  ASSUME NEW r, Good(r), NEW p \in Pcbs, r.pcb[p].state = "CLOSED", p \notin r.bound,
         NEW port \in 0..(U16 - 1), port # 0, port \notin PortsInUse(r), NEW q,
         q = [r EXCEPT !.pcb[p].local_port = port, !.bound = @ \cup {p}]
  PROVE  Good(q)
<1> DEFINE x == [r.pcb[p] EXCEPT !.local_port = port]
           f == [r.pcb EXCEPT ![p] = x]
           b == r.bound \cup {p}
<1>1. r \in Registry /\ r.pcb[p] \in Pcb
  BY DEF Good, Inv, Registry
<1>2. /\ x \in Pcb /\ x.local_port = port /\ x.listener = r.pcb[p].listener
      /\ x.backlogpend = r.pcb[p].backlogpend /\ x.state = "CLOSED"
  BY <1>1 DEF Pcb
<1>3. q = [r EXCEPT !.pcb = f, !.bound = b] /\ b = r.bound \cup {p}
  BY <1>1 DEF Registry
<1> HIDE DEF x
<1>4. /\ f \in [Pcbs -> Pcb] /\ f[p] = x /\ b \in SUBSET Pcbs
      /\ \A y \in Pcbs : y # p => f[y] = r.pcb[y]
  BY <1>1, <1>2 DEF Registry
<1> HIDE DEF f, b
<1>5. /\ q \in Registry /\ q.pcb = f /\ q.bound = b /\ q.lpcb = r.lpcb
      /\ q.listen = r.listen /\ q.active = r.active /\ q.tw = r.tw
  BY <1>1, <1>3, <1>4, Zenon DEF Registry
<1>6. PcbOK(q, p)
  BY <1>2, <1>4, <1>5, PcbOK(r, p) DEF Good, Inv, PcbOK, ActiveState
<1>7. \A y \in r.bound : r.pcb[y].local_port # port
  BY DEF PortsInUse
<1>8. OneBlock(r, q, p)
  BY <1>2, <1>3, <1>4, <1>5, <1>6, <1>7 DEF OneBlock
<1>9. Inv(q)
  BY <1>2, <1>4, <1>5, <1>8, OneBlockInv, Zenon DEF Good
<1>10. SynPending(q)
  BY <1>2, <1>4, <1>5 DEF Good, SynPending
<1> QED
  BY <1>9, <1>10 DEF Good

\* tcp_bind, with a port of the caller's or one of tcp_new_port's.
LEMMA BindStep ==
  ASSUME Good(reg), NEW p \in Pcbs, NEW port \in BindPorts \cup {0}, tcp_bind(p, port)
  PROVE  Good(reg')
<1> DEFINE new == IF port = 0 THEN tcp_new_port(reg) ELSE [r |-> reg, port |-> port]
<1>1. /\ reg \in Registry /\ reg.pcb[p].state = "CLOSED" /\ p \notin reg.bound
      /\ port \in 0..(U16 - 1)
  BY PortAssumption DEF Good, Inv, tcp_bind
<1>2. /\ Good(new.r) /\ new.r.pcb = reg.pcb /\ new.r.bound = reg.bound
      /\ PortsInUse(new.r) = PortsInUse(reg) /\ new.port \in 0..(U16 - 1)
      /\ port = 0 /\ new.port # 0 => new.port \notin PortsInUse(reg)
      /\ port # 0 => new.port = port
  <2>1. CASE port = 0
    <3>1. PICK t \in 0..(U16 - 1) : tcp_new_port(reg).r = [reg EXCEPT !.tcp_port = t]
      BY <1>1, NewPort
    <3>2. new = tcp_new_port(reg)
      BY <2>1
    <3>3. /\ Good(new.r) /\ new.r.pcb = reg.pcb /\ new.r.bound = reg.bound
          /\ PortsInUse(new.r) = PortsInUse(reg)
      BY <3>1, <3>2, PortGood
    <3>4. new.port \in 0..(U16 - 1) /\ (new.port # 0 => new.port \notin PortsInUse(reg))
      BY <1>1, <3>2, NewPort
    <3> HIDE DEF new
    <3> QED
      BY <2>1, <3>3, <3>4
  <2>2. CASE port # 0
    BY <1>1, <2>2
  <2> QED
    BY <2>1, <2>2
<1>3. IF new.port = 0 \/ (port # 0 /\ port \in PortsInUse(reg)) THEN reg' = new.r
      ELSE reg' = [new.r EXCEPT !.pcb[p].local_port = new.port, !.bound = @ \cup {p}]
  BY DEF tcp_bind
<1> HIDE DEF new
<1>4. CASE new.port = 0 \/ (port # 0 /\ port \in PortsInUse(reg))
  BY <1>2, <1>3, <1>4
<1>5. CASE new.port # 0 /\ ~(port # 0 /\ port \in PortsInUse(reg))
  <2>1. new.port \notin PortsInUse(new.r)
    BY <1>2, <1>5
  <2>2. reg' = [new.r EXCEPT !.pcb[p].local_port = new.port, !.bound = @ \cup {p}]
    BY <1>3, <1>5
  <2> QED
    BY <1>1, <1>2, <1>5, <2>1, <2>2, BindGood, Zenon
<1> QED
  BY <1>4, <1>5

\* tcp_connect, when the SYN could not be queued: only the port is set.
LEMMA ConnectFailsGood ==
  ASSUME NEW r, Good(r), NEW p \in Pcbs, r.pcb[p].state = "CLOSED",
         NEW port \in 0..(U16 - 1),
         r.pcb[p].local_port # 0 => port = r.pcb[p].local_port, NEW q,
         q = [r EXCEPT !.pcb[p].local_port = port]
  PROVE  Good(q)
<1> DEFINE x == [r.pcb[p] EXCEPT !.local_port = port]
           f == [r.pcb EXCEPT ![p] = x]
<1>1. r \in Registry /\ r.pcb[p] \in Pcb
  BY DEF Good, Inv, Registry
<1>2. /\ x \in Pcb /\ x.local_port = port /\ x.listener = r.pcb[p].listener
      /\ x.backlogpend = r.pcb[p].backlogpend /\ x.state = "CLOSED"
  BY <1>1 DEF Pcb
<1>3. q = [r EXCEPT !.pcb = f]
  BY <1>1 DEF Registry
<1> HIDE DEF x
<1>4. f \in [Pcbs -> Pcb] /\ f[p] = x /\ \A y \in Pcbs : y # p => f[y] = r.pcb[y]
  BY <1>1, <1>2 DEF Registry
<1> HIDE DEF f
<1>5. /\ q \in Registry /\ q.pcb = f /\ q.bound = r.bound /\ q.lpcb = r.lpcb
      /\ q.listen = r.listen /\ q.active = r.active /\ q.tw = r.tw
  BY <1>1, <1>3, <1>4 DEF Registry
<1>6. PcbOK(q, p)
  BY <1>2, <1>4, <1>5, PcbOK(r, p) DEF Good, Inv, PcbOK, ActiveState
<1>7. p \in r.bound => r.pcb[p].local_port = port
  BY PcbOK(r, p) DEF Good, Inv, PcbOK
<1>8. p \in r.bound => \A y \in r.bound : y # p => r.pcb[y].local_port # port
  BY <1>7 DEF Good, Inv, BoundOK
<1>9. OneBlock(r, q, p)
  BY <1>2, <1>4, <1>5, <1>6, <1>8 DEF OneBlock
<1>10. Inv(q)
  BY <1>2, <1>4, <1>5, <1>9, OneBlockInv, Zenon DEF Good
<1>11. SynPending(q)
  BY <1>2, <1>4, <1>5 DEF Good, SynPending
<1> QED
  BY <1>10, <1>11 DEF Good

\* tcp_connect, when the SYN is on its way: the block becomes active.
LEMMA ConnectGood ==
  ASSUME NEW r, Good(r), NEW p \in Pcbs, r.pcb[p].state = "CLOSED",
         NEW port \in 0..(U16 - 1), NEW q,
         q = [r EXCEPT !.pcb[p].local_port = port, !.pcb[p].state = "SYN_SENT",
                       !.bound = @ \ {p}, !.active = @ \cup {p}]
  PROVE  Good(q)
<1> DEFINE x == [r.pcb[p] EXCEPT !.local_port = port, !.state = "SYN_SENT"]
           f == [r.pcb EXCEPT ![p] = x]
           b == r.bound \ {p}
           a == r.active \cup {p}
<1>1. r \in Registry /\ r.pcb[p] \in Pcb
  BY DEF Good, Inv, Registry
<1>2. /\ x \in Pcb /\ x.local_port = port /\ x.listener = r.pcb[p].listener
      /\ x.backlogpend = r.pcb[p].backlogpend /\ x.state = "SYN_SENT"
  BY <1>1, Zenon DEF Pcb, ActiveState
<1>3. /\ q = [r EXCEPT !.pcb = f, !.bound = b, !.active = a]
      /\ b = r.bound \ {p} /\ a = r.active \cup {p}
  BY <1>1, Zenon DEF Registry
<1> HIDE DEF x
<1>4. /\ f \in [Pcbs -> Pcb] /\ f[p] = x /\ b \in SUBSET Pcbs /\ a \in SUBSET Pcbs
      /\ \A y \in Pcbs : y # p => f[y] = r.pcb[y]
  BY <1>1, <1>2 DEF Registry
<1> HIDE DEF f, b, a
<1>5. /\ q \in Registry /\ q.pcb = f /\ q.bound = b /\ q.lpcb = r.lpcb
      /\ q.listen = r.listen /\ q.active = a /\ q.tw = r.tw
  BY <1>1, <1>3, <1>4, Zenon DEF Registry
<1>6. PcbOK(q, p)
  BY <1>2, <1>3, <1>4, <1>5, PcbOK(r, p) DEF Good, Inv, PcbOK, ActiveState
<1>7. OneBlock(r, q, p)
  BY <1>2, <1>3, <1>4, <1>5, <1>6 DEF OneBlock
<1>8. Inv(q)
  BY <1>2, <1>4, <1>5, <1>7, OneBlockInv, Zenon DEF Good
<1>9. SynPending(q)
  BY <1>2, <1>4, <1>5 DEF Good, SynPending
<1> QED
  BY <1>8, <1>9 DEF Good

\* tcp_connect, with the port of the block or one of tcp_new_port's.
LEMMA ConnectStep ==
  ASSUME Good(reg), NEW p \in Pcbs, NEW ok \in BOOLEAN, tcp_connect(p, ok)
  PROVE  Good(reg')
<1> DEFINE old == reg.pcb[p].local_port
           new == IF old = 0 THEN tcp_new_port(reg) ELSE [r |-> reg, port |-> old]
<1>1. reg \in Registry /\ reg.pcb[p].state = "CLOSED" /\ reg.pcb[p] \in Pcb
  BY DEF Good, Inv, tcp_connect, Registry
<1>2. /\ Good(new.r) /\ new.r.pcb = reg.pcb /\ new.port \in 0..(U16 - 1)
      /\ old # 0 => new.port = old
  <2>1. CASE old = 0
    <3>1. PICK t \in 0..(U16 - 1) : tcp_new_port(reg).r = [reg EXCEPT !.tcp_port = t]
      BY <1>1, NewPort
    <3>2. new = tcp_new_port(reg)
      BY <2>1
    <3>3. Good(new.r) /\ new.r.pcb = reg.pcb
      BY <3>1, <3>2, PortGood
    <3>4. new.port \in 0..(U16 - 1)
      BY <1>1, <3>2, NewPort
    <3> HIDE DEF new
    <3> QED
      BY <2>1, <3>3, <3>4
  <2>2. CASE old # 0
    BY <1>1, <2>2 DEF Pcb
  <2> QED
    BY <2>1, <2>2
<1>3. IF new.port = 0 THEN reg' = new.r
      ELSE IF ~ok THEN reg' = [new.r EXCEPT !.pcb[p].local_port = new.port]
      ELSE reg' = [new.r EXCEPT !.pcb[p].local_port = new.port,
                                !.pcb[p].state = "SYN_SENT",
                                !.bound = @ \ {p},
                                !.active = @ \cup {p}]
  BY DEF tcp_connect
<1> HIDE DEF new
<1>4. CASE new.port = 0
  BY <1>2, <1>3, <1>4
<1>5. CASE new.port # 0 /\ ~ok
  BY <1>1, <1>2, <1>3, <1>5, ConnectFailsGood
<1>6. CASE new.port # 0 /\ ok
  BY <1>1, <1>2, <1>3, <1>6, ConnectGood, Zenon
<1> QED
  BY <1>4, <1>5, <1>6

-----------------------------------------------------------------------------
(* Incoming segments keep the invariant, so every handler does.            *)

\* tcp_backlog_delayed of a connection that its listener has room for.
LEMMA DelayedGood ==
  ASSUME NEW r, Good(r), NEW p \in Pcbs, r.pcb[p].state \in ActiveState,
         ~r.pcb[p].backlogpend, NEW l \in Lpcbs, r.pcb[p].listener = l,
         TCP_LISTEN_BACKLOG => r.lpcb[l].accepts_pending < r.lpcb[l].backlog
  PROVE  Good(tcp_backlog_delayed(r, p))
<1>1. CASE ~TCP_LISTEN_BACKLOG
  BY <1>1 DEF tcp_backlog_delayed
<1>2. CASE TCP_LISTEN_BACKLOG
  <2> DEFINE x == [r.pcb[p] EXCEPT !.backlogpend = TRUE]
             f == [r.pcb EXCEPT ![p] = x]
             y == [r.lpcb[l] EXCEPT !.accepts_pending = r.lpcb[l].accepts_pending + 1]
             g == [r.lpcb EXCEPT ![l] = y]
             q == [r EXCEPT !.lpcb = g, !.pcb = f]
  <2>1. r \in Registry /\ r.pcb[p] \in Pcb /\ r.lpcb[l] \in Lpcb /\ l # NULL
    BY PoolAssumption DEF Good, Inv, Registry
  <2>2. tcp_backlog_delayed(r, p) = q
    BY <1>2, <2>1 DEF tcp_backlog_delayed, Registry
  <2>3. /\ x \in Pcb /\ x.backlogpend = TRUE /\ x.state = r.pcb[p].state
        /\ x.local_port = r.pcb[p].local_port /\ x.listener = l
    BY <2>1, Zenon DEF Pcb
  <2>4. /\ y \in Lpcb /\ y.accepts_pending = r.lpcb[l].accepts_pending + 1
        /\ y.state = r.lpcb[l].state /\ y.backlog = r.lpcb[l].backlog
    BY <2>1 DEF Lpcb
  <2> HIDE DEF x, y
  <2>5. f \in [Pcbs -> Pcb] /\ f[p] = x /\ \A z \in Pcbs : z # p => f[z] = r.pcb[z]
    BY <2>1, <2>3 DEF Registry
  <2>6. g \in [Lpcbs -> Lpcb] /\ g[l] = y /\ \A k \in Lpcbs : k # l => g[k] = r.lpcb[k]
    BY <2>1, <2>4 DEF Registry
  <2> HIDE DEF f, g
  <2>7. /\ q \in Registry /\ q.pcb = f /\ q.lpcb = g /\ q.bound = r.bound
        /\ q.listen = r.listen /\ q.active = r.active /\ q.tw = r.tw
    BY <2>1, <2>5, <2>6, Zenon DEF Registry
  <2> HIDE DEF q
  <2>8. PcbOK(q, p) /\ p \notin q.bound /\ l \in r.listen
    BY <2>1, <2>3, <2>5, <2>7, PcbOK(r, p) DEF Good, Inv, PcbOK, ActiveState
  <2>9. OneBlock(r, q, p)
    BY <2>5, <2>7, <2>8 DEF OneBlock
  <2>10. Inv(q)
    <3>1. Joins(r, q, p, l)
      BY <1>2, <2>3, <2>4, <2>5, <2>6, <2>7 DEF Joins
    <3> QED
      BY <2>8, <2>9, <3>1, JoinInv DEF Good
  <2>11. SynPending(q)
    BY <2>3, <2>5, <2>7 DEF Good, SynPending
  <2> QED
    BY <2>2, <2>10, <2>11 DEF Good
<1> QED
  BY <1>1, <1>2

\* The ACK of the SYN|ACK, whatever the accept callback answers.
LEMMA SynRcvdStep ==
  ASSUME Good(reg), NEW p \in Pcbs, NEW answer \in {"take", "delay", "refuse"},
         NEW fin \in BOOLEAN, SynRcvdAcked(p, answer, fin)
  PROVE  Good(reg')
<1> DEFINE s == IF fin THEN "CLOSE_WAIT" ELSE "ESTABLISHED"
           x == [reg.pcb[p] EXCEPT !.state = s]
           r == [reg EXCEPT !.pcb[p] = x]
           q == tcp_backlog_accepted(r, {p})
           l == reg.pcb[p].listener
<1>1. reg \in Registry /\ reg.pcb[p] \in Pcb /\ reg.pcb[p].state = "SYN_RCVD"
  BY DEF Good, Inv, Registry, SynRcvdAcked
<1>2. s \in ActiveState \ {"SYN_RCVD"} /\ "SYN_RCVD" \in ActiveState
  BY DEF ActiveState
<1>3. reg' = IF l = NULL THEN tcp_abandon(r, {p})
             ELSE CASE answer = "take" -> q
                    [] answer = "delay" -> tcp_backlog_delayed(q, p)
                    [] answer = "refuse" -> tcp_abandon(q, {p})
  BY DEF SynRcvdAcked
<1> HIDE DEF s
<1>4. /\ x \in Pcb /\ x.state = s /\ x.listener = l
      /\ x.local_port = reg.pcb[p].local_port /\ x.backlogpend = reg.pcb[p].backlogpend
  BY <1>1, <1>2 DEF Pcb
<1> HIDE DEF x
<1>5. Good(r)
  BY <1>1, <1>2, <1>4, MoveGood
<1>6. r \in Registry /\ r.pcb[p] = x /\ r.lpcb = reg.lpcb
  BY <1>1, <1>4 DEF Registry
<1> HIDE DEF r
<1>7. {p} \in SUBSET Pcbs /\ (\A y \in {p} : r.pcb[y].state # "SYN_RCVD")
  BY <1>2, <1>4, <1>6
<1>8. Good(q)
  BY <1>5, <1>7, AcceptedGood
<1>9. q = tcp_backlog_accepted(r, {p})
  OBVIOUS
<1> HIDE DEF q
<1>10. CASE l = NULL
  BY <1>3, <1>5, <1>7, <1>10, AbandonGood
<1>11. CASE l # NULL /\ answer = "take"
  BY <1>3, <1>8, <1>11
<1>12. CASE l # NULL /\ answer = "refuse"
  BY <1>3, <1>7, <1>8, <1>12, AbandonGood
<1>13. CASE l # NULL /\ answer = "delay"
  <2>1. l \in Lpcbs
    BY <1>1, <1>13 DEF Pcb
  <2>2. /\ q.pcb[p].state = s /\ q.pcb[p].listener = l
        /\ q.pcb[p].backlogpend =
             (r.pcb[p].backlogpend /\ ~(p \in {p} /\ r.pcb[p].listener # NULL))
    <3>1. /\ q.pcb[p].state = r.pcb[p].state /\ q.pcb[p].listener = r.pcb[p].listener
          /\ q.pcb[p].backlogpend =
               (r.pcb[p].backlogpend /\ ~(p \in {p} /\ r.pcb[p].listener # NULL))
      BY <1>6, <1>7, <1>9, AcceptedFields
    <3> QED
      BY <1>4, <1>6, <3>1, Zenon
  <2>3. ~q.pcb[p].backlogpend
    BY <1>4, <1>6, <1>13, <2>2, Zenon
  <2>4. /\ q.lpcb[l].accepts_pending
             = r.lpcb[l].accepts_pending - Cardinality(Pending(r, {p}, l))
        /\ q.lpcb[l].backlog = r.lpcb[l].backlog
        /\ r.lpcb[l].accepts_pending \in Int /\ r.lpcb[l].backlog \in Nat
    BY <1>6, <1>7, <1>9, <2>1, AcceptedCount
  <2>5. r.lpcb[l].accepts_pending <= r.lpcb[l].backlog
    <3>1. l \in r.listen
      BY <1>4, <1>5, <1>6, <1>13, PcbOK(r, p) DEF Good, Inv, PcbOK
    <3> QED
      BY <1>5, <2>1, <3>1, LpcbOK(r, l) DEF Good, Inv, LpcbOK
  <2>6. TCP_LISTEN_BACKLOG => Cardinality(Pending(r, {p}, l)) = 1
    <3>1. TCP_LISTEN_BACKLOG => reg.pcb[p].backlogpend
      BY <1>1, <1>13 DEF Good, SynPending
    <3>2. TCP_LISTEN_BACKLOG => Pending(r, {p}, l) = {p}
      BY <1>4, <1>6, <3>1 DEF Pending
    <3> QED
      BY <3>2, FS_Singleton
  <2>7. TCP_LISTEN_BACKLOG => q.lpcb[l].accepts_pending < q.lpcb[l].backlog
    <3> SUFFICES ASSUME TCP_LISTEN_BACKLOG
                 PROVE  q.lpcb[l].accepts_pending < q.lpcb[l].backlog
      OBVIOUS
    <3>1. q.lpcb[l].accepts_pending = r.lpcb[l].accepts_pending - 1
      BY <2>4, <2>6
    <3> QED
      BY <2>4, <2>5, <3>1, OneLess, Zenon
  <2>8. Good(tcp_backlog_delayed(q, p))
    BY <1>2, <1>8, <2>1, <2>2, <2>3, <2>7, DelayedGood
  <2> QED
    BY <1>3, <1>13, <2>8
<1> QED
  BY <1>10, <1>11, <1>12, <1>13

\* A new connection of a listener keeps the invariant, counted or not.
LEMMA NewConnectionGood ==
  ASSUME NEW r, Good(r), NEW p \in Pcbs, NEW l \in r.listen,
         r.pcb[p].state = "CLOSED", p \notin r.bound, NEW q \in Registry,
         q.pcb[p].state = "SYN_RCVD", q.pcb[p].listener = l,
         q.pcb[p].backlogpend = TCP_LISTEN_BACKLOG,
         \A z \in Pcbs : z # p => q.pcb[z] = r.pcb[z],
         q.active = r.active \cup {p}, q.tw = r.tw, q.bound = r.bound, q.listen = r.listen,
         \A k \in Lpcbs : k # l => q.lpcb[k] = r.lpcb[k],
         q.lpcb[l].state = r.lpcb[l].state, q.lpcb[l].backlog = r.lpcb[l].backlog,
         TCP_LISTEN_BACKLOG =>
           /\ q.lpcb[l].accepts_pending = r.lpcb[l].accepts_pending + 1
           /\ r.lpcb[l].accepts_pending < r.lpcb[l].backlog,
         ~TCP_LISTEN_BACKLOG => q.lpcb = r.lpcb
  PROVE  Good(q)
<1>1. PcbOK(q, p) /\ p \notin q.bound /\ r.pcb[p].listener = NULL
  BY PcbOK(r, p) DEF Good, Inv, PcbOK, ActiveState
<1>2. OneBlock(r, q, p)
  BY <1>1 DEF OneBlock
<1>3. CASE TCP_LISTEN_BACKLOG
  <2>1. q.pcb[p].backlogpend /\ Inv(r)
    BY <1>3, Zenon DEF Good
  <2>2. /\ q.lpcb[l].accepts_pending = r.lpcb[l].accepts_pending + 1
        /\ r.lpcb[l].accepts_pending < r.lpcb[l].backlog
    BY <1>3
  <2>3. Inv(q)
    <3>1. Joins(r, q, p, l)
      BY <1>1, <2>1, <2>2, Zenon DEF Joins
    <3> QED
      BY <1>1, <1>2, <2>1, <3>1, JoinInv, Zenon
  <2>4. SynPending(q)
    BY <2>1 DEF Good, SynPending
  <2> QED
    BY <2>3, <2>4 DEF Good
<1>4. CASE ~TCP_LISTEN_BACKLOG
  <2>1. ASSUME NEW z \in Pcbs PROVE PcbOK(q, z)
    <3>1. CASE z = p
      BY <1>1, <3>1
    <3>2. CASE z # p
      BY <1>2, <3>2, PcbOK(r, z) DEF Good, Inv, OneBlock, PcbOK
    <3> QED
      BY <3>1, <3>2
  <2>2. BoundOK(q)
    BY DEF Good, Inv, BoundOK, Registry
  <2>3. ~q.pcb[p].backlogpend
    BY <1>4, Zenon
  <2>4. ASSUME NEW k \in Lpcbs PROVE LpcbOK(q, k)
    <3>1. k # NULL
      BY PoolAssumption
    <3>2. Pending(q, Pcbs, k) = Pending(r, Pcbs, k)
      BY <1>1, <2>3, <3>1 DEF Pending
    <3> QED
      BY <1>4, <3>2, LpcbOK(r, k) DEF Good, Inv, LpcbOK
  <2>5. SynPending(q)
    BY <1>4 DEF SynPending
  <2> QED
    BY <2>1, <2>2, <2>4, <2>5 DEF Good, Inv
<1> QED
  BY <1>3, <1>4

\* The connection tcp_listen_input makes of a new block keeps the invariant.
LEMMA AcceptGood ==
  ASSUME NEW r, Good(r), NEW p \in Pcbs, NEW l \in r.listen,
         r.pcb[p].state = "CLOSED", p \notin r.bound,
         TCP_LISTEN_BACKLOG => r.lpcb[l].accepts_pending < r.lpcb[l].backlog
  PROVE  Good([r EXCEPT
                !.lpcb[l].accepts_pending = IF TCP_LISTEN_BACKLOG THEN @ + 1 ELSE @,
                !.pcb[p] = [@ EXCEPT !.backlogpend = TCP_LISTEN_BACKLOG,
                                     !.local_port = r.lpcb[l].local_port,
                                     !.state = "SYN_RCVD", !.listener = l],
                !.active = @ \cup {p}])
<1> DEFINE n == IF TCP_LISTEN_BACKLOG THEN r.lpcb[l].accepts_pending + 1
                ELSE r.lpcb[l].accepts_pending
           y == [r.lpcb[l] EXCEPT !.accepts_pending = n]
           g == [r.lpcb EXCEPT ![l] = y]
           x == [r.pcb[p] EXCEPT !.backlogpend = TCP_LISTEN_BACKLOG,
                                 !.local_port = r.lpcb[l].local_port,
                                 !.state = "SYN_RCVD", !.listener = l]
           f == [r.pcb EXCEPT ![p] = x]
           a == r.active \cup {p}
           q == [r EXCEPT !.lpcb = g, !.pcb = f, !.active = a]
<1>1. r \in Registry /\ l \in Lpcbs
  BY DEF Good, Inv, Registry
<1>2. /\ r.pcb[p] \in Pcb /\ r.lpcb[l] \in Lpcb /\ TCP_LISTEN_BACKLOG \in BOOLEAN
  BY <1>1, PoolAssumption DEF Registry
<1>3. n \in Int
  BY <1>2 DEF Lpcb
<1>4. q = [r EXCEPT
             !.lpcb[l].accepts_pending = IF TCP_LISTEN_BACKLOG THEN @ + 1 ELSE @,
             !.pcb[p] = [@ EXCEPT !.backlogpend = TCP_LISTEN_BACKLOG,
                                  !.local_port = r.lpcb[l].local_port,
                                  !.state = "SYN_RCVD", !.listener = l],
             !.active = @ \cup {p}]
  BY <1>1 DEF Registry
<1>5. r.lpcb[l].local_port \in 0..(U16 - 1)
  BY <1>2 DEF Lpcb
<1>6. /\ x \in Pcb /\ x.state = "SYN_RCVD" /\ x.listener = l
      /\ x.backlogpend = TCP_LISTEN_BACKLOG
  BY <1>1, <1>2, <1>5, Zenon DEF Pcb, ActiveState
<1>7. /\ TCP_LISTEN_BACKLOG => n = r.lpcb[l].accepts_pending + 1
      /\ ~TCP_LISTEN_BACKLOG => n = r.lpcb[l].accepts_pending
  OBVIOUS
<1> HIDE DEF n, x
<1>8. /\ y \in Lpcb /\ y.accepts_pending = n /\ y.state = r.lpcb[l].state
      /\ y.backlog = r.lpcb[l].backlog
      /\ n = r.lpcb[l].accepts_pending => y = r.lpcb[l]
  BY <1>2, <1>3 DEF Lpcb
<1> HIDE DEF y
<1>9. /\ f \in [Pcbs -> Pcb] /\ f[p] = x /\ a \in SUBSET Pcbs
      /\ \A z \in Pcbs : z # p => f[z] = r.pcb[z]
  BY <1>1, <1>6 DEF Registry
<1>10. /\ g \in [Lpcbs -> Lpcb] /\ g[l] = y /\ \A k \in Lpcbs : k # l => g[k] = r.lpcb[k]
       /\ y = r.lpcb[l] => g = r.lpcb
  BY <1>1, <1>8 DEF Registry
<1>11. a = r.active \cup {p}
  OBVIOUS
<1> HIDE DEF f, g, a
<1>12. /\ q \in Registry /\ q.pcb = f /\ q.lpcb = g /\ q.bound = r.bound
       /\ q.listen = r.listen /\ q.active = a /\ q.tw = r.tw
  BY <1>1, <1>9, <1>10, Zenon DEF Registry
<1> HIDE DEF q
<1>13. /\ q.pcb[p].state = "SYN_RCVD" /\ q.pcb[p].listener = l
       /\ q.pcb[p].backlogpend = TCP_LISTEN_BACKLOG
       /\ \A z \in Pcbs : z # p => q.pcb[z] = r.pcb[z]
       /\ q.active = r.active \cup {p}
  BY <1>6, <1>9, <1>11, <1>12
<1>14. /\ \A k \in Lpcbs : k # l => q.lpcb[k] = r.lpcb[k]
       /\ q.lpcb[l].state = r.lpcb[l].state /\ q.lpcb[l].backlog = r.lpcb[l].backlog
       /\ TCP_LISTEN_BACKLOG => q.lpcb[l].accepts_pending = r.lpcb[l].accepts_pending + 1
       /\ ~TCP_LISTEN_BACKLOG => q.lpcb = r.lpcb
  BY <1>7, <1>8, <1>10, <1>12
<1>15. Good(q)
  BY <1>12, <1>13, <1>14, NewConnectionGood
<1> QED
  BY <1>4, <1>15

\* A SYN for a listener, with whatever tcp_alloc had to kill for the new block.
LEMMA ListenInputStep ==
  ASSUME Good(reg), NEW l \in Lpcbs, NEW ok \in BOOLEAN, tcp_listen_input(l, ok)
  PROVE  Good(reg')
<1> DEFINE Accept(r, p) == [r EXCEPT
             !.lpcb[l].accepts_pending = IF TCP_LISTEN_BACKLOG THEN @ + 1 ELSE @,
             !.pcb[p] = [@ EXCEPT !.backlogpend = TCP_LISTEN_BACKLOG,
                                  !.local_port = r.lpcb[l].local_port,
                                  !.state = "SYN_RCVD", !.listener = l],
             !.active = @ \cup {p}]
<1>1. /\ reg.lpcb[l].state = "LISTEN"
      /\ TCP_LISTEN_BACKLOG => reg.lpcb[l].accepts_pending < reg.lpcb[l].backlog
      /\ \E a \in tcp_alloc(reg, reg.lpcb[l].prio) :
           reg' = IF a.p = NULL THEN a.r
                  ELSE IF ok THEN Accept(a.r, a.p)
                  ELSE tcp_abandon(Accept(a.r, a.p), {a.p})
  BY Zenon DEF tcp_listen_input
<1>2. PICK a \in tcp_alloc(reg, reg.lpcb[l].prio) :
        reg' = IF a.p = NULL THEN a.r
               ELSE IF ok THEN Accept(a.r, a.p)
               ELSE tcp_abandon(Accept(a.r, a.p), {a.p})
  BY <1>1, Zenon
<1>3. reg.lpcb[l].prio \in Nat /\ reg \in Registry
  BY DEF Good, Inv, Registry, Lpcb
<1>4. /\ Good(a.r) /\ Keeps(reg, a.r)
      /\ a.p # NULL => a.p \in Pcbs /\ a.r.pcb[a.p].state = "CLOSED" /\ a.p \notin a.r.bound
  BY <1>3, AllocInv DEF Good
<1>5. CASE a.p = NULL
  BY <1>2, <1>4, <1>5
<1>6. CASE a.p # NULL
  <2> DEFINE r == a.r
             p == a.p
             q == Accept(r, p)
  <2>1. l \in r.listen /\ l \in reg.listen
    BY <1>1, <1>4, LpcbOK(reg, l) DEF Good, Inv, LpcbOK, Keeps
  <2>2. /\ r.lpcb[l].accepts_pending \in Int /\ r.lpcb[l].backlog \in Nat
        /\ reg.lpcb[l].accepts_pending \in Int
    BY <1>3, <1>4 DEF Good, Inv, Registry, Lpcb
  <2>3. TCP_LISTEN_BACKLOG => r.lpcb[l].accepts_pending < r.lpcb[l].backlog
    BY <1>1, <1>4, <2>1, <2>2 DEF Keeps
  <2>4. q = Accept(r, p)
    OBVIOUS
  <2>5. Good(q)
    BY <1>4, <1>6, <2>1, <2>3, <2>4, AcceptGood, Zenon
  <2>6. {p} \in SUBSET Pcbs
    BY <1>4, <1>6
  <2> HIDE DEF q
  <2>7. Good(tcp_abandon(q, {p}))
    BY <2>5, <2>6, AbandonGood
  <2>8. reg' = IF ok THEN q ELSE tcp_abandon(q, {p})
    BY <1>2, <1>6 DEF q
  <2> QED
    BY <2>5, <2>7, <2>8
<1> QED
  BY <1>5, <1>6

-----------------------------------------------------------------------------
\* tcp_init leaves a registry that satisfies the invariant.
LEMMA InitGood ==
  ASSUME Init
  PROVE  Good(reg)
<1>1. PICK t \in TCP_LOCAL_PORT_RANGE_START..TCP_LOCAL_PORT_RANGE_END :
        reg = [pcb |-> [p \in Pcbs |-> FreePcb], lpcb |-> [l \in Lpcbs |-> FreeLpcb],
               bound |-> {}, active |-> {}, tw |-> {}, listen |-> {}, tcp_port |-> t]
  BY Zenon DEF Init
<1>2. t \in 0..(U16 - 1)
  BY PortAssumption
<1>3. reg \in Registry
  BY <1>1, <1>2, FreeTypes DEF Registry
<1>4. \A p \in Pcbs : PcbOK(reg, p)
  BY <1>1 DEF PcbOK, FreePcb, ActiveState
<1>5. \A l \in Lpcbs : LpcbOK(reg, l)
  BY <1>1 DEF LpcbOK, FreeLpcb
<1>6. BoundOK(reg) /\ SynPending(reg)
  BY <1>1 DEF BoundOK, SynPending, FreePcb
<1> QED
  BY <1>3, <1>4, <1>5, <1>6 DEF Good, Inv

\* Every step of the registry keeps the invariant.
LEMMA NextGood ==
  ASSUME Good(reg), [Next]_reg
  PROVE  Good(reg')
<1>1. CASE tcp_new
  BY <1>1, NewStep
<1>2. ASSUME NEW p \in Pcbs, Call(p) PROVE Good(reg')
  <2>1. CASE \E prio \in Prios : tcp_setprio(p, prio)
    BY <2>1, SetprioStep
  <2>2. CASE \E port \in BindPorts \cup {0} : tcp_bind(p, port)
    BY <2>2, BindStep
  <2>3. CASE \E l \in Lpcbs, backlog \in Backlogs : tcp_listen_with_backlog(p, l, backlog)
    BY <2>3, ListenStep
  <2>4. CASE \E ok \in BOOLEAN : tcp_connect(p, ok) \/ tcp_shutdown(p, ok)
    BY <2>4, ConnectStep, ShutdownStep
  <2>5. CASE \E unread, ok \in BOOLEAN : tcp_close(p, unread, ok)
    BY <2>5, CloseStep
  <2>6. CASE tcp_abort(p)
    BY <2>6, AbortStep
  <2>7. CASE Accepted(p)
    BY <2>7, AcceptedStep
  <2> QED
    BY <1>2, <2>1, <2>2, <2>3, <2>4, <2>5, <2>6, <2>7 DEF Call
<1>3. ASSUME NEW p \in Pcbs, Input(p) PROVE Good(reg')
  <2>1. CASE \E answer \in {"take", "delay", "refuse"}, fin \in BOOLEAN :
               SynRcvdAcked(p, answer, fin)
    BY <2>1, SynRcvdStep
  <2>2. CASE \E s \in ActiveState : tcp_process(p, s)
    BY <2>2, ProcessStep
  <2>3. CASE EnterTimeWait(p)
    BY <2>3, TimeWaitStep
  <2>4. CASE InputRemoves(p)
    BY <2>4, RemovesStep
  <2> QED
    BY <1>3, <2>1, <2>2, <2>3, <2>4 DEF Input
<1>4. ASSUME NEW l \in Lpcbs,
             tcp_listen_closed(l) \/ \E ok \in BOOLEAN : tcp_listen_input(l, ok)
      PROVE  Good(reg')
  BY <1>4, ListenClosedStep, ListenInputStep
<1>5. CASE tcp_fasttmr
  BY <1>5, FasttmrStep
<1>6. CASE tcp_slowtmr
  BY <1>6, SlowtmrStep
<1>7. CASE tcp_netif_ip_addr_changed
  BY <1>7, NetifStep
<1>8. CASE UNCHANGED reg
  BY <1>8
<1> QED
  BY <1>1, <1>2, <1>3, <1>4, <1>5, <1>6, <1>7, <1>8 DEF Next

\* The inductive invariant: it holds after tcp_init and after every call, segment
\* and timer tick.
THEOREM RegistryInvariant == Spec => []Good(reg)
<1>1. Init => Good(reg)
  BY InitGood
<1>2. Good(reg) /\ [Next]_reg => Good(reg)'
  BY NextGood, Zenon DEF Good, Inv, PcbOK, LpcbOK, BoundOK, SynPending, Pending
<1> QED
  BY <1>1, <1>2, PTL DEF Spec

\* Every block of the two pools and every list keeps its type.
THEOREM RegistryTyped == Spec => []TypeOK
<1>1. Good(reg) => TypeOK
  BY DEF Good, Inv, TypeOK
<1> QED
  BY <1>1, RegistryInvariant, PTL

\* The axioms about tcp_bound_pcbs, tcp_active_pcbs, tcp_tw_pcbs and
\* tcp_listen_pcbs: a block is on the list its state says and on no other.
THEOREM ListsMatchStates == Spec => []PcbLists
<1>1. Good(reg) => PcbLists
  BY Zenon DEF Good, Inv, PcbOK, LpcbOK, PcbLists
<1> QED
  BY <1>1, RegistryInvariant, PTL

\* No connection points to a listener that tcp_close has freed.
THEOREM NoDanglingListener == Spec => []ListenerOpen
<1>1. Good(reg) => ListenerOpen
  BY DEF Good, Inv, PcbOK, ListenerOpen
<1> QED
  BY <1>1, RegistryInvariant, PTL

\* accepts_pending is the number of connections waiting for their listener and
\* never exceeds the backlog.
THEOREM BacklogIsExact == Spec => []BacklogCounts
<1>1. Good(reg) => BacklogCounts
  BY DEF Good, Inv, Registry, LpcbOK, BacklogCounts
<1> QED
  BY <1>1, RegistryInvariant, PTL

\* tcp_bind gives no port to two blocks.
THEOREM BindIsExclusive == Spec => []BoundPortsDistinct
<1>1. Good(reg) => BoundPortsDistinct
  BY DEF Good, Inv, BoundOK, BoundPortsDistinct
<1> QED
  BY <1>1, RegistryInvariant, PTL
=============================================================================

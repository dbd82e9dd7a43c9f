------------------------------- MODULE TcpPcbs -------------------------------
(***************************************************************************)
(* The registry of TCP protocol control blocks of one host: the two memp   *)
(* pools (MEMP_TCP_PCB, MEMP_TCP_PCB_LISTEN), the four lists a block may   *)
(* be on, the link from an accepted connection back to its listener with   *)
(* the listener's backlog counter, the local ports, and tcp_alloc's        *)
(* cascade of victims when the pool is empty.                              *)
(*                                                                         *)
(* Everything the registry does not look at is abstracted: a segment that  *)
(* arrives is the state change it causes (TcpIn has the segments), the age *)
(* of a connection (pcb->tmr) is left open, so any connection of the right *)
(* state may be "the oldest".  The stack runs under one lock, so each call *)
(* is one step.  Functions of the code are operators from a registry r to  *)
(* a registry; those the code applies to several blocks in a loop take the *)
(* set of blocks D.                                                        *)
(***************************************************************************)
EXTENDS Integers, FiniteSets, TLC

CONSTANTS
  Pcbs,                \* the blocks of MEMP_TCP_PCB
  Lpcbs,               \* the blocks of MEMP_TCP_PCB_LISTEN
  NULL,
  Prios,               \* the priorities tcp_setprio is called with
  TCP_PRIO_NORMAL,
  BindPorts,           \* the ports applications ask tcp_bind for
  Backlogs,            \* the backlogs applications ask tcp_listen for
  TCP_LISTEN_BACKLOG,  \* the build option, a Boolean
  U16, TCP_LOCAL_PORT_RANGE_START, TCP_LOCAL_PORT_RANGE_END

ASSUME PoolAssumption ==
  /\ IsFiniteSet(Pcbs)
  /\ NULL \notin Pcbs \cup Lpcbs
  /\ TCP_LISTEN_BACKLOG \in BOOLEAN
ASSUME PrioAssumption == Prios \subseteq Nat /\ TCP_PRIO_NORMAL \in Nat
ASSUME BacklogAssumption == Backlogs \subseteq 0..255
ASSUME PortAssumption ==
  /\ BindPorts \subseteq 1..(U16 - 1)
  /\ {U16, TCP_LOCAL_PORT_RANGE_START, TCP_LOCAL_PORT_RANGE_END} \subseteq Nat
  /\ 0 < TCP_LOCAL_PORT_RANGE_START
  /\ TCP_LOCAL_PORT_RANGE_START < TCP_LOCAL_PORT_RANGE_END
  /\ TCP_LOCAL_PORT_RANGE_END = U16 - 1

VARIABLE reg

-----------------------------------------------------------------------------
ActiveState ==
  {"SYN_SENT", "SYN_RCVD", "ESTABLISHED", "FIN_WAIT_1", "FIN_WAIT_2",
   "CLOSE_WAIT", "CLOSING", "LAST_ACK"}

Pcb == [state: ActiveState \cup {"FREE", "CLOSED", "TIME_WAIT"},
        local_port: 0..(U16 - 1), listener: Lpcbs \cup {NULL},
        backlogpend: BOOLEAN, closepend: BOOLEAN, prio: Nat]

Lpcb == [state: {"FREE", "LISTEN"}, local_port: 0..(U16 - 1), prio: Nat,
         accepts_pending: Int, backlog: Nat]

Registry == [pcb: [Pcbs -> Pcb], lpcb: [Lpcbs -> Lpcb],
             bound: SUBSET Pcbs, active: SUBSET Pcbs, tw: SUBSET Pcbs,
             listen: SUBSET Lpcbs, tcp_port: 0..(U16 - 1)]

FreePcb == [state |-> "FREE", local_port |-> 0, listener |-> NULL,
            backlogpend |-> FALSE, closepend |-> FALSE, prio |-> 0]

FreeLpcb == [state |-> "FREE", local_port |-> 0, prio |-> 0,
             accepts_pending |-> 0, backlog |-> 0]

InState(r, D, s) == {p \in D : r.pcb[p].state = s}

-----------------------------------------------------------------------------
(* Local ports.                                                            *)

\* Variant of PortsInUse with a seeded bug: the bound blocks are not searched.
PortsInUse_SkipsBound(r) == {r.pcb[p].local_port : p \in r.active \cup r.tw}
                              \cup {r.lpcb[l].local_port : l \in r.listen}

PortsInUse(r) == {r.pcb[p].local_port : p \in r.bound \cup r.active \cup r.tw}
                   \cup {r.lpcb[l].local_port : l \in r.listen}

NPorts == TCP_LOCAL_PORT_RANGE_END - TCP_LOCAL_PORT_RANGE_START

\* tcp_port after k <= NPorts + 1 rounds of "again": incremented as a u16_t and,
\* on the end of the range, set back to its start.  The start value tcp_init
\* draws may be the end of the range itself, from where it wraps to 0.
PortAfter(t, k) ==
  LET past == t + k - TCP_LOCAL_PORT_RANGE_END IN
  IF t = TCP_LOCAL_PORT_RANGE_END THEN k - 1
  ELSE IF past < 0 THEN t + k
  ELSE TCP_LOCAL_PORT_RANGE_START + (IF past < NPorts THEN past ELSE 0)

\* The number of rounds: the first port not in use, or one round more than the
\* range has ports.
Rounds(r) ==
  LET free == {k \in 1..NPorts : PortAfter(r.tcp_port, k) \notin PortsInUse(r)}
  IN IF free = {} THEN NPorts + 1
     ELSE CHOOSE k \in free : \A j \in free : k <= j

\* [r, port]: 0 when every port is taken.
tcp_new_port(r) ==
  LET t == PortAfter(r.tcp_port, Rounds(r)) IN
  [r |-> [r EXCEPT !.tcp_port = t],
   port |-> IF Rounds(r) > NPorts THEN 0 ELSE t]

-----------------------------------------------------------------------------
(* The backlog, freeing and the closing of connections.                    *)

Pending(r, D, l) == {p \in D : r.pcb[p].backlogpend /\ r.pcb[p].listener = l}

tcp_backlog_accepted(r, D) ==
  [r EXCEPT
     !.lpcb = [l \in Lpcbs |-> [r.lpcb[l] EXCEPT
        !.accepts_pending = @ - Cardinality(Pending(r, D, l))]],
     !.pcb = [p \in Pcbs |-> [r.pcb[p] EXCEPT
        !.backlogpend = @ /\ ~(p \in D /\ r.pcb[p].listener # NULL)]]]

tcp_backlog_delayed(r, p) ==
  LET l == r.pcb[p].listener IN
  IF TCP_LISTEN_BACKLOG /\ ~r.pcb[p].backlogpend /\ l # NULL
  THEN [r EXCEPT !.lpcb[l].accepts_pending = @ + 1, !.pcb[p].backlogpend = TRUE]
  ELSE r

tcp_free(r, D) ==
  [r EXCEPT !.pcb = [p \in Pcbs |-> IF p \in D THEN FreePcb ELSE r.pcb[p]]]

\* Variant of tcp_pcb_purge with a seeded bug: the listener is not told.
tcp_pcb_purge_KeepsBacklog(r, D) == r

tcp_pcb_purge(r, D) ==
  tcp_backlog_accepted(r, {p \in D : r.pcb[p].state \in ActiveState})

\* Variant of RemoveActive with a seeded bug: the block stays on its list.
RemoveActive_KeepsListed(r, D) == tcp_free(tcp_pcb_purge(r, D), D)

\* tcp_pcb_remove(&tcp_active_pcbs, pcb) followed by tcp_free(pcb), and the
\* removal loops of tcp_slowtmr.
RemoveActive(r, D) ==
  tcp_free([tcp_pcb_purge(r, D) EXCEPT !.active = @ \ D], D)

tcp_abandon(r, D) ==
  LET q == tcp_backlog_accepted(r, InState(r, D, "CLOSED")) IN
  RemoveActive([q EXCEPT !.tw = @ \ D, !.bound = @ \ D], D)

\* The state after a FIN has been queued.
FinState(s) == CASE s \in {"SYN_RCVD", "ESTABLISHED"} -> "FIN_WAIT_1"
                 [] s = "CLOSE_WAIT" -> "LAST_ACK"
                 [] OTHER -> s

\* tcp_close_shutdown_fin of every block of D, where tcp_send_fin finds the
\* memory for those of Sent: the others are marked TF_CLOSEPEND.
tcp_close_shutdown_fin(r, D, Sent) ==
  LET q == tcp_backlog_accepted(r, InState(r, D \cap Sent, "SYN_RCVD")) IN
  [q EXCEPT !.pcb = [p \in Pcbs |->
     IF p \notin D \/ FinState(r.pcb[p].state) = r.pcb[p].state THEN q.pcb[p]
     ELSE IF p \in Sent
     THEN [q.pcb[p] EXCEPT !.state = FinState(r.pcb[p].state)]
     ELSE [q.pcb[p] EXCEPT !.closepend = TRUE]]]

ClosePend(r) == {p \in r.active : r.pcb[p].closepend}

tcp_handle_closepend(r, Sent) ==
  tcp_close_shutdown_fin(
    [r EXCEPT !.pcb = [p \in Pcbs |-> [r.pcb[p] EXCEPT
       !.closepend = @ /\ p \notin r.active]]],
    ClosePend(r), Sent)

-----------------------------------------------------------------------------
(* Allocation.                                                             *)

\* tcp_kill_prio: connections of a lower priority, and of those the lowest.
LowestBelow(r, prio) ==
  {p \in r.active : /\ r.pcb[p].prio < prio
                    /\ \A q \in r.active : r.pcb[p].prio <= r.pcb[q].prio}

\* The blocks tcp_alloc may recycle, in its order of preference.
Victims(r, prio) ==
  IF r.tw # {} THEN r.tw
  ELSE IF InState(r, r.active, "LAST_ACK") # {} THEN InState(r, r.active, "LAST_ACK")
  ELSE IF InState(r, r.active, "CLOSING") # {} THEN InState(r, r.active, "CLOSING")
  ELSE LowestBelow(r, prio)

NewPcb(prio) == [FreePcb EXCEPT !.state = "CLOSED", !.prio = prio]

\* The outcomes [r, p] of tcp_alloc; p is NULL when no block could be had.
tcp_alloc(r, prio) ==
  LET Fresh(q, p) == [r |-> [q EXCEPT !.pcb[p] = NewPcb(prio)], p |-> p]
      free == {p \in Pcbs : r.pcb[p].state = "FREE"}
      Reclaim(q) == IF Victims(q, prio) = {} THEN {[r |-> q, p |-> NULL]}
                    ELSE {Fresh(tcp_abandon(q, {v}), v) : v \in Victims(q, prio)}
  IN IF free # {} THEN {Fresh(r, p) : p \in free}
     ELSE UNION {Reclaim(tcp_handle_closepend(r, Sent)) : Sent \in SUBSET ClosePend(r)}

-----------------------------------------------------------------------------
(* The calls of the raw API.                                               *)

tcp_new == \E a \in tcp_alloc(reg, TCP_PRIO_NORMAL) : reg' = a.r

tcp_setprio(p, prio) ==
  /\ reg.pcb[p].state # "FREE"
  /\ reg' = [reg EXCEPT !.pcb[p].prio = prio]

\* Binding twice is left to the caller to avoid ("no check is done whether this
\* pcb is already bound!").
tcp_bind(p, port) ==
  LET new == IF port = 0 THEN tcp_new_port(reg) ELSE [r |-> reg, port |-> port] IN
  /\ reg.pcb[p].state = "CLOSED" /\ p \notin reg.bound
  /\ IF new.port = 0 \/ (port # 0 /\ port \in PortsInUse(reg)) THEN reg' = new.r
     ELSE reg' = [new.r EXCEPT !.pcb[p].local_port = new.port,
                               !.bound = @ \cup {p}]

\* The backlog is set once: the tcp_backlog_set that netconn_listen makes on a
\* connection that listens already is left out.
tcp_listen_with_backlog(p, l, backlog) ==
  LET old == reg.pcb[p] IN
  /\ old.state = "CLOSED" /\ reg.lpcb[l].state = "FREE"
  /\ reg' = [tcp_free(reg, {p}) EXCEPT
       !.bound = @ \ {p},
       !.lpcb[l] = [state |-> "LISTEN", local_port |-> old.local_port,
                    prio |-> old.prio, accepts_pending |-> 0,
                    backlog |-> IF backlog = 0 THEN 1 ELSE backlog],
       !.listen = @ \cup {l}]

\* ok: tcp_enqueue_flags finds the memory for the SYN.
tcp_connect(p, ok) ==
  LET old == reg.pcb[p].local_port
      new == IF old = 0 THEN tcp_new_port(reg) ELSE [r |-> reg, port |-> old]
  IN
  /\ reg.pcb[p].state = "CLOSED"
  /\ IF new.port = 0 THEN reg' = new.r
     ELSE IF ~ok THEN reg' = [new.r EXCEPT !.pcb[p].local_port = new.port]
     ELSE reg' = [new.r EXCEPT !.pcb[p].local_port = new.port,
                               !.pcb[p].state = "SYN_SENT",
                               !.bound = @ \ {p},
                               !.active = @ \cup {p}]

\* unread: data was received that the application has not consumed, so the
\* close is answered by a reset.  ok: there is memory for the FIN.
tcp_close(p, unread, ok) ==
  LET s == reg.pcb[p].state IN
  /\ s \in {"CLOSED"} \cup ActiveState
  /\ reg' = IF (unread /\ s \in {"ESTABLISHED", "CLOSE_WAIT"}) \/ s = "SYN_SENT"
            THEN RemoveActive(reg, {p})
            ELSE IF s = "CLOSED" THEN [tcp_free(reg, {p}) EXCEPT !.bound = @ \ {p}]
            ELSE tcp_close_shutdown_fin(reg, {p}, IF ok THEN {p} ELSE {})

\* Shutting down the sending side only.
tcp_shutdown(p, ok) ==
  /\ reg.pcb[p].state \in {"SYN_RCVD", "ESTABLISHED", "CLOSE_WAIT"}
  /\ reg' = tcp_close_shutdown_fin(reg, {p}, IF ok THEN {p} ELSE {})

\* Variant of tcp_listen_closed with a seeded bug: the last list is not visited.
tcp_listen_closed_SkipsTimeWait(l) ==
  /\ reg.lpcb[l].state = "LISTEN"
  /\ reg' = [reg EXCEPT
       !.lpcb[l] = FreeLpcb, !.listen = @ \ {l},
       !.pcb = [p \in Pcbs |->
          IF p \in reg.bound \cup reg.active /\ reg.pcb[p].listener = l
          THEN [reg.pcb[p] EXCEPT !.listener = NULL] ELSE reg.pcb[p]]]

\* tcp_close of a listener: the connections it accepted lose the link to it.
tcp_listen_closed(l) ==
  /\ reg.lpcb[l].state = "LISTEN"
  /\ reg' = [reg EXCEPT
       !.lpcb[l] = FreeLpcb, !.listen = @ \ {l},
       !.pcb = [p \in Pcbs |->
          IF p \in reg.bound \cup reg.active \cup reg.tw /\ reg.pcb[p].listener = l
          THEN [reg.pcb[p] EXCEPT !.listener = NULL] ELSE reg.pcb[p]]]

tcp_abort(p) ==
  /\ reg.pcb[p].state # "FREE"
  /\ reg' = tcp_abandon(reg, {p})

\* The application takes a connection whose accept callback delayed it.
Accepted(p) ==
  /\ reg.pcb[p].backlogpend /\ reg.pcb[p].state \in ActiveState \ {"SYN_RCVD"}
  /\ reg' = tcp_backlog_accepted(reg, {p})

-----------------------------------------------------------------------------
(* Input and timers.                                                       *)

\* A SYN for a listener.  ok: there is memory for the SYN|ACK.
tcp_listen_input(l, ok) ==
  LET Accept(r, p) == [r EXCEPT
        !.lpcb[l].accepts_pending = IF TCP_LISTEN_BACKLOG THEN @ + 1 ELSE @,
        !.pcb[p] = [@ EXCEPT !.backlogpend = TCP_LISTEN_BACKLOG,
                             !.local_port = r.lpcb[l].local_port,
                             !.state = "SYN_RCVD", !.listener = l],
        !.active = @ \cup {p}]
  IN
  /\ reg.lpcb[l].state = "LISTEN"
  /\ TCP_LISTEN_BACKLOG => reg.lpcb[l].accepts_pending < reg.lpcb[l].backlog
  /\ \E a \in tcp_alloc(reg, reg.lpcb[l].prio) :
       reg' = IF a.p = NULL THEN a.r
              ELSE IF ok THEN Accept(a.r, a.p)
              ELSE tcp_abandon(Accept(a.r, a.p), {a.p})

\* The ACK of the SYN|ACK.  A connection whose listener is gone, or that the
\* accept callback turns down, is aborted; the callback may delay it.  fin: the
\* segment also ends the peer's data.
SynRcvdAcked(p, answer, fin) ==
  LET r == [reg EXCEPT !.pcb[p].state = IF fin THEN "CLOSE_WAIT" ELSE "ESTABLISHED"]
      q == tcp_backlog_accepted(r, {p})
  IN
  /\ reg.pcb[p].state = "SYN_RCVD"
  /\ reg' = IF reg.pcb[p].listener = NULL THEN tcp_abandon(r, {p})
            ELSE CASE answer = "take" -> q
                   [] answer = "delay" -> tcp_backlog_delayed(q, p)
                   [] answer = "refuse" -> tcp_abandon(q, {p})

\* The state changes a segment can cause in a connection that stays active.
Moves ==
  {<<"SYN_SENT", "ESTABLISHED">>, <<"ESTABLISHED", "CLOSE_WAIT">>,
   <<"FIN_WAIT_1", "FIN_WAIT_2">>, <<"FIN_WAIT_1", "CLOSING">>}

tcp_process(p, s) ==
  /\ <<reg.pcb[p].state, s>> \in Moves
  /\ reg' = [reg EXCEPT !.pcb[p].state = s]

EnterTimeWait(p) ==
  LET r == tcp_pcb_purge(reg, {p}) IN
  /\ reg.pcb[p].state \in {"FIN_WAIT_1", "FIN_WAIT_2", "CLOSING"}
  /\ reg' = [r EXCEPT !.pcb[p].state = "TIME_WAIT",
                      !.active = @ \ {p}, !.tw = @ \cup {p}]

\* A valid reset, or the ACK of our FIN in LAST_ACK.
InputRemoves(p) ==
  /\ p \in reg.active
  /\ reg' = RemoveActive(reg, {p})

tcp_fasttmr == \E Sent \in SUBSET ClosePend(reg) :
  ClosePend(reg) # {} /\ reg' = tcp_handle_closepend(reg, Sent)

\* One tick gives up on the connections of D and ends the 2MSL wait of E.
tcp_slowtmr == \E D \in SUBSET reg.active, E \in SUBSET reg.tw :
  reg' = [tcp_free(RemoveActive(reg, D), E) EXCEPT !.tw = @ \ E]

\* The address of the connections of D is gone.
tcp_netif_ip_addr_changed == \E D \in SUBSET (reg.active \cup reg.bound) :
  reg' = tcp_abandon(reg, D)

-----------------------------------------------------------------------------
Init == \E t \in TCP_LOCAL_PORT_RANGE_START..TCP_LOCAL_PORT_RANGE_END :
  reg = [pcb |-> [p \in Pcbs |-> FreePcb], lpcb |-> [l \in Lpcbs |-> FreeLpcb],
         bound |-> {}, active |-> {}, tw |-> {}, listen |-> {}, tcp_port |-> t]

Call(p) ==
  \/ \E prio \in Prios : tcp_setprio(p, prio)
  \/ \E port \in BindPorts \cup {0} : tcp_bind(p, port)
  \/ \E l \in Lpcbs, backlog \in Backlogs : tcp_listen_with_backlog(p, l, backlog)
  \/ \E ok \in BOOLEAN : tcp_connect(p, ok) \/ tcp_shutdown(p, ok)
  \/ \E unread, ok \in BOOLEAN : tcp_close(p, unread, ok)
  \/ tcp_abort(p)
  \/ Accepted(p)

Input(p) ==
  \/ \E answer \in {"take", "delay", "refuse"}, fin \in BOOLEAN :
       SynRcvdAcked(p, answer, fin)
  \/ \E s \in ActiveState : tcp_process(p, s)
  \/ EnterTimeWait(p)
  \/ InputRemoves(p)

Next ==
  \/ tcp_new
  \/ \E p \in Pcbs : Call(p) \/ Input(p)
  \/ \E l \in Lpcbs : tcp_listen_closed(l) \/ \E ok \in BOOLEAN : tcp_listen_input(l, ok)
  \/ tcp_fasttmr
  \/ tcp_slowtmr
  \/ tcp_netif_ip_addr_changed

Spec == Init /\ [][Next]_reg

-----------------------------------------------------------------------------
(* Properties.                                                             *)

\* The shape of the registry.
TypeOK == reg \in Registry

\* The "Axioms about the above lists" of tcp_priv.h with the assertions of
\* tcp_pcbs_sane: a block is on at most one list, its state is one of that
\* list's, and a block that is on none is unused or CLOSED.  What reaches
\* every demultiplexing loop and timer is exactly what is open.
PcbLists ==
  /\ \A p \in Pcbs :
       /\ p \in reg.active <=> reg.pcb[p].state \in ActiveState
       /\ p \in reg.tw <=> reg.pcb[p].state = "TIME_WAIT"
       /\ p \in reg.bound => reg.pcb[p].state = "CLOSED" /\ reg.pcb[p].local_port # 0
  /\ \A l \in Lpcbs : l \in reg.listen <=> reg.lpcb[l].state = "LISTEN"

\* A connection's pcb->listener is NULL or a listener that is still open: the
\* accept callback and the backlog counter of a freed block are never used,
\* however closes, kills and new connections interleave.
ListenerOpen ==
  \A p \in Pcbs : reg.pcb[p].listener # NULL => reg.pcb[p].listener \in reg.listen

\* accepts_pending of a listener counts the connections marked TF_BACKLOGPEND
\* on its account, and stays within the backlog: tcp_backlog_accepted never
\* takes it below zero and no connection is counted for ever.
BacklogCounts ==
  \A l \in reg.listen :
    /\ reg.lpcb[l].accepts_pending = Cardinality(Pending(reg, Pcbs, l))
    /\ reg.lpcb[l].accepts_pending <= reg.lpcb[l].backlog

\* tcp_bind gives a port to one caller: no two bound blocks share one.
BoundPortsDistinct ==
  \A p, q \in reg.bound :
    reg.pcb[p].local_port = reg.pcb[q].local_port => p = q

\* The ports the stack picks are "the Dynamic and/or Private Ports".
PortsInRange ==
  \A p \in Pcbs : reg.pcb[p].local_port \in
    {0} \cup BindPorts \cup (TCP_LOCAL_PORT_RANGE_START..TCP_LOCAL_PORT_RANGE_END)

\* The blocks of a pool are interchangeable: the symmetry of the model.
Blocks == Permutations(Pcbs) \cup Permutations(Lpcbs)
=============================================================================

------------------------------- MODULE Sockets -------------------------------
(***************************************************************************)
(* The socket API (src/src/api/sockets.c, api_lib.c) on the netconn layer, *)
(* as application threads and the tcpip thread execute it side by side.    *)
(*                                                                         *)
(* The tcpip thread holds the core lock from the start of a TCP callback   *)
(* to its end. `todo' is what is left of the callback it is in: while it   *)
(* is not empty the lock is taken, and only what application threads do    *)
(* without the lock (fetching from a mailbox, reading flags, the socket    *)
(* array under SYS_ARCH_PROTECT) interleaves. A thread uses the sockets it *)
(* created or accepted: without LWIP_NETCONN_FULLDUPLEX no other may.      *)
(***************************************************************************)
EXTENDS Netconn

CONSTANTS
  Threads,     \* application threads (numbers from 1)
  NonBlock,    \* the values O_NONBLOCK may have on a new socket
  Selects,     \* the ways select and poll are called: [kinds, poll, timeout]
  RecvLens,    \* buffer sizes recv is called with
  MaxEvents,   \* rcvevent up to which an application shuts a socket again
  Created,     \* sockets an application may have created at a time
  Hows,        \* the arguments of shutdown: subsets of RdWr
  MayLosePeer  \* accept may ask for the address of a peer that is gone

ASSUME SocketsAssumption ==
  /\ Threads \subseteq Nat \ {0} /\ NonBlock \subseteq BOOLEAN
  /\ RecvLens \subseteq Nat \ {0} /\ Hows \subseteq SUBSET RdWr
  /\ MayLosePeer \in BOOLEAN
  /\ Created \in Nat /\ MaxEvents \in Nat
  /\ Selects \subseteq [kinds : SUBSET {"read", "write"} \ {{}},
                        poll : BOOLEAN, timeout : BOOLEAN]

VARIABLES
  conn,   \* the netconns
  pcb,    \* the TCP pcbs, as far as the netconn layer sees them
  sock,   \* the array sockets[]
  sel,    \* per thread, its lwip_select_cb
  msg,    \* per thread, its api_msg
  thr,    \* per thread, where it is in which socket call
  todo    \* what is left of the callback the tcpip thread is in

vars == <<conn, pcb, sock, sel, msg, thr, todo>>

W == [conn |-> conn, pcb |-> pcb, sock |-> sock, sel |-> sel, msg |-> msg]

Becomes(w) ==
  \E x \in {w} : /\ conn' = x.conn /\ pcb' = x.pcb /\ sock' = x.sock
                 /\ sel' = x.sel /\ msg' = x.msg

CoreFree == todo = <<>>

Idle == [pc |-> "idle", s |-> 0, c |-> Null, left |-> 0, got |-> 0,
         dont |-> FALSE, nofin |-> FALSE, poll |-> FALSE, next |-> "idle"]

NoSel == [linked |-> FALSE, fds |-> {}, kinds |-> {},
          sem |-> FALSE, sem_signalled |-> FALSE]

Init ==
  /\ conn = [c \in Conns |-> FreeConn]
  /\ pcb = [p \in Conns |-> FreePcb]
  /\ sock = [s \in Socks |-> FreeSock]
  /\ sel = [t \in Threads |-> NoSel]
  /\ msg = [t \in Threads |-> NoMsg]
  /\ thr = [t \in Threads |-> Idle]
  /\ todo = <<>>

At(t, pc) == thr[t].pc = pc
Goto(t, pc) == thr' = [thr EXCEPT ![t].pc = pc]
Return(t) == thr' = [thr EXCEPT ![t] = Idle]
Own(t) == { s \in Socks : sock[s].own = t }
MinOf(S) == CHOOSE x \in S : \A y \in S : x <= y

FreeConns == { c \in Conns : ~conn[c].alloc }
FreePcbs == { p \in Conns : pcb[p].st = "FREE" }
FreeSocks == { s \in Socks : sock[s].conn = Null }

(* A thread whose message the tcpip thread has not completed waits on      *)
(* op_completed of the netconn; otherwise it goes on in the call.          *)
Blocking(t, s, c, w1, next) ==
  \E w \in {w1} :
  LET waits == w.conn[c].current_msg = t
  IN /\ Becomes(IF waits THEN w
                ELSE [w EXCEPT !.msg[t] = [NoMsg EXCEPT !.err = w.msg[t].err]])
     /\ thr' = [thr EXCEPT ![t].pc = IF waits THEN "sem" ELSE next,
                           ![t].s = s, ![t].c = c, ![t].next = next]

-----------------------------------------------------------------------------
(* Calls that are over when the core lock is released.                     *)

\* alloc_socket, the first free slot.
AllocSocket(w, t, c, accepted) ==
  [w EXCEPT !.sock[MinOf(FreeSocks)] =
     [FreeSock EXCEPT !.conn = c, !.own = t, !.sendevent = accepted,
                      !.select_waiting = w.sock[MinOf(FreeSocks)].select_waiting]]

\* lwip_socket: netconn_new and its pcb, alloc_socket, conn->socket.
Socket(t) ==
  /\ At(t, "idle") /\ CoreFree
  /\ FreeConns # {} /\ FreePcbs # {} /\ FreeSocks # {}
  /\ Cardinality({ s \in Socks : sock[s].conn # Null }) < Created
  /\ \E nb \in NonBlock :
       LET c == MinOf(FreeConns)
           p == MinOf(FreePcbs)
           w == [W EXCEPT !.conn[c] = [NewConn(nb) EXCEPT
                                         !.pcb = p, !.socket = MinOf(FreeSocks)],
                          !.pcb[p] = NewPcb("CLOSED", c)]
       IN Becomes(AllocSocket(w, t, c, FALSE))
  /\ UNCHANGED <<thr, todo>>

\* lwip_listen.
Listen(t, s) ==
  /\ At(t, "idle") /\ CoreFree
  /\ \E boxok \in BOOLEAN : Becomes(DoListen(W, t, sock[s].conn, boxok))
  /\ UNCHANGED <<thr, todo>>

-----------------------------------------------------------------------------
(* Calls that may wait on op_completed.                                    *)

\* lwip_connect.
Connect(t, s) ==
  /\ At(t, "idle") /\ CoreFree
  /\ \E ok \in BOOLEAN :
       Blocking(t, s, sock[s].conn, DoConnect(W, t, sock[s].conn, ok), "return")
  /\ UNCHANGED todo

\* lwip_send: netconn_write_partly.
Send(t, s) ==
  /\ At(t, "idle") /\ CoreFree
  /\ conn[sock[s].conn].state # "LISTEN"
  /\ LET c == sock[s].conn
         ress == IF conn[c].pcb = Null THEN {<<"OK", "OK">>}
                 ELSE TcpWriteResults(pcb[conn[c].pcb])
     IN \E dont \in BOOLEAN, res \in ress :
          Blocking(t, s, c, DoWrite(W, t, c, dont \/ conn[c].nonblocking, res),
                   "return")
  /\ UNCHANGED todo

\* The results tcp_close or tcp_shutdown may have for c and this request.
CloseResults(c, shut) ==
  IF conn[c].pcb = Null THEN {"OK"}
  ELSE TcpCloseResults(shut, pcb[conn[c].pcb])

\* lwip_shutdown: netconn_close_shutdown.
Shutdown(t, s) ==
  /\ At(t, "idle") /\ CoreFree /\ sock[s].rcvevent < MaxEvents
  /\ \E how \in Hows : \E res \in CloseResults(sock[s].conn, how) :
       Blocking(t, s, sock[s].conn, DoClose(W, t, sock[s].conn, how, res),
                "return")
  /\ UNCHANGED todo

\* lwip_close, its netconn_prepare_delete.
Close(t, s) ==
  /\ At(t, "idle") /\ CoreFree
  /\ \E res \in CloseResults(sock[s].conn, RdWr) :
       Blocking(t, s, sock[s].conn, DoDelconn(W, t, sock[s].conn, res),
                "free_socket")
  /\ UNCHANGED todo

\* sys_arch_sem_wait on op_completed, and LOCK_TCPIP_CORE after it.
SemWait(t) ==
  /\ At(t, "sem") /\ CoreFree
  /\ conn[thr[t].c].op_completed
  /\ conn' = [conn EXCEPT ![thr[t].c].op_completed = FALSE]
  /\ msg' = [msg EXCEPT ![t] = [NoMsg EXCEPT !.err = msg[t].err]]
  /\ Goto(t, thr[t].next)
  /\ UNCHANGED <<pcb, sock, sel, todo>>

\* The call returns its error to the application.
ReturnErr(t) ==
  /\ At(t, "return")
  /\ msg' = [msg EXCEPT ![t] = NoMsg]
  /\ Return(t)
  /\ UNCHANGED <<conn, pcb, sock, sel, todo>>

\* lwip_close, free_socket: the slot is free; an error leaves it open.
FreeSocket(t) ==
  /\ At(t, "free_socket")
  /\ IF msg[t].err = "OK"
     THEN /\ sock' = [sock EXCEPT ![thr[t].s] =
                        [FreeSock EXCEPT !.select_waiting =
                                           sock[thr[t].s].select_waiting]]
          /\ Goto(t, "delete")
     ELSE /\ Goto(t, "return")
          /\ UNCHANGED sock
  /\ UNCHANGED <<conn, pcb, sel, msg, todo>>

(* lwip_close, free_socket_free_elements: netconn_delete prepares the      *)
(* delete a second time, which raises its events again, and frees.         *)
Delete(t) ==
  /\ At(t, "delete") /\ CoreFree
  /\ Becomes([NetconnFree(DoDelconn(W, t, thr[t].c, "OK"), thr[t].c)
                EXCEPT !.msg[t] = NoMsg])
  /\ Return(t)
  /\ UNCHANGED todo

-----------------------------------------------------------------------------
(* lwip_recv: lwip_recv_tcp over netconn_recv_data_tcp. The thread holds   *)
(* no lock until it reopens the window.                                    *)

C(t) == thr[t].c
N(t) == conn[C(t)]

Recv(t, s) ==
  /\ At(t, "idle")
  /\ \E len \in RecvLens, dont \in BOOLEAN :
       thr' = [thr EXCEPT ![t] = [Idle EXCEPT !.pc = "recv", !.s = s,
                 !.c = sock[s].conn, !.left = len, !.dont = dont]]
  /\ UNCHANGED <<conn, pcb, sock, sel, msg, todo>>

\* Mutant: an error after some data skips the window update.
RecvEndsAtOnce(t) == Goto(t, "return")

\* The error a receive ends with is only reported when no data was copied.
RecvEnds(t) == Goto(t, IF thr[t].got > 0 THEN "recvd" ELSE "return")

\* Mutant: what did not fit into the buffer is not kept.
RecvCopyDrops(t) ==
  /\ At(t, "recv") /\ sock[thr[t].s].lastdata # <<>>
  /\ LET d == sock[thr[t].s].lastdata
         k == IF thr[t].left < Len(d) THEN thr[t].left ELSE Len(d)
     IN /\ sock' = [sock EXCEPT ![thr[t].s].lastdata = <<>>]
        /\ conn' = [conn EXCEPT ![C(t)].rx = @ \o SubSeq(d, 1, k)]
        /\ thr' = [thr EXCEPT ![t].left = @ - k, ![t].got = @ + k,
                              ![t].dont = TRUE, ![t].nofin = TRUE,
                              ![t].pc = IF thr[t].left = k THEN "recvd" ELSE "recv"]
  /\ UNCHANGED <<pcb, sel, msg, todo>>

(* Data left from the last pbuf is copied first. Once something was copied *)
(* the loop neither waits nor takes the FIN.                               *)
RecvCopy(t) ==
  /\ At(t, "recv") /\ sock[thr[t].s].lastdata # <<>>
  /\ LET d == sock[thr[t].s].lastdata
         k == IF thr[t].left < Len(d) THEN thr[t].left ELSE Len(d)
     IN /\ sock' = [sock EXCEPT ![thr[t].s].lastdata = SubSeq(d, k + 1, Len(d))]
        /\ conn' = [conn EXCEPT ![C(t)].rx = @ \o SubSeq(d, 1, k)]
        /\ thr' = [thr EXCEPT ![t].left = @ - k, ![t].got = @ + k,
                              ![t].dont = TRUE, ![t].nofin = TRUE,
                              ![t].pc = IF thr[t].left = k THEN "recvd" ELSE "recv"]
  /\ UNCHANGED <<pcb, sel, msg, todo>>

(* No data left: the mailbox must be valid; a FIN seen earlier is handled; *)
(* otherwise the flags decide whether the fetch may wait.                  *)
RecvDecide(t) ==
  /\ At(t, "recv") /\ sock[thr[t].s].lastdata = <<>>
  /\ IF ~MboxValid(N(t).recvmbox)
     THEN conn' = conn /\ RecvEnds(t)
     ELSE IF N(t).finpending
     THEN /\ conn' = [conn EXCEPT ![C(t)].finpending = FALSE]
          /\ Goto(t, "fin")
     ELSE /\ conn' = conn
          /\ Goto(t, IF thr[t].dont \/ N(t).nonblocking \/ N(t).mboxclosed
                        \/ N(t).pending_err # "OK" THEN "tryfetch" ELSE "fetch")
  /\ UNCHANGED <<pcb, sock, sel, msg, todo>>

\* sys_arch_mbox_fetch or tryfetch finds a message.
RecvFetch(t) ==
  /\ thr[t].pc \in {"fetch", "tryfetch"} /\ N(t).recvmbox # <<>>
  /\ LET m == Head(N(t).recvmbox)
         nofin == m.k = "closed" /\ thr[t].nofin
     IN /\ conn' = [conn EXCEPT ![C(t)].recvmbox = Tail(@),
                                ![C(t)].finpending = @ \/ nofin]
        /\ CASE m.k = "data" -> /\ sock' = [sock EXCEPT ![thr[t].s].lastdata = m.v]
                                /\ Goto(t, "rcvminus")
             [] m.k = "closed" /\ ~nofin -> Goto(t, "fin") /\ UNCHANGED sock
             [] OTHER -> RecvEnds(t) /\ UNCHANGED sock
  /\ UNCHANGED <<pcb, sel, msg, todo>>

(* tryfetch finds none: netconn_err reads and clears pending_err; ERR_CLSD *)
(* is an end of file.                                                      *)
RecvEmpty(t) ==
  /\ At(t, "tryfetch") /\ N(t).recvmbox = <<>>
  /\ conn' = [conn EXCEPT ![C(t)].pending_err = "OK",
                          ![C(t)].eof = @ \/ (N(t).pending_err = "CLSD"
                                              /\ thr[t].got = 0)]
  /\ RecvEnds(t)
  /\ UNCHANGED <<pcb, sock, sel, msg, todo>>

\* The RCVMINUS event of a fetched pbuf.
RecvMinus(t) ==
  /\ At(t, "rcvminus")
  /\ Becomes(EventCallback(W, C(t), {"RCVMINUS"}))
  /\ Goto(t, "recv")
  /\ UNCHANGED todo

\* handle_fin: the RCVMINUS event, then a pcb that is gone, or SHUT_RD.
RecvFin(t) ==
  /\ At(t, "fin")
  /\ LET w == EventCallback(W, C(t), {"RCVMINUS"})
     IN IF N(t).pcb = Null
        THEN /\ Becomes([w EXCEPT !.conn[C(t)].pending_err = "OK",
                                  !.conn[C(t)].eof = @ \/ N(t).pending_err = "CLSD"])
             /\ Goto(t, "return")
        ELSE Becomes(w) /\ Goto(t, "shutrd")
  /\ UNCHANGED todo

\* netconn_close_shutdown(NETCONN_SHUT_RD), and ERR_CLSD: end of file.
RecvShutRd(t) ==
  /\ At(t, "shutrd") /\ CoreFree
  /\ \E res \in CloseResults(C(t), {"RD"}) :
       Blocking(t, thr[t].s, C(t),
                [DoClose(W, t, C(t), {"RD"}, res) EXCEPT !.conn[C(t)].eof = TRUE],
                "return")
  /\ UNCHANGED todo

\* lwip_recv_tcp_done: netconn_tcp_recvd.
RecvDone(t) ==
  /\ At(t, "recvd") /\ CoreFree
  /\ Becomes(DoRecv(W, C(t), thr[t].got))
  /\ Return(t)
  /\ UNCHANGED todo

RecvStep(t) ==
  \/ RecvCopy(t) \/ RecvDecide(t) \/ RecvFetch(t) \/ RecvEmpty(t)
  \/ RecvMinus(t) \/ RecvFin(t) \/ RecvShutRd(t) \/ RecvDone(t)

-----------------------------------------------------------------------------
(* lwip_accept over netconn_accept.                                        *)

\* netconn_err and the mailbox check; then the fetch, waiting or not.
Accept(t, s) ==
  /\ At(t, "idle")
  /\ MboxValid(conn[sock[s].conn].acceptmbox)
  /\ thr' = [thr EXCEPT ![t].pc = "accept", ![t].s = s,
                        ![t].c = sock[s].conn]
  /\ UNCHANGED <<conn, pcb, sock, sel, msg, todo>>

\* A non-blocking accept finds the mailbox empty.
AcceptEmpty(t) ==
  /\ At(t, "accept") /\ N(t).acceptmbox = <<>> /\ N(t).nonblocking
  /\ Return(t)
  /\ UNCHANGED <<conn, pcb, sock, sel, msg, todo>>

\* The fetch; the accepted netconn replaces the listener in the thread.
AcceptFetch(t) ==
  /\ At(t, "accept") /\ N(t).acceptmbox # <<>>
  /\ LET m == Head(N(t).acceptmbox)
     IN thr' = [thr EXCEPT ![t].pc = "accminus",
                  ![t].got = IF m.k = "conn" THEN m.v[1] ELSE Null]
  /\ conn' = [conn EXCEPT ![C(t)].acceptmbox = Tail(@)]
  /\ UNCHANGED <<pcb, sock, sel, msg, todo>>

\* The RCVMINUS event of the listener; an error message ends the call.
AcceptMinus(t) ==
  /\ At(t, "accminus")
  /\ Becomes(EventCallback(W, C(t), {"RCVMINUS"}))
  /\ IF thr[t].got = Null THEN Return(t)
     ELSE thr' = [thr EXCEPT ![t].pc = "accsock", ![t].c = thr[t].got,
                            ![t].got = 0]
  /\ UNCHANGED todo

\* Mutant: the events counted before the socket existed are dropped.
AcceptSockForgets(t) ==
  /\ At(t, "accsock") /\ FreeSocks # {}
  /\ LET s == MinOf(FreeSocks)
     IN /\ Becomes([AllocSocket(W, t, C(t), TRUE) EXCEPT !.conn[C(t)].socket = s])
        /\ thr' = [thr EXCEPT ![t].pc = "accevents", ![t].s = s, ![t].got = 0]
  /\ UNCHANGED todo

(* alloc_socket for the accepted netconn, then, protected, the events      *)
(* counted down in newconn->socket are taken. Without a slot the netconn   *)
(* is deleted.                                                             *)
AcceptSock(t) ==
  /\ At(t, "accsock") /\ FreeSocks # {}
  /\ LET s == MinOf(FreeSocks)
     IN /\ Becomes([AllocSocket(W, t, C(t), TRUE) EXCEPT !.conn[C(t)].socket = s])
        /\ thr' = [thr EXCEPT ![t].pc = "accevents", ![t].s = s,
                              ![t].got = -1 - N(t).socket]
  /\ UNCHANGED todo

AcceptNoSock(t) ==
  /\ At(t, "accsock") /\ FreeSocks = {} /\ CoreFree
  /\ \E res \in CloseResults(C(t), RdWr) :
       Blocking(t, thr[t].s, C(t), DoDelconn(W, t, C(t), res), "netconn_free")
  /\ UNCHANGED todo

AcceptFree(t) ==
  /\ At(t, "netconn_free")
  /\ Becomes([NetconnFree(W, C(t)) EXCEPT !.msg[t] = NoMsg])
  /\ Return(t)
  /\ UNCHANGED todo

\* The counted events are raised on the new socket, under the core lock.
AcceptEvents(t) ==
  /\ At(t, "accevents") /\ CoreFree
  /\ LET ev[n \in 0 .. thr[t].got] ==
           IF n = 0 THEN W ELSE EventCallback(ev[n - 1], C(t), {"RCVPLUS"})
     IN Becomes(ev[thr[t].got])
  /\ \E addr \in BOOLEAN : IF addr THEN Goto(t, "accpeer") ELSE Return(t)
  /\ UNCHANGED todo

(* netconn_peer finds the address as long as there is a pcb; without one   *)
(* netconn_delete frees the netconn, and free_socket takes it from the     *)
(* slot and calls netconn_delete again.                                    *)
AcceptPeer(t) ==
  /\ At(t, "accpeer") /\ CoreFree
  /\ MayLosePeer \/ N(t).pcb # Null
  /\ IF N(t).pcb # Null THEN Return(t) /\ UNCHANGED <<conn, pcb, sock, sel, msg>>
     ELSE /\ Becomes([NetconnFree(DoDelconn(W, t, C(t), "OK"), C(t))
                        EXCEPT !.msg[t] = NoMsg])
          /\ Goto(t, "free_socket")
  /\ UNCHANGED todo

AcceptStep(t) ==
  \/ AcceptEmpty(t) \/ AcceptFetch(t) \/ AcceptMinus(t) \/ AcceptSock(t)
  \/ AcceptNoSock(t) \/ AcceptFree(t) \/ AcceptEvents(t) \/ AcceptPeer(t)

-----------------------------------------------------------------------------
(* lwip_select and lwip_poll. A scan reads each socket under               *)
(* SYS_ARCH_PROTECT; a call that finds an event in its first scan returns  *)
(* at once and changes nothing.                                            *)

Ready(fds, kinds) == \E s \in fds, k \in kinds : HasEvent(sock[s], k)

\* What a thread asks for: poll always reports errors.
Select(t) ==
  /\ At(t, "idle")
  /\ \E fds \in SUBSET Own(t) \ {{}}, a \in Selects :
       LET ks == IF a.poll THEN a.kinds \cup {"except"} ELSE a.kinds
       IN /\ ~Ready(fds, ks)
          /\ sel' = [sel EXCEPT ![t] = [NoSel EXCEPT !.fds = fds, !.kinds = ks]]
          /\ thr' = [thr EXCEPT ![t].pc = "link", ![t].poll = a.poll,
                                ![t].dont = a.timeout]
  /\ UNCHANGED <<conn, pcb, sock, msg, todo>>

\* lwip_link_select_cb, under the core lock.
SelectLink(t) ==
  /\ At(t, "link") /\ CoreFree
  /\ sel' = [sel EXCEPT ![t].linked = TRUE]
  /\ Goto(t, "incwait")
  /\ UNCHANGED <<conn, pcb, sock, msg, todo>>

\* select_waiting is counted up; lwip_pollscan looks at the events with it.
SelectInc(t) ==
  /\ At(t, "incwait")
  /\ sock' = [s \in Socks |-> IF s \in sel[t].fds
                              THEN [sock[s] EXCEPT !.select_waiting = @ + 1]
                              ELSE sock[s]]
  /\ Goto(t, IF ~thr[t].poll THEN "rescan"
             ELSE IF Ready(sel[t].fds, sel[t].kinds) THEN "decwait" ELSE "wait")
  /\ UNCHANGED <<conn, pcb, sel, msg, todo>>

\* Mutant: no second scan.
SelectNoRescan(t) ==
  /\ At(t, "rescan")
  /\ Goto(t, "wait")
  /\ UNCHANGED <<conn, pcb, sock, sel, msg, todo>>

\* lwip_selscan again: events may have come before the callback was linked.
SelectRescan(t) ==
  /\ At(t, "rescan")
  /\ Goto(t, IF Ready(sel[t].fds, sel[t].kinds) THEN "decwait" ELSE "wait")
  /\ UNCHANGED <<conn, pcb, sock, sel, msg, todo>>

\* sys_arch_sem_wait on the select semaphore: signalled, or timed out.
SelectWait(t) ==
  /\ At(t, "wait")
  /\ sel[t].sem \/ thr[t].dont
  /\ sel' = [sel EXCEPT ![t].sem = FALSE]
  /\ Goto(t, "decwait")
  /\ UNCHANGED <<conn, pcb, sock, msg, todo>>

SelectDec(t) ==
  /\ At(t, "decwait")
  /\ sock' = [s \in Socks |-> IF s \in sel[t].fds
                              THEN [sock[s] EXCEPT !.select_waiting = @ - 1]
                              ELSE sock[s]]
  /\ Goto(t, "unlink")
  /\ UNCHANGED <<conn, pcb, sel, msg, todo>>

\* lwip_unlink_select_cb and sys_sem_free; the last scan only reads.
SelectUnlink(t) ==
  /\ At(t, "unlink") /\ CoreFree
  /\ sel' = [sel EXCEPT ![t] = NoSel]
  /\ Return(t)
  /\ UNCHANGED <<conn, pcb, sock, msg, todo>>

SelectStep(t) ==
  \/ SelectLink(t) \/ SelectInc(t) \/ SelectRescan(t) \/ SelectWait(t)
  \/ SelectDec(t) \/ SelectUnlink(t)

-----------------------------------------------------------------------------
(* The tcpip thread in a TCP callback.                                     *)

Op(k, c, a, b) == [k |-> k, c |-> c, a |-> a, b |-> b]
Evt(c, e) == Op("event", c, e, "")

\* err_tcp, called when TCP drops the pcb (tcp_pcb_remove, tcp_abandon).
PcbDropped(p, err) ==
  LET c == pcb[p].arg
      w == [W EXCEPT !.pcb[p] = FreePcb]
  IN IF pcb[p].errf /\ c # Null
     THEN /\ Becomes(ErrTcp(w, c, err))
          /\ todo' = << Evt(c, "ERROR"), Evt(c, "RCVPLUS"), Evt(c, "SENDPLUS"),
                        Op("errpost", c, err, ""),
                        Op("complete", c, err, conn[c].state) >>
     ELSE Becomes(w) /\ todo' = <<>>

\* recv_tcp without a pbuf: a FIN that finds the mailbox full is not kept.
FinNow(c, rest) ==
  IF pcb[conn[c].pcb].recv /\ RecvTaken(conn[c])
  THEN Becomes(RecvPost(W, c, ClosedMsg)) /\ todo' = << Evt(c, "RCVPLUS") >> \o rest
  ELSE Becomes([W EXCEPT !.conn[c].finput = TRUE]) /\ todo' = rest

Tcpip ==
  /\ todo # <<>>
  /\ LET o == Head(todo)
     IN CASE o.k = "event" ->
               Becomes(EventCallback(W, o.c, {o.a})) /\ todo' = Tail(todo)
          [] o.k = "errpost" ->
               Becomes(ErrPost(W, o.c, o.a)) /\ todo' = Tail(todo)
          [] o.k = "complete" ->
               Becomes(ErrComplete(W, o.c, o.b, o.a)) /\ todo' = Tail(todo)
          [] o.k = "fin" -> FinNow(o.c, Tail(todo))
  /\ UNCHANGED thr

-----------------------------------------------------------------------------
(* TCP below: the segments and timers that make it call the netconn layer. *)

\* The pcbs of tcp_active_pcbs.
Active(p) == pcb[p].st \in
  {"SYN_SENT", "ESTABLISHED", "CLOSE_WAIT", "FIN_WAIT", "CLOSING", "LAST_ACK"}

\* The SYN of a connect is answered.
TcpSynAck(p) ==
  /\ CoreFree /\ pcb[p].st = "SYN_SENT"
  /\ LET w == [W EXCEPT !.pcb[p].st = "ESTABLISHED"]
     IN Becomes(DoConnected(w, pcb[p].arg))
  /\ UNCHANGED <<thr, todo>>

(* A connection reaches a listener: accept_function makes a netconn for it *)
(* and posts it; with a full mailbox all of it is undone.                  *)
TcpAccept(p) ==
  /\ CoreFree /\ pcb[p].st = "LISTEN"
  /\ ~MboxFull(conn[pcb[p].arg].acceptmbox)
  /\ FreeConns # {} /\ FreePcbs # {}
  /\ Becomes(AcceptPost(W, pcb[p].arg, MinOf(FreeConns), MinOf(FreePcbs)))
  /\ todo' = << Evt(pcb[p].arg, "RCVPLUS") >>
  /\ UNCHANGED thr

\* No memory for its pcb or its netconn.
TcpAcceptFails(p) ==
  /\ CoreFree /\ pcb[p].st = "LISTEN"
  /\ ~MboxFull(conn[pcb[p].arg].acceptmbox)
  /\ Becomes(AcceptError(W, pcb[p].arg))
  /\ todo' = << Evt(pcb[p].arg, "RCVPLUS") >>
  /\ UNCHANGED thr

(* A segment for a pcb with refused data is processed after that data was  *)
(* offered again, which is TcpFastTmr's step: only when it was refused     *)
(* again, and then only a segment without data or FIN.                     *)
SegmentMayPass(p) == pcb[p].refused # "no" => ~RecvTaken(conn[pcb[p].arg])

\* The states a FIN leads to; TIME_WAIT when all that was sent is acknowledged.
AfterFin(tp) == IF tp.st = "ESTABLISHED" THEN {"CLOSE_WAIT"}
                ELSE {"CLOSING"} \cup IF tp.snd = 0 THEN {"TIME_WAIT"} ELSE {}

(* A segment with data, perhaps with the FIN: recv_tcp takes the pbuf or   *)
(* refuses it, and refused data delays the FIN; without a mailbox the pbuf *)
(* is freed and the window reopened. On a pcb whose receiving side is shut *)
(* data aborts the connection.                                             *)
TcpData(p, fin) ==
  /\ CoreFree /\ pcb[p].st \in {"ESTABLISHED", "FIN_WAIT"}
  /\ pcb[p].refused = "no" /\ pcb[p].got < NPbuf
  /\ \E st \in IF fin THEN AfterFin(pcb[p]) ELSE {pcb[p].st} :
     LET c == pcb[p].arg
         i == pcb[p].got + 1
         w == [W EXCEPT !.pcb[p].got = i, !.pcb[p].unrecved = @ + 2,
                        !.pcb[p].fin = fin, !.pcb[p].st = st]
     IN IF pcb[p].rxclosed THEN PcbDropped(p, "ABRT")
        ELSE IF pcb[p].recv /\ RecvRefused(conn[c])
        THEN /\ Becomes([w EXCEPT !.pcb[p].refused = IF fin THEN "fin" ELSE "data"])
             /\ UNCHANGED todo
        ELSE IF ~(pcb[p].recv /\ RecvTaken(conn[c]))
        THEN /\ Becomes([w EXCEPT !.pcb[p].unrecved = @ - 2])
             /\ todo' = IF fin THEN << Op("fin", c, "", "") >> ELSE <<>>
        ELSE /\ Becomes(RecvPost(w, c, DataMsg(Pbuf(i))))
             /\ todo' = IF fin THEN << Evt(c, "RCVPLUS"), Op("fin", c, "", "") >>
                        ELSE << Evt(c, "RCVPLUS") >>
  /\ UNCHANGED thr

\* A FIN without data.
TcpFin(p) ==
  /\ CoreFree /\ pcb[p].st \in {"ESTABLISHED", "FIN_WAIT"}
  /\ pcb[p].refused = "no"
  /\ \E st \in AfterFin(pcb[p]) :
       Becomes([W EXCEPT !.pcb[p].st = st, !.pcb[p].fin = TRUE])
  /\ todo' = << Op("fin", pcb[p].arg, "", "") >>
  /\ UNCHANGED thr

\* Mutant: refused data is left to the next segment.
TcpFastTmrOnlyFin(p) ==
  /\ CoreFree /\ Active(p) /\ pcb[p].closepend
  /\ Becomes([W EXCEPT !.pcb[p].closepend = FALSE, !.pcb[p].st = FinQueued(@)])
  /\ UNCHANGED <<thr, todo>>

(* tcp_fasttmr on an active pcb: a FIN that found no memory is tried again *)
(* (to fail again changes nothing), and refused data is offered again      *)
(* (tcp_process_refused_data), with the FIN that came with it.             *)
TcpFastTmr(p) ==
  /\ CoreFree /\ Active(p)
  /\ \E sent \in BOOLEAN :
     LET c == pcb[p].arg
         fin == pcb[p].closepend /\ sent
         take == pcb[p].refused # "no" /\ RecvTaken(conn[c])
         w == [W EXCEPT !.pcb[p].closepend = @ /\ ~sent,
                        !.pcb[p].st = IF fin THEN FinQueued(@) ELSE @,
                        !.pcb[p].refused = IF take THEN "no" ELSE @]
     IN /\ fin \/ take
        /\ Becomes(IF take THEN RecvPost(w, c, DataMsg(Pbuf(pcb[p].got))) ELSE w)
        /\ todo' = (IF take THEN << Evt(c, "RCVPLUS") >> ELSE <<>>)
                   \o (IF take /\ pcb[p].refused = "fin"
                       THEN << Op("fin", c, "", "") >> ELSE <<>>)
  /\ UNCHANGED thr

\* The results a write resumed in a callback may get.
WriteResults(p) == TcpWriteResults(pcb[p])

\* Sent data is acknowledged.
TcpAck(p) ==
  /\ CoreFree /\ Active(p) /\ pcb[p].snd > 0 /\ SegmentMayPass(p)
  /\ LET w == [W EXCEPT !.pcb[p].snd = @ - 1]
     IN IF pcb[p].sent
        THEN \E res \in WriteResults(p) :
             \E w1 \in {PollOrSent(w, pcb[p].arg, res)} :
               Becomes(WriteSpace(w1, pcb[p].arg, FALSE))
        ELSE Becomes(w)
  /\ UNCHANGED <<thr, todo>>

\* tcp_slowtmr polls the application.
TcpPollTmr(p) ==
  /\ CoreFree /\ Active(p) /\ pcb[p].poll
  /\ \E res \in WriteResults(p) :
     \E w \in {PollOrSent(W, pcb[p].arg, res)} :
       Becomes(WriteSpace(w, pcb[p].arg, TRUE))
  /\ UNCHANGED <<thr, todo>>

\* A RST, or too many retransmissions.
TcpErr(p) ==
  /\ CoreFree /\ Active(p)
  /\ PcbDropped(p, "RST")
  /\ UNCHANGED thr

\* TCP frees the pcb and tells nobody.
PcbGone(p) == Becomes([W EXCEPT !.pcb[p] = FreePcb]) /\ UNCHANGED todo

(* The last ACK of a connection closed by the peer first: err_tcp is told  *)
(* with ERR_CLSD, unless the receiving side was shut too.                  *)
TcpLastAck(p) ==
  /\ CoreFree /\ pcb[p].st = "LAST_ACK" /\ pcb[p].snd = 0
  /\ SegmentMayPass(p)
  /\ IF pcb[p].rxclosed THEN PcbGone(p) ELSE PcbDropped(p, "CLSD")
  /\ UNCHANGED thr

\* The FIN of a simultaneous close is acknowledged: tcp_pcb_purge.
TcpClosingAck(p) ==
  /\ CoreFree /\ pcb[p].st = "CLOSING" /\ pcb[p].snd = 0
  /\ SegmentMayPass(p)
  /\ Becomes([W EXCEPT !.pcb[p].st = "TIME_WAIT", !.pcb[p].refused = "no"])
  /\ UNCHANGED <<thr, todo>>

\* tcp_slowtmr, or tcp_kill_timewait for a new pcb, ends TIME_WAIT.
TcpTimeWaitEnds(p) ==
  /\ CoreFree /\ pcb[p].st = "TIME_WAIT"
  /\ PcbGone(p)
  /\ UNCHANGED thr

Tcp(p) ==
  \/ TcpSynAck(p) \/ TcpAccept(p) \/ TcpAcceptFails(p)
  \/ (\E fin \in BOOLEAN : TcpData(p, fin)) \/ TcpFin(p) \/ TcpFastTmr(p)
  \/ TcpAck(p) \/ TcpPollTmr(p) \/ TcpErr(p) \/ TcpLastAck(p)
  \/ TcpClosingAck(p) \/ TcpTimeWaitEnds(p)

-----------------------------------------------------------------------------
\* A thread calls a socket function.
Call(t) ==
  \/ Socket(t) \/ Select(t)
  \/ \E s \in Own(t) : \/ Listen(t, s) \/ Connect(t, s) \/ Send(t, s)
                       \/ Shutdown(t, s) \/ Close(t, s) \/ Recv(t, s)
                       \/ Accept(t, s)

\* A thread goes on in the function it called.
Step(t) ==
  \/ SemWait(t) \/ ReturnErr(t) \/ FreeSocket(t) \/ Delete(t)
  \/ RecvStep(t) \/ AcceptStep(t) \/ SelectStep(t)

Next == \/ \E t \in Threads : Call(t) \/ Step(t)
        \/ Tcpip
        \/ \E p \in Conns : Tcp(p)

(* The scheduler lets every thread that can run go on, the tcpip thread    *)
(* finishes the callback it is in, and the timers of TCP keep firing.      *)
Fairness ==
  /\ WF_vars(Tcpip)
  /\ \A t \in Threads : WF_vars(Step(t))
  /\ \A p \in Conns : WF_vars(TcpPollTmr(p)) /\ WF_vars(TcpFastTmr(p))

Spec == Init /\ [][Next]_vars
FairSpec == Spec /\ Fairness

-----------------------------------------------------------------------------
(* Properties.                                                             *)

(* A netconn and its pcb point at each other: TCP never calls back into a  *)
(* netconn that was freed, and no API call uses a pcb that was freed       *)
(* (`recv_tcp: recv for wrong pcb!' and the `pcb.tcp = NULL' of every path *)
(* that frees one). It holds as long as an application does not shut the   *)
(* sending direction alone; a half-closed pcb TCP frees without a word.    *)
PcbConnLinked ==
  /\ \A c \in Conns : conn[c].alloc /\ conn[c].pcb # Null =>
       pcb[conn[c].pcb].arg = c
  /\ \A p \in Conns : pcb[p].arg # Null =>
       conn[pcb[p].arg].alloc /\ conn[pcb[p].arg].pcb = p

(* op_completed is signalled once per wait: it is set only while the       *)
(* thread of that netconn waits for it and its operation is over, so no    *)
(* later call can be released by the signal of an earlier one.             *)
SignalAnswersWait ==
  \A c \in Conns : conn[c].op_completed =>
    /\ conn[c].current_msg = Null
    /\ \E t \in Threads : At(t, "sem") /\ thr[t].c = c

(* No wakeup is lost: a thread that sleeps in select or poll with its      *)
(* semaphore clear has nothing to report, unless the tcpip thread is still *)
(* in the callback that raises the event.                                  *)
SelectSleepsSoundly ==
  \A t \in Threads :
    At(t, "wait") /\ ~sel[t].sem /\ CoreFree => ~Ready(sel[t].fds, sel[t].kinds)

\* Whether a receive or accept on netconn n returns without waiting.
WouldNotBlock(n) ==
  IF n.acceptmbox # NoBox THEN n.acceptmbox # <<>>
  ELSE n.recvmbox # <<>> \/ n.finpending \/ n.mboxclosed \/ n.pending_err # "OK"

(* select tells the truth: between calls and callbacks a socket on which a *)
(* receive or accept would not block is reported readable, and, as long as *)
(* the application has not shut it, only then, although rcvevent is        *)
(* counted apart from the mailbox, by two threads, and before the socket   *)
(* exists.                                                                 *)
SelectAgrees ==
  \A s \in Socks : sock[s].conn # Null /\ CoreFree
     /\ (\A t \in Threads : thr[t].s = s => thr[t].pc \in {"idle", "wait"}) =>
    LET n == conn[sock[s].conn]
        readable == HasEvent(sock[s], "read")
        blocks == sock[s].lastdata = <<>> /\ ~WouldNotBlock(n)
    IN /\ n.pcb # Null \/ n.mboxclosed => readable \/ blocks
       /\ MboxValid(n.recvmbox) => ~readable \/ ~blocks

(* The receive window is given back byte by byte: what TCP delivered and   *)
(* tcp_recved has not acknowledged is in the mailbox, in lastdata, refused, *)
(* or copied by a thread that has not reached netconn_tcp_recvd.           *)
WindowAccounted ==
  \A c \in Conns : conn[c].pcb # Null /\ MboxValid(conn[c].recvmbox) =>
    LET n == conn[c]
        copied == { t \in Threads : thr[t].c = c /\ thr[t].pc \in
                      {"recv", "fetch", "tryfetch", "rcvminus", "recvd"} }
    IN pcb[n.pcb].unrecved =
         n.put - Len(n.rx) + (IF pcb[n.pcb].refused # "no" THEN 2 ELSE 0)
           + (IF copied = {} THEN 0 ELSE thr[MinOf(copied)].got)

\* The stream of netconn c, seen from its reader.
Pipe(c) == INSTANCE StreamPipe WITH
  put <- conn[c].put, finput <- conn[c].finput,
  taken <- conn[c].rx, eof <- conn[c].eof

(* Refinement: mailbox, lastdata, refused data, FIN_RX_PENDING and the     *)
(* early events of an accepted connection together are a pipe that neither *)
(* loses, repeats nor reorders a byte, nor ends early.                     *)
IsPipe ==
  /\ \A c \in Conns : Pipe(c)!Init
  /\ [][\A c \in Conns : [Pipe(c)!Next]_(Pipe(c)!pipe)]_conn

(* Refused data is not forgotten: a receive that waits while the active    *)
(* pcb holds data the full mailbox refused goes on, although nobody but    *)
(* tcp_fasttmr offers that data again.                                     *)
RefusedReachesReader ==
  \A t \in Threads :
    (At(t, "fetch") /\ N(t).pcb # Null
       /\ Active(N(t).pcb) /\ pcb[N(t).pcb].refused # "no") ~> ~At(t, "fetch")

(* A netconn is freed once: the thread that goes on to netconn_delete      *)
(* still has it (`The socket's netconn must have been delete before!').    *)
DeletedOnce == \A t \in Threads : At(t, "delete") => N(t).alloc

(* A dead connection holds no thread: when err_tcp has taken the pcb away, *)
(* a thread waiting in a write, a connect or a receive returns.            *)
Waiting(t) == thr[t].pc \in {"sem", "fetch"}

DeadConnReleases ==
  \A t \in Threads :
    (Waiting(t) /\ conn[thr[t].c].pcb = Null) ~> ~Waiting(t)
=============================================================================

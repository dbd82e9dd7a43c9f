------------------------------- MODULE Netconn -------------------------------
(***************************************************************************)
(* The netconn layer: what the tcpip thread runs for a TCP netconn, in     *)
(* TCP callbacks and in the messages of the API (src/src/api/api_msg.c),   *)
(* and the event callback by which it tells the socket layer of them       *)
(* (src/src/api/sockets.c).                                                *)
(*                                                                         *)
(* Everything here runs with the core lock held, so each operator is a     *)
(* function on the shared state w = [conn, pcb, sock, sel, msg]; the places    *)
(* where an application thread, which reads mailboxes and flags without    *)
(* the lock, can run in between are the steps of `todo' in Sockets.        *)
(* Configuration of the port: core locking, no LWIP_NETCONN_FULLDUPLEX, no *)
(* timeouts, no SO_LINGER, mailboxes of ARCH_QUEUE_SIZE messages.          *)
(***************************************************************************)
EXTENDS Integers, Sequences, FiniteSets

CONSTANTS
  QSize,      \* ARCH_QUEUE_SIZE: messages a mailbox holds
  NPbuf,      \* pbufs the peer sends on a connection before its FIN
  SndBuf,     \* units of data tcp_sndbuf() offers on an empty send buffer
  WriteLen,   \* units of data one write call passes
  NConn,      \* netconns (MEMP_NUM_NETCONN) and pcbs there are
  NSock       \* NUM_SOCKETS

ASSUME NetconnAssumption ==
  /\ QSize \in Nat \ {0} /\ NPbuf \in Nat /\ SndBuf \in Nat \ {0}
  /\ WriteLen \in Nat \ {0}
  /\ NConn \in Nat \ {0} /\ NSock \in Nat \ {0}

Conns == 1 .. NConn
Socks == 0 .. NSock - 1

\* "no netconn", "no pcb", "no message": the NULL of each pointer.
Null == 0

\* A mailbox is a sequence of messages, or the invalid mailbox.
NoBox == << [k |-> "invalid", v |-> <<>>] >>
MboxValid(b) == b # NoBox
MboxFull(b) == Len(b) >= QSize

(* Messages: a pbuf is the sequence of its bytes; netconn_closed and the   *)
(* errors are records; an accept mailbox also holds netconns.              *)
DataMsg(p) == [k |-> "data", v |-> p]
ClosedMsg == [k |-> "closed", v |-> <<>>]
ErrMsg(err) == IF err = "CLSD" THEN ClosedMsg ELSE [k |-> "err", v |-> <<>>]
ConnMsg(c) == [k |-> "conn", v |-> <<c>>]

\* The api_msg of a thread: the operation waited for, and its arguments.
NoMsg == [offset |-> 0, dontblock |-> FALSE, err |-> "OK"]

\* Every pbuf carries two bytes; the bytes of the stream are numbered.
Pbuf(i) == << 2 * i - 1, 2 * i >>

\* The fields netconn_alloc sets; put, rx, eof record what passed through.
NewConn(nb) ==
  [alloc |-> TRUE, state |-> "NONE", pcb |-> Null, pending_err |-> "OK",
   mboxclosed |-> FALSE, finpending |-> FALSE, chkwrite |-> FALSE,
   nonblocking |-> nb, recvmbox |-> <<>>, acceptmbox |-> NoBox,
   op_completed |-> FALSE, current_msg |-> Null, socket |-> -1,
   put |-> 0, finput |-> FALSE, rx |-> <<>>, eof |-> FALSE]

FreeConn ==
  [NewConn(FALSE) EXCEPT !.alloc = FALSE, !.recvmbox = NoBox]

(* What the netconn layer sees of a TCP pcb. refused: "no", "data", "fin". *)
(* FIN_WAIT is FIN_WAIT_1 and FIN_WAIT_2; a pcb that TCP has freed is FREE. *)
NewPcb(st, c) ==
  [st |-> st, arg |-> c, recv |-> TRUE, sent |-> TRUE, poll |-> TRUE,
   errf |-> TRUE, rxclosed |-> FALSE, closepend |-> FALSE,
   got |-> 0, refused |-> "no",
   fin |-> FALSE, snd |-> 0, unrecved |-> 0]

FreePcb ==
  [NewPcb("FREE", Null) EXCEPT !.recv = FALSE, !.sent = FALSE,
                               !.poll = FALSE, !.errf = FALSE]

FreeSock ==
  [conn |-> Null, own |-> Null, lastdata |-> <<>>, rcvevent |-> 0,
   sendevent |-> FALSE, errevent |-> FALSE, select_waiting |-> 0]

-----------------------------------------------------------------------------
(* The event callback and the select list.                                 *)

\* The events a socket shows, as lwip_selscan tests them.
HasEvent(k, kind) ==
  CASE kind = "read"   -> k.lastdata # <<>> \/ k.rcvevent > 0
    [] kind = "write"  -> k.sendevent
    [] kind = "except" -> k.errevent

\* select_check_waiters: signal each waiter not signalled yet that waits on s.
SelectCheckWaiters(sel, s, k) ==
  [t \in DOMAIN sel |->
     LET scb == sel[t]
         wake == \/ "read" \in scb.kinds /\ k.rcvevent > 0
                 \/ "write" \in scb.kinds /\ k.sendevent
                 \/ "except" \in scb.kinds /\ k.errevent
     IN IF scb.linked /\ ~scb.sem_signalled /\ s \in scb.fds /\ wake
        THEN [scb EXCEPT !.sem_signalled = TRUE, !.sem = TRUE]
        ELSE scb]

(* What the events raised together do to the socket's counters; they are   *)
(* independent of each other's order.                                      *)
SockEvent(k, evts) ==
  [k EXCEPT !.rcvevent = CASE "RCVPLUS" \in evts  -> @ + 1
                           [] "RCVMINUS" \in evts -> @ - 1
                           [] OTHER -> @,
            !.sendevent = (@ \/ "SENDPLUS" \in evts) /\ "SENDMINUS" \notin evts,
            !.errevent = @ \/ "ERROR" \in evts]

\* Whether an event may have made the socket ready: check_waiters.
ChecksWaiters(k, evts) ==
  \/ "RCVPLUS" \in evts /\ k.rcvevent + 1 <= 1
  \/ "SENDPLUS" \in evts /\ ~k.sendevent
  \/ "ERROR" \in evts

(* event_callback for each of the events. Before accept has made a socket  *)
(* received data is counted in conn->socket, below -1.                     *)
EventCallback(w, c, evts) ==
  LET s == w.conn[c].socket
      then(k, k1) ==
        [w EXCEPT !.sock[s] = k1,
                  !.sel = IF k1.select_waiting > 0 /\ ChecksWaiters(k, evts)
                          THEN SelectCheckWaiters(@, s, k1) ELSE @]
  IN IF s < 0
     THEN IF "RCVPLUS" \in evts THEN [w EXCEPT !.conn[c].socket = @ - 1] ELSE w
     ELSE IF w.sock[s].conn = Null
     THEN w
     ELSE then(w.sock[s], SockEvent(w.sock[s], evts))

-----------------------------------------------------------------------------
(* Freeing.                                                                *)

\* netconn_drain's effect on one netconn's own mailboxes.
DrainOwn(w, c) ==
  [w EXCEPT !.conn[c].recvmbox = NoBox, !.conn[c].acceptmbox = NoBox]

\* The netconns waiting in the accept mailbox of c.
Queued(w, c) ==
  IF w.conn[c].acceptmbox = NoBox THEN {}
  ELSE { w.conn[c].acceptmbox[i].v[1] :
           i \in { j \in DOMAIN w.conn[c].acceptmbox :
                     w.conn[c].acceptmbox[j].k = "conn" } }

(* netconn_drain: the data in the receive mailbox is freed; each netconn   *)
(* never accepted is drained, its pcb aborted, and freed.                  *)
NetconnDrain(w, c) ==
  LET q == Queued(w, c)
      pcbs == { w.conn[d].pcb : d \in q }
      w1 == [w EXCEPT
               !.conn = [d \in Conns |-> IF d \in q THEN FreeConn ELSE @[d]],
               !.pcb = [p \in Conns |-> IF p \in pcbs THEN FreePcb ELSE @[p]]]
  IN DrainOwn(w1, c)

\* netconn_free, after netconn_prepare_delete.
NetconnFree(w, c) == [w EXCEPT !.conn[c] = FreeConn]

-----------------------------------------------------------------------------
(* Closing.                                                                *)

RdWr == {"RD", "WR"}

\* shut_close: whether the request closes the pcb rather than one direction.
ShutClose(shut, tp) ==
  \/ shut = RdWr
  \/ "RD" \in shut /\ tp.st \in {"FIN_WAIT", "CLOSING"}
  \/ "WR" \in shut /\ tp.rxclosed

(* What tcp_close and tcp_shutdown return. Without memory for a FIN they   *)
(* mark the pcb TF_CLOSEPEND and return ERR_OK ("PEND"), which makes no    *)
(* difference to a netconn that lets go of the pcb: a close never fails,   *)
(* and the retries of lwip_netconn_do_close_internal are never needed.     *)
TcpCloseResults(shut, tp) ==
  IF ShutClose(shut, tp) \/ "WR" \notin shut THEN {"OK"}
  ELSE IF tp.st \in {"ESTABLISHED", "CLOSE_WAIT"} THEN {"OK", "PEND"}
  ELSE {"CONN"}

\* The state after the FIN was queued: tcp_close_shutdown_fin.
FinQueued(st) == CASE st = "ESTABLISHED" -> "FIN_WAIT"
                   [] st = "CLOSE_WAIT"  -> "LAST_ACK"
                   [] OTHER -> st

\* tcp_shutdown: refused data is freed with the receiving direction.
TcpShutdown(tp, shut, res) ==
  [tp EXCEPT
     !.rxclosed = @ \/ "RD" \in shut,
     !.refused = IF "RD" \in shut THEN "no" ELSE @,
     !.closepend = @ \/ res = "PEND",
     !.st = IF "WR" \in shut /\ res = "OK" THEN FinQueued(@) ELSE @]

(* The pcb after lwip_netconn_do_close_internal: left to TCP, shut in one  *)
(* direction, or, when that failed, only without the callbacks.            *)
ClosedPcb(tp, shut, res) ==
  LET off == [tp EXCEPT !.recv = @ /\ "RD" \notin shut,
                        !.sent = @ /\ "WR" \notin shut]
  IN IF ShutClose(shut, tp) THEN FreePcb
     ELSE IF res = "CONN" THEN off
     ELSE TcpShutdown(off, shut, res)

(* lwip_netconn_do_close_internal, from do_close or do_delconn of thread   *)
(* t; res is the result of tcp_close or tcp_shutdown.                      *)
DoCloseInternal(w, t, c, shut, res) ==
  LET p == w.conn[c].pcb
      sc == ShutClose(shut, w.pcb[p])
      w1 == [w EXCEPT !.pcb[p] = ClosedPcb(@, shut, res),
                      !.conn[c].pcb = IF sc THEN Null ELSE @,
                      !.msg[t].err = IF res = "CONN" THEN "CONN" ELSE "OK"]
  IN IF res = "CONN" THEN w1
     ELSE EventCallback(w1, c, (IF sc THEN {"ERROR"} ELSE {})
                               \cup (IF "RD" \in shut THEN {"RCVPLUS"} ELSE {})
                               \cup (IF "WR" \in shut THEN {"SENDPLUS"} ELSE {}))

\* A blocking write or connect holds the netconn.
Busy(n) ==
  \/ n.state = "WRITE"
  \/ n.state = "CONNECT" /\ n.current_msg # Null

\* lwip_netconn_do_delconn.
DoDelconn(w, t, c, res) ==
  IF Busy(w.conn[c]) THEN [w EXCEPT !.msg[t].err = "INPROGRESS"]
  ELSE IF w.conn[c].pcb # Null
  THEN DoCloseInternal([NetconnDrain(w, c) EXCEPT !.conn[c].state = "NONE"],
                       t, c, RdWr, res)
  ELSE EventCallback([NetconnDrain(w, c) EXCEPT !.msg[t].err = "OK"], c,
                     {"RCVPLUS", "SENDPLUS"})

\* lwip_netconn_do_close.
DoClose(w, t, c, shut, res) ==
  LET n == w.conn[c]
  IN IF n.pcb = Null \/ (shut # RdWr /\ n.state = "LISTEN")
        \/ n.state = "CONNECT"
     THEN [w EXCEPT !.msg[t].err = "CONN"]
     ELSE IF n.state = "WRITE" THEN [w EXCEPT !.msg[t].err = "INPROGRESS"]
     ELSE DoCloseInternal([(IF "RD" \in shut THEN NetconnDrain(w, c) ELSE w)
                             EXCEPT !.conn[c].state = "NONE"], t, c, shut, res)

-----------------------------------------------------------------------------
(* Writing.                                                                *)

Sndbuf(tp) == SndBuf - tp.snd

(* What tcp_write and the tcp_output after it may return: no memory for a  *)
(* segment, no route; a pcb that cannot send any more gives ERR_CONN.      *)
TcpWriteResults(tp) ==
  IF tp.st \in {"ESTABLISHED", "CLOSE_WAIT", "SYN_SENT"}
  THEN {"OK", "MEM"} \X {"OK", "RTE"} ELSE {<<"CONN", "OK">>}

(* lwip_netconn_do_writemore for one vector of WriteLen units; res is what *)
(* tcp_write and tcp_output return.                                        *)
DoWritemore(w, c, delayed, res) ==
  LET t == w.conn[c].current_msg
      m == w.msg[t]
      p == w.conn[c].pcb
      avail == Sndbuf(w.pcb[p])
      want == WriteLen - m.offset
      len == IF avail < want THEN avail ELSE want
      full == m.dontblock /\ len = 0
      off == m.offset + IF ~full /\ res[1] = "OK" THEN len ELSE 0
      none == IF off = 0 THEN "WOULDBLOCK" ELSE "OK"
      werr == IF full THEN none ELSE res[1]
      noroute == werr \in {"OK", "MEM"} /\ res[2] = "RTE"
      err == IF noroute THEN "RTE"
             ELSE IF werr = "MEM" /\ m.dontblock THEN none ELSE werr
      finished == m.dontblock \/ noroute \/ off = WriteLen
                  \/ werr \notin {"OK", "MEM"}
      w1 == [w EXCEPT !.pcb[p].snd = @ + (off - m.offset),
                      !.msg[t].offset = off]
      short == m.dontblock /\ off < WriteLen
      tell == full \/ werr \in {"OK", "MEM"}
      low == tell /\ (short \/ avail = off - m.offset)
      w2 == EventCallback([w1 EXCEPT !.conn[c].chkwrite = @ \/ (tell /\ short)],
                          c, IF low THEN {"SENDMINUS"} ELSE {})
  IN IF ~finished THEN w2
     ELSE [w2 EXCEPT !.msg[t].err = err,
                     !.conn[c].current_msg = Null,
                     !.conn[c].state = "NONE",
                     !.conn[c].op_completed = @ \/ delayed]

\* lwip_netconn_do_write.
DoWrite(w, t, c, dontblock, res) ==
  LET n == w.conn[c]
  IN IF n.pending_err # "OK"
     THEN [w EXCEPT !.conn[c].pending_err = "OK", !.msg[t].err = n.pending_err]
     ELSE IF n.state # "NONE" THEN [w EXCEPT !.msg[t].err = "INPROGRESS"]
     ELSE IF n.pcb = Null THEN [w EXCEPT !.msg[t].err = "CONN"]
     ELSE DoWritemore([w EXCEPT !.conn[c].state = "WRITE",
                                !.conn[c].current_msg = t,
                                !.msg[t] = [NoMsg EXCEPT !.dontblock = dontblock]],
                      c, FALSE, res)

-----------------------------------------------------------------------------
(* Connecting, listening, taking data.                                     *)

\* setup_tcp registers the callbacks.
SetupTcp(w, c) ==
  [w EXCEPT !.pcb[w.conn[c].pcb] =
     [@ EXCEPT !.arg = c, !.recv = TRUE, !.sent = TRUE, !.poll = TRUE,
               !.errf = TRUE]]

(* lwip_netconn_do_connect; ok: tcp_connect finds a route, a port and      *)
(* memory. A blocking connect waits on op_completed, a non-blocking one    *)
(* returns INPROGRESS.                                                     *)
DoConnect(w, t, c, ok) ==
  LET n == w.conn[c]
      fails(x, e) == [x EXCEPT !.msg[t].err = e]
  IN IF n.pcb = Null THEN fails(w, "CLSD")
     ELSE IF n.state = "CONNECT" THEN fails(w, "ALREADY")
     ELSE IF n.state # "NONE" THEN fails(w, "ISCONN")
     ELSE IF w.pcb[n.pcb].st # "CLOSED" THEN fails(SetupTcp(w, c), "ISCONN")
     ELSE IF ~ok THEN fails(SetupTcp(w, c), "MEM")
     ELSE [SetupTcp(w, c) EXCEPT
             !.pcb[n.pcb].st = "SYN_SENT",
             !.conn[c].state = "CONNECT",
             !.conn[c].current_msg = IF n.nonblocking THEN Null ELSE t,
             !.msg[t] = [NoMsg EXCEPT !.err = "INPROGRESS"]]

\* Mutant: the semaphore is signalled for a non-blocking connect too.
DoConnectedSignals(w, c) ==
  LET t == w.conn[c].current_msg
      w1 == [w EXCEPT !.conn[c].current_msg = Null, !.conn[c].state = "NONE",
                      !.conn[c].op_completed = TRUE,
                      !.msg = IF t = Null THEN @ ELSE [@ EXCEPT ![t].err = "OK"]]
  IN EventCallback(w1, c, {"SENDPLUS"})

\* lwip_netconn_do_connected, called with ERR_OK when the SYN is answered.
DoConnected(w, c) ==
  LET t == w.conn[c].current_msg
      w1 == [w EXCEPT !.conn[c].current_msg = Null, !.conn[c].state = "NONE",
                      !.conn[c].op_completed = @ \/ t # Null,
                      !.msg = IF t = Null THEN @ ELSE [@ EXCEPT ![t].err = "OK"]]
  IN EventCallback(w1, c, {"SENDPLUS"})

(* lwip_netconn_do_listen; boxok: sys_mbox_new finds a mailbox for the     *)
(* accept queue, after the receive mailbox was given back.                 *)
DoListen(w, t, c, boxok) ==
  LET n == w.conn[c]
      fails(e) == [w EXCEPT !.msg[t].err = e]
  IN IF n.pcb = Null THEN fails("CONN")
     ELSE IF n.state = "LISTEN" THEN fails("OK")
     ELSE IF n.state # "NONE" THEN fails("CONN")
     ELSE IF w.pcb[n.pcb].st # "CLOSED" THEN fails("VAL")
     ELSE IF boxok
     THEN [w EXCEPT !.conn[c].recvmbox = NoBox, !.conn[c].acceptmbox = <<>>,
                    !.conn[c].state = "LISTEN", !.pcb[n.pcb].st = "LISTEN",
                    !.msg[t].err = "OK"]
     ELSE [w EXCEPT !.conn[c].recvmbox = NoBox, !.conn[c].pcb = Null,
                    !.pcb[n.pcb] = FreePcb, !.msg[t].err = "MEM"]

\* lwip_netconn_do_recv: tcp_recved reopens the window.
DoRecv(w, c, len) ==
  IF w.conn[c].pcb = Null THEN w
  ELSE [w EXCEPT !.pcb[w.conn[c].pcb].unrecved = @ - len]

-----------------------------------------------------------------------------
(* TCP callbacks. Where a callback posts to a mailbox and then raises an   *)
(* event, only the part up to the post is here.                            *)

\* recv_tcp with a pbuf: taken, refused with ERR_MEM, or dropped.
RecvTaken(n) == MboxValid(n.recvmbox) /\ ~MboxFull(n.recvmbox)
RecvRefused(n) == MboxValid(n.recvmbox) /\ MboxFull(n.recvmbox)

RecvPost(w, c, m) ==
  [w EXCEPT !.conn[c].recvmbox = Append(@, m),
            !.conn[c].put = @ + Len(m.v),
            !.conn[c].finput = @ \/ m.k = "closed"]

\* poll_tcp and sent_tcp up to the check of the write space.
PollOrSent(w, c, res) ==
  IF w.conn[c].state = "WRITE" THEN DoWritemore(w, c, TRUE, res) ELSE w

\* The end of poll_tcp (only with CHECK_WRITESPACE) and of sent_tcp.
WriteSpace(w, c, isPoll) ==
  LET n == w.conn[c]
  IN IF (isPoll => n.chkwrite) /\ n.pcb # Null /\ Sndbuf(w.pcb[n.pcb]) > 0
     THEN EventCallback([w EXCEPT !.conn[c].chkwrite = FALSE], c, {"SENDPLUS"})
     ELSE w

\* Mutant: err_tcp forgets that the pcb is gone.
ErrTcpKeepsPcb(w, c, err) ==
  [w EXCEPT !.conn[c].pending_err = err,
            !.conn[c].mboxclosed = TRUE, !.conn[c].state = "NONE"]

\* err_tcp, its first part: what is set under SYS_ARCH_PROTECT.
ErrTcp(w, c, err) ==
  [w EXCEPT !.conn[c].pcb = Null, !.conn[c].pending_err = err,
            !.conn[c].mboxclosed = TRUE, !.conn[c].state = "NONE"]

\* Mutant: only an acceptor is told.
ErrPostAcceptor(w, c, err) ==
  LET post(b) == IF MboxValid(b) /\ ~MboxFull(b) THEN Append(b, ErrMsg(err))
                 ELSE b
  IN [w EXCEPT !.conn[c].acceptmbox = post(@)]

\* err_tcp, its posts: lost when the mailbox is full.
ErrPost(w, c, err) ==
  LET post(b) == IF MboxValid(b) /\ ~MboxFull(b) THEN Append(b, ErrMsg(err))
                 ELSE b
  IN [w EXCEPT !.conn[c].recvmbox = post(@), !.conn[c].acceptmbox = post(@)]

\* err_tcp, its last part: the blocking call in progress is completed.
ErrComplete(w, c, old, err) ==
  LET t == w.conn[c].current_msg
  IN IF old \in {"WRITE", "CONNECT"} /\ t # Null
     THEN [w EXCEPT !.msg[t].err = err, !.conn[c].current_msg = Null,
                    !.conn[c].op_completed = TRUE]
     ELSE w

\* accept_function: the new netconn d for pcb p, posted on the listener c.
AcceptPost(w, c, d, p) ==
  [w EXCEPT !.conn[d] = [NewConn(FALSE) EXCEPT !.pcb = p],
            !.pcb[p] = NewPcb("ESTABLISHED", d),
            !.conn[c].acceptmbox = Append(@, ConnMsg(d))]

\* accept_function without a pcb or a netconn: an error for the acceptor.
AcceptError(w, c) ==
  [w EXCEPT !.conn[c].acceptmbox = Append(@, ErrMsg("ABRT"))]
=============================================================================

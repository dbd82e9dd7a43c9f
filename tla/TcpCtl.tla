------------------------------- MODULE TcpCtl -------------------------------
(***************************************************************************)
(* tcp.c: the life of one connection pcb - allocation, open, close, abort, *)
(* window bookkeeping, refused data and the two timers.  The context of    *)
(* TcpOut is extended by the application that owns the pcb:                *)
(*    c.app.open   the application still holds the pcb pointer             *)
(*    c.app.got    bytes its recv callback accepted                        *)
(*    c.app.owed   accepted bytes it has not yet passed to tcp_recved      *)
(*    c.app.eof    recv callback called with NULL while it still reads     *)
(*    c.app.err    argument of the err callback, "none" before it is run   *)
(* and by the globals of tcp_in.c:                                         *)
(*    c.rf, c.rdata, c.racked   recv_flags, recv_data, recv_acked          *)
(*    c.gone       the pcb has been passed to tcp_free                     *)
(* cb says what the callbacks do: cb.recv in {"take", "recved" (take and   *)
(* call tcp_recved), "refuse", "abort"}, cb.conn in {"ok", "abort"} for    *)
(* connected and accept, cb.eof in {"keep", "close"}: recv(NULL) calls      *)
(* tcp_close, as tcp_recv_null does.                                       *)
(***************************************************************************)
EXTENDS TcpOut

CONSTANTS TCP_SND_BUF, TCP_MAXRTX, TCP_SYNMAXRTX,
          INITIAL_MSS,       \* mss before the peer's MSS option is seen
          PERSIST_SLOTS      \* sizeof(tcp_persist_backoff)

(* tcp_alloc: a zeroed pcb with its defaults, for a host whose TCP_WND is wnd. *)
tcp_alloc(wnd) ==
  [state |-> "CLOSED", flags |-> {}, mss |-> INITIAL_MSS, wnd_max |-> wnd,
   rcv_nxt |-> 0, rcv_wnd |-> wnd, rcv_ann_wnd |-> wnd, rcv_ann_right_edge |-> 0,
   rtimer |-> FALSE, nrtx |-> 0, dupacks |-> 0, rto_end |-> 0,
   lastack |-> 0, snd_nxt |-> 0, snd_lbb |-> 0, snd_wl1 |-> 0, snd_wl2 |-> 0,
   snd_wnd |-> 0, snd_wnd_max |-> 0, snd_buf |-> TCP_SND_BUF, snd_queuelen |-> 0,
   cwnd |-> 1, ssthresh |-> TCP_SND_BUF, bytes_acked |-> 0,
   unsent |-> <<>>, unacked |-> <<>>, ooseq |-> <<>>, unsent_oversize |-> 0,
   refused |-> <<>>, refused_fin |-> FALSE,
   persist_backoff |-> 0, persist_probe |-> 0]

(* What is left when the pcb's memory has been returned to its pool. *)
NoPcb == [tcp_alloc(0) EXCEPT !.state = "NONE"]

TCP_WND_MAX(p) == p.wnd_max
TCP_WND_UPDATE_THRESHOLD(p) == Least(p.wnd_max \div 4, 4 * p.mss)

tcp_ack_now(c) == SetF(c, {"ACK_NOW"})

(* Variant of TCP_EVENT_ERR with a seeded bug: the callback is not run. *)
TCP_EVENT_ERR_Silent(c, e) == c

(* TCP_EVENT_ERR: the callback tells the application to forget the pcb.    *)
TCP_EVENT_ERR(c, e) ==
  IF c.app.open THEN [c EXCEPT !.app.err = e, !.app.open = FALSE] ELSE c

tcp_free(c) == [c EXCEPT !.p = NoPcb, !.gone = TRUE]

tcp_pcb_purge(c) ==
  IF c.p.state \in {"CLOSED", "TIME_WAIT", "LISTEN"} THEN c
  ELSE [c EXCEPT !.p = [@ EXCEPT !.refused = <<>>, !.refused_fin = FALSE,
                                 !.unsent = <<>>, !.unacked = <<>>, !.ooseq = <<>>,
                                 !.unsent_oversize = 0, !.rtimer = FALSE]]

(* Unlink and purge; a delayed ACK still goes out. *)
tcp_pcb_remove(c) ==
  LET c1 == tcp_pcb_purge(c)
      c2 == IF c.p.state # "TIME_WAIT" /\ "ACK_DELAY" \in c.p.flags
            THEN tcp_output(tcp_ack_now(c1)) ELSE c1
  IN  [c2 EXCEPT !.p.state = "CLOSED"]

(* tcp_abandon(pcb, 1) *)
tcp_abort(c) ==
  LET then(c1) ==
        IF c.p.state = "TIME_WAIT" THEN tcp_free(c1)
        ELSE TCP_EVENT_ERR(tcp_free(tcp_rst(c1, c.p.snd_nxt, c.p.rcv_nxt, c.p.wnd_max)), "ERR_ABRT")
  IN  IF c.p.state = "CLOSED" THEN TCP_EVENT_ERR(tcp_free(c), "ERR_ABRT")
      ELSE then(tcp_pcb_remove(c))

(* tcp_abort called by the application, which then forgets the pcb. *)
AbortedByApp(c) == [tcp_abort(c) EXCEPT !.app.open = FALSE]

-----------------------------------------------------------------------------
(* The receive window.                                                     *)
CanAdvertiseMore(p) ==
  TCP_SEQ_GEQ(SeqAdd(p.rcv_nxt, p.rcv_wnd),
              SeqAdd(p.rcv_ann_right_edge, Least(p.wnd_max \div 2, p.mss)))

(* Variants of tcp_update_rcv_ann_wnd with a seeded bug: no look at the right *)
(* edge; and the window of an empty receive queue is advertised.           *)
tcp_update_rcv_ann_wnd_Shrinks(p) == [p EXCEPT !.rcv_ann_wnd = p.rcv_wnd \div 2]
tcp_update_rcv_ann_wnd_Full(p)    == [p EXCEPT !.rcv_ann_wnd = p.wnd_max]

tcp_update_rcv_ann_wnd(p) ==
  [p EXCEPT !.rcv_ann_wnd =
      IF CanAdvertiseMore(p) THEN p.rcv_wnd
      ELSE IF TCP_SEQ_GT(p.rcv_nxt, p.rcv_ann_right_edge) THEN 0
      ELSE SeqSub(p.rcv_ann_right_edge, p.rcv_nxt)]

(* tcp_recved: the application has processed len bytes. *)
tcp_recved(c, len) ==
  LET w   == (c.p.rcv_wnd + len) % U16
      inflation(p) == IF CanAdvertiseMore(p)
                      THEN SeqSub(SeqAdd(p.rcv_nxt, p.rcv_wnd), p.rcv_ann_right_edge) ELSE 0
      then(p1, c1) == IF inflation(p1) >= TCP_WND_UPDATE_THRESHOLD(c.p)
                      THEN tcp_output(tcp_ack_now(c1)) ELSE c1
      grown(p1) == then(p1, [c EXCEPT !.p = tcp_update_rcv_ann_wnd(p1)])
  IN  grown([c.p EXCEPT !.rcv_wnd = IF w > TCP_WND_MAX(c.p) \/ w < @
                                    THEN TCP_WND_MAX(c.p) ELSE w])

-----------------------------------------------------------------------------
(* Opening and closing.                                                    *)
tcp_connect(c, iss) ==
  LET p0 == [c.p EXCEPT !.rcv_nxt = 0, !.snd_nxt = iss, !.lastack = SeqSub(iss, 1),
                        !.snd_wl2 = SeqSub(iss, 1), !.snd_lbb = SeqSub(iss, 1),
                        !.rcv_wnd = c.p.wnd_max, !.rcv_ann_wnd = c.p.wnd_max,
                        !.rcv_ann_right_edge = 0, !.snd_wnd = c.p.wnd_max,
                        !.mss = INITIAL_MSS, !.cwnd = 1]
      c1 == tcp_enqueue_flags([c EXCEPT !.p = p0], {"SYN"})
  IN  IF "rte" \in c.fail THEN Ret(c, "ERR_RTE")
      ELSE IF c1.err # "ERR_OK" THEN c1
      ELSE Ret(tcp_output([c1 EXCEPT !.p.state = "SYN_SENT"]), "ERR_OK")

(* Variants of tcp_close_shutdown_fin with a seeded bug: a failed tcp_send_fin *)
(* is not remembered; and both states lead to FIN_WAIT_1.                  *)
tcp_close_shutdown_fin_Forgets(c) ==
  LET c1 == tcp_send_fin(c)
      nx == IF c.p.state = "CLOSE_WAIT" THEN "LAST_ACK" ELSE "FIN_WAIT_1"
  IN  IF c.p.state \notin {"SYN_RCVD", "ESTABLISHED", "CLOSE_WAIT"} \/ c1.err # "ERR_OK"
      THEN Ret(c, "ERR_OK") ELSE Ret(tcp_output([c1 EXCEPT !.p.state = nx]), "ERR_OK")
tcp_close_shutdown_fin_FinWait(c) ==
  LET c1 == tcp_send_fin(c)
  IN  IF c.p.state \notin {"SYN_RCVD", "ESTABLISHED", "CLOSE_WAIT"} THEN Ret(c, "ERR_OK")
      ELSE IF c1.err = "ERR_OK" THEN Ret(tcp_output([c1 EXCEPT !.p.state = "FIN_WAIT_1"]), "ERR_OK")
      ELSE Ret(SetF(c1, {"CLOSEPEND"}), "ERR_OK")

tcp_close_shutdown_fin(c) ==
  LET c1 == tcp_send_fin(c)
      nx == IF c.p.state = "CLOSE_WAIT" THEN "LAST_ACK" ELSE "FIN_WAIT_1"
  IN  IF c.p.state \notin {"SYN_RCVD", "ESTABLISHED", "CLOSE_WAIT"} THEN Ret(c, "ERR_OK")
      ELSE IF c1.err = "ERR_OK" THEN Ret(tcp_output([c1 EXCEPT !.p.state = nx]), "ERR_OK")
      ELSE Ret(SetF(c1, {"CLOSEPEND"}), "ERR_OK")

tcp_close_shutdown(c, rstOnUnacked) ==
  LET c1 == tcp_pcb_purge(tcp_rst(c, c.p.snd_nxt, c.p.rcv_nxt, c.p.wnd_max))
  IN  IF /\ rstOnUnacked /\ c.p.state \in {"ESTABLISHED", "CLOSE_WAIT"}
         /\ c.p.refused # <<>> \/ c.p.rcv_wnd # TCP_WND_MAX(c.p)
      THEN Ret(IF c.busy THEN [c1 EXCEPT !.rf = @ \cup {"CLOSED"}] ELSE tcp_free(c1), "ERR_OK")
      ELSE IF c.p.state = "CLOSED" THEN Ret(tcp_free(c), "ERR_OK")
      ELSE IF c.p.state = "SYN_SENT" THEN Ret(tcp_free(tcp_pcb_remove(c)), "ERR_OK")
      ELSE tcp_close_shutdown_fin(c)

(* After a successful close the application may not use the pcb any more. *)
tcp_close(c) ==
  [tcp_close_shutdown(SetF(c, {"RXCLOSED"}), TRUE) EXCEPT !.app.open = FALSE]

(* tcp_shutdown(pcb, 0, 1) and tcp_shutdown(pcb, 1, 0); both together are tcp_close. *)
tcp_shutdown_tx(c) ==
  IF c.p.state \in {"SYN_RCVD", "ESTABLISHED", "CLOSE_WAIT"}
  THEN tcp_close_shutdown(c, FALSE) ELSE Ret(c, "ERR_CONN")

tcp_shutdown_rx(c) ==
  Ret(SetF([c EXCEPT !.p.refused = <<>>, !.p.refused_fin = FALSE], {"RXCLOSED"}), "ERR_OK")

-----------------------------------------------------------------------------
(* Upcalls.                                                                *)
TCP_EVENT_RECV(c, data, cb) ==
  LET took == [c EXCEPT !.app.got = @ \o data]
  IN  CASE cb.recv = "take"   -> Ret([took EXCEPT !.app.owed = @ + Len(data)], "ERR_OK")
        [] cb.recv = "recved" -> Ret(tcp_recved(took, Len(data)), "ERR_OK")
        [] cb.recv = "refuse" -> Ret(c, "ERR_MEM")
        [] cb.recv = "abort"  -> Ret(AbortedByApp(c), "ERR_ABRT")

(* The FIN's sequence number is handed back to the window, then recv(NULL). *)
TCP_EVENT_CLOSED(c, cb) ==
  LET c1 == [c EXCEPT !.p.rcv_wnd = IF @ # TCP_WND_MAX(c.p) THEN (@ + 1) % U16 ELSE @,
                      !.app.eof = @ \/ (c.app.open /\ "RXCLOSED" \notin c.p.flags)]
  IN  IF c.app.open /\ cb.eof = "close" THEN tcp_close(c1) ELSE Ret(c1, "ERR_OK")

(* Variant of tcp_process_refused_data with a seeded bug: the reference is kept *)
(* while, and after, the data is offered again.                            *)
tcp_process_refused_data_Keeps(c, cb) ==
  LET then(c1) ==
        CASE c1.err = "ERR_ABRT" -> c1
          [] c1.err = "ERR_OK"   -> IF c.p.refused_fin THEN TCP_EVENT_CLOSED(c1, cb) ELSE c1
          [] OTHER -> Ret(c1, "ERR_INPROGRESS")
  IN  then(TCP_EVENT_RECV(c, c.p.refused, cb))

tcp_process_refused_data(c, cb) ==
  LET p  == c.p
      then(c1) ==
        CASE c1.err = "ERR_ABRT" -> c1
          [] c1.err = "ERR_OK"   -> IF p.refused_fin THEN TCP_EVENT_CLOSED(c1, cb) ELSE c1
          [] OTHER -> Ret([c1 EXCEPT !.p.refused = p.refused, !.p.refused_fin = p.refused_fin],
                          "ERR_INPROGRESS")
  IN  then(TCP_EVENT_RECV([c EXCEPT !.p.refused = <<>>, !.p.refused_fin = FALSE], p.refused, cb))

-----------------------------------------------------------------------------
(* Timers.  Elapsed times are abstracted: el is the set of timers that     *)
(* reach their limit in this tick.                                         *)
tcp_fasttmr(c, cb) ==
  LET ack(d)   == IF "ACK_DELAY" \in d.p.flags
                  THEN ClrF(tcp_output(tcp_ack_now(d)), {"ACK_DELAY", "ACK_NOW"}) ELSE d
      close(d) == IF "CLOSEPEND" \in d.p.flags
                  THEN tcp_close_shutdown_fin(ClrF(d, {"CLOSEPEND"})) ELSE d
      offer(d) == IF d.p.refused # <<>> THEN tcp_process_refused_data(d, cb) ELSE d
  IN  offer(close(ack(c)))

(* tcp_txnow: on netif queue space, pcbs with a failed send try again. *)
tcp_txnow(c) == IF "NAGLEMEMERR" \in c.p.flags THEN tcp_output(c) ELSE c

(* The next entry of tcp_persist_backoff, staying on the last one. *)
NextSlot(c) == [c EXCEPT !.p.persist_backoff = Least(@ + 1, PERSIST_SLOTS)]

(* Persist timer: probe a closed window, or split the head to fill an open one. *)
PersistTick(c, el) ==
  LET probed(d) == IF d.err = "ERR_OK" THEN NextSlot(d) ELSE d
      send(d)   == IF d.err = "ERR_OK" THEN tcp_output(d) ELSE d
      sent(d)   == IF d.err = "ERR_OK" THEN d ELSE NextSlot(d)
  IN  IF "persist" \notin el THEN c
      ELSE IF c.p.snd_wnd = 0 THEN probed(tcp_zero_window_probe(c))
      ELSE sent(send(tcp_split_unsent_seg(c, c.p.snd_wnd)))

(* Retransmission timer, with its congestion response. *)
RtoTick(c, el) ==
  LET c1 == tcp_rexmit_rto_prepare(c)
      ss == Most(Least(c.p.cwnd, c.p.snd_wnd) \div 2, 2 * c.p.mss)
      go == c1.err = "ERR_OK" \/ (c.p.unacked = <<>> /\ c.p.unsent # <<>>)
  IN  IF "rto" \in el /\ c.p.rtimer /\ go
      THEN tcp_rexmit_rto_commit([c1 EXCEPT !.p.ssthresh = ss, !.p.cwnd = c.p.mss,
                                            !.p.bytes_acked = 0])
      ELSE c

(* Variant of StateTimeout with a seeded bug: FIN_WAIT_2 is left out. *)
StateTimeout_FinWait2(p) == p.state \in {"SYN_RCVD", "LAST_ACK"}

(* The states that end by themselves: a closed pcb does not wait for the   *)
(* peer's FIN for ever.                                                    *)
StateTimeout(p) ==
  p.state \in {"SYN_RCVD", "LAST_ACK"} \/ (p.state = "FIN_WAIT_2" /\ "RXCLOSED" \in p.flags)

(* tcp_slowtmr for a pcb of tcp_active_pcbs. *)
tcp_slowtmr(c, el) ==
  LET p     == c.p
      limit == \/ p.nrtx >= TCP_MAXRTX \/ (p.state = "SYN_SENT" /\ p.nrtx >= TCP_SYNMAXRTX)
               \/ p.persist_backoff > 0 /\ p.persist_probe >= TCP_MAXRTX
      alive == p.state \in {"ESTABLISHED", "CLOSE_WAIT"}
      dead  == alive /\ "keepdead" \in el
      old   == "tmr" \in el /\ StateTimeout(p)
      send(d) == IF limit THEN d
                 ELSE IF p.persist_backoff > 0 THEN PersistTick(d, el) ELSE RtoTick(d, el)
      keep(d) == IF alive /\ "keep" \in el /\ ~dead THEN tcp_keepalive(d) ELSE d
      drop(d) == IF "ooseq" \in el THEN [d EXCEPT !.p.ooseq = <<>>] ELSE d
      rst(d)  == IF dead THEN tcp_rst(d, p.snd_nxt, p.rcv_nxt, p.wnd_max) ELSE d
      then(d) == IF limit \/ dead \/ old
                 THEN TCP_EVENT_ERR(tcp_free(rst(tcp_pcb_purge(d))), "ERR_ABRT")
                 ELSE IF "poll" \in el THEN tcp_output(d) ELSE d
  IN  then(drop(keep(send(c))))
=============================================================================

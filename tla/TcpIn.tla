------------------------------- MODULE TcpIn --------------------------------
(***************************************************************************)
(* tcp_in.c: what one incoming segment does to the connection it belongs   *)
(* to.  A segment on the wire is [seqno, ackno, wnd, flags, data].  ooseq  *)
(* holds records [seqno, data, flags] sorted by sequence number.           *)
(***************************************************************************)
EXTENDS TcpCtl

CONSTANTS TCP_MSS,      \* mss agreed when the peer's SYN has been seen
          CWND_MAX,     \* where TCP_WND_INC saturates
          DUPACKS_MAX   \* where the u8_t dupacks saturates

TCP_WND_INC(w, inc) == Least(w + inc, CWND_MAX)

LWIP_TCP_CALC_INITIAL_CWND(mss) == Least(4 * mss, Most(2 * mss, 4380))

InLen(s)  == Len(s.data) + (IF s.flags \cap {"SYN", "FIN"} # {} THEN 1 ELSE 0)
InEnd(s)  == SeqAdd(s.seqno, Len(s.data))      \* seqno + len, without SYN or FIN

-----------------------------------------------------------------------------
(* Acknowledgments: the first half of tcp_receive.                         *)

(* Update snd_wnd unless the segment is older than the last update. *)
UpdateWindow(p, s) ==
  IF \/ TCP_SEQ_LT(p.snd_wl1, s.seqno)
     \/ p.snd_wl1 = s.seqno /\ TCP_SEQ_LT(p.snd_wl2, s.ackno)
     \/ p.snd_wl2 = s.ackno /\ s.wnd > p.snd_wnd
  THEN [p EXCEPT !.snd_wnd = s.wnd, !.snd_wnd_max = Most(@, s.wnd),
                 !.snd_wl1 = s.seqno, !.snd_wl2 = s.ackno]
  ELSE p

(* How many segments at the head of queue q the ACK covers entirely. *)
AckedCount(q, ackno) ==
  LET acked(i) == TCP_SEQ_LEQ(SeqAdd(q[i].seqno, TCP_TCPLEN(q[i])), ackno)
  IN  Leading(Len(q), acked)

SumOver(q, f(_)) == FoldLeft(LAMBDA n, s : n + f(s), 0, q)

(* Variant of tcp_free_acked_segments with a seeded bug: segments are counted, *)
(* not their pbufs.                                                        *)
tcp_free_acked_segments_PerSegment(c, ackno) ==
  LET p == c.p
      free(k1, k2, n) ==
        [c EXCEPT !.racked = @ + n,
                  !.p = [p EXCEPT
                     !.unacked = SubSeq(@, k1 + 1, Len(@)), !.unsent = SubSeq(@, k2 + 1, Len(@)),
                     !.unsent_oversize = IF k2 = Len(p.unsent) THEN 0 ELSE @,
                     !.snd_queuelen = @ - k1 - k2, !.snd_buf = @ + c.racked + n,
                     !.rtimer = k1 < Len(p.unacked)]]
      count(k1, k2) == free(k1, k2,
        SumOver(SubSeq(p.unacked, 1, k1) \o SubSeq(p.unsent, 1, k2), SegLen))
  IN  count(AckedCount(p.unacked, ackno), AckedCount(p.unsent, ackno))

(* tcp_free_acked_segments on unacked, then on unsent. *)
tcp_free_acked_segments(c, ackno) ==
  LET p == c.p
      free(k1, k2, freed, n) ==
        [c EXCEPT !.racked = @ + n,
                  !.p = [p EXCEPT
                     !.unacked = SubSeq(@, k1 + 1, Len(@)),
                     !.unsent = SubSeq(@, k2 + 1, Len(@)),
                     !.unsent_oversize = IF k2 = Len(p.unsent) THEN 0 ELSE @,
                     !.snd_queuelen = @ - SumOver(freed, pbuf_clen),
                     !.snd_buf = @ + c.racked + n,
                     !.rtimer = k1 < Len(p.unacked)]]
      sum(k1, k2, freed) == free(k1, k2, freed, SumOver(freed, SegLen))
      count(k1, k2) == sum(k1, k2, SubSeq(p.unacked, 1, k1) \o SubSeq(p.unsent, 1, k2))
  IN  count(AckedCount(p.unacked, ackno), AckedCount(p.unsent, ackno))

(* Slow start, or congestion avoidance. *)
GrowCwnd(p, acked) ==
  LET grown == TCP_WND_INC(p.bytes_acked, acked)
  IN  IF p.cwnd < p.ssthresh
      THEN [p EXCEPT !.cwnd = TCP_WND_INC(@, Least(acked, (IF "RTO" \in p.flags THEN 1 ELSE 2) * p.mss))]
      ELSE IF grown >= p.cwnd
      THEN [p EXCEPT !.bytes_acked = grown - p.cwnd, !.cwnd = TCP_WND_INC(@, p.mss)]
      ELSE [p EXCEPT !.bytes_acked = grown]

(* Everything that was in flight at the last timeout has been acknowledged. *)
RtoDone(p) ==
  LET rest == p.unacked \o p.unsent
  IN  rest = <<>> \/ TCP_SEQ_LEQ(p.rto_end, Head(rest).seqno)

NewAck(c, ackno) ==
  LET p  == c.p
      p1 == IF "INFR" \in p.flags
            THEN [p EXCEPT !.flags = @ \ {"INFR"}, !.cwnd = p.ssthresh, !.bytes_acked = 0] ELSE p
      p2 == GrowCwnd([p1 EXCEPT !.nrtx = 0, !.dupacks = 0, !.lastack = ackno],
                     SeqSub(ackno, p.lastack))
      then(c1) == IF "RTO" \in p.flags /\ RtoDone(c1.p) THEN ClrF(c1, {"RTO"}) ELSE c1
  IN  then(tcp_free_acked_segments([c EXCEPT !.p = p2], ackno))

DupAck(c) ==
  LET d  == Least(c.p.dupacks + 1, DUPACKS_MAX)
      c1 == [c EXCEPT !.p.dupacks = d,
                      !.p.cwnd = IF d > 3 THEN TCP_WND_INC(@, c.p.mss) ELSE @]
  IN  IF d >= 3 THEN tcp_rexmit_fast(c1) ELSE c1

ReceiveAck(c, s) ==
  LET p == c.p
      edge(q) == SeqAdd(q.snd_wl2, q.snd_wnd)
      then(c1) ==
        IF TCP_SEQ_LEQ(s.ackno, p.lastack)
        THEN IF InLen(s) = 0 /\ edge(c1.p) = edge(p) /\ p.rtimer /\ p.lastack = s.ackno
             THEN DupAck(c1) ELSE [c1 EXCEPT !.p.dupacks = 0]
        ELSE IF TCP_SEQ_BETWEEN(s.ackno, SeqAdd(p.lastack, 1), p.snd_nxt)
        THEN NewAck(c1, s.ackno)
        ELSE tcp_send_empty_ack(c1)
  IN  then([c EXCEPT !.p = UpdateWindow(p, s)])

-----------------------------------------------------------------------------
(* Data: the second half of tcp_receive.                                   *)

tcp_ack(c) ==
  IF "ACK_DELAY" \in c.p.flags THEN tcp_ack_now(ClrF(c, {"ACK_DELAY"})) ELSE SetF(c, {"ACK_DELAY"})

Cut(s, n) == [s EXCEPT !.data = SubSeq(@, 1, n)]

(* Variant of CoveredCount with a seeded bug: covered segments are kept. *)
CoveredCount_None(q, e) == 0

(* The leading segments of queue q that a segment ending at e covers, and the rest. *)
CoveredCount(q, e) ==
  LET covered(i) == TCP_SEQ_GEQ(e, InEnd(q[i])) IN Leading(Len(q), covered)

(* Put s in front of q: what s covers goes (its FIN moves to s), and s ends *)
(* where the rest begins.  Used by tcp_oos_insert_segment and, for the      *)
(* in-order segment, by tcp_receive.                                        *)
Absorb(s, q, e) ==
  LET mark(k) == IF \E i \in 1 .. k : "FIN" \in q[i].flags
                 THEN [s EXCEPT !.flags = @ \cup {"FIN"}] ELSE s
      front(s1, rest) == IF rest # <<>> /\ TCP_SEQ_GT(InEnd(s), Head(rest).seqno)
                         THEN Cut(s1, SeqSub(Head(rest).seqno, s.seqno)) ELSE s1
      join(s1, rest) == <<front(s1, rest)>> \o rest
      skip(k) == join(mark(k), SubSeq(q, k + 1, Len(q)))
  IN  IF "FIN" \in s.flags THEN <<s>> ELSE skip(CoveredCount(q, e))

tcp_oos_insert_segment(s, q) == Absorb(s, q, InEnd(s))

(* Where an out-of-order segment goes on ooseq.  Only a segment appended   *)
(* to a non-empty queue is trimmed to the receive window.                  *)
OoseqInsert(p, s) ==
  LET q    == p.ooseq
      o    == [seqno |-> s.seqno, data |-> s.data, flags |-> s.flags \cap {"FIN"}]
      edge == SeqAdd(p.rcv_nxt, p.rcv_wnd)
      below(i) == TCP_SEQ_LT(q[i].seqno, s.seqno)
      trim(t) == IF TCP_SEQ_GT(InEnd(t), s.seqno)
                 THEN Cut(t, SeqSub(s.seqno, t.seqno)) ELSE t
      before(k) == [m \in 1 .. k |-> IF m = k THEN trim(q[m]) ELSE q[m]]
      last   == IF TCP_SEQ_GT(SeqAdd(s.seqno, InLen(s)), edge)
                THEN [Cut(o, SeqSub(edge, s.seqno)) EXCEPT !.flags = {}] ELSE o
      put(k) ==    \* behind the k segments below s
        LET same == k < Len(q) /\ q[k + 1].seqno = s.seqno
            held == same /\ Len(s.data) <= Len(q[k + 1].data)
        IN  CASE q = <<>> -> <<o>>
              [] held -> q
              [] k < Len(q) /\ ~held ->
                   (IF same THEN SubSeq(q, 1, k) ELSE before(k))
                   \o tcp_oos_insert_segment(o, SubSeq(q, k + 1, Len(q)))
              [] k = Len(q) /\ q # <<>> /\ "FIN" \in Last(q).flags -> q
              [] OTHER -> Append(before(k), last)
  IN  put(Leading(Len(q), below))

(* Segments at the head of ooseq that continue the stream at n. *)
ContigCount(q, n) ==
  LET next(i) == q[i].seqno = SeqAdd(n, SumOver(SubSeq(q, 1, i - 1), InLen))
  IN  Leading(Len(q), next)

(* The first k segments of q come into sequence, the others stay on ooseq. *)
Deliver(c, q, k) ==
  LET fin(i) == \E j \in i .. k : "FIN" \in q[j].flags
      then(run, len) ==
        tcp_ack([c EXCEPT
          !.p = tcp_update_rcv_ann_wnd([@ EXCEPT
                   !.rcv_nxt = SeqAdd(q[1].seqno, len), !.rcv_wnd = U16Sub(@, len),
                   !.ooseq = SubSeq(q, k + 1, Len(q)),
                   !.state = IF fin(2) /\ @ = "ESTABLISHED" THEN "CLOSE_WAIT" ELSE @]),
          !.rdata = FoldLeft(LAMBDA d, t : d \o t.data, <<>>, run),
          !.rf = IF fin(1) THEN @ \cup {"GOT_FIN"} ELSE @])
      sum(run) == then(run, SumOver(run, InLen))
  IN  sum(SubSeq(q, 1, k))

InOrder(c, s) ==
  LET p == c.p
      end(t) == SeqAdd(t.seqno, InLen(t))
      fit    == IF InLen(s) > p.rcv_wnd
                THEN [Cut(s, Least(Len(s.data), p.rcv_wnd)) EXCEPT !.flags = @ \ {"FIN"}] ELSE s
      absorb(t) == IF p.ooseq = <<>> THEN <<t>> ELSE Absorb(t, p.ooseq, end(t))
      pass(q)   == Deliver(c, q, 1 + ContigCount(Tail(q), end(q[1])))
  IN  pass(absorb(fit))

ReceiveData(c, s0) ==
  LET p   == c.p
      end == SeqAdd(s0.seqno, InLen(s0))
      off == SeqSub(p.rcv_nxt, s0.seqno)
      overlap == TCP_SEQ_BETWEEN(p.rcv_nxt, SeqAdd(s0.seqno, 1), SeqSub(end, 1))
      s   == IF overlap THEN [s0 EXCEPT !.seqno = p.rcv_nxt,
                                        !.data = SubSeq(@, off + 1, Len(@))] ELSE s0
      c1  == IF ~overlap /\ TCP_SEQ_LT(s.seqno, p.rcv_nxt) THEN tcp_ack_now(c) ELSE c
  IN  IF ~TCP_SEQ_BETWEEN(s.seqno, p.rcv_nxt, SeqAdd(p.rcv_nxt, p.rcv_wnd - 1))
      THEN tcp_send_empty_ack(c1)
      ELSE IF s.seqno = p.rcv_nxt THEN InOrder(c1, s)
      ELSE tcp_send_empty_ack(IF "seg" \in c.fail THEN c1
                              ELSE [c1 EXCEPT !.p.ooseq = OoseqInsert(p, s)])

tcp_receive(c, s) ==
  LET then(d, p) ==
        IF InLen(s) > 0 /\ p.state \in {"ESTABLISHED", "FIN_WAIT_1", "FIN_WAIT_2"}
        THEN ReceiveData(d, s)
        ELSE IF ~TCP_SEQ_BETWEEN(s.seqno, p.rcv_nxt, SeqAdd(p.rcv_nxt, p.rcv_wnd - 1))
        THEN tcp_ack_now(d) ELSE d
      data(d) == then(d, d.p)
  IN  data(IF "ACK" \in s.flags THEN ReceiveAck(c, s) ELSE c)

-----------------------------------------------------------------------------
(* The state machine.                                                      *)
RstReply(c, s) == tcp_rst(c, s.ackno, SeqAdd(s.seqno, InLen(s)), c.p.wnd_max)

EnterTimeWait(c) == [tcp_pcb_purge(c) EXCEPT !.p.state = "TIME_WAIT"]

(* The SYN,ACK of our SYN: the head segment is the SYN, wherever it is queued. *)
SynAcked(c, s, cb) ==
  LET p    == c.p
      inFlight == p.unacked # <<>>
      una  == IF inFlight THEN Tail(p.unacked) ELSE p.unacked
      p1   == [p EXCEPT
                 !.rcv_nxt = SeqAdd(s.seqno, 1), !.rcv_ann_right_edge = SeqAdd(s.seqno, 1),
                 !.lastack = s.ackno, !.snd_wnd = s.wnd, !.snd_wnd_max = s.wnd,
                 !.snd_wl1 = SeqSub(s.seqno, 1), !.state = "ESTABLISHED", !.mss = TCP_MSS,
                 !.cwnd = LWIP_TCP_CALC_INITIAL_CWND(TCP_MSS), !.snd_queuelen = @ - 1,
                 !.unacked = una, !.unsent = IF inFlight THEN @ ELSE Tail(@),
                 !.rtimer = una # <<>>, !.nrtx = IF una # <<>> THEN 0 ELSE @]
      c1   == [c EXCEPT !.p = p1]
  IN  IF cb.conn = "abort" THEN Ret(AbortedByApp(c1), "ERR_ABRT") ELSE tcp_ack_now(c1)

(* The ACK of our SYN,ACK: accept callback, then any data the segment carries. *)
SynRcvdAcked(c, s, cb) ==
  LET c0 == [c EXCEPT !.p.state = "ESTABLISHED"]
      open(r) == [r EXCEPT !.racked = IF @ # 0 THEN @ - 1 ELSE 0,
                           !.p.cwnd = LWIP_TCP_CALC_INITIAL_CWND(r.p.mss)]
      fin(r)  == IF "GOT_FIN" \in r.rf THEN tcp_ack_now([r EXCEPT !.p.state = "CLOSE_WAIT"]) ELSE r
  IN  IF cb.conn = "abort" THEN Ret(tcp_abort(c0), "ERR_ABRT")
      ELSE fin(open(tcp_receive([c0 EXCEPT !.app.open = TRUE, !.app.born = TRUE], s)))

(* SYN_SENT, SYN_RCVD *)
ProcessOpening(c, s, cb) ==
  LET p == c.p
      rexmit == tcp_rexmit_rto([RstReply(c, s) EXCEPT !.p.rtimer = TRUE])
  IN  CASE p.state = "SYN_SENT" /\ {"ACK", "SYN"} \subseteq s.flags
           /\ s.ackno = SeqAdd(p.lastack, 1) -> SynAcked(c, s, cb)
        [] p.state = "SYN_SENT" /\ "ACK" \in s.flags
           /\ ~("SYN" \in s.flags /\ s.ackno = SeqAdd(p.lastack, 1)) ->
             IF p.nrtx < TCP_SYNMAXRTX THEN rexmit ELSE RstReply(c, s)
        [] p.state = "SYN_RCVD" /\ "ACK" \in s.flags ->
             IF TCP_SEQ_BETWEEN(s.ackno, SeqAdd(p.lastack, 1), p.snd_nxt)
             THEN SynRcvdAcked(c, s, cb) ELSE RstReply(c, s)
        [] p.state = "SYN_RCVD" /\ "ACK" \notin s.flags /\ "SYN" \in s.flags
           /\ s.seqno = SeqSub(p.rcv_nxt, 1) -> tcp_rexmit(c)
        [] OTHER -> c

(* ESTABLISHED and the closing states: tcp_receive, then the transition. *)
ProcessOpen(c, s) ==
  LET st == c.p.state
      then(r, now, fin, ours) ==
        CASE st \in {"ESTABLISHED", "CLOSE_WAIT"} /\ fin -> [now EXCEPT !.p.state = "CLOSE_WAIT"]
          [] st = "FIN_WAIT_1" /\ fin /\ ours  -> EnterTimeWait(now)
          [] st = "FIN_WAIT_1" /\ fin /\ ~ours -> [now EXCEPT !.p.state = "CLOSING"]
          [] st = "FIN_WAIT_1" /\ ~fin /\ ours -> [r EXCEPT !.p.state = "FIN_WAIT_2"]
          [] st = "FIN_WAIT_2" /\ fin  -> EnterTimeWait(now)
          [] st = "CLOSING" /\ ours    -> EnterTimeWait(r)
          [] st = "LAST_ACK" /\ ours   -> [r EXCEPT !.rf = @ \cup {"CLOSED"}]
          [] OTHER -> r
      received(r) == then(r, tcp_ack_now(r), "GOT_FIN" \in r.rf,
                          "ACK" \in s.flags /\ s.ackno = r.p.snd_nxt /\ r.p.unsent = <<>>)
  IN  received(tcp_receive(c, s))

tcp_process(c, s, cb) ==
  LET p  == c.p
      ok == IF p.state = "SYN_SENT" THEN s.ackno = p.snd_nxt ELSE s.seqno = p.rcv_nxt
      challenge == /\ p.state # "SYN_SENT"
                   /\ TCP_SEQ_BETWEEN(s.seqno, p.rcv_nxt, SeqAdd(p.rcv_nxt, p.rcv_wnd))
      c1 == [c EXCEPT !.p.persist_probe = 0]
  IN  IF "RST" \in s.flags
      THEN IF ok THEN ClrF([c EXCEPT !.rf = @ \cup {"RESET"}], {"ACK_DELAY"})
           ELSE IF challenge THEN tcp_ack_now(c) ELSE c
      ELSE IF "SYN" \in s.flags /\ p.state \notin {"SYN_SENT", "SYN_RCVD"} THEN tcp_ack_now(c)
      ELSE IF p.state \in {"SYN_SENT", "SYN_RCVD"} THEN ProcessOpening(c1, s, cb)
      ELSE ProcessOpen(c1, s)

-----------------------------------------------------------------------------
(* tcp_input, once the pcb has been found on tcp_active_pcbs.              *)
tcp_input_delayed_close(c) ==
  tcp_free(tcp_pcb_remove(IF "RXCLOSED" \in c.p.flags THEN c ELSE TCP_EVENT_ERR(c, "ERR_CLSD")))

(* Variant of PassUp with a seeded bug: EOF overtakes refused data. *)
PassUp_EofFirst(c, cb) ==
  LET fin(d) == IF "GOT_FIN" \in c.rf THEN TCP_EVENT_CLOSED(d, cb) ELSE d
      took(d) == IF d.err = "ERR_ABRT" THEN d
                 ELSE fin(IF d.err = "ERR_OK" THEN d ELSE [d EXCEPT !.p.refused = c.rdata])
  IN  IF c.rdata = <<>> THEN fin(c)
      ELSE IF "RXCLOSED" \in c.p.flags THEN tcp_abort(c)
      ELSE took(TCP_EVENT_RECV(c, c.rdata, cb))

(* Received data goes to the application, which may refuse it; then EOF. *)
PassUp(c, cb) ==
  LET fin(d) == IF "GOT_FIN" \notin c.rf THEN d
                ELSE IF d.p.refused # <<>> THEN [d EXCEPT !.p.refused_fin = TRUE]
                ELSE TCP_EVENT_CLOSED(d, cb)
      took(d) == IF d.err = "ERR_ABRT" THEN d
                 ELSE fin(IF d.err = "ERR_OK" THEN d ELSE [d EXCEPT !.p.refused = c.rdata])
  IN  IF c.rdata = <<>> THEN fin(c)
      ELSE IF "RXCLOSED" \in c.p.flags THEN tcp_abort(c)
      ELSE took(TCP_EVENT_RECV(c, c.rdata, cb))

(* When the callback of refused data frees the pcb, what tcp_input reads   *)
(* and sends from the freed memory no longer belongs to this connection.   *)
ActiveInput(c, s, cb) ==
  LET sent(d) == IF d.gone THEN d
                 ELSE IF "CLOSED" \in d.rf THEN tcp_input_delayed_close([d EXCEPT !.busy = FALSE])
                 ELSE tcp_output([d EXCEPT !.busy = FALSE])
      done(d) == IF d.gone THEN d
                 ELSE IF "RESET" \in d.rf
                 THEN tcp_free(tcp_pcb_remove(TCP_EVENT_ERR(d, "ERR_RST")))
                 ELSE IF "CLOSED" \in d.rf THEN tcp_input_delayed_close(d)
                 ELSE sent(PassUp(d, cb))
      full(d) == d.err = "ERR_INPROGRESS" /\ InLen(s) > 0
      process(d) ==
        IF c.p.refused # <<>> /\ (d.gone \/ full(d))
        THEN IF full(d) /\ d.p.rcv_ann_wnd = 0 THEN tcp_send_empty_ack(d) ELSE d
        ELSE done(tcp_process([d EXCEPT !.busy = TRUE, !.err = "ERR_OK"], s, cb))
  IN  process(IF c.p.refused = <<>> THEN c ELSE tcp_process_refused_data(c, cb))

(* Segments for a pcb in TIME_WAIT, for a listener, and for nobody. *)
tcp_timewait_input(c, s) ==
  IF "RST" \in s.flags THEN c
  ELSE IF "SYN" \in s.flags
          /\ TCP_SEQ_BETWEEN(s.seqno, c.p.rcv_nxt, SeqAdd(c.p.rcv_nxt, c.p.rcv_wnd))
  THEN RstReply(c, s)
  ELSE IF InLen(s) > 0 THEN tcp_output(tcp_ack_now(c)) ELSE c

tcp_listen_input(c, s, wnd, iss) ==
  LET p0 == [tcp_alloc(wnd) EXCEPT
               !.state = "SYN_RCVD", !.rcv_nxt = SeqAdd(s.seqno, 1),
               !.rcv_ann_right_edge = SeqAdd(s.seqno, 1), !.snd_wl2 = iss, !.snd_nxt = iss,
               !.lastack = iss, !.snd_lbb = iss, !.snd_wl1 = SeqSub(s.seqno, 1),
               !.snd_wnd = s.wnd, !.snd_wnd_max = s.wnd, !.mss = TCP_MSS]
      c1 == tcp_enqueue_flags([c EXCEPT !.p = p0], {"SYN", "ACK"})
  IN  IF "RST" \in s.flags THEN c
      ELSE IF "ACK" \in s.flags THEN tcp_rst(c, s.ackno, SeqAdd(s.seqno, InLen(s)), wnd)
      ELSE IF "SYN" \notin s.flags \/ "pcb" \in c.fail THEN c
      ELSE IF c1.err # "ERR_OK" THEN tcp_free(tcp_pcb_remove(c1))
      ELSE tcp_output(c1)

NoPcbInput(c, s, wnd) ==
  IF "RST" \in s.flags THEN c ELSE tcp_rst(c, s.ackno, SeqAdd(s.seqno, InLen(s)), wnd)
=============================================================================

------------------------------- MODULE TcpOut -------------------------------
(***************************************************************************)
(* tcp_out.c: the output half of lwIP's TCP, as functions on a context c   *)
(* that a handler threads through the calls it makes:                      *)
(*    c.p     the tcp_pcb                                                  *)
(*    c.out   the segments handed to ip_output_if so far                   *)
(*    c.busy  tcp_input_pcb == pcb: called from within tcp_input           *)
(*    c.fail  what fails during this handler: "seg" (pbuf or tcp_seg of    *)
(*            queued data), "ctl" (header pbuf of a control segment),      *)
(*            "rte" (no route), "ip" (ip_output_if returns an error),      *)
(*            "ip2" (it does so from the second queued segment on),        *)
(*            "busy" (the driver still holds a queued segment's pbufs)     *)
(*    c.err   result of the last call                                      *)
(* A queued segment is [seqno, flags, p]; p is its pbuf chain, one         *)
(* sequence of payload bytes per pbuf.  A byte is its stream position.     *)
(***************************************************************************)
EXTENDS Integers, Sequences, SequencesExt

CONSTANTS SeqSpace,           \* number of sequence numbers, 2^32 in the code
          TCP_SND_QUEUELEN,   \* most pbufs on unsent and unacked
          U16                 \* 2^16: sizes and windows are u16_t

(* Sequence numbers are unsigned words that wrap, compared by the sign of  *)
(* their difference (tcp_priv.h).  The width is a parameter, so that TLC   *)
(* can start a connection a few bytes before the wrap.                     *)
ASSUME SeqSpaceAssumption == SeqSpace \in Nat \ {0} /\ SeqSpace % 2 = 0

Half == SeqSpace \div 2

SeqNo == 0 .. SeqSpace - 1

(* u32_t arithmetic. *)
SeqAdd(a, n) == (a + n) % SeqSpace
SeqSub(a, b) == (a - b) % SeqSpace

(* (s32_t)(a - b) < 0, <= 0, > 0, >= 0 *)
TCP_SEQ_LT(a, b)  == SeqSub(a, b) >= Half
TCP_SEQ_LEQ(a, b) == SeqSub(a, b) = 0 \/ SeqSub(a, b) >= Half
TCP_SEQ_GT(a, b)  == SeqSub(a, b) # 0 /\ SeqSub(a, b) < Half
TCP_SEQ_GEQ(a, b) == SeqSub(a, b) < Half
TCP_SEQ_BETWEEN(a, b, c) == TCP_SEQ_GEQ(a, b) /\ TCP_SEQ_LEQ(a, c)

SeqMax(a, b) == IF TCP_SEQ_LT(a, b) THEN b ELSE a

-----------------------------------------------------------------------------

U16Sub(a, b) == (a - b) % U16

Least(a, b) == IF a <= b THEN a ELSE b
Most(a, b)  == IF a >= b THEN a ELSE b

(* A loop over 1 .. n that stops at the first i that is not ok. *)
Leading(n, ok(_)) ==
  CHOOSE k \in 0 .. n : (\A i \in 1 .. k : ok(i)) /\ (k < n => ~ok(k + 1))

Payload(s)  == FlattenSeq(s.p)
SegLen(s)   == Len(Payload(s))
TCP_TCPLEN(s) == SegLen(s) + (IF s.flags \cap {"SYN", "FIN"} # {} THEN 1 ELSE 0)
pbuf_clen(s)  == Len(s.p)

SetF(c, F) == [c EXCEPT !.p.flags = @ \cup F]
ClrF(c, F) == [c EXCEPT !.p.flags = @ \ F]
Ret(c, e)  == [c EXCEPT !.err = e]

(* pbuf_realloc: keep the first n payload bytes, free the pbufs after them. *)
pbuf_realloc(chain, n) ==
  LET before(i) == Len(FlattenSeq(SubSeq(chain, 1, i - 1)))
      last      == CHOOSE i \in 1 .. Len(chain) :
                      /\ before(i) + Len(chain[i]) >= n
                      /\ \A j \in 1 .. i - 1 : before(j) + Len(chain[j]) < n
  IN  [i \in 1 .. last |-> SubSeq(chain[i], 1, Least(Len(chain[i]), n - before(i)))]

(* Variant of InsertSorted with a seeded bug: always at the front. *)
InsertSorted_Front(q, s) == <<s>> \o q

(* A segment inserted where the loops of tcp_output and tcp_rexmit put it: *)
(* before the first one that is not below it.                              *)
InsertSorted(q, s) ==
  LET below(i) == TCP_SEQ_LT(q[i].seqno, s.seqno)
  IN  InsertAt(q, Leading(Len(q), below) + 1, s)

-----------------------------------------------------------------------------
(* Control segments: tcp_output_alloc_header, tcp_output_control_segment.  *)
tcp_output_control_segment(c, seqno, flags, data) ==
  LET p  == c.p
      c1 == [c EXCEPT !.p.rcv_ann_right_edge = SeqAdd(p.rcv_nxt, p.rcv_ann_wnd)]
      s  == [seqno |-> seqno, ackno |-> p.rcv_nxt, wnd |-> p.rcv_ann_wnd,
             flags |-> flags, data |-> data]
  IN  IF "ctl" \in c.fail THEN Ret(c, "ERR_BUF")
      ELSE IF c.fail \cap {"ip", "rte"} # {} THEN Ret(c1, "ERR_RTE")
      ELSE Ret([c1 EXCEPT !.out = Append(@, s)], "ERR_OK")

tcp_send_empty_ack(c) ==
  LET then(c1) == IF c1.err = "ERR_OK" THEN ClrF(c1, {"ACK_DELAY", "ACK_NOW"})
                                       ELSE SetF(c1, {"ACK_DELAY", "ACK_NOW"})
  IN  then(tcp_output_control_segment(c, c.p.snd_nxt, {"ACK"}, <<>>))

tcp_keepalive(c) ==
  tcp_output_control_segment(c, SeqSub(c.p.snd_nxt, 1), {"ACK"}, <<>>)

(* A reset needs no pcb; it advertises the full window.                    *)
tcp_rst(c, seqno, ackno, wnd) ==
  IF c.fail \cap {"ctl", "ip", "rte"} # {} THEN c
  ELSE [c EXCEPT !.out = Append(@, [seqno |-> seqno, ackno |-> ackno, wnd |-> wnd,
                                    flags |-> {"RST", "ACK"}, data |-> <<>>])]

(* One sequence number beyond the closed window: the FIN, or the first     *)
(* byte of the head of unsent (which stays on the queue).                  *)
tcp_zero_window_probe(c) ==
  IF c.p.unsent = <<>> THEN Ret(c, "ERR_OK")
  ELSE LET seg   == Head(c.p.unsent)
           isFin == "FIN" \in seg.flags /\ SegLen(seg) = 0
           nxt   == SeqMax(c.p.snd_nxt, SeqAdd(seg.seqno, 1))
           c1    == [c EXCEPT !.p.persist_probe = @ + 1]
           c2    == IF "ctl" \in c.fail THEN c1 ELSE [c1 EXCEPT !.p.snd_nxt = nxt]
       IN  tcp_output_control_segment(c2, seg.seqno,
                IF isFin THEN {"ACK", "FIN"} ELSE {"ACK"},
                IF isFin THEN <<>> ELSE SubSeq(Payload(seg), 1, 1))

-----------------------------------------------------------------------------
(* tcp_write: queue bytes on unsent, with TCP_WRITE_FLAG_COPY, as the      *)
(* socket layer calls it.  The branches for referenced data, which chain a *)
(* pbuf of the caller's memory behind the header, are left out.            *)
tcp_write_checks(p, len) ==
  IF p.state \notin {"ESTABLISHED", "CLOSE_WAIT", "SYN_SENT", "SYN_RCVD"} THEN "ERR_CONN"
  ELSE IF len > p.snd_buf \/ p.snd_queuelen >= TCP_SND_QUEUELEN THEN "ERR_MEM"
  ELSE "ERR_OK"

(* Variant of tcp_pbuf_prealloc with a seeded bug: the bytes used are not deducted. *)
tcp_pbuf_prealloc_Full(p, len, max, more, first) == IF len < max THEN max ELSE 0

(* Spare room allocated behind len bytes in a pbuf that may hold max. *)
tcp_pbuf_prealloc(p, len, max, more, first) ==
  IF len < max /\ (more \/ ( /\ "NODELAY" \notin p.flags
                             /\ (~first \/ p.unsent # <<>> \/ p.unacked # <<>>)))
  THEN max - len ELSE 0

(* No segment is larger than half the largest window ever received.        *)
mss_local(p) ==
  LET m == Least(p.mss, p.snd_wnd_max \div 2) IN IF m = 0 THEN p.mss ELSE m

(* Phases 1 and 2, for the last unsent segment: used bytes fill its spare  *)
(* room, and cat bytes go into a pbuf chained to it that may hold space.   *)
Fill(p, len, mss) ==
  LET tail  == Last(p.unsent)
      room  == U16Sub(mss, SegLen(tail))
      used  == Least(room, Least(p.unsent_oversize, len))
      space == U16Sub(room, used)
  IN  IF p.unsent = <<>> THEN [used |-> 0, cat |-> 0, space |-> 0]
      ELSE [used |-> used, space |-> space,
            cat |-> IF used < len /\ space > 0 /\ SegLen(tail) > 0
                    THEN Least(space, len - used) ELSE 0]

FillTail(q, data, f) ==
  LET chain == Last(q).p
      full  == [chain EXCEPT ![Len(chain)] = @ \o SubSeq(data, 1, f.used)]
      more  == SubSeq(data, f.used + 1, f.used + f.cat)
  IN  IF q = <<>> THEN q
      ELSE [q EXCEPT ![Len(q)].p = IF f.cat > 0 THEN Append(full, more) ELSE full]

(* Phase 3: what is left after pos bytes, in new segments. *)
NewSegments(p, data, pos, mss) ==
  LET from(i) == pos + (i - 1) * mss
  IN  [i \in 1 .. (Len(data) - pos + mss - 1) \div mss |->
         [seqno |-> SeqAdd(p.snd_lbb, from(i)), flags |-> {},
          p |-> <<SubSeq(data, from(i) + 1, Least(from(i) + mss, Len(data)))>>]]

(* Nothing is committed unless all three phases succeed. *)
tcp_write(c, data, more) ==
  LET p     == c.p
      len   == Len(data)
      mss   == mss_local(p)
      check == tcp_write_checks(p, len)
      over(f, new) ==
        IF new # <<>> THEN tcp_pbuf_prealloc(p, SegLen(Last(new)), mss, more, Len(new) = 1)
        ELSE IF f.cat > 0 THEN tcp_pbuf_prealloc(p, f.cat, f.space, more, TRUE)
        ELSE IF p.unsent # <<>> THEN p.unsent_oversize - f.used ELSE 0
      commit(f, new, qlen) ==
        IF (new # <<>> /\ qlen > TCP_SND_QUEUELEN)
           \/ (Len(new) + f.cat > 0 /\ "seg" \in c.fail)
        THEN Ret(SetF(c, {"NAGLEMEMERR"}), "ERR_MEM")
        ELSE Ret([c EXCEPT !.p = [p EXCEPT !.unsent = FillTail(@, data, f) \o new,
                                           !.unsent_oversize = over(f, new),
                                           !.snd_lbb = SeqAdd(@, len),
                                           !.snd_buf = @ - len,
                                           !.snd_queuelen = qlen]], "ERR_OK")
      queue(f, new) == commit(f, new, p.snd_queuelen + (IF f.cat > 0 THEN 1 ELSE 0) + Len(new))
      rest(f) == queue(f, NewSegments(p, data, f.used + f.cat, mss))
  IN  IF check = "ERR_OK" THEN rest(Fill(p, len, mss))
      ELSE Ret(IF check = "ERR_MEM" THEN SetF(c, {"NAGLEMEMERR"}) ELSE c, check)

(* Split the head of unsent so that its first part has split bytes.  The   *)
(* flags are meant to move to the remainder; TCPH_SET_FLAG only adds flags *)
(* to the head, so a FIN stays on it too.                                  *)
tcp_split_unsent_seg(c, split) ==
  LET p    == c.p
      useg == Head(p.unsent)
      both(head, rem) ==
        [p EXCEPT !.unsent = <<head, rem>> \o Tail(@),
                  !.snd_queuelen = @ - pbuf_clen(useg) + pbuf_clen(head) + pbuf_clen(rem),
                  !.unsent_oversize = IF Len(p.unsent) = 1 THEN 0 ELSE @]
  IN  IF p.unsent = <<>> THEN Ret(c, "ERR_MEM")
      ELSE IF split = 0 THEN Ret(c, "ERR_VAL")
      ELSE IF SegLen(useg) <= split THEN Ret(c, "ERR_OK")
      ELSE IF "seg" \in c.fail THEN Ret(c, "ERR_MEM")
      ELSE Ret([c EXCEPT !.p = both(
                  [useg EXCEPT !.p = pbuf_realloc(@, split)],
                  [seqno |-> SeqAdd(useg.seqno, split), flags |-> useg.flags \cap {"FIN"},
                   p |-> <<SubSeq(Payload(useg), split + 1, SegLen(useg))>>])], "ERR_OK")

tcp_enqueue_flags(c, flags) ==
  LET p   == c.p
      seg == [seqno |-> p.snd_lbb, flags |-> flags, p |-> <<<<>>>>]
  IN  IF "seg" \in c.fail THEN Ret(SetF(c, {"NAGLEMEMERR"}), "ERR_MEM")
      ELSE Ret([c EXCEPT !.p = [p EXCEPT
                  !.unsent = Append(@, seg),
                  !.unsent_oversize = 0,
                  !.snd_lbb = SeqAdd(@, 1),
                  !.flags = @ \cup (flags \cap {"FIN"}),
                  !.snd_queuelen = @ + 1]], "ERR_OK")

tcp_send_fin(c) ==
  IF c.p.unsent # <<>> /\ Last(c.p.unsent).flags \cap {"SYN", "FIN"} = {}
  THEN Ret(SetF([c EXCEPT !.p.unsent[Len(c.p.unsent)].flags = @ \cup {"FIN"}], {"FIN"}), "ERR_OK")
  ELSE tcp_enqueue_flags(c, {"FIN"})

-----------------------------------------------------------------------------
(* tcp_output: send what the windows and Nagle's algorithm allow.          *)

(* The head's end lies within wnd of lastack (u32_t arithmetic). *)
Fits(p, s, wnd) == SeqSub(SeqAdd(s.seqno, SegLen(s)), p.lastack) <= wnd

(* tcp_do_output_nagle when the first i - 1 unsent segments have gone.     *)
tcp_do_output_nagle(p, i) ==
  \/ p.unacked = <<>> /\ i = 1
  \/ p.flags \cap {"NODELAY", "INFR"} # {}
  \/ i < Len(p.unsent)
  \/ SegLen(p.unsent[i]) >= p.mss
  \/ p.snd_buf = 0
  \/ p.snd_queuelen >= TCP_SND_QUEUELEN

(* How many segments the sending loop gets through.                        *)
SendCount(p, wnd) ==
  LET ok(i) == /\ Fits(p, p.unsent[i], wnd)
               /\ \/ tcp_do_output_nagle(p, i)
                  \/ p.flags \cap {"NAGLEMEMERR", "FIN"} # {}
  IN  Leading(Len(p.unsent), ok)

(* One pass of tcp_output_segment: fields that every segment sent updates. *)
tcp_output_segment(p) ==
  [p EXCEPT !.rcv_ann_right_edge = SeqAdd(p.rcv_nxt, p.rcv_ann_wnd), !.rtimer = TRUE]

(* The loop moves k segments from unsent to unacked.                       *)
SendSegments(c, k) ==
  LET p    == c.p
      acks == IF p.state = "SYN_SENT" THEN {} ELSE {"ACK"}
      sent == SubSeq(p.unsent, 1, k)
      wire == [i \in 1 .. k |->
                 [seqno |-> sent[i].seqno, ackno |-> p.rcv_nxt, wnd |-> p.rcv_ann_wnd,
                  flags |-> sent[i].flags \cup acks, data |-> Payload(sent[i])]]
      ends == {SeqAdd(sent[i].seqno, TCP_TCPLEN(sent[i])) : i \in 1 .. k}
      last(S) == CHOOSE m \in S : \A e \in S : TCP_SEQ_LEQ(e, m)
  IN  [c EXCEPT
         !.out = @ \o wire,
         !.p = [tcp_output_segment(p) EXCEPT
            !.unsent = SubSeq(@, k + 1, Len(@)),
            !.unacked = FoldLeft(InsertSorted, @, sent),
            !.snd_nxt = last(ends \cup {@}),
            !.unsent_oversize = IF k = Len(p.unsent) THEN 0 ELSE @,
            !.flags = IF p.state = "SYN_SENT" THEN @ ELSE @ \ {"ACK_DELAY", "ACK_NOW"}]]

(* Variants of PersistStarts with a seeded bug: data in flight is ignored; and *)
(* the timer is left to the retransmission timer, which needs data in flight. *)
PersistStarts_InFlight(p, wnd) == wnd = p.snd_wnd /\ p.persist_backoff = 0
PersistStarts_Swapped(p, wnd)  == wnd = p.snd_wnd /\ p.unacked # <<>> /\ p.persist_backoff = 0

(* The head does not fit: the persist timer starts if nothing is in flight *)
(* and it is the receiver's window that is too small.                      *)
PersistStarts(p, wnd) == wnd = p.snd_wnd /\ p.unacked = <<>> /\ p.persist_backoff = 0

tcp_output(c) ==
  LET p    == c.p
      wnd  == Least(p.snd_wnd, p.cwnd)
      done(d) == Ret(ClrF(d, {"NAGLEMEMERR"}), "ERR_OK")
      idle(d) == IF "ACK_NOW" \in p.flags THEN tcp_send_empty_ack(d) ELSE done(d)
      broken(d) == Ret(SetF([d EXCEPT !.p = tcp_output_segment(@)], {"NAGLEMEMERR"}), "ERR_IF")
      send(d, k) ==
        IF k > 0 /\ "ip" \in c.fail THEN broken(d)
        ELSE IF k > 1 /\ "ip2" \in c.fail THEN broken(SendSegments(d, 1))
        ELSE done(IF k = 0 THEN d ELSE SendSegments(d, k))
  IN  IF c.busy THEN Ret(c, "ERR_OK")
      ELSE IF p.unsent # <<>> /\ "rte" \in c.fail THEN Ret(c, "ERR_RTE")
      ELSE IF p.unsent # <<>> /\ Fits(p, Head(p.unsent), wnd)
      THEN send([c EXCEPT !.p.persist_backoff = 0], SendCount(p, wnd))
      ELSE idle(IF p.unsent # <<>> /\ PersistStarts(p, wnd)
                THEN [c EXCEPT !.p.persist_backoff = 1, !.p.persist_probe = 0] ELSE c)

-----------------------------------------------------------------------------
(* Retransmission.                                                         *)
tcp_rexmit_rto_prepare(c) ==
  LET p == c.p IN
  IF p.unacked = <<>> \/ "busy" \in c.fail THEN Ret(c, "ERR_VAL")
  ELSE Ret([c EXCEPT !.p = [p EXCEPT
              !.unsent = p.unacked \o @, !.unacked = <<>>, !.flags = @ \cup {"RTO"},
              !.rto_end = SeqAdd(Last(p.unacked).seqno, TCP_TCPLEN(Last(p.unacked)))]], "ERR_OK")

tcp_rexmit_rto_commit(c) == tcp_output([c EXCEPT !.p.nrtx = @ + 1])

tcp_rexmit_rto(c) ==
  LET then(c1) == IF c1.err = "ERR_OK" THEN tcp_rexmit_rto_commit(c1) ELSE c1
  IN  then(tcp_rexmit_rto_prepare(c))

(* The first unacked segment goes back to unsent; the caller is tcp_input, *)
(* whose tcp_output will send it.                                          *)
tcp_rexmit(c) ==
  LET p == c.p
      back(q) == [p EXCEPT !.unacked = Tail(@), !.unsent = q, !.nrtx = @ + 1,
                           !.unsent_oversize = IF Last(q) = Head(p.unacked) THEN 0 ELSE @]
  IN  IF p.unacked = <<>> \/ "busy" \in c.fail THEN Ret(c, "ERR_VAL")
      ELSE Ret([c EXCEPT !.p = back(InsertSorted(p.unsent, Head(p.unacked)))], "ERR_OK")

tcp_rexmit_fast(c) ==
  LET ss == Most(Least(c.p.cwnd, c.p.snd_wnd) \div 2, 2 * c.p.mss)
      then(c1) == IF c1.err # "ERR_OK" THEN c
                  ELSE SetF([c1 EXCEPT !.p.ssthresh = ss, !.p.cwnd = ss + 3 * c.p.mss,
                                       !.p.rtimer = TRUE], {"INFR"})
  IN  IF c.p.unacked = <<>> \/ "INFR" \in c.p.flags THEN c ELSE then(tcp_rexmit(c))
=============================================================================

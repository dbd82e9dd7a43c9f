------------------------------ MODULE TcpConn -------------------------------
(***************************************************************************)
(* Two lwIP hosts and one connection between them over a network that      *)
(* reorders, duplicates and loses segments.  Each host runs the code of    *)
(* TcpIn, TcpCtl and TcpOut in its tcpip thread: every API call, timer and *)
(* incoming segment is one atomic handler.                                 *)
(***************************************************************************)
EXTENDS TcpIn, FiniteSets

CONSTANTS
  WndA, WndB,        \* TCP_WND of each host
  IssA, IssB,        \* tcp_next_iss of each host
  BytesA, BytesB,    \* how many bytes each application wants to write
  MaxWrite,          \* most bytes in one tcp_write call
  MoreFlags,         \* values of its TCP_WRITE_FLAG_MORE
  CallsA, CallsB,    \* the API calls each application makes
  RecvCbs, ConnCbs, EofCbs,   \* what the callbacks do, see TcpCtl
  Fails,             \* the sets of failures a handler may meet, see TcpOut
  Timers,            \* the sets of timers that may expire in one slow tick
  Patient,           \* timers wait until the network is empty
  NetCap,            \* most segments on the network
  MaxFaults          \* segments lost, deliveries repeated and failing handlers, together

VARIABLES
  host,     \* host[h] = [p, app]; app.born: the application has had its pcb
            \* (A connects once, B closes its listener once it has accepted)
  net,      \* segments on the way, [to, seg]
  faults    \* how much of MaxFaults is spent

vars == <<host, net, faults>>

Hosts   == {"A", "B"}
Peer(h) == IF h = "A" THEN "B" ELSE "A"
Wnd(h)  == IF h = "A" THEN WndA ELSE WndB
Iss(h)  == IF h = "A" THEN IssA ELSE IssB
Calls(h) == IF h = "A" THEN CallsA ELSE CallsB
Bytes(h) == IF h = "A" THEN BytesA ELSE BytesB

(* Choices that tell handlers apart: after a refusal or an abort no further *)
(* callback runs, and connected and accept run while the pcb opens.        *)
Callbacks(h) ==
  {cb \in [recv : RecvCbs, conn : ConnCbs, eof : EofCbs] :
     /\ cb.recv \in {"refuse", "abort"} => cb.eof = "keep"
     /\ cb.conn = "abort" => /\ cb.recv = "recved" /\ cb.eof = "keep"
                            /\ host[h].p.state \in {"SYN_SENT", "SYN_RCVD"}}

Idle == [open |-> FALSE, born |-> FALSE, sent |-> 0, got |-> <<>>, owed |-> 0,
         eof |-> FALSE, err |-> "none"]

(* The context a handler of host h starts with. *)
Enter(h, fail) ==
  [p |-> host[h].p, app |-> host[h].app, out |-> <<>>, busy |-> FALSE, fail |-> fail,
   err |-> "ERR_OK", rf |-> {}, rdata |-> <<>>, racked |-> 0, gone |-> FALSE,
   dup |-> FALSE]

Spend(n) == faults' = faults + n /\ faults' <= MaxFaults

(* The handler returns with context c; rest is what the network keeps. *)
Leave(h, c, rest) ==
  /\ host' = [host EXCEPT ![h] = [p |-> c.p, app |-> c.app]]
  /\ net' = rest \cup {[to |-> Peer(h), seg |-> c.out[i]] : i \in 1 .. Len(c.out)}
  /\ Cardinality(net') <= NetCap
  /\ Spend((IF c.fail = {} THEN 0 ELSE 1) + (IF c.dup THEN 1 ELSE 0))

Holds(h) == host[h].app.open /\ host[h].p.state # "NONE"
Active(h) == host[h].p.state \notin {"NONE", "CLOSED", "TIME_WAIT"}

-----------------------------------------------------------------------------
(* Calls of the application.                                               *)
Connect(h) ==
  /\ h = "A" /\ ~host[h].app.born
  /\ \E fail \in Fails :
       LET c == tcp_connect([Enter(h, fail) EXCEPT !.p = tcp_alloc(Wnd(h)),
                                              !.app.open = TRUE, !.app.born = TRUE], Iss(h))
       IN  Leave(h, c, net)

(* A connect that failed may be repeated with the same pcb. *)
Reconnect(h) ==
  /\ Holds(h) /\ host[h].p.state = "CLOSED"
  /\ \E fail \in Fails : Leave(h, tcp_connect(Enter(h, fail), Iss(h)), net)

Write(h) ==
  /\ "write" \in Calls(h) /\ Holds(h)
  /\ \E n \in 1 .. Least(MaxWrite, Bytes(h) - host[h].app.sent), more \in MoreFlags, fail \in Fails :
       LET from == host[h].app.sent
           then(c) == Leave(h, IF c.err = "ERR_OK" THEN [c EXCEPT !.app.sent = @ + n] ELSE c, net)
       IN  then(tcp_write(Enter(h, fail), [i \in 1 .. n |-> from + i], more))

Output(h) ==
  /\ "write" \in Calls(h) /\ Holds(h)
  /\ \E fail \in Fails : Leave(h, tcp_output(Enter(h, fail)), net)

Recved(h) ==
  /\ Holds(h)
  /\ \E n \in 1 .. host[h].app.owed, fail \in Fails :
       LET c == tcp_recved(Enter(h, fail), n)
       IN  Leave(h, [c EXCEPT !.app.owed = @ - n], net)

Close(h) ==
  /\ "close" \in Calls(h) /\ Holds(h)
  /\ \E fail \in Fails : Leave(h, tcp_close(Enter(h, fail)), net)

(* Shutting down both sides, one after the other, gives the pcb up. *)
Shutdown(h) ==
  LET done(c) == "RXCLOSED" \in c.p.flags /\ c.p.flags \cap {"FIN", "CLOSEPEND"} # {}
      shut(c) == Leave(h, IF done(c) THEN [c EXCEPT !.app.open = FALSE] ELSE c, net)
  IN  /\ Holds(h)
      /\ \/ "shuttx" \in Calls(h) /\ \E fail \in Fails : shut(tcp_shutdown_tx(Enter(h, fail)))
         \/ "shutrx" \in Calls(h) /\ shut(tcp_shutdown_rx(Enter(h, {})))

Abort(h) ==
  /\ "abort" \in Calls(h) /\ Holds(h)
  /\ \E fail \in Fails : Leave(h, AbortedByApp(Enter(h, fail)), net)

-----------------------------------------------------------------------------
(* Timers, which serve the pcbs of tcp_active_pcbs; a pcb in TIME_WAIT is   *)
(* freed after 2 MSL without a word to the application.                    *)
FastCallbacks(h) ==    \* a callback runs for refused data only
  IF host[h].p.refused # <<>> THEN Callbacks(h) ELSE {CHOOSE cb \in Callbacks(h) : TRUE}

FastTmr(h) ==
  /\ Active(h)
  /\ \E fail \in Fails, cb \in FastCallbacks(h) : Leave(h, tcp_fasttmr(Enter(h, fail), cb), net)

(* A keepalive needs a second of silence at the least: by then no segment is *)
(* under way and the fast timer has sent any delayed ACK.                  *)
Elapsed(h, el) ==
  IF net = {} /\ "ACK_DELAY" \notin host[h].p.flags THEN el ELSE el \ {"keep", "keepdead"}

SlowTick(h, el) ==
  /\ Active(h) /\ (Patient => net = {})
  /\ \E fail \in Fails : Leave(h, tcp_slowtmr(Enter(h, fail), Elapsed(h, el)), net)

SlowTmr(h) == \E el \in Timers : SlowTick(h, el)

(* Without TF_NAGLEMEMERR tcp_txnow leaves the pcb alone. *)
TxNow(h) ==
  /\ Active(h) /\ "NAGLEMEMERR" \in host[h].p.flags
  /\ \E fail \in Fails : Leave(h, tcp_txnow(Enter(h, fail)), net)

TimeWaitExpires(h) ==
  /\ host[h].p.state = "TIME_WAIT"
  /\ Leave(h, tcp_free(Enter(h, {})), net)

-----------------------------------------------------------------------------
(* The network.                                                            *)
tcp_input(h, c, s, cb) ==
  IF c.p.state \notin {"NONE", "CLOSED", "TIME_WAIT"} THEN ActiveInput(c, s, cb)
  ELSE IF c.p.state = "TIME_WAIT" THEN tcp_timewait_input(c, s)
  ELSE IF h = "B" /\ ~host[h].app.born THEN tcp_listen_input(c, s, Wnd(h), Iss(h))
  ELSE NoPcbInput(c, s, Wnd(h))

Receive ==
  \E m \in net, fail \in Fails : \E cb \in Callbacks(m.to) :
    Leave(m.to, tcp_input(m.to, Enter(m.to, fail), m.seg, cb), net \ {m})

(* A copy of the segment stays on the network. *)
Duplicate ==
  \E m \in net : \E cb \in Callbacks(m.to) :
    Leave(m.to, [tcp_input(m.to, Enter(m.to, {}), m.seg, cb) EXCEPT !.dup = TRUE], net)

Lose == \E m \in net : net' = net \ {m} /\ Spend(1) /\ UNCHANGED host

-----------------------------------------------------------------------------
Step(h) ==
  \/ Connect(h) \/ Reconnect(h) \/ Write(h) \/ Output(h) \/ Recved(h)
  \/ Close(h) \/ Shutdown(h) \/ Abort(h)
  \/ FastTmr(h) \/ SlowTmr(h) \/ TxNow(h) \/ TimeWaitExpires(h)

Next == Receive \/ Duplicate \/ Lose \/ \E h \in Hosts : Step(h)

(* Before the connection: B listens, A has nothing. *)
InitClosed ==
  /\ host = [h \in Hosts |-> [p |-> NoPcb, app |-> Idle]]
  /\ net = {} /\ faults = 0

(* After the three-way handshake, as SynAcked and SynRcvdAcked leave it. *)
Established(h) ==
  LET una == IF h = "A" THEN IssA ELSE SeqAdd(IssB, 1)
      nxt == IF h = "A" THEN SeqAdd(IssB, 1) ELSE IssA
  IN  [tcp_alloc(Wnd(h)) EXCEPT
         !.state = "ESTABLISHED", !.mss = TCP_MSS, !.rcv_nxt = nxt,
         !.rcv_ann_right_edge = SeqAdd(nxt, Wnd(h)), !.lastack = una, !.snd_nxt = una,
         !.snd_lbb = una, !.snd_wl1 = IF h = "A" THEN SeqSub(IssB, 1) ELSE nxt,
         !.snd_wl2 = IF h = "A" THEN SeqSub(IssA, 1) ELSE una,
         !.snd_wnd = Wnd(Peer(h)), !.snd_wnd_max = Wnd(Peer(h)),
         !.cwnd = LWIP_TCP_CALC_INITIAL_CWND(TCP_MSS)]

InitOpen ==
  /\ host = [h \in Hosts |-> [p |-> Established(h), app |-> [Idle EXCEPT !.open = TRUE, !.born = TRUE]]]
  /\ net = {} /\ faults = 0

SpecClosed == InitClosed /\ [][Next]_vars
SpecOpen   == InitOpen /\ [][Next]_vars

(* The network delivers what it does not lose, timers tick, and the        *)
(* applications push what they have written and report what they have read: *)
(* weak fairness of each, with the enabling condition spelled out (TLC's   *)
(* ENABLED would evaluate the handlers' nested definitions afresh at every *)
(* use).                                                                   *)
Wakes(h, c, rest) ==
  LET after == rest \cup {[to |-> Peer(h), seg |-> c.out[i]] : i \in 1 .. Len(c.out)}
  IN  /\ Cardinality(after) <= NetCap
      /\ <<c.p, c.app, after>> # <<host[h].p, host[h].app, net>>

CanReceive == \E m \in net : \E cb \in Callbacks(m.to) :
  Wakes(m.to, tcp_input(m.to, Enter(m.to, {}), m.seg, cb), net \ {m})
CanFastTmr(h) == Active(h) /\ \E cb \in FastCallbacks(h) : Wakes(h, tcp_fasttmr(Enter(h, {}), cb), net)
CanSlowTick(h, el) ==
  Active(h) /\ (Patient => net = {}) /\ Wakes(h, tcp_slowtmr(Enter(h, {}), Elapsed(h, el)), net)
CanOutput(h) == "write" \in Calls(h) /\ Holds(h) /\ Wakes(h, tcp_output(Enter(h, {})), net)
CanRecved(h) == Holds(h) /\ \E n \in 1 .. host[h].app.owed :
  Wakes(h, [tcp_recved(Enter(h, {}), n) EXCEPT !.app.owed = @ - n], net)

Fairness ==
  /\ []<>~CanReceive \/ []<><<Receive>>_vars
  /\ \A h \in Hosts :
       /\ []<>~CanFastTmr(h) \/ []<><<FastTmr(h)>>_vars
       /\ []<>~CanOutput(h) \/ []<><<Output(h)>>_vars
       /\ []<>~CanRecved(h) \/ []<><<Recved(h)>>_vars
       /\ []<>(host[h].p.state # "TIME_WAIT") \/ []<><<TimeWaitExpires(h)>>_vars
       /\ \A el \in Timers : []<>~CanSlowTick(h, el) \/ []<><<SlowTick(h, el)>>_vars

SpecLive == SpecOpen /\ Fairness

-----------------------------------------------------------------------------
(* B against any peer that keeps to the window it was given, in place of A. *)
(* The peer may send any part of its stream (of BytesA bytes and a FIN) as *)
(* often and in whatever order it likes.                                   *)
PeerSegments ==
  {s \in [seqno : {SeqAdd(IssA, i) : i \in 0 .. BytesA}, ackno : {host["B"].p.snd_nxt},
          wnd : {WndA}, flags : {{"ACK"}, {"ACK", "FIN"}},
          data : {[j \in 1 .. n |-> i + j] : n \in 0 .. MaxWrite, i \in 0 .. BytesA}] :
     LET from == SeqSub(s.seqno, IssA)
     IN  /\ s.data # <<>> => s.data[1] = from + 1
         /\ from + Len(s.data) <= BytesA
         /\ "FIN" \in s.flags => from + Len(s.data) = BytesA
         /\ TCP_SEQ_LEQ(SeqAdd(s.seqno, InLen(s)), host["B"].p.rcv_ann_right_edge)}

(* What B sends is not looked at. *)
Alone(c) == Leave("B", [c EXCEPT !.out = <<>>], {})

PeerSends ==
  \E s \in PeerSegments, fail \in Fails, cb \in Callbacks("B") :
    Alone(tcp_input("B", Enter("B", fail), s, cb))

PeerNext ==
  \/ PeerSends
  \/ \E cb \in FastCallbacks("B") : Active("B") /\ Alone(tcp_fasttmr(Enter("B", {}), cb))
  \/ \E el \in Timers : Active("B") /\ Alone(tcp_slowtmr(Enter("B", {}), el))
  \/ \E n \in 1 .. host["B"].app.owed :
       Holds("B") /\ Alone([tcp_recved(Enter("B", {}), n) EXCEPT !.app.owed = @ - n])

PeerInit ==
  /\ host = [h \in Hosts |-> [p |-> Established(h),
                app |-> [Idle EXCEPT !.open = TRUE, !.born = TRUE,
                                     !.sent = IF h = "A" THEN BytesA ELSE 0]]]
  /\ net = {} /\ faults = 0

SpecPeer == PeerInit /\ [][PeerNext]_vars

-----------------------------------------------------------------------------
(* Properties.                                                             *)
Live(h) == host[h].p.state \notin {"NONE", "CLOSED"}
Synced(h) == Live(h) /\ host[h].p.state \notin {"SYN_SENT", "SYN_RCVD"}
Queued(p) == p.unacked \o p.unsent

(* Sequence number of the first byte that host h writes. *)
Base(h) == IF h = "A" THEN IssA ELSE SeqAdd(IssB, 1)

States == {"NONE", "CLOSED", "SYN_SENT", "SYN_RCVD", "ESTABLISHED", "FIN_WAIT_1",
           "FIN_WAIT_2", "CLOSE_WAIT", "CLOSING", "LAST_ACK", "TIME_WAIT"}

(* Every field stays in the range its C type and the code around it allow. *)
TypeOK ==
  /\ \A h \in Hosts :
       LET p == host[h].p IN
       /\ p.state \in States
       /\ p.flags \subseteq {"ACK_DELAY", "ACK_NOW", "INFR", "CLOSEPEND", "RXCLOSED", "FIN",
                             "NODELAY", "NAGLEMEMERR", "RTO"}
       /\ {p.rcv_nxt, p.rcv_ann_right_edge, p.lastack, p.snd_nxt, p.snd_lbb, p.snd_wl1,
           p.snd_wl2, p.rto_end} \subseteq SeqNo
       /\ p.rcv_wnd \in 0 .. p.wnd_max /\ p.rcv_ann_wnd \in 0 .. p.wnd_max
       /\ p.snd_buf \in 0 .. TCP_SND_BUF /\ p.snd_queuelen \in 0 .. TCP_SND_QUEUELEN + 1
       /\ p.nrtx \in 0 .. 255 /\ p.persist_probe \in 0 .. TCP_MAXRTX
       /\ p.persist_backoff \in 0 .. PERSIST_SLOTS /\ p.dupacks \in 0 .. DUPACKS_MAX
       /\ p.cwnd \in 1 .. CWND_MAX
  /\ Cardinality(net) <= NetCap

(* Whatever the network does to segments, the bytes the recv callback has  *)
(* accepted are the first bytes the peer wrote, each once and in order     *)
(* (tcp_receive: trimming, ooseq; tcp_write and tcp_rexmit on the sender). *)
DeliveredIsPrefix ==
  \A h \in Hosts :
    LET got == host[h].app.got \o host[h].p.refused
    IN  Len(got) <= host[Peer(h)].app.sent /\ \A i \in 1 .. Len(got) : got[i] = i

(* snd_queuelen counts the pbufs on unsent and unacked, and snd_buf the    *)
(* bytes of TCP_SND_BUF that are not on them: tcp_write, tcp_enqueue_flags,*)
(* tcp_split_unsent_seg and tcp_free_acked_segments agree.                 *)
SendAccounting ==
  \A h \in Hosts : Live(h) /\ host[h].p.state # "TIME_WAIT" =>
    LET p == host[h].p IN
    /\ p.snd_queuelen = SumOver(Queued(p), pbuf_clen)
    /\ p.snd_buf + SumOver(Queued(p), SegLen) = TCP_SND_BUF

(* The queued segments are the bytes from the oldest unacknowledged one to *)
(* snd_lbb without a gap or an overlap, both queues are sorted, and the    *)
(* byte at every sequence number is the one written there.                 *)
SendQueuesTile ==
  \A h \in Hosts : Synced(h) =>
    LET p == host[h].p
        q == Queued(p)
        sorted(u) == \A i \in 1 .. Len(u) - 1 : TCP_SEQ_LT(u[i].seqno, u[i + 1].seqno)
    IN  /\ sorted(p.unacked) /\ sorted(p.unsent)
        /\ SumOver(q, TCP_TCPLEN) = SeqSub(SeqMax(p.snd_lbb, p.snd_nxt),
                                           IF q = <<>> THEN SeqMax(p.snd_lbb, p.snd_nxt)
                                           ELSE (CHOOSE s \in Range(q) :
                                                   \A t \in Range(q) : TCP_SEQ_LEQ(s.seqno, t.seqno)).seqno)
        /\ \A i \in 1 .. Len(q) : \A j \in 1 .. SegLen(q[i]) :
             Payload(q[i])[j] = SeqSub(SeqAdd(q[i].seqno, j), Base(h))

(* tcp_write's assertions "inconsistent oversize vs. space" and            *)
(* "unsent_oversize mismatch (pcb->unsent is NULL)".                       *)
OversizeFits ==
  \A h \in Hosts :
    LET p == host[h].p IN
    IF p.unsent = <<>> THEN p.unsent_oversize = 0
    ELSE p.unsent_oversize + SegLen(Last(p.unsent)) <= mss_local(p)

(* tcp_receive keeps ooseq sorted, free of overlaps, of empty segments and *)
(* of wrong bytes, beyond rcv_nxt and with nothing after a FIN.            *)
OoseqSorted ==
  \A h \in Hosts :
    LET p == host[h].p
        q == p.ooseq
    IN  \A i \in 1 .. Len(q) :
          /\ TCP_SEQ_GT(q[i].seqno, p.rcv_nxt) /\ InLen(q[i]) > 0
          /\ i < Len(q) => /\ TCP_SEQ_LEQ(SeqAdd(q[i].seqno, InLen(q[i])), q[i + 1].seqno)
                           /\ "FIN" \notin q[i].flags
          /\ \A j \in 1 .. Len(q[i].data) :
               q[i].data[j] = SeqSub(SeqAdd(q[i].seqno, j), Base(Peer(h)))

(* tcp_slowtmr's assertion "persist ticking with in-flight data": the      *)
(* persist timer and the retransmission timer never run on the same data.  *)
PersistExcludesRto ==
  \A h \in Hosts : host[h].p.persist_backoff > 0 => host[h].p.unacked = <<>>

(* tcp_slowtmr's assertion "persist ticking with empty send buffer".       *)
PersistHasData ==
  \A h \in Hosts : host[h].p.persist_backoff > 0 => host[h].p.unsent # <<>>

(* tcp_receive's assertion "ooseq tcplen > rcv_wnd": a queued segment that     *)
(* comes into sequence fits the window, so the u16_t rcv_wnd never wraps.  *)
OoseqFitsWindow ==
  \A h \in Hosts : host[h].p.rcv_wnd <= host[h].p.wnd_max

(* A host never takes back window it has advertised (tcp_update_rcv_ann_wnd): *)
(* the right edge sent to the peer only moves right while the pcb lives.   *)
WindowNeverShrinks ==
  [][\A h \in Hosts : Synced(h) /\ Synced(h)' =>
       TCP_SEQ_GEQ(host'[h].p.rcv_ann_right_edge, host[h].p.rcv_ann_right_edge)]_vars

(* EOF is the end of the stream: when recv(NULL) is called, every byte the *)
(* peer's tcp_write accepted has been passed to the recv callback (of an    *)
(* application that has not shut down its receive side).                   *)
EofComplete ==
  \A h \in Hosts : host[h].app.eof => Len(host[h].app.got) = host[Peer(h)].app.sent

(* A pcb that waits for the acknowledgment of its FIN still has that FIN   *)
(* queued, so the retransmission timer can repeat it; and a pcb that the   *)
(* application has closed is on its way out: it sends a FIN, waits for the *)
(* peer's, or tcp_fasttmr will try tcp_close_shutdown_fin again.           *)
CloseProceeds ==
  \A h \in Hosts :
    LET p == host[h].p IN
    /\ p.state \in {"FIN_WAIT_1", "CLOSING", "LAST_ACK"} =>
         \E s \in Range(Queued(p)) : "FIN" \in s.flags
    /\ p.state \in {"ESTABLISHED", "CLOSE_WAIT"} /\ ~host[h].app.open => "CLOSEPEND" \in p.flags

(* The application never holds a pcb that has been freed: whoever frees it *)
(* was called by the application or has run its err callback.              *)
NoDanglingPcb ==
  \A h \in Hosts : host[h].app.open => host[h].p.state # "NONE"

(* See StateDiagram. *)
Successors ==
  [CLOSED |-> {"SYN_SENT"}, SYN_SENT |-> {"ESTABLISHED"},
   SYN_RCVD |-> {"ESTABLISHED", "CLOSE_WAIT", "LAST_ACK"},
   ESTABLISHED |-> {"FIN_WAIT_1", "CLOSE_WAIT", "LAST_ACK"}, CLOSE_WAIT |-> {"LAST_ACK"},
   FIN_WAIT_1 |-> {"FIN_WAIT_2", "CLOSING", "TIME_WAIT"}, FIN_WAIT_2 |-> {"TIME_WAIT"},
   CLOSING |-> {"TIME_WAIT"}, LAST_ACK |-> {}, TIME_WAIT |-> {},
   NONE |-> {"CLOSED", "SYN_SENT", "SYN_RCVD"}]

(* Nobody but the 2MSL timer frees a pcb that the application still holds  *)
(* without telling it: input, timers and aborts run the err callback first *)
(* (tcp_input_delayed_close, tcp_slowtmr, tcp_abandon).                    *)
FreedKnowingly ==
  [][\A h \in Hosts : host[h].app.open /\ host'[h].app.open /\ host'[h].p.state = "NONE"
       => host[h].p.state \in {"TIME_WAIT", "NONE"}]_vars

(* The state diagram of RFC 793 as lwIP implements it: what one handler can *)
(* do to the state of a pcb that lives on.                                 *)
StateDiagram ==
  [][\A h \in Hosts : host'[h].p.state \in
       Successors[host[h].p.state] \cup {host[h].p.state, "NONE"}]_vars

(* What tcp_write has accepted reaches the peer's recv callback, or the    *)
(* connection fails (err callback, or a closed pcb that gave up): closed   *)
(* windows, lost window updates, Nagle and delayed ACKs never stop the     *)
(* stream for good (tcp_output, tcp_slowtmr, tcp_zero_window_probe,        *)
(* tcp_recved).                                                            *)
DataArrives ==
  \A n \in 1 .. BytesA :
    host["A"].app.sent >= n ~> \/ Len(host["B"].app.got) >= n
                               \/ host["A"].p.state = "NONE"
                               \/ host["B"].app.err # "none"

(* A pcb the application has closed does not stay for ever, whatever is    *)
(* lost: FIN, its retransmissions, the FIN_WAIT_2, LAST_ACK and 2MSL       *)
(* timeouts end in tcp_free.                                               *)
CloseCompletes ==
  \A h \in Hosts : host[h].app.born /\ ~host[h].app.open ~> host[h].p.state = "NONE"
=============================================================================

-------------------------------- MODULE Mqtt --------------------------------
(***************************************************************************)
(* The MQTT client (mqtt.c): its connection state and cyclic timer, the    *)
(* requests in flight with their chained timeouts, the output ring buffer  *)
(* drained through a bounded send buffer, and the parser that reassembles  *)
(* messages from segments cut anywhere.                                    *)
(*                                                                         *)
(* Time counts in cyclic timer intervals.  A byte sent is its number       *)
(* modulo NumMod; a byte received is its message and its place in it.      *)
(***************************************************************************)
EXTENDS Integers, Sequences, SequencesExt

CONSTANTS
  RingSize,       \* MQTT_OUTPUT_RINGBUF_SIZE
  BufLen,         \* MQTT_VAR_HEADER_BUFFER_LEN
  NumReqs,        \* MQTT_REQ_MAX_IN_FLIGHT
  ReqTimeout,     \* MQTT_REQ_TIMEOUT
  ConnectTimeout, \* MQTT_CONNECT_TIMOUT
  KeepAlive,      \* the client's keep alive time, 0 for none
  IdMod,          \* number of packet identifiers, 0 included
  SndBuf,         \* the pcb's send buffer
  ConnectLen,     \* length of the CONNECT message
  ReqLens,        \* lengths of the application's messages
  Messages,       \* the server's messages
  Whole,          \* whether a segment is exactly one message
  MayFill,        \* whether the ring buffer may become exactly full
  NumMod          \* a multiple of RingSize

VARIABLE mq

Least(a, b) == IF a < b THEN a ELSE b

NoMsg == [t |-> "none", id |-> 0, qos |-> 0, hdr |-> 0, var |-> 0, len |-> 0]

(* The client after the memset of mqtt_client_connect. *)
Cleared ==
  [st |-> "disconnected", conn |-> FALSE, tick |-> 0, wd |-> 0, timers |-> 0,
   q |-> <<>>, free |-> NumReqs, seq |-> 0, put |-> 0, get |-> 0,
   buf |-> [k \in 0 .. RingSize - 1 |-> 0], n |-> 0, sent |-> 0, room |-> SndBuf,
   idx |-> 0, m |-> NoMsg, rx |-> <<>>, srv |-> NoMsg, off |-> 0,
   got |-> <<>>, tot |-> 0, bad |-> FALSE, over |-> FALSE, full |-> FALSE, told |-> "none"]

Init == mq = Cleared

-----------------------------------------------------------------------------
(* The output ring buffer. *)

mqtt_ringbuf_len(s)  == (s.put - s.get + RingSize) % RingSize
mqtt_ringbuf_free(s) == RingSize - mqtt_ringbuf_len(s)

mqtt_ringbuf_linear_read_length(s) == Least(mqtt_ringbuf_len(s), RingSize - s.get)

(* The total length of a message decides. *)
mqtt_output_check_space(s, len) == len <= mqtt_ringbuf_free(s)

mqtt_ringbuf_put(s, len) ==
  [s EXCEPT !.buf = [k \in DOMAIN @ |->
                       LET i == (k - s.put + RingSize) % RingSize
                       IN IF i < len THEN (s.n + i) % NumMod ELSE @[k]],
            !.put = (@ + len) % RingSize, !.n = (@ + len) % NumMod,
            !.full = @ \/ len = mqtt_ringbuf_free(s)]

mqtt_ringbuf_advance_get_idx(s, len) == [s EXCEPT !.get = (@ + len) % RingSize]

(* altcp_write of len bytes at the get position: bad if they are not the   *)
(* next ones.                                                              *)
Written(s, len) ==
  [mqtt_ringbuf_advance_get_idx(s, len) EXCEPT
     !.room = @ - len, !.sent = (@ + len) % NumMod,
     !.bad = @ \/ \E i \in 0 .. len - 1 :
                    s.buf[(s.get + i) % RingSize] # (s.sent + i) % NumMod]

(* mem: how many of the two writes succeed. *)
mqtt_output_send(s, mem) ==
  LET lin  == mqtt_ringbuf_linear_read_length(s)
      n    == Least(s.room, lin)
      wrap == s.room > lin /\ mqtt_ringbuf_len(s) > lin
      w    == Written(s, n)
  IN IF s.room = 0 \/ lin = 0 \/ mem = 0 THEN s
     ELSE IF wrap /\ mem = 2 THEN Written(w, Least(w.room, mqtt_ringbuf_linear_read_length(w)))
     ELSE w

pub_ack_rec_rel_response(s, mem) ==
  IF mqtt_output_check_space(s, 4) THEN mqtt_output_send(mqtt_ringbuf_put(s, 4), mem) ELSE s

-----------------------------------------------------------------------------
(* Requests in flight: each counts its time from the one before. *)

TimeBefore(q, k) == FoldLeft(LAMBDA t, r : t + r.diff, 0, SubSeq(q, 1, k))

mqtt_append_request(s, id) ==
  [s EXCEPT !.q = Append(@, [id |-> id, diff |-> ReqTimeout - TimeBefore(@, Len(@)), age |-> 0])]

(* The first one with this id; the next one takes over its time. *)
mqtt_take_request(q, id) ==
  LET k == CHOOSE k \in 1 .. Len(q) : q[k].id = id /\ \A j \in 1 .. k - 1 : q[j].id # id
      v == IF k < Len(q) THEN [q EXCEPT ![k + 1].diff = @ + q[k].diff] ELSE q
  IN RemoveAt(v, k)

Pending(s, id) == \E k \in 1 .. Len(s.q) : s.q[k].id = id

(* The request is answered and its slot free again. *)
Answered(s, id) ==
  IF Pending(s, id) THEN [s EXCEPT !.q = mqtt_take_request(@, id), !.free = @ + 1] ELSE s

(* Those that have expired: up to the first whose time uses up the         *)
(* interval.                                                               *)
Expired(q) == {k \in 1 .. Len(q) : TimeBefore(q, k - 1) = 0 /\ q[k].diff <= 1}

mqtt_request_time_elapsed(s) ==
  LET n == IF Expired(s.q) = {} THEN 0
           ELSE CHOOSE n \in Expired(s.q) : \A k \in Expired(s.q) : k <= n
      v == SubSeq(s.q, n + 1, Len(s.q))
      u == [k \in 1 .. Len(v) |-> [v[k] EXCEPT !.age = @ + 1]]
  IN [s EXCEPT !.free = @ + n,
               !.q = IF u # <<>> /\ TimeBefore(s.q, n) = 0 THEN [u EXCEPT ![1].diff = @ - 1]
                     ELSE u]

-----------------------------------------------------------------------------
(* again: whether the application connects again at once when its          *)
(* connection callback reports the end of the connection.                  *)

mqtt_client_connect(s) ==
  mqtt_ringbuf_put([Cleared EXCEPT !.st = "tcp_connecting", !.conn = TRUE,
                                   !.bad = s.bad, !.over = s.over, !.timers = s.timers], ConnectLen)

mqtt_close(s, again) ==
  LET v == [Cleared EXCEPT !.bad = s.bad, !.over = s.over,
                           !.timers = IF s.timers > 0 THEN s.timers - 1 ELSE 0]
  IN IF s.st # "disconnected" /\ again THEN mqtt_client_connect(v) ELSE v

-----------------------------------------------------------------------------
(* A message, or as much of it as fills rx_buffer, is complete: length is  *)
(* what follows its fixed header in the buffer, rem what is still to come. *)
(* res: whether the connection goes on.                                    *)

Fails(s) == [s EXCEPT !.res = "disconnect"]

Connack(s, length) ==
  IF s.st # "mqtt_connecting" THEN s
  ELSE IF length < 2 THEN Fails(s)
  ELSE IF s.m.id # 0 THEN Fails(s)
  ELSE [s EXCEPT !.tick = 0, !.st = "mqtt_connected",
                 !.told = IF @ = "none" THEN "up" ELSE "twice"]

(* The data callback; at the end it has had the whole payload. *)
DataCb(s, data, rem) ==
  LET got == s.got \o data
  IN IF rem > 0 THEN [s EXCEPT !.got = got]
     ELSE [s EXCEPT !.got = <<>>, !.tot = 0,
                    !.bad = @ \/ s.tot # s.m.len - s.m.var
                              \/ got # [k \in 1 .. s.tot |-> s.m.var + k]]

Acks(s, rem, mem) ==
  IF rem = 0 /\ s.m.qos > 0 THEN pub_ack_rec_rel_response(s, mem) ELSE s

Publish(s, length, rem, mem) ==
  LET first == s.idx <= BufLen
      space == BufLen - s.m.hdr
      data  == IF first THEN SubSeq(s.rx, s.m.var + 1, length) ELSE SubSeq(s.rx, 1, length)
      v     == IF first THEN [s EXCEPT !.tot = rem + Len(data)] ELSE s
  IN IF first /\ (\/ s.m.var > length
                  \/ s.m.var + (IF s.m.qos > 0 THEN 0 ELSE 1) > space)
     THEN Fails(s)
     ELSE IF data # <<>> \/ rem = 0 THEN Acks(DataCb(v, data, rem), rem, mem) ELSE v

mqtt_message_received(s, length, rem, mem) ==
  LET v == [s EXCEPT !.over = @ \/ s.idx >= BufLen]
  IN CASE s.m.t = "connack" -> Connack(v, length)
       [] s.m.t = "pingresp" -> v
       [] s.m.t = "publish" -> Publish(v, length, rem, mem)
       [] s.m.t \in {"pubrec", "pubrel"} -> pub_ack_rec_rel_response(v, mem)
       [] s.m.t = "ack" -> Answered(v, s.m.id)

(* fh, more and rem are mqtt_parse_incoming's own. *)
NextMessage(s) == [s EXCEPT !.idx = 0, !.fh = 0, !.m = NoMsg, !.rx = <<>>]

HeaderDone(s, mem) ==
  IF s.fh < 2 \/ s.fh < s.m.hdr THEN s
  ELSE IF s.m.len = 0 THEN NextMessage([mqtt_message_received(s, 0, 0, mem) EXCEPT !.res = "ok"])
  ELSE [s EXCEPT !.rem = s.m.len + s.fh - s.idx]

(* A byte of the fixed header is read from the buffer, if an earlier       *)
(* segment brought it.                                                     *)
HeaderByte(s) ==
  IF s.fh < s.idx THEN [s EXCEPT !.fh = @ + 1]
  ELSE [s EXCEPT !.fh = @ + 1, !.idx = @ + 1, !.m = Head(s.p).m, !.p = Tail(@)]

Delivered(s, full, length, mem) ==
  IF s.rem > 0 /\ ~full THEN s
  ELSE LET v == mqtt_message_received(s, length, s.rem, mem)
       IN IF s.rem = 0 /\ v.res = "ok" THEN NextMessage(v) ELSE v

CopyPart(s, mem) ==
  LET start == (s.idx - s.fh) % (BufLen - s.fh)
      n     == Least(Least(Len(s.p), s.rem), BufLen - s.fh - start)
      v     == [s EXCEPT !.rx = SubSeq(@, 1, start) \o [k \in 1 .. n |-> s.p[k].j],
                         !.idx = @ + n, !.rem = @ - n, !.p = SubSeq(@, n + 1, Len(@))]
  IN Delivered(v, n = BufLen - s.fh - start, start + n, mem)

RECURSIVE mqtt_parse_incoming(_, _)
mqtt_parse_incoming(s, mem) ==
  IF s.p = <<>> \/ s.res # "ok" THEN s
  ELSE mqtt_parse_incoming(IF s.fh < 2 \/ s.fh < s.m.hdr
                           THEN HeaderDone(HeaderByte(s), mem) ELSE CopyPart(s, mem), mem)

Bytes(m) == [k \in 1 .. m.hdr + m.len |-> [m |-> m, j |-> k - m.hdr]]

Parsed(s, p, mem) ==
  mqtt_parse_incoming([f \in DOMAIN s \union {"p", "fh", "rem", "res"} |->
                         CASE f = "p" -> p [] f \in {"fh", "rem"} -> 0
                           [] f = "res" -> "ok" [] OTHER -> s[f]], mem)

Kept(s) == [f \in DOMAIN Cleared |-> s[f]]

-----------------------------------------------------------------------------
(* The callbacks of the pcb. *)

AfterRecv(s, again) ==
  LET v == IF s.res = "ok" THEN Kept(s) ELSE mqtt_close(s, again)
  IN IF KeepAlive # 0 THEN [v EXCEPT !.wd = 0] ELSE v

(* The next segment: the rest of a message, or with the start of another,  *)
(* cut anywhere.                                                           *)
Segment(p, m, off) == [p |-> p, m |-> IF off = m.hdr + m.len THEN NoMsg ELSE m,
                       off |-> IF off = m.hdr + m.len THEN 0 ELSE off]

Segments ==
  LET rest == SubSeq(Bytes(mq.srv), mq.off + 1, mq.srv.hdr + mq.srv.len)
  IN {Segment(SubSeq(rest, 1, k), mq.srv, mq.off + k) : k \in IF Whole THEN {} ELSE 1 .. Len(rest)}
     \union UNION {{Segment(rest \o SubSeq(Bytes(m), 1, k), m, k) :
                      k \in IF Whole THEN {m.hdr + m.len} ELSE 1 .. m.hdr + m.len} : m \in Messages}

mqtt_tcp_recv_cb ==
  /\ mq.st \in {"mqtt_connecting", "mqtt_connected"}
  /\ \E g \in Segments, mem \in 0 .. 2 :
       \E s \in {Parsed([mq EXCEPT !.srv = g.m, !.off = g.off], g.p, mem)} :
         \E again \in IF s.res = "ok" THEN {FALSE} ELSE BOOLEAN : mq' = AfterRecv(s, again)

(* The peer has closed. *)
Fin == /\ mq.st \in {"mqtt_connecting", "mqtt_connected"}
       /\ \E again \in BOOLEAN : mq' = mqtt_close(mq, again)

mqtt_tcp_err_cb ==
  /\ mq.conn
  /\ \E again \in BOOLEAN : mq' = mqtt_close(mq, again)

RECURSIVE TakeAll(_)
TakeAll(s) == IF Pending(s, 0) THEN TakeAll(Answered(s, 0)) ELSE s

mqtt_tcp_sent_cb ==
  /\ mq.st \in {"mqtt_connecting", "mqtt_connected"}
  /\ \E n \in 1 .. SndBuf - mq.room, mem \in 0 .. 2 :
       LET s == [mq EXCEPT !.room = @ + n]
       IN mq' = IF mq.st # "mqtt_connected" THEN s
                ELSE mqtt_output_send(TakeAll([s EXCEPT !.tick = 0, !.wd = 0]), mem)

mqtt_tcp_poll_cb ==
  /\ mq.st = "mqtt_connected"
  /\ \E mem \in 0 .. 2 : mq' = mqtt_output_send(mq, mem)

mqtt_tcp_connect_cb ==
  /\ mq.st = "tcp_connecting"
  /\ \E mem \in 0 .. 2 :
       mq' = mqtt_output_send([mq EXCEPT !.st = "mqtt_connecting", !.timers = @ + 1,
                                         !.tick = 0], mem)

-----------------------------------------------------------------------------
(* The cyclic timer; a ping waits in the ring buffer for the next poll. *)

Watchdog(s) == KeepAlive > 0 /\ s.wd + 1 > KeepAlive + KeepAlive \div 2

Ping(s) ==
  IF s.tick >= KeepAlive
  THEN IF mqtt_output_check_space(s, 2) THEN [mqtt_ringbuf_put(s, 2) EXCEPT !.tick = 0] ELSE s
  ELSE [s EXCEPT !.tick = @ + 1]

(* The keep-alive check follows the watchdog's close too: it counts in a   *)
(* client that connected again, and in a closed one what the next connect  *)
(* wipes.                                                                  *)
PingAfterClose(s) == IF s.st = "disconnected" THEN s ELSE Ping(s)

(* Mutant: the timer is restarted though it has closed the connection. *)
TimerRestarts(s, again) ==
  IF s.st = "mqtt_connecting"
  THEN IF s.tick + 1 >= ConnectTimeout THEN [mqtt_close(s, again) EXCEPT !.timers = @ + 1]
       ELSE [s EXCEPT !.tick = @ + 1, !.timers = @ + 1]
  ELSE IF s.st = "mqtt_connected" THEN [Ping(mqtt_request_time_elapsed(s)) EXCEPT !.timers = @ + 1]
  ELSE s

CyclicTick(s, again) ==
  IF s.st = "mqtt_connecting"
  THEN IF s.tick + 1 >= ConnectTimeout THEN mqtt_close(s, again)
       ELSE [s EXCEPT !.tick = @ + 1, !.timers = @ + 1]
  ELSE IF s.st # "mqtt_connected" THEN s
  ELSE IF Watchdog(s) THEN PingAfterClose(mqtt_close(s, again))
  ELSE LET v == [mqtt_request_time_elapsed(s) EXCEPT !.timers = @ + 1]
       IN IF KeepAlive > 0 THEN Ping([v EXCEPT !.wd = @ + 1]) ELSE v

mqtt_cyclic_timer ==
  /\ mq.timers > 0
  /\ \E again \in BOOLEAN : mq' = CyclicTick([mq EXCEPT !.timers = @ - 1], again)

-----------------------------------------------------------------------------
(* The application's calls. *)

Connect ==
  /\ mq.st = "disconnected"
  /\ mq' = mqtt_client_connect(mq)

msg_generate_packet_id(s) == IF (s.seq + 1) % IdMod = 0 THEN 1 ELSE s.seq + 1

Requested(s, id, len, mem) ==
  IF s.free = 0 \/ ~mqtt_output_check_space(s, len) THEN s
  ELSE mqtt_output_send(mqtt_append_request([mqtt_ringbuf_put(s, len) EXCEPT !.free = @ - 1], id),
                        mem)

(* With quality of service 0 the request has no identifier.  IdMod         *)
(* identifiers outlast any request.                                        *)
mqtt_publish ==
  /\ mq.st # "disconnected"
  /\ \E len \in ReqLens, mem \in 0 .. 2 : mq' = Requested(mq, 0, len, mem)

mqtt_sub_unsub ==
  /\ mq.st # "disconnected"
  /\ ~Pending(mq, msg_generate_packet_id(mq))
  /\ \E len \in ReqLens, mem \in 0 .. 2 :
       mq' = Requested([mq EXCEPT !.seq = msg_generate_packet_id(mq)],
                       msg_generate_packet_id(mq), len, mem)

mqtt_disconnect ==
  /\ mq.st # "disconnected"
  /\ mq' = mqtt_close([mq EXCEPT !.st = "disconnected"], FALSE)

Step == \/ mqtt_tcp_recv_cb \/ Fin \/ mqtt_tcp_err_cb \/ mqtt_tcp_sent_cb
        \/ mqtt_tcp_poll_cb \/ mqtt_tcp_connect_cb \/ mqtt_cyclic_timer
        \/ Connect \/ mqtt_publish \/ mqtt_sub_unsub \/ mqtt_disconnect

Next == Step /\ (MayFill \/ ~mq'.full)

Spec == Init /\ [][Next]_mq

-----------------------------------------------------------------------------
(* A slot is free or its request waits, and a request that waits expires   *)
(* ReqTimeout after it was made, whatever other requests were answered or  *)
(* timed out meanwhile.                                                    *)
MqttRequests ==
  /\ mq.st # "disconnected" => mq.free + Len(mq.q) = NumReqs
  /\ \A k \in 1 .. Len(mq.q) : TimeBefore(mq.q, k) = ReqTimeout - mq.q[k].age

(* The cyclic timer runs, once, as long as the client waits for the        *)
(* server's acceptance or is connected, and the application is told of the *)
(* acceptance once.                                                        *)
MqttTimer ==
  /\ mq.timers = IF mq.st \in {"mqtt_connecting", "mqtt_connected"} THEN 1 ELSE 0
  /\ mq.told # "twice" /\ (mq.told = "up" <=> mq.st = "mqtt_connected")

(* What goes out is what was put in, in order, however the ring buffer     *)
(* wraps; a payload comes in whole, in order and with its length, however  *)
(* the segments and rx_buffer cut it.                                      *)
MqttStreams ==
  /\ ~mq.bad
  /\ mqtt_ringbuf_len(mq) = (mq.n - mq.sent + NumMod) % NumMod

(* The message index never reaches the end of the receive buffer, as       *)
(* mqtt_message_received asserts.                                          *)
MqttIndexAsserted == ~mq.over

=============================================================================

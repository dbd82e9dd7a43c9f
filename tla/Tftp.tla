-------------------------------- MODULE Tftp --------------------------------
(***************************************************************************)
(* The TFTP server (apps/tftp/tftp_server.c), which serves one transfer at *)
(* a time, and a client that reads or writes a file over a network that    *)
(* loses and duplicates packets.  The client is not part of lwIP: it       *)
(* follows RFC 1350, acknowledges the block it expects, acknowledges the   *)
(* one before again, repeats its last packet when nothing comes and gives  *)
(* up on an error.                                                         *)
(*                                                                         *)
(* A file is a number of full blocks and a last one that is short.  Block  *)
(* numbers count modulo BlkMod (2^16).                                     *)
(***************************************************************************)
EXTENDS Integers, Sequences, SequencesExt

CONSTANTS Files,           \* how many blocks the file may have
          BlkMod,          \* block numbers wrap here
          Limit,           \* TFTP_TIMEOUT_MSECS / TFTP_TIMER_MSECS
          MaxRetries,      \* TFTP_MAX_RETRIES
          Cap,             \* packets the network holds in each direction
          Outlives,        \* may a request arrive again after its transfer has ended?
          MaxTimers        \* bound: requests that fail within a timer period

VARIABLE tf

NoBlock == [n |-> 0, short |-> FALSE]

\* k: rrq, wrq, data, ack, error; from/to: the port of the client's end.
Pkt(k, port, blk, short) == [k |-> k, port |-> port, blk |-> blk, short |-> short]

Blk(n) == n % BlkMod

Send(net, p) == IF Len(net) < Cap THEN Append(net, p) ELSE net

ToClient(t, p) == [t EXCEPT !.down = Send(@, p)]

(***************************************************************************)
(* The server.                                                             *)
(***************************************************************************)
Untimeout(n) == IF n > 0 THEN n - 1 ELSE 0

close_handle(t) ==
  [t EXCEPT !.port = 0, !.last = NoBlock, !.timers = Untimeout(@), !.open = FALSE,
            !.closes = IF t.open THEN @ + 1 ELSE @]

send_error(t, port) == ToClient(t, Pkt("error", port, 0, FALSE))

send_ack(t, n) == ToClient(t, Pkt("ack", t.port, Blk(n), FALSE))

resend_data(t) == ToClient(t, Pkt("data", t.port, Blk(t.last.n), t.last.short))

\* how: the pbuf is there ("ok"), is not ("nomem"), the file cannot be read ("fail").
\* The file hands out its next block, whatever the block number says.
send_data(t, how) ==
  CASE how = "nomem" -> [t EXCEPT !.last = NoBlock]
    [] how = "fail" -> close_handle(send_error(t, t.port))
    [] OTHER -> resend_data([t EXCEPT !.pos = @ + 1,
                                      !.last = [n |-> t.blk, short |-> t.pos + 1 = t.size]])

\* The timer starts before the request is looked at; nothing stops it when
\* the request is refused.
Request(t, p, opened, how) ==
  CASE t.open -> send_error(t, p.port)
    [] ~t.open /\ ~opened -> send_error([t EXCEPT !.timers = @ + 1, !.blk = 1], p.port)
    [] OTHER ->
         LET u == [t EXCEPT !.timers = @ + 1, !.blk = 1, !.open = TRUE, !.port = p.port,
                            !.pos = 0, !.opens = @ + 1, !.served = p.port, !.write = (p.k = "wrq"),
                            !.saved = IF p.k = "wrq" THEN <<>> ELSE @]
         IN IF p.k = "wrq" THEN send_ack(u, 0) ELSE send_data(u, how)

Data(t, p, how) ==
  CASE ~t.open \/ ~t.write -> send_error(t, p.port)
    [] t.open /\ t.write /\ p.blk = Blk(t.blk) ->
         LET u == IF how = "fail" THEN close_handle(send_error(t, p.port))
                  ELSE send_ack([t EXCEPT !.saved = Append(@, p)], p.blk)
         IN IF p.short THEN close_handle(u) ELSE [u EXCEPT !.blk = Blk(@ + 1)]
    [] t.open /\ t.write /\ p.blk # Blk(t.blk) /\ Blk(p.blk + 1) = Blk(t.blk) -> send_ack(t, p.blk)
    [] OTHER -> send_error(t, p.port)

Ack(t, p, how) ==
  CASE ~t.open \/ t.write \/ p.blk # Blk(t.blk) -> send_error(t, p.port)
    [] OTHER -> IF t.last # NoBlock /\ t.last.short THEN close_handle(t)
                ELSE send_data([t EXCEPT !.blk = Blk(@ + 1)], how)

Heard(t) == [t EXCEPT !.idle = 0, !.retries = 0]

recv(t, p, opened, how) ==
  IF t.port # 0 /\ p.port # t.port THEN send_error(t, p.port)
  ELSE CASE p.k \in {"rrq", "wrq"} -> Request(Heard(t), p, opened, how)
         [] p.k = "data" -> Data(Heard(t), p, how)
         [] p.k = "ack" -> Ack(Heard(t), p, how)
         [] OTHER -> send_error(Heard(t), p.port)

TimedOut(t) ==
  IF t.last # NoBlock /\ t.retries < MaxRetries
  THEN [resend_data(t) EXCEPT !.retries = @ + 1]
  ELSE close_handle(t)

Ticked(t) == [t EXCEPT !.idle = IF @ > Limit THEN @ ELSE @ + 1]

\* The timer that fired is off the list.
tftp_tmr(t) ==
  IF ~t.open THEN t
  ELSE IF Ticked(t).idle > Limit THEN TimedOut([Ticked(t) EXCEPT !.timers = @ + 1])
  ELSE [Ticked(t) EXCEPT !.timers = @ + 1]

\* A timer that close_handle does not stop (one of a refused request) goes on.
tftp_cleanup(t) == [close_handle(t) EXCEPT !.blk = 0, !.idle = 0, !.retries = 0, !.write = FALSE]

(***************************************************************************)
(* The client: cl.port is new for every transfer, cl.exp the block it      *)
(* waits for (reading) or sends (writing), cl.sent its last packet.        *)
(***************************************************************************)
NoClient == [k |-> "idle", port |-> 0, exp |-> 0, got |-> <<>>, sent |-> Pkt("none", 0, 0, FALSE)]

ToServer(t, p) == [t EXCEPT !.up = Send(@, p), !.cl.sent = p]

ClientStart(k) ==
  /\ tf.cl.k \in {"idle", "done", "gaveup"} /\ tf.cl.port < 2
  /\ tf' = ToServer([tf EXCEPT !.cl = [NoClient EXCEPT !.k = k, !.port = tf.cl.port + 1,
                                                       !.exp = IF k = "rrq" THEN 1 ELSE 0]],
                    Pkt(k, tf.cl.port + 1, 0, FALSE))

ReadBlock(t, p) ==
  LET u == ToServer([t EXCEPT !.cl.got = Append(@, p), !.cl.exp = @ + 1],
                    Pkt("ack", t.cl.port, p.blk, FALSE))
  IN IF p.short THEN [u EXCEPT !.cl.k = "done"] ELSE u

WriteNext(t) ==
  IF t.cl.exp = t.size THEN [t EXCEPT !.cl.k = "done"]
  ELSE ToServer([t EXCEPT !.cl.exp = @ + 1],
                Pkt("data", t.cl.port, Blk(t.cl.exp + 1), t.cl.exp + 1 = t.size))

ClientRecv(t, p) ==
  CASE p.port # t.cl.port -> t
    [] p.port = t.cl.port /\ p.k = "error" ->
         IF t.cl.k \in {"rrq", "wrq"} THEN [t EXCEPT !.cl.k = "gaveup"] ELSE t
    [] p.port = t.cl.port /\ p.k = "data" /\ t.cl.k = "rrq" ->
         IF p.blk = Blk(t.cl.exp) THEN ReadBlock(t, p)
         ELSE IF p.blk = Blk(t.cl.exp - 1) THEN [t EXCEPT !.up = Send(@, Pkt("ack", t.cl.port, p.blk, FALSE))]
         ELSE t
    [] p.port = t.cl.port /\ p.k = "ack" /\ t.cl.k = "wrq" /\ p.blk = Blk(t.cl.exp) -> WriteNext(t)
    [] OTHER -> t

(***************************************************************************)
(* The next-state relation.                                                *)
(***************************************************************************)
Kept(q, dup) == IF dup THEN q ELSE Tail(q)

Reachable(t) == t.timers <= MaxTimers /\ t.opens <= 2

\* A transfer that ends without its client lasts TFTP_TIMEOUT_MSECS at least.
Stale(p) == p.k \in {"rrq", "wrq"} /\ ~tf.open /\ p.port <= tf.served

ServerRecv(opened, how, dup) ==
  /\ tf.up # <<>>
  /\ Outlives \/ ~Stale(Head(tf.up))
  /\ LET t == recv([tf EXCEPT !.up = Kept(@, dup)], Head(tf.up), opened, how)
     IN Reachable(t) /\ tf' = t

ClientHears(dup) ==
  tf.down # <<>> /\ tf' = ClientRecv([tf EXCEPT !.down = Kept(@, dup)], Head(tf.down))

ClientRepeats ==
  /\ tf.cl.k \in {"rrq", "wrq"} /\ tf.up = <<>>
  /\ tf' = [tf EXCEPT !.up = Send(@, tf.cl.sent)]

Lose == \/ tf.up # <<>> /\ tf' = [tf EXCEPT !.up = Tail(@)]
        \/ tf.down # <<>> /\ tf' = [tf EXCEPT !.down = Tail(@)]

ServerTimer == tf.timers > 0 /\ tf' = tftp_tmr([tf EXCEPT !.timers = @ - 1])

\* The application stops the server and starts it again (tftp_init).
Restart == tf.open /\ tf' = tftp_cleanup(tf)

Init ==
  \E n \in Files :
    tf = [open |-> FALSE, port |-> 0, blk |-> 0, last |-> NoBlock, idle |-> 0, retries |-> 0,
          write |-> FALSE, timers |-> 0, pos |-> 0, size |-> n, saved |-> <<>>,
          opens |-> 0, closes |-> 0, served |-> 0, cl |-> NoClient, up |-> <<>>, down |-> <<>>]

Next ==
  \/ \E k \in {"rrq", "wrq"} : ClientStart(k)
  \/ \E opened, dup \in BOOLEAN, how \in {"ok", "nomem", "fail"} : ServerRecv(opened, how, dup)
  \/ \E dup \in BOOLEAN : ClientHears(dup)
  \/ ClientRepeats
  \/ Lose
  \/ ServerTimer
  \/ Restart

Spec == Init /\ [][Next]_tf

(***************************************************************************)
(* Properties.                                                             *)
(***************************************************************************)
\* The blocks of the file, from the first, as they are numbered on the wire.
InOrder(s) == \A i \in DOMAIN s : s[i].blk = Blk(i) /\ (s[i].short <=> i = tf.size)

\* What the reader has got, and what the server has written, are blocks of
\* the file from the first on, each once, whatever was lost, repeated or
\* duplicated; a transfer either side regards as finished is complete.
TftpTransfers ==
  /\ tf.cl.k \in {"rrq", "done"} => InOrder(tf.cl.got)
  /\ InOrder(tf.saved)
  /\ tf.cl.k = "done" /\ tf.cl.sent.k = "ack" => Len(tf.cl.got) = tf.size

\* An open transfer has a timer that will end it when the peer falls silent,
\* belongs to one peer and is closed once; a closed one holds no data
\* (close_handle, tftp_tmr).
TftpHandle ==
  /\ tf.opens - tf.closes = IF tf.open THEN 1 ELSE 0
  /\ tf.open => tf.timers > 0 /\ tf.port # 0
  /\ ~tf.open => tf.last = NoBlock /\ tf.port = 0

=============================================================================

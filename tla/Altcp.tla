-------------------------------- MODULE Altcp --------------------------------
(***************************************************************************)
(* The layered connections of altcp: an application on top of a stack of   *)
(* altcp_pcb layers (altcp.c), the lowest one over a TCP pcb (altcp_tcp.c),*)
(* with an HTTP CONNECT proxy layer (altcp_proxyconnect.c) and a TLS layer *)
(* (altcp_tls_mbedtls.c) above it.  Calls go down the stack, callbacks up; *)
(* each layer is freed by whoever ends the connection.                     *)
(*                                                                         *)
(* What arrives from TCP is a stream of units: the proxy's answer, the TLS *)
(* handshake, then TLS records: a unit of protocol overhead that says how  *)
(* many units of data follow, and these.                                   *)
(***************************************************************************)
EXTENDS Integers, Sequences, SequencesExt

CONSTANTS
  Stack,      \* the layers, from the lowest: "tcp", "proxy", "tls"
  Records,    \* lengths of the records the peer sends
  BufSize,    \* PBUF_POOL_BUFSIZE: units of data one pbuf takes
  SndBuf,     \* room in the TCP send buffer, in records
  MayStarve,  \* whether the pbuf pool can be empty
  MayFail,    \* whether closing may fail (ERR_MEM)
  EarlyFin,   \* whether the proxy may close before it has answered
  MayAbort    \* whether the application aborts

VARIABLE ac

Fewer(a, b) == IF a < b THEN a ELSE b

Top == Len(Stack)
Has(kind) == \E i \in 1..Top : Stack[i] = kind

Answer    == 0
Handshake == -1
RecordHead(n) == -10 - n

(* What the peer sends: data units are numbered through.                   *)
Before(k) == FoldLeft(LAMBDA t, n : t + n, 0, SubSeq(Records, 1, k))

Record(k) == (IF Has("tls") THEN <<RecordHead(Records[k])>> ELSE <<>>)
               \o [i \in 1..Records[k] |-> Before(k - 1) + i]

Stream == (IF Has("proxy") THEN <<Answer>> ELSE <<>>)
            \o (IF Has("tls") THEN <<Handshake>> ELSE <<>>)
            \o FoldLeft(LAMBDA s, k : s \o Record(k), <<>>, [k \in 1..Len(Records) |-> k])

(* tls: hs, upper, closeq, closed: the flags; rx: encrypted data queued;   *)
(* read, appl, passed: bio_bytes_read, bio_bytes_appl, rx_passed_unrecved; *)
(* app: rx_app.  part, avail, out: inside mbedtls: the record being read,  *)
(* decrypted data not fetched, encrypted records not written.              *)
NoTls == [hs |-> FALSE, upper |-> FALSE, closeq |-> FALSE, closed |-> FALSE, rx |-> <<>>,
          read |-> 0, appl |-> 0, passed |-> 0, app |-> <<>>, part |-> <<>>, avail |-> <<>>,
          out |-> 0, sent |-> FALSE]

(* tcp: the pcb; snd: records in its send buffer; win: units received and  *)
(* not yet given back to the window.  app: holds, times connected, err and *)
(* end of stream were called, what it got, what it has not acknowledged.   *)
(* down, up: records handed down by the application, and to TCP.           *)
NoConn ==
  [live |-> {}, inner |-> {}, tcp |-> "none", snd |-> 0, win |-> 0, todo |-> <<>>,
   fin |-> FALSE, proxied |-> FALSE, tls |-> NoTls, ret |-> "ok", bad |-> FALSE,
   down |-> 0, wire |-> 0,
   app |-> [holds |-> FALSE, conn |-> 0, errs |-> 0, eof |-> 0, got |-> <<>>, owes |-> 0]]

Init == ac = NoConn

(***************************************************************************)
(* Downwards: what a layer asks of the one below.                          *)
(***************************************************************************)
(* altcp_free with the layer's dealloc: TLS frees rx, not rx_app.          *)
altcp_free(s, i) ==
  [s EXCEPT !.bad = @ \/ i \notin s.live, !.live = @ \ {i}, !.inner = @ \ {i},
            !.tls = IF Stack[i] = "tls" THEN NoTls ELSE @]

RECURSIVE altcp_close(_, _, _)

(* Closing fails as a whole, leaving every layer with its callbacks set up *)
(* again, or frees every layer.                                            *)
altcp_close(s, i, works) ==
  IF ~works THEN [s EXCEPT !.ret = "mem"]
  ELSE IF i = 1 THEN altcp_free([s EXCEPT !.tcp = "gone", !.ret = "ok"], 1)
  ELSE altcp_free(IF i \in s.inner THEN altcp_close(s, i - 1, works) ELSE s, i)

RECURSIVE altcp_recved(_, _, _)

altcp_tcp_recved(s, n) == [s EXCEPT !.win = @ - n]

altcp_proxyconnect_recved(s, i, n) ==
  IF s.proxied THEN altcp_recved(s, i - 1, n) ELSE s

altcp_mbedtls_recved(s, i, n) ==
  LET lower == Fewer(n, s.tls.passed)
  IN IF ~s.tls.hs THEN s
     ELSE altcp_recved([s EXCEPT !.tls.passed = @ - lower], i - 1, lower)

altcp_recved(s, i, n) ==
  CASE Stack[i] = "tcp"   -> altcp_tcp_recved(s, n)
    [] Stack[i] = "proxy" -> altcp_proxyconnect_recved(s, i, n)
    [] Stack[i] = "tls"   -> altcp_mbedtls_recved(s, i, n)

(* TCP takes a record or has no room for it.                               *)
altcp_tcp_write(s) ==
  IF s.snd < SndBuf THEN [s EXCEPT !.snd = @ + 1, !.wire = @ + 1, !.ret = "ok"]
  ELSE [s EXCEPT !.ret = "mem"]

(* mbedtls_ssl_flush_output with altcp_mbedtls_bio_send.                   *)
altcp_mbedtls_bio_send(s) ==
  IF s.tls.out = 0 \/ s.snd = SndBuf THEN s
  ELSE [altcp_tcp_write(s) EXCEPT !.tls.out = 0]

(* mbedtls_ssl_write encodes into its one output record and flushes it.    *)
SslWrite(s) == altcp_mbedtls_bio_send([s EXCEPT !.tls.out = 1, !.tls.sent = TRUE, !.ret = "ok"])

(* Mutant: a record that is not yet sent is overwritten. *)
WriteOverUnsent(s) == IF ~s.tls.hs THEN [s EXCEPT !.ret = "val"] ELSE SslWrite(s)

altcp_mbedtls_write(s) ==
  IF ~s.tls.hs THEN [s EXCEPT !.ret = "val"]
  ELSE IF altcp_mbedtls_bio_send(s).tls.out # 0 THEN [altcp_mbedtls_bio_send(s) EXCEPT !.ret = "mem"]
  ELSE SslWrite(altcp_mbedtls_bio_send(s))

altcp_proxyconnect_write(s) == IF s.proxied THEN altcp_tcp_write(s) ELSE [s EXCEPT !.ret = "val"]

altcp_write(s) ==
  CASE Stack[Top] = "tcp"   -> altcp_tcp_write(s)
    [] Stack[Top] = "proxy" -> altcp_proxyconnect_write(s)
    [] Stack[Top] = "tls"   -> altcp_mbedtls_write(s)

(***************************************************************************)
(* Upwards: the callbacks.  do: what the application does when called:     *)
(* "take" data and acknowledge it, "keep" it, "refuse" it, "abort".        *)
(***************************************************************************)
AppErr(s) == [s EXCEPT !.app.errs = @ + 1, !.app.holds = FALSE, !.app.owes = 0]

RECURSIVE LowerErr(_, _)

(* altcp_tcp_err and lower_err of the others: the one above is told first. *)
LowerErr(s, i) ==
  LET told == [s EXCEPT !.inner = @ \ {i}]
  IN altcp_free(IF i = Top THEN IF s.app.holds THEN AppErr(told) ELSE told
                ELSE IF i + 1 \in s.inner THEN LowerErr(told, i + 1) ELSE told, i)

RECURSIVE altcp_abort(_, _)

altcp_tcp_abort(s) == LowerErr([s EXCEPT !.tcp = "gone"], 1)

(* The layer below is aborted, and by its error callback frees this one,   *)
(* which is then freed once more: AltcpOwned fails with a proxy layer and  *)
(* MayAbort.                                                               *)
altcp_proxyconnect_abort(s, i) ==
  altcp_free(IF i \in s.inner THEN altcp_abort(s, i - 1) ELSE s, i)

altcp_mbedtls_abort(s, i) == altcp_abort(s, i - 1)

altcp_abort(s, i) ==
  CASE Stack[i] = "tcp"   -> altcp_tcp_abort(s)
    [] Stack[i] = "proxy" -> altcp_proxyconnect_abort(s, i)
    [] Stack[i] = "tls"   -> altcp_mbedtls_abort(s, i)

AppTakes(s, p) == [s EXCEPT !.app.got = @ \o p, !.app.owes = @ + Len(p), !.ret = "ok"]

AppRecv(s, p, do) ==
  CASE p = <<>>       -> [s EXCEPT !.app.eof = @ + 1, !.ret = "ok"]
    [] do = "abort"   -> [altcp_abort(AppTakes(s, p), Top) EXCEPT !.ret = "abrt"]
    [] do = "refuse"  -> [s EXCEPT !.ret = "mem"]
    [] do = "keep"    -> AppTakes(s, p)
    [] OTHER          -> altcp_recved([AppTakes(s, p) EXCEPT !.app.owes = 0], Top,
                                      s.app.owes + Len(p))

(* mbedtls pulls the rest of its record through altcp_mbedtls_bio_recv.    *)
Missing(t) == IF t.part = <<>> THEN 1 + (-10 - t.rx[1])
              ELSE 1 + (-10 - t.part[1]) - Len(t.part)

Pulled(t, n) ==
  [t EXCEPT !.part = @ \o SubSeq(t.rx, 1, n), !.rx = SubSeq(@, n + 1, Len(@)), !.read = @ + n]

Decoded(t) ==
  IF t.part # <<>> /\ Len(t.part) = 1 + (-10 - t.part[1])
  THEN [t EXCEPT !.avail = Tail(t.part), !.part = <<>>] ELSE t

altcp_mbedtls_bio_recv(t) ==
  IF t.rx = <<>> THEN t ELSE Decoded(Pulled(t, Fewer(Len(t.rx), Missing(t))))

SslFilled(t) == IF t.avail = <<>> THEN altcp_mbedtls_bio_recv(t) ELSE t

(* The record's overhead is acknowledged when its last byte is fetched.    *)
RecordDone(s, i) ==
  IF s.tls.avail # <<>> THEN s
  ELSE [altcp_recved(s, i - 1, s.tls.read - s.tls.appl) EXCEPT !.tls.read = 0, !.tls.appl = 0]

Fetched(s, i, n) ==
  RecordDone([s EXCEPT !.tls.avail = SubSeq(@, n + 1, Len(@)), !.tls.appl = @ + n,
                       !.tls.app = @ \o SubSeq(s.tls.avail, 1, n)], i)

Refused(s, p, r) ==
  IF r.ret = "abrt" \/ r.ret = "ok" THEN r
  ELSE [r EXCEPT !.tls.app = p, !.tls.passed = @ - Len(p)]

Passed(s, p, do) ==
  Refused(s, p, AppRecv([s EXCEPT !.tls.app = <<>>, !.tls.upper = TRUE,
                                  !.tls.passed = @ + Len(p)], p, do))

altcp_mbedtls_pass_rx_data(s, do) ==
  IF s.tls.app # <<>> THEN Passed(s, s.tls.app, do)
  ELSE IF s.tls.closeq /\ ~s.tls.closed
  THEN AppRecv([s EXCEPT !.tls.closed = TRUE], <<>>, do)
  ELSE [s EXCEPT !.ret = "ok"]

RECURSIVE altcp_mbedtls_handle_rx_appldata(_, _, _, _)

(* starved: the pbuf pool runs out after so many pbufs.  mbedtls_ssl_read  *)
(* gives data, end of stream once a queued close is all that is left, or   *)
(* asks for more.                                                          *)
RxOnce(s, i, do, left) ==
  CASE s.tls.avail # <<>> ->
         LET r == altcp_mbedtls_pass_rx_data(Fetched(s, i, Fewer(BufSize, Len(s.tls.avail))), do)
         IN IF r.ret = "ok" /\ i \in r.live THEN altcp_mbedtls_handle_rx_appldata(r, i, do, left - 1)
            ELSE r
    [] s.tls.avail = <<>> /\ s.tls.closeq /\ ~s.tls.closed -> altcp_mbedtls_pass_rx_data(s, do)
    [] OTHER -> [s EXCEPT !.ret = "ok"]

altcp_mbedtls_handle_rx_appldata(s, i, do, left) ==
  IF ~s.tls.hs THEN [s EXCEPT !.ret = "val"]
  ELSE IF left = 0 THEN [s EXCEPT !.ret = "ok"]
  ELSE RxOnce([s EXCEPT !.tls = SslFilled(s.tls)], i, do, left)

(* Other errors of the application are hidden: TLS retries by itself.      *)
Hidden(r) == IF r.ret = "abrt" THEN r ELSE [r EXCEPT !.ret = "ok"]

AppConnected(s) == [s EXCEPT !.app.conn = @ + 1, !.ret = "ok"]

(* mbedtls_ssl_handshake takes what has arrived; how: it wants more, fails *)
(* or is done.                                                             *)
Shaken(s, i) ==
  altcp_recved([s EXCEPT !.tls.rx = SelectSeq(@, LAMBDA u : u # Handshake)], i - 1,
               Len(SelectSeq(s.tls.rx, LAMBDA u : u = Handshake)))

HandshakeFailed(s, i, works) ==
  LET r == altcp_close(AppErr(s), i, works)
  IN [(IF works THEN r ELSE altcp_abort(r, i)) EXCEPT !.ret = "ok"]

altcp_mbedtls_lower_recv_process(s, i, do, left, fails, works) ==
  CASE s.tls.hs -> Hidden(altcp_mbedtls_handle_rx_appldata(s, i, do, left))
    [] ~s.tls.hs /\ ~\E k \in DOMAIN s.tls.rx : s.tls.rx[k] = Handshake -> [s EXCEPT !.ret = "ok"]
    [] OTHER ->
         IF fails THEN HandshakeFailed(Shaken(s, i), i, works)
         ELSE LET up == AppConnected([Shaken(s, i) EXCEPT !.tls.hs = TRUE])
              IN IF up.tls.rx = <<>> THEN up
                 ELSE Hidden(altcp_mbedtls_handle_rx_appldata(up, i, do, left))

(* A FIN is delayed for data that is queued encrypted or waits for the     *)
(* application; decrypted data that mbedtls still holds is not asked for.  *)
TlsFin(s, i, do, left, works) ==
  IF s.tls.hs /\ s.tls.upper
  THEN IF s.tls.rx # <<>> \/ s.tls.app # <<>>
       THEN [altcp_mbedtls_handle_rx_appldata([s EXCEPT !.tls.closeq = TRUE], i, do, left)
               EXCEPT !.ret = "ok"]
       ELSE AppRecv([s EXCEPT !.tls.closed = TRUE], <<>>, do)
  ELSE [altcp_close(AppErr(s), i, works) EXCEPT !.ret = "ok"]

altcp_mbedtls_lower_recv(s, i, p, do, left, fails, works) ==
  IF p = <<>> THEN TlsFin(s, i, do, left, works)
  ELSE altcp_mbedtls_lower_recv_process([s EXCEPT !.tls.rx = @ \o p], i, do, left, fails, works)

RECURSIVE Recv(_, _, _, _, _, _, _)

(* The answer is looked for in this segment alone, which is dropped whole. *)
ProxyAnswer(s, i, p) ==
  LET seen == altcp_recved(s, i - 1, Len(p))
  IN IF ~\E k \in DOMAIN p : p[k] = Answer THEN [seen EXCEPT !.ret = "ok"]
     ELSE IF i = Top THEN AppConnected([seen EXCEPT !.proxied = TRUE])
     ELSE [seen EXCEPT !.proxied = TRUE, !.ret = "ok"]

ProxyFin(s, i, works) ==
  LET r == altcp_close(s, i, works)
  IN IF works THEN r ELSE [altcp_abort(r, i) EXCEPT !.ret = "abrt"]

altcp_proxyconnect_lower_recv(s, i, p, do, left, fails, works) ==
  IF s.proxied THEN Recv(s, i + 1, p, do, left, fails, works)
  ELSE IF p = <<>> THEN ProxyFin(s, i, works) ELSE ProxyAnswer(s, i, p)

(* What the layer below passes to layer i; above the top one it is the     *)
(* application.                                                            *)
Recv(s, i, p, do, left, fails, works) ==
  IF i > Top THEN AppRecv(s, p, do)
  ELSE CASE Stack[i] = "tcp"   -> Recv(s, i + 1, p, do, left, fails, works)
         [] Stack[i] = "proxy" -> altcp_proxyconnect_lower_recv(s, i, p, do, left, fails, works)
         [] Stack[i] = "tls"   -> altcp_mbedtls_lower_recv(s, i, p, do, left, fails, works)

(***************************************************************************)
(* The steps: the application's calls and the TCP pcb's callbacks.         *)
(***************************************************************************)
(* Layer by layer; when one cannot be allocated, what there is is closed.  *)
Allocated(upto) == [NoConn EXCEPT !.live = 1..upto, !.inner = 2..upto, !.tcp = "closed"]

altcp_new_ip_type ==
  /\ ac.tcp = "none"
  /\ \E upto \in 0..Top :
       ac' = IF upto = Top THEN [Allocated(Top) EXCEPT !.app.holds = TRUE, !.todo = Stream]
             ELSE IF upto = 0 THEN [NoConn EXCEPT !.tcp = "gone"]
             ELSE altcp_close(Allocated(upto), upto, TRUE)

(* The connected callback of TCP: TLS starts its handshake, the proxy      *)
(* layer sends its request.                                                *)
altcp_connect ==
  /\ ac.app.holds /\ ac.tcp = "closed"
  /\ ac' = IF Top = 1 THEN AppConnected([ac EXCEPT !.tcp = "open"]) ELSE [ac EXCEPT !.tcp = "open"]

(* A passive open: the connection arrives on a listener of the same stack. *)
Accept ==
  /\ ac.tcp = "none" /\ ~Has("proxy")
  /\ \E upto \in 1..Top :
       ac' = IF upto = Top
             THEN [Allocated(Top) EXCEPT !.tcp = "open", !.app.holds = TRUE, !.todo = Stream,
                                         !.app.conn = IF Has("tls") THEN 0 ELSE 1]
             ELSE LowerErr([Allocated(upto) EXCEPT !.tcp = "gone"], 1)

(* A segment holds the proxy's answer or what follows, never both: the     *)
(* peer behind the proxy waits for us to speak first.                      *)
Cuts == { n \in 1..Len(ac.todo) : \A k \in 1..(n - 1) : ac.todo[k] # Answer }

(* Data TCP keeps because it was refused is presented again.               *)
Arrives(n, r) ==
  IF r.ret \in {"ok", "abrt"} THEN r
  ELSE [r EXCEPT !.todo = ac.todo, !.win = ac.win, !.ret = "ok"]

altcp_tcp_recv ==
  /\ ac.tcp = "open" /\ ~ac.fin
  /\ \E n \in Cuts, do \in {"take", "keep", "refuse"} \cup (IF MayAbort THEN {"abort"} ELSE {}),
        left \in (IF MayStarve THEN 0..2 ELSE {99}),
        fails \in (IF Has("tls") /\ ~ac.tls.hs THEN BOOLEAN ELSE {FALSE}) :
       ac' = Arrives(n, Recv([ac EXCEPT !.todo = SubSeq(@, n + 1, Len(@)), !.win = @ + n], 1,
                             SubSeq(ac.todo, 1, n), do, left, fails, TRUE))

Fin ==
  /\ ac.tcp = "open" /\ ~ac.fin
  /\ ~EarlyFin => (~Has("proxy") \/ ac.proxied)
  /\ \E do \in {"take", "refuse"}, left \in (IF MayStarve THEN 0..2 ELSE {99}),
        works \in (IF MayFail THEN BOOLEAN ELSE {TRUE}) :
       ac' = Recv([ac EXCEPT !.fin = TRUE, !.todo = <<>>], 1, <<>>, do, left, FALSE, works)

altcp_tcp_sent ==
  /\ ac.tcp = "open" /\ ac.snd > 0
  /\ ac' = LET acked == [ac EXCEPT !.snd = @ - 1]
           IN IF acked.tls.hs THEN altcp_mbedtls_bio_send(acked) ELSE acked

altcp_mbedtls_lower_poll(s, i, do, left) ==
  Hidden(altcp_mbedtls_handle_rx_appldata(altcp_mbedtls_bio_send(s), i, do, left))

altcp_tcp_poll ==
  /\ ac.tcp = "open" /\ Has("tls")
  /\ \E do \in {"take", "keep", "refuse"}, left \in (IF MayStarve THEN 0..2 ELSE {99}) :
       ac' = altcp_mbedtls_lower_poll(ac, Top, do, left)

altcp_tcp_err ==
  /\ ac.tcp = "open"
  /\ ac' = LowerErr([ac EXCEPT !.tcp = "gone"], 1)

AppWrite ==
  /\ ac.app.holds /\ ac.tcp = "open" /\ ac.down < 3
  /\ ac' = LET r == altcp_write(ac)
           IN [r EXCEPT !.down = IF r.ret = "ok" THEN @ + 1 ELSE @, !.ret = "ok"]

AppRecved ==
  /\ ac.app.holds /\ ac.app.owes > 0
  /\ ac' = altcp_recved([ac EXCEPT !.app.owes = 0], Top, ac.app.owes)

AppClose ==
  /\ ac.app.holds
  /\ \E works \in (IF MayFail THEN BOOLEAN ELSE {TRUE}) :
       ac' = [altcp_close([ac EXCEPT !.app.holds = ~works], Top, works) EXCEPT !.ret = "ok"]

AppAborts ==
  /\ MayAbort /\ ac.app.holds /\ ac.tcp # "closed"
  /\ ac' = [altcp_abort(ac, Top) EXCEPT !.ret = "ok"]

Next == \/ altcp_new_ip_type \/ altcp_connect \/ Accept \/ altcp_tcp_recv \/ Fin
        \/ altcp_tcp_sent \/ altcp_tcp_poll \/ altcp_tcp_err
        \/ AppWrite \/ AppRecved \/ AppClose \/ AppAborts

Spec == Init /\ [][Next]_ac

-----------------------------------------------------------------------------
(* Every layer is freed exactly once.  A layer's inner connection, and the *)
(* connection the application holds, have not been freed; when the         *)
(* application no longer holds one nothing is left, and it lost it only by *)
(* ending it itself or by its error callback, called at most once.         *)
AltcpOwned ==
  /\ ~ac.bad /\ ac.app.errs <= 1 /\ ac.app.conn <= 1 /\ ac.app.eof <= 1
  /\ \A i \in ac.inner : i \in ac.live /\ i - 1 \in ac.live
  /\ ac.app.holds => ac.live = 1..Top /\ ac.tcp \in {"closed", "open"} /\ ac.app.errs = 0
  /\ ~ac.app.holds => ac.live = {}

(* Every unit received is given back to the TCP window exactly once: what  *)
(* is outstanding is what is queued encrypted, what is read of a record    *)
(* not yet complete, what waits for the application and what the           *)
(* application has not acknowledged.                                       *)
AltcpWindow ==
  ac.app.holds /\ ac.tcp = "open" =>
    IF Has("tls")
    THEN /\ ac.win = Len(ac.tls.rx) + (ac.tls.read - ac.tls.appl) + Len(ac.tls.app) + ac.tls.passed
         /\ ac.tls.passed = ac.app.owes
    ELSE ac.win = ac.app.owes

(* However the stream is cut, refused or delayed for want of buffers, the  *)
(* application gets the data in order, and the end of the stream when no   *)
(* complete record is left to decrypt; after all the data when the FIN was *)
(* delayed for it.  Records written are sent once, in order.               *)
AltcpStream ==
  /\ \A i \in DOMAIN ac.app.got : ac.app.got[i] = i
  /\ ac.app.eof = 1 /\ ac.app.holds =>
       /\ ac.tls.closeq => ac.tls.avail = <<>> /\ ac.tls.app = <<>>
       /\ ac.tls.rx = <<>> \/ Len(ac.tls.rx) < Missing(ac.tls)
  /\ ac.app.holds => ac.down = ac.wire + ac.tls.out

(* The end of the stream comes after all the data ("we have unprocessed    *)
(* data, so delay the FIN", altcp_mbedtls_lower_recv).  Not so when a      *)
(* record is longer than a pbuf and the pool is empty before all of it is  *)
(* fetched: the FIN overtakes what mbedtls still holds.                    *)
EofLast ==
  ac.app.eof = 1 /\ ac.app.holds => ac.tls.avail = <<>> /\ ac.tls.app = <<>>
=============================================================================

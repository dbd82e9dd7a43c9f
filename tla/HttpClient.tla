----------------------------- MODULE HttpClient -----------------------------
(***************************************************************************)
(* The HTTP client (http_client.c): one request, to a callback or to a     *)
(* file, by address or by name, from httpc_get_file and its variants to    *)
(* the result callback.  The response arrives in segments cut anywhere;    *)
(* the server, the connection, the name lookup and every allocation may    *)
(* fail at any point.                                                      *)
(*                                                                         *)
(* A response is a sequence of units: a status line, header lines and line *)
(* ends (negative), then the bytes of the body (positive).                 *)
(***************************************************************************)
EXTENDS Integers, Sequences, SequencesExt

CONSTANTS
  Bodies,     \* lengths of the body the server sends
  Lengths,    \* what its Content-Length may say; Unknown: no such header
  Unknown,    \* HTTPC_CONTENT_LEN_INVALID
  PollTimeout,\* HTTPC_POLL_TIMEOUT, in poll intervals
  MayRefuse   \* whether the application's receive callback may refuse data

VARIABLE hc

Crlf   == -1
Status == -2
LengthHeader(n) == -10 - n

(* An HTTP response with a body of n bytes whose Content-Length is len.    *)
Response(n, len) ==
  <<Status, Crlf>> \o (IF len = Unknown THEN <<>> ELSE <<LengthHeader(len), Crlf>>)
    \o <<Crlf>> \o [i \in 1..n |-> i]

(* kept: what is allocated.  todo: the units still to come.  held: units   *)
(* received whose window is not given back.  told: the results reported.   *)
NoRequest ==
  [st |-> "none", disk |-> FALSE, kept |-> {}, ticks |-> 0, parse |-> "line",
   hdrs |-> <<>>, clen |-> Unknown, got |-> 0, status |-> 0, body |-> <<>>,
   held |-> 0, todo |-> <<>>, told |-> <<>>, ret |-> "none", freed |-> FALSE]

Init == hc = NoRequest

Freed(h, what) ==
  [h EXCEPT !.kept = @ \ {what}, !.freed = @ \/ what \notin h.kept]

httpc_fs_free(h) == IF h.disk THEN Freed(h, "file") ELSE h

(* The pcb is closed, or aborted if closing fails.                         *)
httpc_free_state(h) ==
  [Freed(h, "req") EXCEPT !.kept = @ \ {"request", "hdrs", "pcb"}, !.st = "done",
                          !.hdrs = <<>>, !.held = 0, !.todo = <<>>, !.ticks = 0]

httpc_fs_result(h, result, status) ==
  httpc_fs_free([h EXCEPT !.told = Append(@, <<result, h.got, status>>)])

httpc_close(h, result, status) ==
  httpc_free_state(httpc_fs_result(h, result, status))

http_parse_response_status(h) ==
  IF h.parse = "line" /\ \E i \in DOMAIN h.hdrs : h.hdrs[i] = Crlf
  THEN [h EXCEPT !.parse = "headers", !.status = 200] ELSE h

HeaderEnds(hdrs) ==
  { i \in 2..Len(hdrs) : hdrs[i - 1] = Crlf /\ hdrs[i] = Crlf }

HeaderEnd(hdrs) == CHOOSE i \in HeaderEnds(hdrs) : \A j \in HeaderEnds(hdrs) : i <= j

http_wait_headers(hdrs) ==
  IF \E i \in DOMAIN hdrs : hdrs[i] <= -10
  THEN -10 - hdrs[CHOOSE i \in DOMAIN hdrs : hdrs[i] <= -10] ELSE Unknown

httpc_fs_tcp_recv(h, p) == [h EXCEPT !.body = @ \o p, !.held = @ - Len(p)]

(* A callback that refuses leaves the data to TCP, which presents the same *)
(* pbuf again.                                                             *)
Delivered(h, p, takes) ==
  LET counted == [h EXCEPT !.got = @ + Len(p)]
  IN IF p = <<>> THEN h
     ELSE IF takes THEN httpc_fs_tcp_recv(counted, p)
     ELSE [counted EXCEPT !.todo = p \o @, !.held = @ - Len(p)]

HeadersDone(h, end, app) ==
  LET known == [h EXCEPT !.clen = http_wait_headers(h.hdrs), !.held = @ - end]
  IN IF app = "abort" THEN httpc_close(known, "local_abort", h.status)
     ELSE Delivered([known EXCEPT !.hdrs = <<>>, !.kept = @ \ {"hdrs"}, !.parse = "data"],
                    SubSeq(h.hdrs, end + 1, Len(h.hdrs)), app # "refuse")

Headers(h, p, app) ==
  LET more == http_parse_response_status([h EXCEPT !.hdrs = @ \o p, !.kept = @ \cup {"hdrs"}])
  IN IF more.parse = "headers" /\ HeaderEnds(more.hdrs) # {}
     THEN HeadersDone(more, HeaderEnd(more.hdrs), app) ELSE more

httpc_tcp_recv(h, p, app) ==
  IF h.parse # "data" THEN Headers(h, p, app) ELSE Delivered(h, p, app # "refuse")

Fin(h) ==
  httpc_close(h, IF h.parse # "data" THEN "closed"
                 ELSE IF h.clen # Unknown /\ h.clen # h.got THEN "content_len" ELSE "ok",
              h.status)

httpc_fs_init(h) == [h EXCEPT !.disk = TRUE, !.kept = @ \cup {"file"}]

httpc_init_connection_common(h, resp) ==
  [h EXCEPT !.ticks = PollTimeout, !.todo = resp, !.kept = @ \cup {"req", "request", "pcb"}]

httpc_get_internal_addr(h) == [h EXCEPT !.st = "syn", !.ret = "ok"]

(* The address is known already, or the lookup is in progress.             *)
httpc_get_internal_dns(h) == { httpc_get_internal_addr(h), [h EXCEPT !.st = "dns", !.ret = "ok"] }

Refused(h) == [h EXCEPT !.st = "done", !.ret = "err"]

Starts(h, dns) == IF dns THEN httpc_get_internal_dns(h) ELSE {httpc_get_internal_addr(h)}

(* The call starts the connection, to a name if dns and else to an address; *)
(* or the connection is not set up, or it is and connecting fails.          *)
Get(h, dns) ==
  \/ \E n \in Bodies, len \in Lengths :
       hc' \in Starts(httpc_init_connection_common(h, Response(n, len)), dns)
  \/ hc' = Refused(httpc_fs_free(h))
  \/ hc' = Refused(httpc_free_state(httpc_fs_free(httpc_init_connection_common(h, <<>>))))

httpc_get_file ==
  hc.st = "none" /\ Get(hc, FALSE)

httpc_get_file_dns ==
  hc.st = "none" /\ Get(hc, TRUE)

httpc_get_file_to_disk ==
  /\ hc.st = "none"
  /\ \/ hc' = Refused(hc)
     \/ Get(httpc_fs_init(hc), FALSE)

httpc_get_file_dns_to_disk ==
  /\ hc.st = "none"
  /\ \/ hc' = Refused(hc)
     \/ Get(httpc_fs_init(hc), TRUE)

httpc_dns_found ==
  /\ hc.st = "dns"
  /\ \/ hc' = [hc EXCEPT !.st = "syn"]
     \/ \E why \in {"connect", "hostname"} : hc' = httpc_close(hc, why, 0)

httpc_tcp_connected ==
  /\ hc.st = "syn"
  /\ \/ hc' = [hc EXCEPT !.st = "open", !.kept = @ \ {"request"}]
     \/ hc' = httpc_close(hc, "mem", 0)

Segment ==
  /\ hc.st = "open"
  /\ \E n \in 1..Len(hc.todo), app \in {"take", "abort"} \cup (IF MayRefuse THEN {"refuse"} ELSE {}) :
       hc' = httpc_tcp_recv([hc EXCEPT !.todo = SubSeq(@, n + 1, Len(@)), !.held = @ + n],
                            SubSeq(hc.todo, 1, n), app)

(* The server closes: after its whole response, or earlier.                *)
Closed == hc.st = "open" /\ hc' = Fin(hc)

httpc_tcp_err ==
  /\ hc.st \in {"syn", "open"}
  /\ hc' = httpc_close([hc EXCEPT !.kept = @ \ {"pcb"}], "closed", 0)

httpc_tcp_poll ==
  /\ hc.st \in {"syn", "open"}
  /\ IF hc.ticks <= 1 THEN hc' = httpc_close(hc, "timeout", 0)
     ELSE hc' = [hc EXCEPT !.ticks = @ - 1]

Next == \/ httpc_get_file \/ httpc_get_file_dns
        \/ httpc_get_file_to_disk \/ httpc_get_file_dns_to_disk
        \/ httpc_dns_found \/ httpc_tcp_connected \/ Segment \/ Closed
        \/ httpc_tcp_err \/ httpc_tcp_poll

Spec == Init /\ [][Next]_hc

-----------------------------------------------------------------------------
(* A request whose start returned an error is never reported; one that was *)
(* started is reported exactly once, at the moment its state, its pcb, its *)
(* buffers and its file are released, each exactly once.                   *)
HttpcOneResult ==
  /\ ~hc.freed
  /\ hc.st = "done" => hc.kept = {} /\ Len(hc.told) = (IF hc.ret = "ok" THEN 1 ELSE 0)
  /\ hc.st # "done" => hc.told = <<>>

(* However the response is cut into segments, the callback or the file     *)
(* gets the bytes of the body in order and nothing of the headers, and the *)
(* receive window is given back for everything but the headers still being *)
(* collected.  "ok" is reported only if as many bytes were handed on as    *)
(* the headers announced.                                                  *)
HttpcBody ==
  /\ \A i \in DOMAIN hc.body : hc.body[i] = i
  /\ hc.st = "open" => hc.got = Len(hc.body) /\ hc.held = Len(hc.hdrs)
  /\ \A i \in DOMAIN hc.told :
       hc.told[i][1] = "ok" =>
         /\ hc.told[i][2] = Len(hc.body) /\ hc.told[i][3] # 0
         /\ hc.clen \in {Unknown, Len(hc.body)}
=============================================================================

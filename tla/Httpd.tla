------------------------------- MODULE Httpd --------------------------------
(***************************************************************************)
(* The HTTP server (httpd.c): its connection states and their pool, the    *)
(* parsing of a request that arrives in pieces, POST bodies with and       *)
(* without a manually opened window, and the sending of headers, files and *)
(* server side includes through a send buffer that fills up.               *)
(*                                                                         *)
(* A header string is one unit "h"; a file is a sequence of characters; an *)
(* include handler inserts InsertLen units "i" after a tag it knows and    *)
(* "u" after one it does not.                                              *)
(***************************************************************************)
EXTENDS Integers, FiniteSets, Sequences, SequencesExt

CONSTANTS
  Conns,       \* the pcbs of accepted connections
  Files,       \* file name -> its characters
  SsiFiles,    \* the files checked for tags
  NumHdr,      \* header strings of a response
  InsertLen,   \* length of an insert
  MaxName,     \* LWIP_HTTPD_MAX_TAG_NAME_LEN
  SndBuf,      \* the pcb's send buffer
  NumStates,   \* MEMP_NUM_PARALLEL_HTTPD_CONNS
  NumSsi,      \* MEMP_NUM_PARALLEL_HTTPD_SSI_CONNS
  QueueLen,    \* LWIP_HTTPD_REQ_QUEUELEN
  MaxRetries,  \* HTTPD_MAX_RETRIES
  PostLens,    \* Content-Lengths of the POSTs
  MayReset,    \* whether a connection may be reset during a POST
  MayRefuse    \* whether the application refuses data under a manual window

VARIABLE web

NoFile == "none"
NoSsi  == [st |-> "off"]
Smaller(a, b) == IF a < b THEN a ELSE b

(* http_state_init *)
http_state_init == [req |-> 0, file |-> NoFile, hdr |-> 0, pos |-> 0, left |-> 0,
                    ssi |-> NoSsi, keep |-> FALSE, retries |-> 0, post |-> 0,
                    unrec |-> 0, manual |-> FALSE, fin |-> FALSE, all |-> <<>>]
NoState == [req |-> 99]

Idle == [pcb |-> "none", h |-> NoState, una |-> 0, out |-> <<>>, cut |-> FALSE,
         begun |-> 0, ended |-> 0, rest |-> 0]

Init == web = [con |-> [c \in Conns |-> Idle], list |-> <<>>]

Chars(f) == IF f = NoFile THEN <<>> ELSE Files[f]

-----------------------------------------------------------------------------
(* Server side includes.  The work record s: the state h, what was written *)
(* (out), the room in the send buffer, whether a write without room fails  *)
(* (mem), the length last written (len) and whether it failed (err).       *)

LeadIn  == <<"<", "#">>
LeadOut == <<"-", ">">>
White   == {" "}

(* http_write *)
http_write(s, units) ==
  LET n == Smaller(Len(units), s.room)
  IN [s EXCEPT !.out = @ \o SubSeq(units, 1, n), !.room = @ - n, !.len = n,
               !.err = Len(units) > 0 /\ n = 0 /\ s.mem]

(* The characters from hs->file on to offset upto. *)
WriteFile(s, upto) ==
  LET w == http_write(s, SubSeq(Chars(s.h.file), s.h.pos + 1, upto))
  IN [w EXCEPT !.h.pos = @ + w.len, !.h.left = @ - w.len]

get_tag_insert(name) ==
  [k \in 1 .. InsertLen |-> IF name = <<"n">> THEN "i" ELSE "u"]

TagNone(i, ch) ==
  IF ch = LeadIn[1] THEN [i EXCEPT !.st = "leadin", !.idx = 1, !.parsed = @ + 1]
  ELSE [i EXCEPT !.parsed = @ + 1]

TagLeadin(i, ch) ==
  IF i.idx = Len(LeadIn) THEN [i EXCEPT !.idx = 0, !.st = "found", !.name = <<>>]
  ELSE IF ch = LeadIn[i.idx + 1] THEN [i EXCEPT !.idx = @ + 1, !.parsed = @ + 1]
  ELSE [i EXCEPT !.st = "none", !.parsed = @ + 1]

TagFound(i, ch) ==
  CASE i.idx = 0 /\ ch \in White -> [i EXCEPT !.parsed = @ + 1]
    [] i.idx = 0 /\ ch = LeadOut[1] -> [i EXCEPT !.st = "none", !.parsed = @ + 1]
    [] i.idx > 0 /\ ch \in White \union {LeadOut[1]} ->
         [i EXCEPT !.st = "leadout", !.parsed = @ + 1,
                   !.idx = IF ch = LeadOut[1] THEN 1 ELSE 0]
    [] OTHER -> IF i.idx < MaxName
                THEN [i EXCEPT !.name = Append(@, ch), !.idx = @ + 1, !.parsed = @ + 1]
                ELSE [i EXCEPT !.st = "none", !.parsed = @ + 1]

(* A complete tag: what precedes it, and the tag itself, is written first. *)
TagLeadout(s, i, ch) ==
  IF i.idx = 0 /\ ch \in White THEN [s EXCEPT !.h.ssi.parsed = @ + 1]
  ELSE IF ch # LeadOut[i.idx + 1]
  THEN [s EXCEPT !.h.ssi.parsed = @ + 1, !.h.ssi.st = "none"]
  ELSE IF i.idx + 1 < Len(LeadOut)
  THEN [s EXCEPT !.h.ssi.parsed = @ + 1, !.h.ssi.idx = @ + 1]
  ELSE WriteFile([s EXCEPT !.h.ssi = [@ EXCEPT !.parsed = @ + 1, !.st = "sending",
                                               !.idx = 0, !.tend = i.parsed + 1]],
                 i.parsed + 1)

TagSending(s, i) ==
  LET ins == get_tag_insert(i.name)
      w   == http_write(s, SubSeq(ins, i.idx + 1, Len(ins)))
  IN IF i.tend > s.h.pos THEN WriteFile(s, i.tend)
     ELSE IF i.idx < Len(ins) THEN [w EXCEPT !.h.ssi.idx = @ + w.len]
     ELSE [s EXCEPT !.h.ssi.idx = 0, !.h.ssi.st = "none", !.h.ssi.name = <<>>]

SsiStep(s, i, ch) ==
  CASE i.st = "none"    -> [s EXCEPT !.h.ssi = TagNone(i, ch)]
    [] i.st = "leadin"  -> [s EXCEPT !.h.ssi = TagLeadin(i, ch)]
    [] i.st = "found"   -> [s EXCEPT !.h.ssi = TagFound(i, ch)]
    [] i.st = "leadout" -> TagLeadout(s, i, ch)
    [] i.st = "sending" -> TagSending(s, i)

RECURSIVE SsiLoop(_)
SsiLoop(s) ==
  LET i == s.h.ssi
      f == Chars(s.h.file)
  IN IF (i.st = "sending" \/ i.parsed < Len(f)) /\ ~s.err
     THEN IF s.len = 0 THEN s
          ELSE SsiLoop(SsiStep(s, i, IF i.parsed < Len(f) THEN f[i.parsed + 1] ELSE "eof"))
     ELSE IF i.st # "sending" /\ i.parsed > s.h.pos THEN WriteFile(s, i.parsed) ELSE s

(* What was parsed before and not sent comes first. *)
SsiResume(s, parsed) == IF parsed /\ s.room = 0 THEN s ELSE SsiLoop(s)

http_send_data_ssi(s) ==
  SsiResume(IF s.h.ssi.parsed > s.h.pos THEN WriteFile(s, s.h.ssi.parsed)
            ELSE [s EXCEPT !.len = s.room], s.h.ssi.parsed > s.h.pos)

http_send_data_nonssi(s) == WriteFile(s, s.h.pos + s.h.left)

http_send_headers(s) ==
  LET w == http_write(s, [k \in 1 .. s.h.hdr |-> "h"])
  IN [w EXCEPT !.h.hdr = @ - w.len]

SendData(s) ==
  IF s.h.ssi # NoSsi THEN http_send_data_ssi(s) ELSE http_send_data_nonssi(s)

-----------------------------------------------------------------------------
(* Connection states: the list http_connections, newest first, and the     *)
(* pools they and their include states come from.                          *)

Used(w)    == {c \in Conns : w.con[c].h # NoState}
SsiUsed(w) == {c \in Used(w) : w.con[c].h.ssi # NoSsi}

http_add_connection(w, c)    == [w EXCEPT !.list = <<c>> \o @]
http_remove_connection(w, c) == [w EXCEPT !.list = SelectSeq(@, LAMBDA d : d # c)]

(* The file, the include state and the queued request are released. *)
http_state_free(w, c) ==
  [http_remove_connection(w, c) EXCEPT !.con[c].h = NoState]

(* http_close_or_abort_conn; the close may fail, and is tried again by the *)
(* poll.  A pcb that is gone starts afresh.                                *)
http_close_or_abort_conn(w, c, how) ==
  LET h    == w.con[c].h
      cut  == h # NoState /\ (h.post # 0 \/ (h.manual /\ h.unrec # 0))
      told == IF cut THEN [w EXCEPT !.con[c].ended = @ + 1] ELSE w
      free == IF h = NoState THEN told ELSE http_state_free(told, c)
  IN [free EXCEPT !.con[c].pcb = IF how = "fail" THEN "closing" ELSE "gone"]

(* The oldest but the newest; for an include state, one that has one. *)
http_kill_oldest_connection(w, ssi) ==
  LET ks == {k \in 2 .. Len(w.list) : ssi => w.list[k] \in SsiUsed(w)}
  IN IF ks = {} THEN w
     ELSE http_close_or_abort_conn(w, w.list[CHOOSE k \in ks : \A j \in ks : j <= k], "abort")

http_state_alloc(w, c) ==
  LET v == IF Cardinality(Used(w)) < NumStates THEN w
           ELSE http_kill_oldest_connection(w, FALSE)
  IN IF Cardinality(Used(v)) < NumStates
     THEN {http_add_connection([v EXCEPT !.con[c].h = http_state_init], c)} ELSE {}

http_ssi_state_alloc(w) ==
  IF Cardinality(SsiUsed(w)) < NumSsi THEN w ELSE http_kill_oldest_connection(w, TRUE)

-----------------------------------------------------------------------------
(* The whole response to the request being answered. *)
TagName(f, i, k) == SelectSeq(SubSeq(f, i + Len(LeadIn), k - Len(LeadOut)),
                              LAMBDA ch : ch \notin White)

(* Where the tags that end at character k start. *)
TagStarts(f, k) ==
  IF k < Len(LeadOut) \/ SubSeq(f, k - Len(LeadOut) + 1, k) # LeadOut THEN {}
  ELSE {i \in 1 .. k - Len(LeadIn) - Len(LeadOut) :
          /\ SubSeq(f, i, i + Len(LeadIn) - 1) = LeadIn
          /\ Len(TagName(f, i, k)) \in 1 .. MaxName
          /\ "-" \notin {f[j] : j \in i + Len(LeadIn) .. k - Len(LeadOut)}}

Expanded(f) ==
  LET g[k \in 0 .. Len(f)] ==
        IF k = 0 THEN <<>>
        ELSE g[k - 1] \o <<f[k]>> \o
             (IF TagStarts(f, k) = {} THEN <<>>
              ELSE get_tag_insert(TagName(f, CHOOSE i \in TagStarts(f, k) : TRUE, k)))
  IN g[Len(f)]

Response(f, ssi) ==
  [k \in 1 .. NumHdr |-> "h"] \o (IF ssi THEN Expanded(Chars(f)) ELSE Chars(f))

(* cut: the end of file came before the response was complete. *)
http_eof(w, c, mem) ==
  LET k    == w.con[c]
      done == [w EXCEPT !.con[c].cut = @ \/ k.out # k.h.all]
      fresh == [http_state_init EXCEPT !.keep = TRUE]
  IN IF k.h.keep
     THEN http_add_connection(
            [http_remove_connection(done, c) EXCEPT
               !.con[c] = [@ EXCEPT !.h = fresh, !.out = <<>>,
                                    !.begun = k.begun - k.ended, !.ended = 0]], c)
     ELSE http_close_or_abort_conn(done, c, IF mem THEN "fail" ELSE "close")

Sent(w, c, s) == [w EXCEPT !.con[c].h = s.h, !.con[c].out = s.out,
                           !.con[c].una = SndBuf - s.room]

SentFile(w, c, s) ==
  IF s.h.left = 0 THEN http_eof(Sent(w, c, s), c, s.mem) ELSE Sent(w, c, s)

(* The headers come first. *)
SentHeaders(w, c, s) ==
  IF s.h.hdr > 0 THEN Sent(w, c, s)
  ELSE SentFile(w, c, IF s.h.left = 0 THEN s ELSE SendData(s))

Writing(k, mem) == [h |-> k.h, out |-> k.out, room |-> SndBuf - k.una, mem |-> mem,
                    len |-> 0, err |-> FALSE]

http_send(w, c, mem) ==
  IF w.con[c].h.unrec # 0 THEN w
  ELSE SentHeaders(w, c, http_send_headers(Writing(w.con[c], mem)))

-----------------------------------------------------------------------------
(* Requests. *)

NewSsi == [st |-> "none", idx |-> 0, parsed |-> 0, tend |-> 0, name |-> <<>>]

(* http_init_file after http_find_file; NoFile when not even a 404 page is *)
(* found.  Without a free include state the file is sent as it is.         *)
http_init_file(w, c, f) ==
  LET v   == IF f \in SsiFiles THEN http_ssi_state_alloc(w) ELSE w
      ssi == f \in SsiFiles /\ Cardinality(SsiUsed(v)) < NumSsi
  IN [v EXCEPT !.con[c].h = [@ EXCEPT !.file = f, !.hdr = NumHdr, !.pos = 0,
                                      !.left = Len(Chars(f)), !.retries = 0,
                                      !.ssi = IF ssi THEN NewSsi ELSE NoSsi,
                                      !.keep = @ /\ ~ssi, !.all = Response(f, ssi)]]

(* httpd_post_finished names the file of the answer. *)
http_handle_post_finished(w, c, f) ==
  LET h == w.con[c].h
      v == [w EXCEPT !.con[c].h.fin = TRUE, !.con[c].ended = @ + 1]
  IN IF h.fin THEN w ELSE http_init_file(v, c, f)

(* a: what the application does with the data: whether it fails, and       *)
(* whether it opens the window at once.                                    *)
http_post_rxpbuf(w, c, n, a) ==
  LET h == w.con[c].h
      g == [h EXCEPT !.post = IF a.fail THEN 0 ELSE IF @ < n THEN 0 ELSE @ - n,
                     !.unrec = IF h.manual /\ a.open THEN 0 ELSE @]
      v == [w EXCEPT !.con[c].h = g]
  IN IF g.post = 0 /\ g.unrec = 0 THEN http_handle_post_finished(v, c, a.file) ELSE v

(* A complete POST whose segment also carries n bytes of its body. *)
http_post_request(w, c, len, n, a) ==
  LET h == [w.con[c].h EXCEPT !.manual = a.manual, !.post = len,
                              !.unrec = IF a.manual THEN n ELSE 0]
      v == [w EXCEPT !.con[c].h = h, !.con[c].begun = @ + 1]
  IN IF a.deny THEN http_init_file(w, c, a.file)
     ELSE IF n > 0 \/ len = 0 THEN http_post_rxpbuf(v, c, n, a) ELSE v

(* http_find_error_file; without an error page the connection is closed.   *)
BadRequest(w, c) ==
  IF "err" \in DOMAIN Files THEN http_init_file(w, c, "err")
  ELSE http_close_or_abort_conn(w, c, "close")

(* http_parse_request: p.kind is part as long as the pieces received make  *)
(* no request.                                                             *)
http_parse_request(w, c, p, a) ==
  LET v == [w EXCEPT !.con[c].h.req = 0]
      k == [v EXCEPT !.con[c].h.keep = p.keep]
  IN CASE p.kind = "part" /\ w.con[c].h.req < QueueLen -> [w EXCEPT !.con[c].h.req = @ + 1]
       [] p.kind = "get"  -> http_init_file(k, c, p.file)
       [] p.kind = "post" -> http_post_request(k, c, p.len, p.n, a)
       [] OTHER           -> BadRequest(v, c)

Answer(w, c, yes, mem) ==
  IF ~yes \/ w.con[c].h = NoState \/ w.con[c].h.post # 0 THEN w ELSE http_send(w, c, mem)

Taken(w, c, p, a) ==
  LET h == w.con[c].h
  IN IF h.post > 0
     THEN http_post_rxpbuf([w EXCEPT !.con[c].h.retries = 0], c, p.n, a)
     ELSE IF h.file # NoFile THEN w ELSE http_parse_request(w, c, p, a)

http_recv(w, c, p, a, mem) ==
  LET h == w.con[c].h
  IN Answer(Taken(IF h.manual THEN [w EXCEPT !.con[c].h.unrec = @ + p.n] ELSE w, c, p, a), c,
            h.post > 0 \/ (h.file = NoFile /\ (p.kind # "part" \/ h.req >= QueueLen)), mem)

-----------------------------------------------------------------------------
(* The callbacks of the pcb, the poll and the application. *)

Open(c) == web.con[c].pcb = "open"

(* http_accept *)
Accept(c) ==
  /\ web.con[c].pcb \in {"none", "gone"}
  /\ \E w \in http_state_alloc([web EXCEPT !.con[c] = [Idle EXCEPT !.pcb = "open"]], c) :
       web' = w

Apps == {a \in [fail : BOOLEAN, open : BOOLEAN, manual : BOOLEAN, deny : BOOLEAN,
                file : DOMAIN Files \union {NoFile}] :
           /\ a.deny => ~a.fail /\ ~a.open /\ ~a.manual
           /\ a.fail /\ a.manual => MayRefuse}

(* The client sends its next request once it has the whole answer. *)
Awaits(c) == LET k == web.con[c]
             IN /\ k.h.file = NoFile /\ k.h.hdr = 0 /\ k.h.post = 0
                /\ k.una = 0 /\ k.rest = 0 /\ (k.h.manual => k.h.fin)

NoApp == [fail |-> FALSE, open |-> FALSE, manual |-> FALSE, deny |-> FALSE, file |-> NoFile]

Received(c, p, rest) ==
  \E a \in IF p.kind = "post" \/ web.con[c].h.post > 0 THEN Apps ELSE {NoApp},
     mem \in BOOLEAN :
    /\ a.fail /\ web.con[c].h.manual => MayRefuse
    /\ web' = http_recv([web EXCEPT !.con[c].rest = rest], c, p, a, mem)

Piece == [kind |-> "part", n |-> 0, len |-> 0, keep |-> FALSE, file |-> NoFile]

Requests ==
  {[Piece EXCEPT !.kind = kind] : kind \in {"part", "bad"}} \union
  {[Piece EXCEPT !.kind = "get", !.file = f, !.keep = keep] :
     f \in DOMAIN Files \union {NoFile}, keep \in BOOLEAN} \union
  UNION {{[Piece EXCEPT !.kind = "post", !.len = len, !.n = n, !.keep = keep] :
            n \in 0 .. len, keep \in BOOLEAN} : len \in PostLens}

Request(c) ==
  /\ Open(c) /\ Awaits(c)
  /\ \E p \in Requests : Received(c, p, p.len - p.n)

Body(c) ==
  /\ Open(c)
  /\ \E n \in 1 .. web.con[c].rest :
       Received(c, [Piece EXCEPT !.n = n], web.con[c].rest - n)

(* http_recv with no data: the peer has closed. *)
Fin(c) ==
  /\ Open(c)
  /\ \E how \in {"close", "fail"} : web' = http_close_or_abort_conn(web, c, how)

(* http_err *)
Err(c) ==
  /\ web.con[c].pcb \in {"open", "closing"}
  /\ MayReset \/ web.con[c].begun = web.con[c].ended
  /\ web' = [IF Open(c) THEN http_state_free(web, c) ELSE web EXCEPT !.con[c].pcb = "gone"]

(* http_sent *)
Acked(c) ==
  /\ web.con[c].pcb \in {"open", "closing"}
  /\ \E n \in 1 .. web.con[c].una, mem \in BOOLEAN :
       LET w == [web EXCEPT !.con[c].una = @ - n]
       IN web' = IF Open(c) THEN http_send([w EXCEPT !.con[c].h.retries = 0], c, mem) ELSE w

(* http_poll *)
Poll(c) ==
  /\ web.con[c].pcb \in {"open", "closing"}
  /\ \E mem \in BOOLEAN :
       LET w   == [web EXCEPT !.con[c].h.retries = @ + 1]
           how == IF mem THEN "fail" ELSE "close"
       IN web' = IF ~Open(c) THEN http_close_or_abort_conn(web, c, how)
                 ELSE IF w.con[c].h.retries = MaxRetries
                 THEN http_close_or_abort_conn(w, c, how)
                 ELSE IF w.con[c].h.file # NoFile THEN http_send(w, c, mem) ELSE w

(* httpd_post_data_recved *)
httpd_post_data_recved(c) ==
  /\ Open(c) /\ web.con[c].h.manual
  /\ \E n \in 1 .. web.con[c].h.unrec, f \in DOMAIN Files, mem \in BOOLEAN :
       LET w == [web EXCEPT !.con[c].h.unrec = @ - n]
       IN web' = IF w.con[c].h.post = 0 /\ w.con[c].h.unrec = 0
                 THEN http_send(http_handle_post_finished(w, c, f), c, mem) ELSE w

Next == \E c \in Conns : \/ Accept(c) \/ Request(c) \/ Body(c) \/ Fin(c) \/ Err(c)
                         \/ Acked(c) \/ Poll(c) \/ httpd_post_data_recved(c)

Spec == Init /\ [][Next]_web

-----------------------------------------------------------------------------
(* The states in use are exactly the listed ones, one per open pcb, and    *)
(* neither pool is overdrawn: no path out of a connection leaks its state, *)
(* its include state or leaves it listed.                                  *)
HttpStates ==
  /\ {web.list[k] : k \in 1 .. Len(web.list)} = Used(web)
  /\ Len(web.list) = Cardinality(Used(web))
  /\ Used(web) = {c \in Conns : Open(c)}
  /\ Cardinality(Used(web)) <= NumStates /\ Cardinality(SsiUsed(web)) <= NumSsi

(* However the send buffer fills up, what is sent is the beginning of the  *)
(* headers and the file with its includes, and the end of file is reached  *)
(* only when all of it is sent.                                            *)
HttpResponses ==
  \A c \in Conns : /\ ~web.con[c].cut
                   /\ Open(c) => IsPrefix(web.con[c].out, web.con[c].h.all)

(* Every POST the application has accepted is reported finished exactly    *)
(* once, however the connection ends.                                      *)
HttpPosts ==
  \A c \in Conns : /\ web.con[c].ended <= web.con[c].begun
                   /\ web.con[c].pcb \in {"closing", "gone"} =>
                        web.con[c].ended = web.con[c].begun
=============================================================================

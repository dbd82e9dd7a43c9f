-------------------------------- MODULE Smtp --------------------------------
(***************************************************************************)
(* The SMTP client (smtp.c): one mail from smtp_send_mail to its result    *)
(* callback.  Server responses arrive in segments cut anywhere, writes and *)
(* closes may fail and are tried again, and the body, plain or produced    *)
(* piece by piece by a callback, goes through a bounded send buffer.       *)
(*                                                                         *)
(* A response is a sequence of units: its code three times, a separator,   *)
(* the line end, and so on for each line.                                  *)
(***************************************************************************)
EXTENDS Integers, Sequences, SequencesExt

CONSTANTS
  Auths,       \* authentication the server offers: subset of plain, login, none
  BodyLen,     \* length of a plain body
  Chunks,      \* what the body callback produces, call by call; <<>>: plain body
  DoneWithData,\* whether the callback's last data comes with BDH_DONE
  SndBuf,      \* the pcb's send buffer
  Timeout,     \* SMTP_TIMEOUT and the others, in poll intervals
  MayCut       \* whether a segment may end inside a response code

VARIABLE ml

Fewer(a, b) == IF a < b THEN a ELSE b

Total == IF Chunks = <<>> THEN BodyLen ELSE FoldLeft(LAMBDA t, n : t + n, 0, Chunks)

(* said: the commands written so far.  told: the results reported.  todo:  *)
(* what is left of the server's response.                                  *)
NoMail == [st |-> "none", pcb |-> "none", arg |-> FALSE, p |-> <<>>, timer |-> 0,
           len |-> 0, sent |-> 0, call |-> 1, bdh |-> "sending", room |-> SndBuf,
           said |-> <<>>, out |-> 0, code |-> 0, told |-> <<>>, todo |-> <<>>]

Init == ml = NoMail

Sp   == -1
Dash == -2
Crlf == -3

Lines(code, n) ==
  IF n = 1 THEN <<code, code, code, Sp, Crlf>>
  ELSE <<code, code, code, Dash, Crlf, code, code, code, Sp, Crlf>>

-----------------------------------------------------------------------------
(* The end of a session. *)

smtp_free(s, result) ==
  [s EXCEPT !.st = "free", !.p = <<>>, !.arg = FALSE, !.told = Append(@, result)]

(* ok: whether altcp_close succeeds; if not, the session stays. *)
smtp_close(s, result, ok) ==
  IF ~ok /\ s.pcb # "none" THEN s
  ELSE IF s.st = "free" THEN [s EXCEPT !.pcb = "none"]
  ELSE smtp_free([s EXCEPT !.pcb = "none"], result)

-----------------------------------------------------------------------------
(* Responses. *)

smtp_is_response(p) ==
  IF Len(p) < 3 \/ p[1] \in {Sp, Dash, Crlf} THEN 0
  ELSE IF {p[2], p[3]} = {p[1]} THEN p[1] ELSE 1

RECURSIVE Finished(_, _)
Finished(p, offset) ==
  /\ \E k \in offset + 5 .. Len(p) : p[k] = Crlf
  /\ \/ p[offset + 4] = Sp
     \/ /\ p[offset + 4] = Dash
        /\ Finished(p, CHOOSE k \in offset + 5 .. Len(p) :
                         p[k] = Crlf /\ \A j \in offset + 5 .. k - 1 : p[j] # Crlf)

smtp_is_response_finished(p) == Finished(p, 0)

(* The state and command that follow a response; the server's answer to    *)
(* the greeting offers auth.                                               *)
Followers(st, code) ==
  CASE st = "null" /\ code = 220 -> {"helo"}
    [] st = "helo" /\ code = 250 ->
         {IF a = "plain" THEN "auth_plain" ELSE IF a = "login" THEN "auth_login_uname"
          ELSE "mail" : a \in Auths}
    [] st \in {"auth_login", "auth_plain"} /\ code = 235 -> {"mail"}
    [] st = "auth_login_uname" /\ code = 334 -> {"auth_login_pass"}
    [] st = "auth_login_pass" /\ code = 334 -> {"auth_login"}
    [] st = "mail" /\ code = 250 -> {"rcpt"}
    [] st = "rcpt" /\ code = 250 -> {"data"}
    [] st = "data" /\ code = 354 -> {"body"}
    [] st = "quit" /\ code = 250 -> {"closed"}
    [] OTHER -> {st}

(* The code that moves a session on. *)
Wanted(st) ==
  CASE st = "null" -> 220
    [] st \in {"auth_login", "auth_plain"} -> 235
    [] st \in {"auth_login_uname", "auth_login_pass"} -> 334
    [] st = "data" -> 354
    [] OTHER -> 250

-----------------------------------------------------------------------------
(* The body. *)

(* ok: how many more writes find memory.  smtp_send_bodyh_data: 2 when all *)
(* of s.len was written, 1 for a part.                                     *)
smtp_send_bodyh_data(s, ok) ==
  LET n == Fewer(s.len, s.room)
  IN IF ok = 0 THEN [s EXCEPT !.res = 0]
     ELSE [s EXCEPT !.len = @ - n, !.out = @ + n, !.room = @ - n,
                    !.res = IF s.len > n THEN 1 ELSE 2]

Called(s) ==
  LET c == s.call
      done == IF DoneWithData THEN c >= Len(Chunks) ELSE c > Len(Chunks)
  IN [s EXCEPT !.ret = IF @ > s.res THEN @ ELSE s.res, !.call = IF done THEN c ELSE c + 1,
               !.len = IF c <= Len(Chunks) THEN Chunks[c] ELSE 0,
               !.bdh = IF done THEN "stop" ELSE @]

RECURSIVE HandlerLoop(_, _)
HandlerLoop(s, ok) ==
  LET v == Called(s)
      w == smtp_send_bodyh_data(v, ok)
  IN IF v.len = 0 THEN v
     ELSE IF w.res = 2 /\ w.bdh # "stop" THEN HandlerLoop(w, ok - 1) ELSE w

(* sent = len says that the body is complete. *)
Judged(s) == [s EXCEPT !.sent = IF s.bdh # "sending" /\ s.ret # 1 THEN s.len ELSE s.len - 1]

smtp_send_body_data_handler(s, ok) ==
  LET v == IF s.len > 0 THEN smtp_send_bodyh_data(s, ok) ELSE [s EXCEPT !.res = 0]
  IN IF s.len > 0 /\ v.res # 2 THEN [v EXCEPT !.sent = v.len - 1]
     ELSE Judged(IF v.bdh = "sending"
                 THEN HandlerLoop([v EXCEPT !.ret = v.res], IF s.len > 0 THEN ok - 1 ELSE ok)
                 ELSE [v EXCEPT !.ret = v.res])

Kept(s) == [f \in DOMAIN NoMail |-> s[f]]

Handled(s, ok) ==
  Kept(smtp_send_body_data_handler([f \in DOMAIN NoMail \union {"res", "ret"} |->
                                      IF f \in {"res", "ret"} THEN 0 ELSE s[f]], ok))

Plain(s, ok) ==
  LET n == Fewer(s.len - s.sent, s.room)
  IN IF n = 0 \/ ok = 0 THEN s
     ELSE [s EXCEPT !.sent = @ + n, !.out = @ + n, !.room = @ - n, !.timer = Timeout]

(* end: whether there is memory for the terminator; it also needs room. *)
Terminated(s, end) ==
  IF s.sent # s.len \/ ~end \/ s.room = 0 THEN s
  ELSE [s EXCEPT !.st = "quit", !.timer = Timeout, !.said = Append(@, "."), !.code = 0]

smtp_send_body(s, ok, end) ==
  Terminated(IF Chunks = <<>> THEN Plain(s, ok) ELSE Handled(s, ok), end)

-----------------------------------------------------------------------------
(* smtp_process; x: which of the writes and the close succeed. *)

(* The command is written, or s.p stays for the next poll. *)
Moved(s, st, x) ==
  LET v == [s EXCEPT !.timer = Timeout, !.p = <<>>, !.st = st, !.said = Append(@, st),
                     !.code = 0]
  IN IF ~x.write THEN s
     ELSE IF st = "body" THEN smtp_send_body(v, x.body, x.end)
     ELSE IF st = "closed" THEN smtp_free(v, "ok")
     ELSE v

Respond(s, x) ==
  {IF st = s.st THEN smtp_close(s, "svr_resp", x.close) ELSE Moved(s, st, x) :
     st \in Followers(s.st, smtp_is_response(s.p))}

smtp_process(s, new, x) ==
  LET v == [s EXCEPT !.p = @ \o new]
  IN IF ~s.arg THEN {s}
     ELSE IF new = <<>> /\ s.timer = 0 THEN {smtp_close(s, "timeout", x.close)}
     ELSE IF new = <<>> /\ s.st = "body" THEN {smtp_send_body(s, x.body, x.end)}
     ELSE IF smtp_is_response(v.p) = 0 THEN {[v EXCEPT !.p = <<>>]}
     ELSE IF ~smtp_is_response_finished(v.p) THEN {v}
     ELSE Respond(v, x)

Works == [write : BOOLEAN, body : 0 .. 3, end : BOOLEAN, close : BOOLEAN]

-----------------------------------------------------------------------------
(* The calls and callbacks.  A mail that smtp_send_mail refuses is the     *)
(* caller's business: it reports no result.                                *)

Session(pcb) == [NoMail EXCEPT !.st = "null", !.pcb = pcb, !.arg = TRUE, !.timer = Timeout,
                               !.len = IF Chunks = <<>> THEN BodyLen ELSE 0]

smtp_send_mail_alloced ==
  /\ ml.st \in {"none", "free"} /\ ml.pcb = "none"
  /\ \E pcb \in {"dns", "connecting", "none"} :
       ml' = IF pcb = "none" THEN NoMail ELSE Session(pcb)

(* No address, no pcb, or the connect fails. *)
smtp_dns_found ==
  /\ ml.pcb = "dns"
  /\ \/ ml' = [ml EXCEPT !.pcb = "connecting"]
     \/ \E result \in {"hostname", "mem", "connect"} :
          ml' = smtp_close([ml EXCEPT !.pcb = "none"], result, TRUE)

Connected ==
  /\ ml.pcb = "connecting"
  /\ ml' = [ml EXCEPT !.pcb = "open"]

smtp_tcp_err ==
  /\ ml.pcb \in {"connecting", "open"}
  /\ LET v == [ml EXCEPT !.pcb = "none"]
     IN ml' = IF ml.arg THEN smtp_free(v, "closed") ELSE v

smtp_tcp_poll ==
  /\ ml.pcb = "open"
  /\ \E x \in Works :
       ml' \in smtp_process([ml EXCEPT !.timer = IF ml.arg /\ @ > 0 THEN @ - 1 ELSE @], <<>>, x)

(* What was sent of the body is acknowledged. *)
smtp_tcp_sent ==
  /\ ml.pcb = "open" /\ ml.room < SndBuf
  /\ \E x \in Works, n \in 1 .. SndBuf - ml.room :
       ml' \in smtp_process([ml EXCEPT !.room = @ + n], <<>>, x)

(* The server answers each command once, with the wanted code or an error. *)
Reply ==
  /\ ml.pcb = "open" /\ ml.todo = <<>> /\ ml.code = 0
  /\ ml.st \notin {"body", "free"}
  /\ \E code \in {Wanted(ml.st), 550}, n \in 1 .. 2 :
       ml' = [ml EXCEPT !.todo = Lines(code, n), !.code = code]

smtp_tcp_recv ==
  /\ ml.pcb = "open" /\ ml.todo # <<>>
  /\ \E x \in Works, k \in 1 .. Len(ml.todo) :
       /\ MayCut \/ k >= 3 \/ ml.p # <<>>
       /\ ml' \in smtp_process([ml EXCEPT !.todo = SubSeq(@, k + 1, Len(@))],
                               SubSeq(ml.todo, 1, k), x)

Fin ==
  /\ ml.pcb = "open"
  /\ \E ok \in BOOLEAN : ml' = smtp_close(ml, "closed", ok)

Next == \/ smtp_send_mail_alloced \/ smtp_dns_found \/ Connected \/ smtp_tcp_err
        \/ smtp_tcp_poll \/ smtp_tcp_sent \/ Reply \/ smtp_tcp_recv \/ Fin

Spec == Init /\ [][Next]_ml

-----------------------------------------------------------------------------
(* A mail that was accepted has one result, at the very moment its session *)
(* ends: as long as there is none, a pcb or the resolver still refers to   *)
(* the session.                                                            *)
SmtpOneResult ==
  /\ Len(ml.told) = IF ml.st = "free" THEN 1 ELSE 0
  /\ ml.arg <=> ml.st \notin {"none", "free"}
  /\ ml.arg => ml.pcb # "none"

(* The dialogue of a mail the server has accepted. *)
Dialogue ==
  {<<"helo">> \o a \o <<"mail", "rcpt", "data", "body", ".", "closed">> :
     a \in {<<>>, <<"auth_plain">>, <<"auth_login_uname", "auth_login_pass", "auth_login">>}}

Terminator(s) == "." \in {s.said[k] : k \in 1 .. Len(s.said)}

(* The commands come in the order of the protocol, a mail is reported sent *)
(* only after all of them, and the terminator follows the whole body; if   *)
(* the callback gave its last piece together with BDH_DONE, all but what   *)
(* of that piece could not be written.                                     *)
SmtpSent ==
  /\ \E d \in Dialogue : IsPrefix(ml.said, d)
  /\ ml.told = <<"ok">> => ml.said \in Dialogue
  /\ Terminator(ml) => \/ ml.out = Total
                       \/ /\ DoneWithData /\ ml.bdh = "stop"
                          /\ ml.out + ml.len = Total

(* "The whole body has been written, write last line" (smtp_send_body).    *)
(* Not so when the last piece comes with BDH_DONE and its write fails for  *)
(* want of memory: ret does not remember how that write ended.             *)
WholeBody == Terminator(ml) => ml.out = Total

(* A response that has arrived whole is acted on, or kept until the next   *)
(* command can be written, and only an error of the server is reported as  *)
(* one, wherever the segments cut the responses; unless one ends inside    *)
(* the first response code, which is then lost (MayCut).                   *)
SmtpResponses ==
  /\ ml.told = <<"svr_resp">> => ml.code = 550
  /\ ml.arg /\ ml.code # 0 /\ ml.todo = <<>> => smtp_is_response_finished(ml.p)

=============================================================================

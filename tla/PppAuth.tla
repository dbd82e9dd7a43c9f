------------------------------- MODULE PppAuth ------------------------------
(***************************************************************************)
(* The authentication protocols of a PPP link: PAP (upap.c), CHAP          *)
(* (chap-new.c) and EAP with MD5-Challenge (eap.c), each as the side that  *)
(* authenticates itself ("with") and the side that asks the peer to        *)
(* ("peer").  USE_SRP and the rechallenge timers of EAP, which no setting  *)
(* enables, are left out.                                                  *)
(*                                                                         *)
(* p.in.ok says whether the credentials in the packet are right.           *)
(***************************************************************************)
EXTENDS PppFsm

CONSTANTS
  MaxAuth     \* pap_max_transmits, chap_max_transmits, eap_max_transmits,
              \* eap_allow_req

NewPap  == [c |-> "INITIAL", s |-> "INITIAL", tries |-> 0, ct |-> 0, st |-> 0]
NewChap == [c |-> {}, s |-> {}, xmits |-> 0, tmr |-> 0]
NewEap  == [c |-> "Initial", s |-> "Initial", creq |-> 0, sreq |-> 0,
            ct |-> 0, st |-> 0]

-----------------------------------------------------------------------------
(* PAP *)

upap_sauthreq(p) ==
  IF ~ p.in.alloc THEN p
  ELSE [p EXCEPT !.pap.ct = @ + 1, !.pap.tries = @ + 1, !.pap.c = "AUTHREQ"]

ListenPap(p) == [p EXCEPT !.pap.s = "LISTEN", !.pap.st = @ + 1]

upap_authwithpeer(p) ==
  LET q == [p EXCEPT !.pap.tries = 0]
  IN IF p.pap.c \in {"INITIAL", "PENDING"} THEN [q EXCEPT !.pap.c = "PENDING"]
     ELSE upap_sauthreq(q)

upap_authpeer(p) ==
  IF p.pap.s \in {"INITIAL", "PENDING"} THEN [p EXCEPT !.pap.s = "PENDING"]
  ELSE ListenPap(p)

upap_timeout(p0) ==
  LET p == [p0 EXCEPT !.pap.ct = Cancelled(@)] IN
  CASE p.pap.c # "AUTHREQ" -> p
    [] p.pap.c = "AUTHREQ" /\ p.pap.tries >= MaxAuth ->
         Call([p EXCEPT !.pap.c = "BADAUTH"], << <<"auth_fail">> >>)
    [] OTHER -> upap_sauthreq(p)

(* The server state is set after the failure has closed the link. *)
upap_reqtimeout(p0) ==
  LET p == [p0 EXCEPT !.pap.st = Cancelled(@)]
  IN IF p.pap.s # "LISTEN" THEN p
     ELSE Call(p, << <<"auth_fail">>, <<"pap_badauth">> >>)

upap_lowerup(p) ==
  LET c == CASE p.pap.c = "INITIAL" -> [p EXCEPT !.pap.c = "CLOSED"]
             [] p.pap.c = "PENDING" -> upap_sauthreq(p)
             [] OTHER -> p
  IN CASE p.pap.s = "INITIAL" -> [c EXCEPT !.pap.s = "CLOSED"]
       [] p.pap.s = "PENDING" -> ListenPap(c)
       [] OTHER -> c

upap_lowerdown(p) ==
  [p EXCEPT !.pap.ct = IF p.pap.c = "AUTHREQ" THEN Cancelled(@) ELSE @,
            !.pap.st = IF p.pap.s = "LISTEN" THEN Cancelled(@) ELSE @,
            !.pap.c = "INITIAL", !.pap.s = "INITIAL"]

upap_protrej(p) ==
  Call(p, (IF p.pap.c = "AUTHREQ" THEN << <<"auth_fail">> >> ELSE <<>>) \o
          << <<"pap_protrej_peer">>, <<"pap_lowerdown">> >>)

upap_rauthreq(p) ==
  CASE p.pap.s \in {"LISTEN"} /\ p.in.ok ->
         Call([p EXCEPT !.pap.s = "OPEN"],
              << <<"auth_success", <<"pap", "peer">>>>, <<"pap_reqdone">> >>)
    [] p.pap.s \in {"LISTEN"} /\ ~ p.in.ok ->
         Call([p EXCEPT !.pap.s = "BADAUTH"],
              << <<"auth_fail">>, <<"pap_reqdone">> >>)
    [] OTHER -> p

(* upap_rauthack and upap_rauthnak leave the retransmission timer alone. *)
upap_rauthack(p) ==
  IF p.pap.c # "AUTHREQ" THEN p
  ELSE Call([p EXCEPT !.pap.c = "OPEN"], << <<"auth_success", <<"pap", "with">>>> >>)

upap_rauthnak(p) ==
  IF p.pap.c # "AUTHREQ" THEN p
  ELSE Call([p EXCEPT !.pap.c = "BADAUTH"], << <<"auth_fail">> >>)

upap_input(p, code) ==
  CASE code = "request" -> upap_rauthreq(p)
    [] code = "success" -> upap_rauthack(p)
    [] code = "failure" -> upap_rauthnak(p)
    [] OTHER -> p

-----------------------------------------------------------------------------
(* CHAP; the flags of each side are a set *)

chap_lowerup(p) ==
  LET q == [p EXCEPT !.chap.c = @ \union {"LOWERUP"},
                     !.chap.s = @ \union {"LOWERUP"}]
  IN IF "AUTH_STARTED" \in p.chap.s THEN Call(q, << <<"chap_timeout">> >>)
     ELSE q

ChapCancel(p) == IF "TIMEOUT_PENDING" \in p.chap.s
                 THEN [p EXCEPT !.chap.tmr = Cancelled(@),
                                !.chap.s = @ \ {"TIMEOUT_PENDING"}]
                 ELSE p

chap_lowerdown(p) == [ChapCancel(p) EXCEPT !.chap.c = {}, !.chap.s = {}]

chap_auth_peer(p) ==
  LET q == [p EXCEPT !.chap.s = @ \union {"AUTH_STARTED"}]
  IN CASE "AUTH_STARTED" \in p.chap.s -> p
       [] "AUTH_STARTED" \notin p.chap.s /\ "LOWERUP" \in p.chap.s ->
            Call(q, << <<"chap_timeout">> >>)
       [] OTHER -> q

chap_auth_with_peer(p) == [p EXCEPT !.chap.c = @ \union {"AUTH_STARTED"}]

ChapArm(p) == [p EXCEPT !.chap.s = @ \union {"TIMEOUT_PENDING"},
                        !.chap.tmr = @ + 1]

chap_timeout(p0) ==
  LET p == [p0 EXCEPT !.chap.s = @ \ {"TIMEOUT_PENDING"}]
      q == IF "CHALLENGE_VALID" \in p.chap.s THEN p
           ELSE [p EXCEPT !.chap.xmits = 0,
                          !.chap.s = @ \union {"CHALLENGE_VALID"}]
  IN IF "CHALLENGE_VALID" \in p.chap.s /\ p.chap.xmits >= MaxAuth
     THEN Call([p EXCEPT !.chap.s = (@ \ {"CHALLENGE_VALID"})
                                    \union {"AUTH_DONE", "AUTH_FAILED"}],
               << <<"auth_fail">> >>)
     ELSE IF p.in.alloc THEN [ChapArm(q) EXCEPT !.chap.xmits = @ + 1] ELSE q

(* The answer carries the identifier of the current challenge.             *)
chap_handle_response(p) ==
  LET stopped  == ChapCancel(p)
      verified == IF p.in.ok THEN stopped
                  ELSE [stopped EXCEPT !.chap.s = @ \union {"AUTH_FAILED"}]
      closed   == [verified EXCEPT !.chap.s = @ \ {"CHALLENGE_VALID"}]
  IN CASE ~ ({"LOWERUP", "CHALLENGE_VALID"} \subseteq p.chap.s) -> p
       [] ({"LOWERUP", "CHALLENGE_VALID"} \subseteq p.chap.s) /\ ~ p.in.alloc ->
            verified
       [] OTHER ->
            Call(closed,
                 CASE "AUTH_FAILED" \in closed.chap.s ->
                        << <<"auth_fail">>, <<"chap_done">> >>
                   [] "AUTH_FAILED" \notin closed.chap.s /\
                      "AUTH_DONE" \notin closed.chap.s ->
                        << <<"auth_success", <<"chap", "peer">>>>, <<"chap_rearm">>,
                           <<"chap_done">> >>
                   [] OTHER -> << <<"chap_rearm">>, <<"chap_done">> >>)

(* chap_respond answers a challenge and keeps no state. *)
chap_handle_status(p, code) ==
  LET q == [p EXCEPT !.chap.c = @ \union {"AUTH_DONE"}] IN
  CASE ~ ({"AUTH_STARTED", "LOWERUP"} \subseteq p.chap.c)
       \/ "AUTH_DONE" \in p.chap.c -> p
    [] {"AUTH_STARTED", "LOWERUP"} \subseteq p.chap.c
       /\ "AUTH_DONE" \notin p.chap.c /\ code = "success" ->
         Call(q, << <<"auth_success", <<"chap", "with">>>> >>)
    [] OTHER -> Call([q EXCEPT !.chap.c = @ \union {"AUTH_FAILED"}],
                     << <<"auth_fail">> >>)

chap_input(p, code) ==
  CASE code = "response" -> chap_handle_response(p)
    [] code \in {"success", "failure"} -> chap_handle_status(p, code)
    [] OTHER -> p

chap_protrej(p) ==
  LET stopped == ChapCancel(p)
  IN Call(IF "AUTH_STARTED" \in p.chap.s
          THEN [stopped EXCEPT !.chap.s = {}] ELSE stopped,
          (IF "AUTH_STARTED" \in p.chap.s THEN << <<"auth_fail">> >> ELSE <<>>)
          \o << <<"chap_protrej_with">> >>)

-----------------------------------------------------------------------------
(* EAP *)

EapServerActive(p) == p.eap.s \in {"Identify", "MD5Chall"}

eap_client_timeout(p0) ==
  LET p == [p0 EXCEPT !.eap.ct = Cancelled(@)]
  IN IF p.eap.c # "Listen" THEN p
     ELSE Call(p, << <<"auth_fail">>, <<"eap_client_bad">> >>)

eap_authwithpeer(p) == [p EXCEPT !.eap.c = "Listen", !.eap.ct = @ + 1]

eap_send_failure(p) ==
  IF ~ p.in.alloc THEN p
  ELSE Call([p EXCEPT !.eap.s = "BadAuth"], << <<"auth_fail">> >>)

eap_send_success(p) ==
  IF ~ p.in.alloc THEN p ELSE Call(p, << <<"auth_success", <<"eap", "peer">>>> >>)

(* good: the status argument is 0 *)
eap_figure_next_state(p, good) ==
  LET next == CASE p.eap.s = "Identify" /\ good -> "MD5Chall"
                [] p.eap.s = "MD5Chall" /\ good -> "Open"
                [] OTHER -> "BadAuth"
      q == [p EXCEPT !.eap.s = next]
  IN CASE p.eap.s = "BadAuth" -> p
       [] p.eap.s # "BadAuth" /\ next = "BadAuth" -> eap_send_failure(q)
       [] OTHER -> q

eap_send_request(p) ==
  LET q == IF p.eap.s \in {"Pending", "Closed", "Listen"}
           THEN [p EXCEPT !.eap.s = "Identify"] ELSE p
  IN CASE q.eap.sreq >= MaxAuth -> eap_send_failure(q)
       [] q.eap.sreq < MaxAuth /\ q.in.alloc /\ EapServerActive(q) ->
            [q EXCEPT !.eap.sreq = @ + 1, !.eap.st = @ + 1]
       [] OTHER -> q

eap_authpeer(p) ==
  LET q == [p EXCEPT !.eap.s = "Pending"]
  IN IF p.eap.s \in {"Initial", "Pending"} THEN q ELSE eap_send_request(q)

eap_server_timeout(p0) ==
  LET p == [p0 EXCEPT !.eap.st = Cancelled(@)]
  IN IF EapServerActive(p) THEN eap_send_request(p) ELSE p

eap_lowerup(p) == [p EXCEPT !.eap.c = "Closed", !.eap.s = "Closed"]

eap_lowerdown(p) ==
  [p EXCEPT !.eap.ct = IF p.eap.c = "Listen" THEN Cancelled(@) ELSE @,
            !.eap.st = IF EapServerActive(p) THEN Cancelled(@) ELSE @,
            !.eap.c = "Initial", !.eap.s = "Initial",
            !.eap.creq = 0, !.eap.sreq = 0]

eap_protrej(p) ==
  Call(p, (IF p.eap.c = "Listen" THEN << <<"auth_fail">> >> ELSE <<>>) \o
          << <<"eap_protrej_peer">>, <<"eap_lowerdown">> >>)

(* Every request the client can answer restarts its timer, whatever the    *)
(* client's state; the counter stops one above its limit here.             *)
eap_request(p, code) ==
  LET n == IF p.eap.creq > MaxAuth THEN p.eap.creq ELSE p.eap.creq + 1
      q == [p EXCEPT !.eap.creq = n]
  IN CASE n > MaxAuth -> Call([q EXCEPT !.eap.ct = Cancelled(@)],
                              << <<"auth_fail">> >>)
       [] n <= MaxAuth /\ code = "request" ->
            [q EXCEPT !.eap.ct = Cancelled(@) + 1]
       [] OTHER -> q

(* "nak" proposes MD5 or SRP, "short" is a response the parser finds       *)
(* malformed, "notification" one without effect of its own.                *)
eap_response(p, type) ==
  Call(p, (CASE type = "identity" /\ p.eap.s = "Identify" ->
                  << <<"eap_next", "good">> >>
             [] type = "nak" /\ p.eap.s = "Identify" -> << <<"eap_next", "bad">> >>
             [] type = "nak" /\ p.eap.s # "Identify" -> << <<"eap_md5">> >>
             [] type = "short" -> << <<"eap_next", "bad">> >>
             [] type = "md5" /\ p.eap.s # "MD5Chall" -> << <<"eap_next", "bad">> >>
             [] type = "md5" /\ p.eap.s = "MD5Chall" /\ p.in.ok ->
                  << <<"eap_send_success">>, <<"eap_next", "good">> >>
             [] type = "md5" /\ p.eap.s = "MD5Chall" /\ ~ p.in.ok ->
                  << <<"eap_send_failure">> >>
             [] OTHER -> <<>>) \o << <<"eap_continue">> >>)

(* The end of eap_response. *)
EapContinue(p) ==
  LET q == [p EXCEPT !.eap.st = Cancelled(@)]
  IN IF p.eap.s \in {"BadAuth", "Open"} THEN q ELSE eap_send_request(q)

eap_success(p) ==
  IF p.eap.c \notin {"Open", "Listen"} THEN p
  ELSE Call([p EXCEPT !.eap.ct = Cancelled(@), !.eap.c = "Open"],
            << <<"auth_success", <<"eap", "with">>>> >>)

eap_failure(p) ==
  Call([p EXCEPT !.eap.ct = Cancelled(@), !.eap.c = "BadAuth"],
       << <<"auth_fail">> >>)

eap_input(p, code) ==
  CASE code \in {"request", "unknown"} -> eap_request(p, code)
    [] code \in {"identity", "nak", "short", "md5", "notification"} ->
         eap_response(p, code)
    [] code = "success" -> eap_success(p)
    [] code = "failure" -> eap_failure(p)
    [] OTHER -> p
=============================================================================

------------------------------- MODULE PppFsm -------------------------------
(***************************************************************************)
(* The option negotiation automaton of src/src/netif/ppp/fsm.c, which LCP  *)
(* and every network control protocol of a PPP link run.                   *)
(*                                                                         *)
(* The C functions call each other through callbacks that re-enter the     *)
(* automaton, so a handler is modelled as a call stack: every operator     *)
(* below takes the control block p, with the call already popped, and      *)
(* returns it with the calls it makes pushed on p.calls.  What a function  *)
(* still does after a callback returns is a call of its own.  PppLink      *)
(* executes the stack until it is empty within one step of the model,      *)
(* since all of PPP runs in the tcpip thread.                              *)
(*                                                                         *)
(* p.in holds what the step finds outside the automaton: whether           *)
(* pbuf_alloc succeeds, and what the option parsers make of the packet.    *)
(***************************************************************************)
EXTENDS Integers, Sequences, FiniteSets

CONSTANTS
  MaxConf,    \* settings.fsm_max_conf_req_transmits
  MaxTerm,    \* settings.fsm_max_term_transmits
  MaxNak      \* settings.fsm_max_nak_loops

Negotiating == {"REQSENT", "ACKRCVD", "ACKSENT"}
Waiting     == Negotiating \union {"CLOSING", "STOPPING"}

(* struct fsm after fsm_init. *)
NewFsm == [st |-> "INITIAL", retr |-> 0, nak |-> 0, rnak |-> 0,
           seen |-> FALSE, tmr |-> 0]

St(p, f)       == p.fsm[f].st
Goto(p, f, st) == [p EXCEPT !.fsm[f].st = st]

(* The calls cs run before anything already on the stack. *)
Call(p, cs) == [p EXCEPT !.calls = cs \o @]

(* sys_untimeout removes the first entry that matches, if there is one. *)
Cancelled(n) == IF n > 0 THEN n - 1 ELSE 0
Untimeout(p, f) == [p EXCEPT !.fsm[f].tmr = Cancelled(@)]

fsm_sconfreq(p, f, retransmit) ==
  LET fresh == IF St(p, f) \in Negotiating THEN p.fsm[f]
               ELSE [p.fsm[f] EXCEPT !.nak = 0, !.rnak = 0]
      sent  == [fresh EXCEPT !.seen = FALSE,
                             !.retr = IF retransmit THEN @ ELSE MaxConf]
  IN [p EXCEPT !.fsm[f] =
        IF p.in.alloc THEN [sent EXCEPT !.retr = @ - 1, !.tmr = @ + 1]
                      ELSE sent]

Renegotiate(p, f) == Goto(fsm_sconfreq(p, f, FALSE), f, "REQSENT")

fsm_lowerup(p, f) ==
  CASE St(p, f) = "INITIAL"  -> Goto(p, f, "CLOSED")
    [] St(p, f) = "STARTING" -> IF f \in p.silent THEN Goto(p, f, "STOPPED")
                                ELSE Renegotiate(p, f)
    [] OTHER -> p

fsm_lowerdown(p, f) ==
  CASE St(p, f) = "CLOSED"  -> Goto(p, f, "INITIAL")
    [] St(p, f) = "STOPPED" -> Goto(p, f, "STARTING")
    [] St(p, f) = "CLOSING" -> Untimeout(Goto(p, f, "INITIAL"), f)
    [] St(p, f) \in Negotiating \union {"STOPPING"} ->
         Untimeout(Goto(p, f, "STARTING"), f)
    [] St(p, f) = "OPENED"  ->
         Call(p, << <<"down", f>>, <<"goto", f, "STARTING">> >>)
    [] OTHER -> p

(* No protocol of the stack sets OPT_RESTART. *)
fsm_open(p, f) ==
  CASE St(p, f) = "INITIAL" -> Goto(p, f, "STARTING")
    [] St(p, f) = "CLOSED"  -> IF f \in p.silent THEN Goto(p, f, "STOPPED")
                               ELSE Renegotiate(p, f)
    [] St(p, f) = "CLOSING" -> Goto(p, f, "STOPPING")
    [] OTHER -> p

(* The part of terminate_layer after the down callback. *)
SendTermReq(p, f, next) ==
  LET q == [p EXCEPT !.fsm[f].retr = MaxTerm]
  IN IF MaxTerm = 0
     THEN Call(Goto(q, f, IF next = "CLOSING" THEN "CLOSED" ELSE "STOPPED"),
               << <<"finished", f>> >>)
     ELSE [q EXCEPT !.fsm[f].retr = @ - 1, !.fsm[f].tmr = @ + 1,
                    !.fsm[f].st = next]

(* Mutant: the pending retransmission is not cancelled. *)
TerminateKeepsTimer(p, f, next) ==
  IF St(p, f) = "OPENED"
  THEN Call(p, << <<"down", f>>, <<"termreq", f, next>> >>)
  ELSE SendTermReq(p, f, next)

terminate_layer(p, f, next) ==
  IF St(p, f) = "OPENED"
  THEN Call(p, << <<"down", f>>, <<"termreq", f, next>> >>)
  ELSE SendTermReq(Untimeout(p, f), f, next)

fsm_close(p, f) ==
  CASE St(p, f) = "STARTING" -> Goto(p, f, "INITIAL")
    [] St(p, f) = "STOPPED"  -> Goto(p, f, "CLOSED")
    [] St(p, f) = "STOPPING" -> Goto(p, f, "CLOSING")
    [] St(p, f) \in Negotiating \union {"OPENED"} ->
         terminate_layer(p, f, "CLOSING")
    [] OTHER -> p

(* The timer that fired is no longer pending. *)
fsm_timeout(p0, f) ==
  LET p == Untimeout(p0, f) IN
  CASE St(p, f) \in {"CLOSING", "STOPPING"} /\ p.fsm[f].retr <= 0 ->
         Call(Goto(p, f, IF St(p, f) = "CLOSING" THEN "CLOSED" ELSE "STOPPED"),
              << <<"finished", f>> >>)
    [] St(p, f) \in {"CLOSING", "STOPPING"} /\ p.fsm[f].retr > 0 ->
         [p EXCEPT !.fsm[f].retr = @ - 1, !.fsm[f].tmr = @ + 1]
    [] St(p, f) \in Negotiating /\ p.fsm[f].retr <= 0 ->
         LET q == Goto(p, f, "STOPPED")
         IN IF f \in p.passive THEN q ELSE Call(q, << <<"finished", f>> >>)
    [] St(p, f) \in Negotiating /\ p.fsm[f].retr > 0 ->
         LET q == fsm_sconfreq(p, f, TRUE)
         IN IF St(q, f) = "ACKRCVD" THEN Goto(q, f, "REQSENT") ELSE q
    [] OTHER -> p

(* fsm_rconfreq from the call of reqci on.  reqci rejects what it would    *)
(* have nak'ed once nakloops has reached its limit.                        *)
AnswerConfReq(p, f) ==
  LET code == IF p.in.ci = "nak" /\ p.fsm[f].nak >= MaxNak
              THEN "rej" ELSE p.in.ci
  IN CASE code = "ack" /\ St(p, f) = "ACKRCVD" ->
            Call([Untimeout(p, f) EXCEPT !.fsm[f].st = "OPENED",
                                         !.fsm[f].nak = 0],
                 << <<"up", f>> >>)
       [] code = "ack" /\ St(p, f) # "ACKRCVD" ->
            [p EXCEPT !.fsm[f].st = "ACKSENT", !.fsm[f].nak = 0]
       [] OTHER ->
            [p EXCEPT !.fsm[f].st = IF @ = "ACKRCVD" THEN @ ELSE "REQSENT",
                      !.fsm[f].nak = IF code = "nak" THEN @ + 1 ELSE @]

(* Mutant: a request is answered although the layer is closing. *)
AnswerWhileClosing(p, f) ==
  CASE St(p, f) \in {"CLOSED", "STOPPING"} -> p
    [] St(p, f) = "OPENED"  -> Call(p, << <<"down", f>>, <<"renegotiate", f>>,
                                          <<"answer", f>> >>)
    [] OTHER -> AnswerConfReq(p, f)

fsm_rconfreq(p, f) ==
  CASE St(p, f) \in {"CLOSED", "CLOSING", "STOPPING"} -> p
    [] St(p, f) = "OPENED"  -> Call(p, << <<"down", f>>, <<"renegotiate", f>>,
                                          <<"answer", f>> >>)
    [] St(p, f) = "STOPPED" -> AnswerConfReq(Renegotiate(p, f), f)
    [] OTHER -> AnswerConfReq(p, f)

(* A packet with another identifier changes nothing; p.in.ret is what      *)
(* ackci, nakci or rejci return for this one.                              *)
fsm_rconfack(p0, f) ==
  LET p == [p0 EXCEPT !.fsm[f].seen = TRUE, !.fsm[f].rnak = 0] IN
  CASE p0.fsm[f].seen \/ p.in.ret = 0 -> p0
    [] St(p, f) = "REQSENT" -> [p EXCEPT !.fsm[f].st = "ACKRCVD",
                                         !.fsm[f].retr = MaxConf]
    [] St(p, f) = "ACKRCVD" -> Renegotiate(Untimeout(p, f), f)
    [] St(p, f) = "ACKSENT" ->
         Call([Untimeout(p, f) EXCEPT !.fsm[f].st = "OPENED",
                                      !.fsm[f].retr = MaxConf],
              << <<"up", f>> >>)
    [] St(p, f) = "OPENED"  ->
         Call(p, << <<"down", f>>, <<"renegotiate", f>> >>)
    [] OTHER -> p

(* The count of naks only decides how nakci treats the next one; the       *)
(* counter stops at its limit here.                                        *)
CountNak(p, f, code) ==
  [p EXCEPT !.fsm[f].rnak =
     IF code = "confrej" THEN 0 ELSE IF @ < MaxNak THEN @ + 1 ELSE @]

fsm_rconfnakrej(p0, f, code) ==
  LET counted == CountNak(p0, f, code)
      p == [counted EXCEPT !.fsm[f].seen = TRUE]
  IN CASE p0.fsm[f].seen -> p0
       [] ~ p0.fsm[f].seen /\ p.in.ret = 0 -> counted
       [] ~ p0.fsm[f].seen /\ p.in.ret # 0 /\ p.in.loop ->
            Call(p, << <<"loopback">> >>)
       [] ~ p0.fsm[f].seen /\ p.in.ret # 0 /\ ~ p.in.loop ->
            CASE St(p, f) \in {"REQSENT", "ACKSENT"} ->
                   IF p.in.ret < 0 THEN Goto(Untimeout(p, f), f, "STOPPED")
                   ELSE fsm_sconfreq(Untimeout(p, f), f, FALSE)
              [] St(p, f) = "ACKRCVD" -> Renegotiate(Untimeout(p, f), f)
              [] St(p, f) = "OPENED"  ->
                   Call(p, << <<"down", f>>, <<"renegotiate", f>> >>)
              [] OTHER -> p

fsm_rtermreq(p, f) ==
  CASE St(p, f) \in {"ACKRCVD", "ACKSENT"} -> Goto(p, f, "REQSENT")
    [] St(p, f) = "OPENED" ->
         Call([p EXCEPT !.fsm[f].retr = 0, !.fsm[f].st = "STOPPING"],
              << <<"down", f>>, <<"timeout", f>> >>)
    [] OTHER -> p

fsm_rtermack(p, f) ==
  CASE St(p, f) \in {"CLOSING", "STOPPING"} ->
         Call(Goto(Untimeout(p, f), f,
                   IF St(p, f) = "CLOSING" THEN "CLOSED" ELSE "STOPPED"),
              << <<"finished", f>> >>)
    [] St(p, f) = "ACKRCVD" -> Goto(p, f, "REQSENT")
    [] St(p, f) = "OPENED"  ->
         Call(p, << <<"down", f>>, <<"renegotiate", f>> >>)
    [] OTHER -> p

fsm_rcoderej(p, f) ==
  IF St(p, f) = "ACKRCVD" THEN Goto(p, f, "REQSENT") ELSE p

fsm_protreject(p, f) ==
  CASE St(p, f) \in {"CLOSING", "CLOSED"} ->
         Call(Goto(IF St(p, f) = "CLOSED" THEN p ELSE Untimeout(p, f), f,
                   "CLOSED"), << <<"finished", f>> >>)
    [] St(p, f) \in Negotiating \union {"STOPPING", "STOPPED"} ->
         Call(Goto(IF St(p, f) = "STOPPED" THEN p ELSE Untimeout(p, f), f,
                   "STOPPED"), << <<"finished", f>> >>)
    [] St(p, f) = "OPENED" -> terminate_layer(p, f, "STOPPING")
    [] OTHER -> p

(* fsm_input: what a packet with the given code does; an unknown code goes *)
(* to the protocol's extcode.                                              *)
fsm_input(p, f, code) ==
  IF St(p, f) \in {"INITIAL", "STARTING"} THEN p
  ELSE CASE code = "confreq" -> fsm_rconfreq(p, f)
         [] code = "confack" -> fsm_rconfack(p, f)
         [] code \in {"confnak", "confrej"} -> fsm_rconfnakrej(p, f, code)
         [] code = "termreq" -> fsm_rtermreq(p, f)
         [] code = "termack" -> fsm_rtermack(p, f)
         [] code = "coderej" -> fsm_rcoderej(p, f)
         [] OTHER -> Call(p, << <<"extcode", f, code>> >>)
=============================================================================

------------------------------- MODULE PppLink ------------------------------
(***************************************************************************)
(* One PPP session of lwIP: the interface of ppp.c, the link phases of     *)
(* auth.c, LCP and its echoes (lcp.c), the network control protocols       *)
(* (ipcp.c, ipv6cp.c, ccp.c), the authentication protocols (PppAuth) and   *)
(* the lower layer: a serial line (pppos.c), PPPoE discovery (pppoe.c) or  *)
(* the L2TP control connection (pppol2tp.c).  All run the automaton of     *)
(* PppFsm.                                                                 *)
(*                                                                         *)
(* Every event is handled to the end in one step: the tcpip thread runs a  *)
(* handler with all the callbacks it makes before it looks at the next     *)
(* packet or timer.  The peer and the network are unconstrained: any       *)
(* packet may arrive at any time, or never.                                *)
(***************************************************************************)
EXTENDS PppAuth

CONSTANTS
  Configs,     \* the settings a session may have
  MaxDisc,     \* PPPOE_DISC_MAXPADI, PPPOE_DISC_MAXPADR, PPPOL2TP_MAXSCCRQ,
               \* PPPOL2TP_MAXICRQ, PPPOL2TP_MAXICCN
  MaxEcho,     \* settings.lcp_echo_fails
  MaxConnects, \* bound: calls of ppp_connect and ppp_listen
  MaxOpen,     \* bound: num_np_open at which no further EAP Success is modelled
  MaxStale,    \* bound: authentication timers pending when LCP is renegotiated
  Fuel         \* bound: calls one handler makes, in four stages

VARIABLE ppp   \* struct ppp_pcb_s with the layers it owns

-----------------------------------------------------------------------------
(* Lower layers.  p.ll holds the kind, the discovery state, how many       *)
(* entries for the layer's timeout function are pending, and the retry     *)
(* counters: n for PADI or SCCRQ, m for PADR, or for ICRQ and then ICCN.   *)

NewLower(kind) == [kind |-> kind, st |-> "INITIAL", tmr |-> 0, n |-> 0, m |-> 0]

Rearm(ll)   == [ll EXCEPT !.tmr = @ + 1]
Disarm(ll)  == [ll EXCEPT !.tmr = Cancelled(@)]

(* pppos_connect and pppos_listen: a serial line is ready at once. *)
pppos_connect(p) ==
  Call([p EXCEPT !.ll.st = "SESSION"], << <<"ppp_start">> >>)

pppoe_connect(p) ==
  [p EXCEPT !.ll = Rearm([@ EXCEPT !.st = "PADI_SENT", !.n = 0, !.m = 0])]

pppol2tp_connect(p) ==
  [p EXCEPT !.ll = Rearm([@ EXCEPT !.st = "SCCRQ_SENT", !.n = 0])]

link_connect(p) == CASE p.ll.kind = "pppos"    -> pppos_connect(p)
                     [] p.ll.kind = "pppoe"    -> pppoe_connect(p)
                     [] p.ll.kind = "pppol2tp" -> pppol2tp_connect(p)

pppos_disconnect(p) ==
  Call([p EXCEPT !.ll.st = "INITIAL"], << <<"ppp_link_end">> >>)

pppoe_disconnect(p) ==
  Call([p EXCEPT !.ll = [Disarm(@) EXCEPT !.st = "INITIAL"]],
       << <<"ppp_link_end">> >>)

pppol2tp_disconnect(p) ==
  Call([p EXCEPT !.ll = [Disarm(@) EXCEPT !.st = "INITIAL"]],
       << <<"ppp_link_end">> >>)

link_disconnect(p) == CASE p.ll.kind = "pppos"    -> pppos_disconnect(p)
                        [] p.ll.kind = "pppoe"    -> pppoe_disconnect(p)
                        [] p.ll.kind = "pppol2tp" -> pppol2tp_disconnect(p)

(* pppoe_abort_connect and pppol2tp_abort_connect *)
abort_connect(p) ==
  Call([p EXCEPT !.ll.st = "INITIAL"], << <<"ppp_link_failed">> >>)

(* Whether a packet can be sent; a retry that cannot is not counted. *)
pppoe_send_padi(p)     == p.in.alloc
pppoe_send_padr(p)     == p.in.alloc
pppol2tp_send_sccrq(p) == p.in.alloc
pppol2tp_send_icrq(p)  == p.in.alloc
pppol2tp_send_iccn(p)  == p.in.alloc
Tried(sent, n) == IF sent THEN n ELSE n - 1

pppoe_timeout(p0) ==
  LET p == [p0 EXCEPT !.ll = Disarm(@)] IN
  CASE p.ll.st = "PADI_SENT" ->
         IF ~ p.cfg.persist /\ p.ll.n + 1 >= MaxDisc THEN abort_connect(p)
         ELSE [p EXCEPT !.ll = [Rearm(@) EXCEPT !.n = Tried(pppoe_send_padi(p), @ + 1)]]
    [] p.ll.st = "PADR_SENT" ->
         IF p.ll.m + 1 >= MaxDisc
         THEN [p EXCEPT !.ll = [Rearm(@) EXCEPT !.st = "PADI_SENT", !.m = 0]]
         ELSE [p EXCEPT !.ll = [Rearm(@) EXCEPT !.m = Tried(pppoe_send_padr(p), @ + 1)]]
    [] OTHER -> p

(* pppoe_disc_input and pppoe_data_input; a PADT is ignored. *)
pppoe_disc_input(p, code) ==
  CASE code = "PADO" /\ p.ll.st = "PADI_SENT" ->
         [p EXCEPT !.ll = [Rearm(Disarm(@)) EXCEPT !.st = "PADR_SENT", !.m = 0]]
    [] code = "PADS" /\ p.ll.st \in {"PADI_SENT", "PADR_SENT"} ->
         Call([p EXCEPT !.ll = [Disarm(@) EXCEPT !.st = "SESSION"]],
              << <<"ppp_start">> >>)
    [] OTHER -> p

pppol2tp_timeout(p0) ==
  LET p == [p0 EXCEPT !.ll = Disarm(@)]
      again(sent) == [p EXCEPT !.ll = [Rearm(@) EXCEPT !.m = Tried(sent, @ + 1)]]
  IN CASE p.ll.st = "SCCRQ_SENT" ->
            IF ~ p.cfg.persist /\ p.ll.n + 1 >= MaxDisc THEN abort_connect(p)
            ELSE [p EXCEPT !.ll =
                    [Rearm(@) EXCEPT !.n = Tried(pppol2tp_send_sccrq(p), @ + 1)]]
       [] p.ll.st \in {"ICRQ_SENT", "ICCN_SENT"} /\ p.ll.m + 1 >= MaxDisc ->
            abort_connect(p)
       [] p.ll.st = "ICRQ_SENT" /\ p.ll.m + 1 < MaxDisc ->
            again(pppol2tp_send_icrq(p))
       [] p.ll.st = "ICCN_SENT" /\ p.ll.m + 1 < MaxDisc ->
            again(pppol2tp_send_iccn(p))
       [] OTHER -> p

(* A control message with the next sequence number.  "ZLB" acknowledges    *)
(* without a message; "REFUSED" is an SCCRP whose challenge or response    *)
(* aborts the connection.  Neither that nor a STOPCCN stops the timer.     *)
pppol2tp_dispatch_control_packet(p, code) ==
  LET next(st) == [p EXCEPT !.ll = [Rearm(Disarm(@)) EXCEPT !.st = st, !.m = 0]]
  IN CASE code = "ZLB" /\ p.ll.st = "ICCN_SENT" ->
            Call([p EXCEPT !.ll = [Disarm(@) EXCEPT !.st = "SESSION"]],
                 << <<"ppp_start">> >>)
       [] code = "SCCRP" /\ p.ll.st = "SCCRQ_SENT" -> next("ICRQ_SENT")
       [] code = "REFUSED" /\ p.ll.st = "SCCRQ_SENT" -> abort_connect(p)
       [] code = "ICRP" /\ p.ll.st = "ICRQ_SENT" -> next("ICCN_SENT")
       [] code = "STOPCCN" /\ p.ll.st \in {"SCCRQ_SENT", "ICRQ_SENT", "ICCN_SENT"} ->
            abort_connect(p)
       [] OTHER -> p

LowerCodes(kind) ==
  CASE kind = "pppoe" -> {"PADO", "PADS", "PADT"}
    [] kind = "pppol2tp" -> {"ZLB", "SCCRP", "REFUSED", "ICRP", "STOPCCN"}
    [] OTHER -> {}

lower_input(p, code) ==
  IF p.ll.kind = "pppoe" THEN pppoe_disc_input(p, code)
  ELSE pppol2tp_dispatch_control_packet(p, code)

lower_timeout(p) ==
  IF p.ll.kind = "pppoe" THEN pppoe_timeout(p) ELSE pppol2tp_timeout(p)

-----------------------------------------------------------------------------
(* The session.                                                            *)

Ncps == {"ipcp", "ipv6cp", "ccp"}
Fsms == Ncps \union {"lcp"}

(* protocols[], without LCP, restricted to what is compiled in *)
InOrder(p, names) == SelectSeq(names, LAMBDA f : f \in p.cfg.ncps)
CallAll(op, names) == [i \in 1..Len(names) |-> <<op, names[i]>>]

(* What a handler finds outside unless the event says otherwise. *)
Plain == [alloc |-> TRUE, ci |-> "ack", ret |-> 1, loop |-> FALSE,
          ok |-> TRUE, addr |-> TRUE, refuse |-> FALSE]

(* ppp_new; told, closed and conns are history: terminal status callbacks  *)
(* and ppp_close since the last connect, and connects so far.              *)
ppp_new(c) ==
  [cfg |-> c, phase |-> "DEAD", err |-> "NONE", told |-> 0, closed |-> FALSE, conns |-> 0,
   freed |-> FALSE, calls |-> <<>>, in |-> Plain,
   fsm |-> [f \in Fsms |-> NewFsm], silent |-> {}, passive |-> {},
   isopen |-> FALSE, up |-> {}, ifup |-> {}, npopen |-> 0, npup |-> 0,
   pending |-> {}, done |-> {},
   pap |-> NewPap, chap |-> NewChap, eap |-> NewEap,
   delayed |-> FALSE, dtmr |-> 0, echo |-> [pend |-> 0, run |-> FALSE, tmr |-> 0],
   hold |-> 0, ll |-> NewLower(c.ll)]

Init == \E c \in Configs : ppp = ppp_new(c)

-----------------------------------------------------------------------------
(* ppp.c *)

ppp_do_connect(p) ==
  Call([p EXCEPT !.phase = "INITIALIZE"], << <<"link_connect">> >>)

ppp_connect(p0, holdoff) ==
  LET p == [p0 EXCEPT !.told = 0, !.closed = FALSE, !.conns = @ + 1]
  IN IF holdoff THEN [p EXCEPT !.phase = "HOLDOFF", !.hold = @ + 1]
     ELSE ppp_do_connect(p)

(* The status callback of the application: cfg.auto says whether it        *)
(* connects again after a failure, at once or after a holdoff.             *)
link_status_cb(p) ==
  IF p.cfg.auto # "no" /\ p.err # "USER" /\ p.conns < MaxConnects
  THEN ppp_connect(p, p.cfg.auto = "hold") ELSE p

ppp_start(p) ==
  Call([p EXCEPT !.phase = "ESTABLISH"],
       << <<"lcp_open">>, <<"lcp_lowerup">> >>)

ppp_link_failed(p) ==
  link_status_cb([p EXCEPT !.phase = "DEAD", !.err = "FAIL", !.told = @ + 1])

ppp_link_end(p) ==
  link_status_cb([p EXCEPT !.phase = "DEAD", !.told = @ + 1,
                           !.err = IF @ = "NONE" THEN "FAIL" ELSE @])

(* Mutant: the holdoff timer stays pending. *)
CloseKeepsHoldoff(p, nocarrier) ==
  IF p.phase \in {"HOLDOFF", "DEAD"}
  THEN [p EXCEPT !.err = "USER", !.closed = TRUE, !.phase = "DEAD",
                 !.told = IF p.phase = "HOLDOFF" THEN @ + 1 ELSE @]
  ELSE Call([p EXCEPT !.err = "USER", !.closed = TRUE], << <<"lcp_close">> >>)

ppp_close(p0, nocarrier) ==
  LET p == [p0 EXCEPT !.err = "USER", !.closed = TRUE] IN
  CASE p.phase = "HOLDOFF" ->
         link_status_cb([p EXCEPT !.hold = Cancelled(@), !.phase = "DEAD",
                                  !.told = @ + 1])
    [] p.phase = "DEAD" -> link_status_cb(p)
    [] p.phase \in {"TERMINATE", "DISCONNECT"} -> p
    [] p.phase = "INITIALIZE" ->
         Call([p EXCEPT !.phase = "DISCONNECT"], << <<"link_disconnect">> >>)
    [] p.phase = "RUNNING" /\ nocarrier ->
         Call(p, << <<"lcp_lowerdown">>, <<"link_terminated">> >>)
    [] OTHER -> Call(p, << <<"lcp_close">> >>)

(* The lower layer's free removes one pending timeout of its own. *)
ppp_free(p) == [p EXCEPT !.freed = TRUE, !.ll = Disarm(@)]

(* The link of the interface stays up while the other family is.           *)
sifup(p)    == [p EXCEPT !.ifup = @ \union {"ipcp"}, !.err = "NONE"]
sif6up(p)   == [p EXCEPT !.ifup = @ \union {"ipv6cp"}, !.err = "NONE"]
sifdown(p)  == [p EXCEPT !.ifup = @ \ {"ipcp"}]
sif6down(p) == [p EXCEPT !.ifup = @ \ {"ipv6cp"}]

-----------------------------------------------------------------------------
(* auth.c *)

link_terminated(p) ==
  IF p.phase = "DEAD" THEN p
  ELSE Call([p EXCEPT !.phase = "DISCONNECT"],
            << <<"lcp_lowerdown">>, <<"link_disconnect">> >>)

link_down(p) ==
  Call(p, << <<"upper_layers_down">>, <<"link_down_phase">> >>)

(* Each network protocol is taken down and then closed. *)
upper_layers_down(p) ==
  Call(p, << <<"pap_lowerdown">>, <<"chap_lowerdown">> >> \o
          (LET ns == InOrder(p, <<"ipcp", "ipv6cp", "ccp">>)
           IN [i \in 1..2 * Len(ns) |->
                 IF i % 2 = 1 THEN <<"lowerdown", ns[(i + 1) \div 2]>>
                 ELSE <<"close", ns[i \div 2]>>]) \o
          << <<"eap_lowerdown">>, <<"no_networks">> >>)

link_established(p) ==
  Call(p, << <<"pap_lowerup">>, <<"chap_lowerup">> >> \o
          CallAll("lowerup", InOrder(p, <<"ipcp", "ipv6cp", "ccp">>)) \o
          << <<"eap_lowerup">>, <<"authenticate">> >>)

(* go->neg_*: the protocol we asked the peer to use, unless it refused.    *)
AskedOf(p) == IF p.in.refuse THEN "none" ELSE p.cfg.srv

Authenticate(p) ==
  LET srv == AskedOf(p)
      cli == p.cfg.cli
  IN IF p.cfg.authreq /\ srv = "none"
     THEN Call([p EXCEPT !.err = "FAIL"], << <<"lcp_close">> >>)
     ELSE Call([p EXCEPT !.phase = "AUTHENTICATE"],
               (IF srv = "none" THEN <<>> ELSE << <<"authpeer", srv>> >>) \o
               (IF cli = "none" THEN <<>> ELSE << <<"authwithpeer", cli>> >>) \o
               << <<"auth_started",
                    {<<srv, "peer">>, <<cli, "with">>}
                      \ {<<"none", "peer">>, <<"none", "with">>}>> >>)

AuthStarted(p, asked) ==
  LET q == [p EXCEPT !.pending = asked, !.done = {}]
  IN IF asked = {} THEN Call(q, << <<"start_networks">> >>) ELSE q

(* network_phase, start_networks *)
start_networks(p) ==
  Call([p EXCEPT !.phase = "NETWORK"],
       CallAll("open", InOrder(p, <<"ccp">>)) \o << <<"continue_networks">> >>)

continue_networks(p) ==
  Call(p, CallAll("np_open", InOrder(p, <<"ipcp", "ipv6cp">>)) \o
          << <<"networks_opened">> >>)

(* Mutant: the first success opens the networks. *)
AuthSuccessAny(p, bit) ==
  Call([p EXCEPT !.done = @ \union {bit}, !.pending = @ \ {bit}],
       << <<"start_networks">> >>)

(* auth_peer_success, auth_withpeer_success *)
AuthSuccess(p, bit) ==
  LET q == [p EXCEPT !.done = @ \union {bit}, !.pending = @ \ {bit}]
  IN IF q.pending = {} THEN Call(q, << <<"start_networks">> >>) ELSE q

(* auth_peer_fail, auth_withpeer_fail *)
AuthFail(p) == Call([p EXCEPT !.err = "FAIL"], << <<"lcp_close">> >>)

np_up(p) == [p EXCEPT !.npup = @ + 1,
                      !.phase = IF p.npup = 0 THEN "RUNNING" ELSE @]
np_down(p) == [p EXCEPT !.npup = @ - 1,
                        !.phase = IF p.npup = 1 THEN "NETWORK" ELSE @]
np_finished(p) ==
  LET q == [p EXCEPT !.npopen = @ - 1]
  IN IF q.npopen <= 0 THEN Call(q, << <<"lcp_close">> >>) ELSE q

-----------------------------------------------------------------------------
(* lcp.c *)

(* The flags follow lcp_wantoptions. *)
lcp_open(p) ==
  fsm_open([p EXCEPT
    !.silent  = IF p.cfg.quiet = "silent" THEN @ \union {"lcp"} ELSE @ \ {"lcp"},
    !.passive = IF p.cfg.quiet = "passive" THEN @ \union {"lcp"} ELSE @ \ {"lcp"}],
    "lcp")

lcp_close(p0) ==
  LET q == IF p0.phase = "DEAD" THEN p0 ELSE [p0 EXCEPT !.phase = "TERMINATE"]
      p == IF q.delayed THEN Goto([q EXCEPT !.dtmr = Cancelled(@)], "lcp", "STOPPED")
           ELSE q
  IN IF St(p, "lcp") = "STOPPED"
        /\ ("lcp" \in p.passive \union p.silent \/ p.delayed)
     THEN Call([fsm_close(p, "lcp") EXCEPT !.delayed = FALSE],
               << <<"finished", "lcp">> >>)
     ELSE fsm_close(p, "lcp")

lcp_lowerup(p) ==
  IF p.cfg.listen THEN [p EXCEPT !.delayed = TRUE, !.dtmr = @ + 1]
  ELSE fsm_lowerup(p, "lcp")

lcp_lowerdown(p) ==
  IF p.delayed THEN [p EXCEPT !.delayed = FALSE, !.dtmr = Cancelled(@)]
  ELSE fsm_lowerdown(p, "lcp")

lcp_delayed_up(p0) ==
  LET p == [p0 EXCEPT !.dtmr = Cancelled(@)]
  IN IF p.delayed THEN fsm_lowerup([p EXCEPT !.delayed = FALSE], "lcp") ELSE p

lcp_input(p, code) ==
  IF p.delayed
  THEN fsm_input(fsm_lowerup([p EXCEPT !.delayed = FALSE,
                                       !.dtmr = Cancelled(@)], "lcp"),
                 "lcp", code)
  ELSE fsm_input(p, "lcp", code)

(* lcp_extcode and lcp_received_echo_reply: of the codes that reach it,    *)
(* only an answer to an echo has a lasting effect.                         *)
lcp_extcode(p, code) ==
  IF code = "echorep" THEN [p EXCEPT !.echo.pend = 0] ELSE p

(* lcp_rprotrej: the protocol the peer does not know. *)
lcp_rprotrej(p, prot) ==
  IF St(p, "lcp") # "OPENED" THEN p
  ELSE Call(p, << <<IF prot \in Ncps THEN "ncp_protrej" ELSE "protrej", prot>> >>)

LcpEchoCheck(p) == Call(p, << <<"LcpSendEchoRequest">>, <<"echo_rearm">> >>)

EchoRearm(p) ==
  IF St(p, "lcp") # "OPENED" THEN p
  ELSE [p EXCEPT !.echo.tmr = @ + 1, !.echo.run = TRUE]

LcpEchoTimeout(p0) ==
  LET p == [p0 EXCEPT !.echo.tmr = Cancelled(@)]
  IN IF p.echo.run THEN LcpEchoCheck([p EXCEPT !.echo.run = FALSE]) ELSE p

LcpLinkFailure(p) ==
  IF St(p, "lcp") = "OPENED"
  THEN Call([p EXCEPT !.err = "FAIL"], << <<"lcp_close">> >>) ELSE p

EchoSend(p) ==
  IF St(p, "lcp") = "OPENED" THEN [p EXCEPT !.echo.pend = @ + 1] ELSE p

LcpSendEchoRequest(p) ==
  IF p.echo.pend >= MaxEcho
  THEN Call(p, << <<"LcpLinkFailure">>, <<"echo_send">> >>)
  ELSE EchoSend(p)

lcp_echo_lowerup(p) ==
  LET q == [p EXCEPT !.echo.pend = 0, !.echo.run = FALSE]
  IN IF p.cfg.echo THEN LcpEchoCheck(q) ELSE q

(* Mutant: the echo timer stays pending. *)
EchoLowerdownKeepsTimer(p) == [p EXCEPT !.echo.run = FALSE]

lcp_echo_lowerdown(p) ==
  IF p.echo.run THEN [p EXCEPT !.echo.tmr = Cancelled(@), !.echo.run = FALSE]
  ELSE p

-----------------------------------------------------------------------------
(* The callbacks of the automata: lcp_up, ipcp_up, ipv6cp_up, ccp_up ...   *)

lcp_up(p) == Call(p, << <<"lcp_echo_lowerup">>, <<"link_established">> >>)

(* An address the interface cannot take closes the protocol again. *)
ipcp_up(p) ==
  IF p.in.addr THEN [np_up(sifup(p)) EXCEPT !.up = @ \union {"ipcp"}]
  ELSE fsm_close(p, "ipcp")

ipv6cp_up(p) ==
  IF p.in.addr THEN [np_up(sif6up(p)) EXCEPT !.up = @ \union {"ipv6cp"}]
  ELSE fsm_close(p, "ipv6cp")

Up(p, f) == CASE f = "lcp"    -> lcp_up(p)
              [] f = "ipcp"   -> ipcp_up(p)
              [] f = "ipv6cp" -> ipv6cp_up(p)
              [] OTHER        -> p

lcp_down(p) == Call(p, << <<"lcp_echo_lowerdown">>, <<"link_down">> >>)

(* Mutant: is_up is not looked at. *)
IpcpDownTwice(p) == sifdown(np_down([p EXCEPT !.up = @ \ {"ipcp"}]))

ipcp_down(p) ==
  sifdown(IF "ipcp" \in p.up THEN np_down([p EXCEPT !.up = @ \ {"ipcp"}]) ELSE p)

ipv6cp_down(p) ==
  sif6down(IF "ipv6cp" \in p.up THEN np_down([p EXCEPT !.up = @ \ {"ipv6cp"}])
           ELSE p)

Down(p, f) == CASE f = "lcp"    -> lcp_down(p)
                [] f = "ipcp"   -> ipcp_down(p)
                [] f = "ipv6cp" -> ipv6cp_down(p)
                [] OTHER        -> p

(* Only IPCP remembers whether it has already reported the end. *)
ipcp_finished(p) ==
  IF p.isopen THEN np_finished([p EXCEPT !.isopen = FALSE]) ELSE p

ipv6cp_finished(p) == np_finished(p)

Finished(p, f) == CASE f = "lcp"    -> link_terminated(p)
                    [] f = "ipcp"   -> ipcp_finished(p)
                    [] f = "ipv6cp" -> ipv6cp_finished(p)
                    [] OTHER        -> p

ipcp_open(p) == [fsm_open(p, "ipcp") EXCEPT !.isopen = TRUE]

ccp_open(p) ==
  fsm_open(IF p.cfg.compress THEN p ELSE [p EXCEPT !.silent = @ \union {"ccp"}],
           "ccp")

NcpOpen(p, f) == CASE f = "ipcp" -> ipcp_open(p)
                   [] f = "ccp"  -> ccp_open(p)
                   [] OTHER      -> fsm_open(p, f)

(* CCP gives up when the peer ends a negotiation that has no compression   *)
(* left to agree on.                                                       *)
ccp_input(p, code) ==
  IF St(p, "ccp") = "REQSENT" /\ code = "termack" /\ ~ p.in.ok
  THEN fsm_close(fsm_input(p, "ccp", code), "ccp")
  ELSE fsm_input(p, "ccp", code)

AuthPeer(p, m) == CASE m = "pap"  -> upap_authpeer(p)
                    [] m = "chap" -> chap_auth_peer(p)
                    [] m = "eap"  -> eap_authpeer(p)
AuthWithPeer(p, m) == CASE m = "pap"  -> upap_authwithpeer(p)
                        [] m = "chap" -> chap_auth_with_peer(p)
                        [] m = "eap"  -> eap_authwithpeer(p)
ProtRej(p, m) == CASE m = "lcp"  -> fsm_protreject(p, "lcp")
                   [] m = "pap"  -> upap_protrej(p)
                   [] m = "chap" -> chap_protrej(p)
                   [] m = "eap"  -> eap_protrej(p)
Input(p, m, code) == CASE m = "lcp"  -> lcp_input(p, code)
                       [] m = "pap"  -> upap_input(p, code)
                       [] m = "chap" -> chap_input(p, code)
                       [] m = "eap"  -> eap_input(p, code)
                       [] m = "ccp"  -> ccp_input(p, code)
                       [] OTHER      -> fsm_input(p, m, code)
-----------------------------------------------------------------------------
(* One call: the function at the head of the stack, or what is left of one *)
(* after a callback has returned.                                          *)

AuthCall(p, c) ==
  CASE c[1] = "pap_lowerup"       -> upap_lowerup(p)
    [] c[1] = "pap_lowerdown"     -> upap_lowerdown(p)
    [] c[1] = "pap_badauth"       -> [p EXCEPT !.pap.s = "BADAUTH"]
    [] c[1] = "pap_protrej_peer"  -> IF p.pap.s = "LISTEN" THEN AuthFail(p) ELSE p
    [] c[1] = "pap_reqdone"       -> [p EXCEPT !.pap.st = Cancelled(@)]
    [] c[1] = "chap_lowerup"      -> chap_lowerup(p)
    [] c[1] = "chap_lowerdown"    -> chap_lowerdown(p)
    [] c[1] = "chap_timeout"      -> chap_timeout(p)
    [] c[1] = "chap_rearm"        -> IF p.cfg.rechallenge THEN ChapArm(p) ELSE p
    [] c[1] = "chap_done"         -> [p EXCEPT !.chap.s = @ \union {"AUTH_DONE"}]
    [] c[1] = "chap_protrej_with" ->
         IF "AUTH_STARTED" \in p.chap.c /\ "AUTH_DONE" \notin p.chap.c
         THEN AuthFail([p EXCEPT !.chap.c = @ \ {"AUTH_STARTED"}]) ELSE p
    [] c[1] = "eap_lowerup"       -> eap_lowerup(p)
    [] c[1] = "eap_lowerdown"     -> eap_lowerdown(p)
    [] c[1] = "eap_client_bad"    -> [p EXCEPT !.eap.c = "BadAuth"]
    [] c[1] = "eap_protrej_peer"  -> IF EapServerActive(p) THEN AuthFail(p) ELSE p
    [] c[1] = "eap_next"          -> eap_figure_next_state(p, c[2] = "good")
    [] c[1] = "eap_md5"           -> [p EXCEPT !.eap.s = "MD5Chall"]
    [] c[1] = "eap_send_success"  -> eap_send_success(p)
    [] c[1] = "eap_send_failure"  -> eap_send_failure(p)
    [] c[1] = "eap_continue"      -> EapContinue(p)
    [] c[1] = "authpeer"          -> AuthPeer(p, c[2])
    [] c[1] = "authwithpeer"      -> AuthWithPeer(p, c[2])
    [] c[1] = "auth_started"      -> AuthStarted(p, c[2])
    [] c[1] = "auth_success"      -> AuthSuccess(p, c[2])
    [] c[1] = "auth_fail"         -> AuthFail(p)

FsmCall(p, c) ==
  CASE c[1] = "up"          -> Up(p, c[2])
    [] c[1] = "down"        -> Down(p, c[2])
    [] c[1] = "finished"    -> Finished(p, c[2])
    [] c[1] = "goto"        -> Goto(p, c[2], c[3])
    [] c[1] = "termreq"     -> SendTermReq(p, c[2], c[3])
    [] c[1] = "renegotiate" -> Renegotiate(p, c[2])
    [] c[1] = "answer"      -> AnswerConfReq(p, c[2])
    [] c[1] = "timeout"     -> [p EXCEPT !.fsm[c[2]].tmr = @ + 1]
    [] c[1] = "extcode"     -> IF c[2] = "lcp" THEN lcp_extcode(p, c[3]) ELSE p
    [] c[1] = "lowerup"     -> fsm_lowerup(p, c[2])
    [] c[1] = "lowerdown"   -> fsm_lowerdown(p, c[2])
    [] c[1] = "close"       -> fsm_close(p, c[2])
    [] c[1] = "open"        -> NcpOpen(p, c[2])
    [] c[1] = "np_open"     -> [NcpOpen(p, c[2]) EXCEPT !.npopen = @ + 1]
    [] c[1] = "ncp_protrej" -> fsm_lowerdown(p, c[2])

LinkCall(p, c) ==
  CASE c[1] = "lcp_open"           -> lcp_open(p)
    [] c[1] = "lcp_close"          -> lcp_close(p)
    [] c[1] = "loopback"           -> lcp_close([p EXCEPT !.err = "FAIL"])
    [] c[1] = "lcp_lowerup"        -> lcp_lowerup(p)
    [] c[1] = "lcp_lowerdown"      -> lcp_lowerdown(p)
    [] c[1] = "lcp_echo_lowerup"   -> lcp_echo_lowerup(p)
    [] c[1] = "lcp_echo_lowerdown" -> lcp_echo_lowerdown(p)
    [] c[1] = "LcpSendEchoRequest" -> LcpSendEchoRequest(p)
    [] c[1] = "LcpLinkFailure"     -> LcpLinkFailure(p)
    [] c[1] = "echo_send"          -> EchoSend([p EXCEPT !.echo.pend = 0])
    [] c[1] = "echo_rearm"         -> EchoRearm(p)
    [] c[1] = "link_connect"       -> link_connect(p)
    [] c[1] = "link_disconnect"    -> link_disconnect(p)
    [] c[1] = "ppp_start"          -> ppp_start(p)
    [] c[1] = "ppp_link_end"       -> ppp_link_end(p)
    [] c[1] = "ppp_link_failed"    -> ppp_link_failed(p)
    [] c[1] = "link_terminated"    -> link_terminated(p)
    [] c[1] = "link_established"   -> link_established(p)
    [] c[1] = "link_down"          -> link_down(p)
    [] c[1] = "link_down_phase"    -> IF p.phase = "DEAD" THEN p
                                      ELSE [p EXCEPT !.phase = "ESTABLISH"]
    [] c[1] = "upper_layers_down"  -> upper_layers_down(p)
    [] c[1] = "no_networks"        -> [p EXCEPT !.npopen = 0, !.npup = 0]
    [] c[1] = "authenticate"       -> Authenticate(p)
    [] c[1] = "start_networks"     -> start_networks(p)
    [] c[1] = "continue_networks"  -> continue_networks(p)
    [] c[1] = "networks_opened"    -> IF p.npopen = 0 THEN lcp_close(p) ELSE p
    [] c[1] = "protrej"            -> ProtRej(p, c[2])

FsmCalls == {"up", "down", "finished", "goto", "termreq", "renegotiate", "answer",
             "timeout", "extcode", "lowerup", "lowerdown", "close", "open",
             "np_open", "ncp_protrej"}
AuthCalls == {"pap_lowerup", "pap_lowerdown", "pap_badauth", "pap_protrej_peer",
              "pap_reqdone", "chap_lowerup", "chap_lowerdown", "chap_timeout",
              "chap_rearm", "chap_done", "chap_protrej_with", "eap_lowerup",
              "eap_lowerdown", "eap_client_bad", "eap_protrej_peer", "eap_next",
              "eap_md5", "eap_send_success", "eap_send_failure", "eap_continue",
              "authpeer", "authwithpeer", "auth_started", "auth_success",
              "auth_fail"}

Exec(p) ==
  IF p.calls = <<>> THEN p
  ELSE LET c == Head(p.calls)
           q == [p EXCEPT !.calls = Tail(@)]
       IN CASE c[1] \in FsmCalls  -> FsmCall(q, c)
            [] c[1] \in AuthCalls -> AuthCall(q, c)
            [] OTHER              -> LinkCall(q, c)

(* A handler with all its callbacks, in stages of Fuel calls. *)
Steps(p) ==
  LET run[n \in 0..Fuel] == IF n = 0 THEN p ELSE Exec(run[n - 1])
  IN run[Fuel]

Do(p) ==
  \E a \in {Steps(p)} : \E b \in {Steps(a)} : \E c \in {Steps(b)} :
  \E d \in {Steps(c)} : ppp' = [d EXCEPT !.in = Plain]

-----------------------------------------------------------------------------
(* Events.  in is what the environment decides for this one. *)

Allocs == IF ppp.cfg.fails THEN BOOLEAN ELSE {TRUE}

With(in) == [ppp EXCEPT !.in = in]

Connect ==
  /\ ~ ppp.freed
  /\ ppp.phase = "DEAD"
  /\ ppp.conns < MaxConnects
  /\ \E holdoff \in BOOLEAN : Do(ppp_connect(ppp, holdoff))

Close ==
  /\ ~ ppp.freed
  /\ ppp.conns > 0
  /\ \E nocarrier \in BOOLEAN : Do(ppp_close(ppp, nocarrier))

Free ==
  /\ ~ ppp.freed
  /\ ppp.phase = "DEAD"
  /\ ppp' = ppp_free(ppp)

LowerInput ==
  \E code \in LowerCodes(ppp.ll.kind) :
     /\ ~ ppp.freed
     /\ ppp.ll.st # "INITIAL"
     /\ Do(lower_input(ppp, code))

(* ppp_input: what the lower layer delivers in a session, and what the     *)
(* phase lets through.                                                     *)
MayInput(m) ==
  /\ ~ ppp.freed
  /\ ppp.ll.st = "SESSION"
  /\ m # "lcp" => St(ppp, "lcp") = "OPENED"
  /\ m \in Ncps => /\ m \in ppp.cfg.ncps
                   /\ ppp.phase \in {"NETWORK", "RUNNING", "TERMINATE", "DISCONNECT"}

(* What the peer's options lead to: an address the interface cannot take   *)
(* (ipcp_up, ipv6cp_up), or a refusal to authenticate.                     *)
Outcomes(f) ==
  {[Plain EXCEPT !.alloc = a, !.addr = ad, !.refuse = r] :
     a \in Allocs, ad \in IF f \in Ncps THEN BOOLEAN ELSE {TRUE},
     r \in IF f = "lcp" /\ ppp.cfg.srv # "none" THEN BOOLEAN ELSE {FALSE}}

FsmInput ==
  \E f \in Fsms :
     /\ MayInput(f)
     /\ ppp.pap.ct + ppp.eap.ct <= MaxStale
     /\ \/ \E ci \in {"ack", "nak", "rej"}, in \in Outcomes(f) :
             Do(Input(With([in EXCEPT !.ci = ci]), f, "confreq"))
        \/ \E in \in Outcomes(f) : Do(Input(With(in), f, "confack"))
        \/ \E code \in {"confnak", "confrej"}, a \in Allocs, ret \in {-1, 0, 1} :
             /\ ret = -1 => f = "ccp" /\ code = "confrej"
             /\ Do(Input(With([Plain EXCEPT !.alloc = a, !.ret = ret]), f, code))
        \/ \E code \in {"termreq", "termack", "coderej", "echorep"}, ok \in BOOLEAN :
             /\ ~ ok => f = "ccp" /\ code = "termack"
             /\ Do(Input(With([Plain EXCEPT !.ok = ok]), f, code))

(* lcp_nakci finds that the line is looped back. *)
Loopback ==
  /\ MayInput("lcp")
  /\ St(ppp, "lcp") # "OPENED"
  /\ Do(Input(With([Plain EXCEPT !.loop = TRUE]), "lcp", "confnak"))

ProtocolReject ==
  \E m \in {"lcp", "pap", "chap", "eap"} \union ppp.cfg.ncps :
     /\ MayInput("lcp")
     /\ Do(lcp_rprotrej(ppp, m))

AuthCodes(m) ==
  CASE m = "pap"  -> {"request", "success", "failure"}
    [] m = "chap" -> {"response", "success", "failure"}
    [] m = "eap"  -> {"request", "unknown", "success", "failure"} \union
                     (* a peer answers requests, it does not invent answers *)
                     IF ppp.eap.s \in {"Initial", "Pending", "Closed"} THEN {}
                     ELSE {"identity", "nak", "short", "md5", "notification"}

AuthInput ==
  \E m \in {ppp.cfg.srv, ppp.cfg.cli} \ {"none"} :
     /\ MayInput(m)
     /\ \E code \in AuthCodes(m), a \in Allocs, ok \in BOOLEAN :
          /\ m = "eap" /\ code = "success" => ppp.npopen <= MaxOpen
          /\ ~ ok => code \in {"request", "response", "md5"}
          /\ Do(Input(With([Plain EXCEPT !.alloc = a, !.ok = ok]), m, code))

FsmTimer(f) ==
  /\ ~ ppp.freed
  /\ ppp.fsm[f].tmr > 0
  /\ \E a \in Allocs : Do(fsm_timeout(With([Plain EXCEPT !.alloc = a]), f))

LowerTimer ==
  /\ ~ ppp.freed
  /\ ppp.ll.tmr > 0
  /\ \E a \in Allocs : Do(lower_timeout(With([Plain EXCEPT !.alloc = a])))

AuthTimer ==
  /\ ~ ppp.freed
  /\ \E a \in Allocs :
       LET p == With([Plain EXCEPT !.alloc = a])
       IN \/ ppp.pap.ct > 0 /\ Do(upap_timeout(p))
          \/ ppp.pap.st > 0 /\ Do(upap_reqtimeout(p))
          \/ ppp.chap.tmr > 0
             /\ Do(chap_timeout([p EXCEPT !.chap.tmr = Cancelled(@)]))
          \/ ppp.eap.ct > 0 /\ Do(eap_client_timeout(p))
          \/ ppp.eap.st > 0 /\ Do(eap_server_timeout(p))

LinkTimer ==
  /\ ~ ppp.freed
  /\ \/ ppp.hold > 0 /\ Do(ppp_do_connect([ppp EXCEPT !.hold = Cancelled(@)]))
     \/ ppp.dtmr > 0 /\ Do(lcp_delayed_up(ppp))
     \/ ppp.echo.tmr > 0 /\ Do(LcpEchoTimeout(ppp))

Next ==
  \/ Connect \/ Close \/ Free
  \/ LowerInput \/ FsmInput \/ Loopback \/ ProtocolReject \/ AuthInput
  \/ LowerTimer \/ AuthTimer \/ LinkTimer
  \/ \E f \in Fsms : FsmTimer(f)

Spec == Init /\ [][Next]_ppp

-----------------------------------------------------------------------------
(* No network control protocol leaves CLOSED unless LCP is open and every  *)
(* authentication this side requires of the peer, or the peer of it, has   *)
(* succeeded on the present LCP connection (link_established,              *)
(* auth_peer_success, auth_withpeer_success, network_phase).               *)
AuthBeforeNetwork ==
  \A f \in Ncps :
     St(ppp, f) \notin {"INITIAL", "CLOSED"} =>
        /\ St(ppp, "lcp") = "OPENED"
        /\ ppp.cfg.authreq => <<ppp.cfg.srv, "peer">> \in ppp.done
        /\ ppp.cfg.cli # "none" => <<ppp.cfg.cli, "with">> \in ppp.done

(* The interface is up for exactly the address families whose control      *)
(* protocol is open, num_np_up counts them, and the link runs only when    *)
(* there is one (ipcp_up, ipcp_down, np_up, np_down, upper_layers_down).   *)
NetworkCounts ==
  /\ ppp.up = {f \in {"ipcp", "ipv6cp"} : St(ppp, f) = "OPENED"}
  /\ ppp.ifup = ppp.up
  /\ ppp.npup = Cardinality(ppp.up)
  /\ ppp.phase = "RUNNING" => ppp.npup > 0

(* However the callbacks re-enter the automata, each has one pending       *)
(* retransmission timer while it waits for the peer and none otherwise;    *)
(* only an allocation failure leaves one waiting without (fsm_sconfreq).   *)
FsmTimers ==
  \A f \in Fsms : LET waits == IF St(ppp, f) \in Waiting THEN 1 ELSE 0
                  IN IF ppp.cfg.fails THEN ppp.fsm[f].tmr <= waits
                     ELSE ppp.fsm[f].tmr = waits

(* Once the session is dead nothing of it is left running: the automata    *)
(* are closed, the lower layer is back at its start, and neither LCP nor   *)
(* CHAP has a timer pending.                                               *)
DeadIsClean ==
  ppp.phase \in {"DEAD", "HOLDOFF"} =>
     /\ \A f \in Fsms : St(ppp, f) \in {"INITIAL", "STARTING"} /\ ppp.fsm[f].tmr = 0
     /\ ppp.ll.st = "INITIAL" /\ ppp.ifup = {}
     /\ ~ ppp.delayed /\ ppp.dtmr = 0 /\ ppp.echo.tmr = 0 /\ ppp.chap.tmr = 0

(* The application hears of the end of every connection attempt exactly    *)
(* once, and not before the session is dead (ppp_link_end,                 *)
(* ppp_link_failed, ppp_close).  ppp_close of a session that is dead tells *)
(* it once more, "to be consistent", and is not counted.                   *)
StatusReported ==
  ppp.conns > 0 => ppp.told = IF ppp.phase = "DEAD" THEN 1 ELSE 0

(* A session the user closes is on its way to the end: LCP waits for the   *)
(* peer's Terminate-Ack with its timer pending, until the session is dead, *)
(* and nothing the peer sends brings it back (lcp_close, terminate_layer,  *)
(* link_down).                                                             *)
CloseUnderway ==
  ppp.closed /\ ppp.phase # "DEAD" =>
     St(ppp, "lcp") = "CLOSING" /\ ppp.fsm["lcp"].tmr = 1

(* A control block that ppp_free has released has no timer left that would *)
(* be called with it.                                                      *)
FreeLeavesNoTimer ==
  ppp.freed => /\ \A f \in Fsms : ppp.fsm[f].tmr = 0
               /\ ppp.pap.ct + ppp.pap.st + ppp.chap.tmr + ppp.eap.ct + ppp.eap.st = 0
               /\ ppp.dtmr + ppp.echo.tmr + ppp.hold + ppp.ll.tmr = 0

=============================================================================

------------------------------- MODULE PppNeg -------------------------------
(***************************************************************************)
(* What two PPP peers negotiate: the option callbacks (resetci, addci,     *)
(* ackci, nakci, rejci, reqci, up) that LCP, IPCP, IPV6CP and CCP give to  *)
(* the automaton of fsm.c, run by both ends of one link.                   *)
(*                                                                         *)
(* A packet is the set of its options, each a pair <<name, value>>: both   *)
(* ends write and read them in the same fixed order and send each name at  *)
(* most once.  PppFsm has the automaton; here one exchange is a            *)
(* Configure-Request, the answer reqci composes and what the answer does   *)
(* to the sender, or the loss of the request, of the answer, or of neither.*)
(*                                                                         *)
(* Each end keeps the four option sets of the code: wo (wanted), go        *)
(* (offered), ho (the peer's, as accepted) and ao (what it allows).        *)
(***************************************************************************)
EXTENDS Integers, FiniteSets

CONSTANTS
  NegConfigs,    \* [proto, A, B]: the protocol and each end's settings
  Magics,        \* values of magic() and eui64_magic(), none of them zero
  NegMaxNak,     \* maxnakloops
  LoopbackFail,  \* settings.lcp_loopbackfail
  NegMaxLost,    \* packets lost in a run
  NegMaxRounds   \* exchanges in a run

VARIABLE neg

Ends == {"A", "B"}
Peer(x) == CHOOSE y \in Ends : y # x

Ci(on, opt, val) == IF on THEN {<<opt, val>>} ELSE {}
Names(msg)  == {ci[1] : ci \in msg}
Val(msg, o) == (CHOOSE ci \in msg : ci[1] = o)[2]

(* The answer made of the verdicts on the single options: a reject lists   *)
(* what is rejected, a nak what is nak'ed, with the values proposed.       *)
(* Once nakloops has reached its limit a nak becomes a reject, except for  *)
(* the options in stay.  reqci has then already written its own value over *)
(* a name server or an interface identifier in the packet.                 *)
Rewritten == {"dns1", "dns2", "ifaceid"}

Answer(msg, verdict, rid, stay) ==
  LET as(ci)  == IF verdict[ci].c = "nak" /\ rid /\ ci[1] \notin stay
                 THEN "rej" ELSE verdict[ci].c
      sent(ci) == IF ci[1] \in Rewritten /\ verdict[ci].c = "nak"
                  THEN <<ci[1], verdict[ci].v>> ELSE ci
      rej == {ci \in msg : as(ci) = "rej"}
      nak == {ci \in msg : as(ci) = "nak"}
  IN IF rej # {} THEN [c |-> "rej", m |-> {sent(ci) : ci \in rej}]
     ELSE IF nak # {} THEN [c |-> "nak",
                            m |-> {<<ci[1], verdict[ci].v>> : ci \in nak}]
     ELSE [c |-> "ack", m |-> msg]

Ack    == [c |-> "ack"]
Rej    == [c |-> "rej"]
Nak(v) == [c |-> "nak", v |-> v]

-----------------------------------------------------------------------------
(* LCP.  The authentication protocols are offered one at a time, in the    *)
(* order EAP, CHAP, PAP.  An async map is the set of escaped characters.   *)

DefMru == 1500
MinMru == 128
Chars  == {1, 2}
AuthOrder == <<"eap", "chap", "pap">>
First(auths) == AuthOrder[CHOOSE i \in 1..3 : /\ AuthOrder[i] \in auths
                                              /\ \A j \in 1..(i - 1) :
                                                   AuthOrder[j] \notin auths]
(* CHAP_DIGEST: the most preferred digest. *)
ChapDigest(md) == IF "md5" \in md THEN "md5" ELSE IF "ms2" \in md THEN "ms2" ELSE "ms"
AuthCi(auths, md) ==
  IF First(auths) = "chap" THEN <<"chap", ChapDigest(md)>> ELSE <<First(auths)>>

lcp_resetci(cfg) ==
  LET may == IF cfg.user THEN {"eap", "chap", "pap"} \ cfg.refuse ELSE {}
      want(m) == [mru |-> cfg.mru, neg_mru |-> TRUE, map |-> cfg.map, neg_map |-> TRUE,
                  auth |-> IF cfg.require THEN may ELSE {}, md |-> cfg.md,
                  req |-> cfg.require,
                  neg_magic |-> TRUE, magic |-> m, loops |-> 0,
                  comp |-> {"pcomp", "accomp"}]
  IN {[wo |-> want(m), go |-> want(m), ho |-> [auth |-> <<>>],
       ao |-> [opts |-> cfg.allow, map |-> cfg.needmap, auth |-> may, md |-> cfg.md]]
      : m \in Magics}

lcp_addci(go) ==
  Ci(go.neg_mru /\ go.mru # DefMru, "mru", go.mru)
  \union Ci(go.neg_map /\ go.map # Chars, "map", go.map)
  \union (IF go.auth = {} THEN {} ELSE {<<"auth", AuthCi(go.auth, go.md)>>})
  \union Ci(go.neg_magic, "magic", go.magic)
  \union {<<o, TRUE>> : o \in go.comp}

(* The answer to a request for an authentication protocol.  CHAP is        *)
(* proposed when EAP is not allowed, PAP as the last resort.               *)
LcpAuthVerdict(ao, v) ==
  CASE ao.auth = {} -> Rej
    [] v[1] \in ao.auth /\ v[1] # "chap" -> Ack
    [] v[1] = "chap" /\ "chap" \in ao.auth ->
         IF v[2] \in ao.md THEN Ack ELSE Nak(<<"chap", ChapDigest(ao.md)>>)
    [] OTHER -> Nak(AuthCi(ao.auth, ao.md))

LcpVerdicts(s, msg, fresh) ==
  [ci \in msg |->
     CASE ci[1] = "auth" -> LcpAuthVerdict(s.ao, ci[2])
       [] ci[1] = "magic" ->
            IF ~ ("magic" \in s.ao.opts \/ s.go.neg_magic) THEN Rej
            ELSE IF s.go.neg_magic /\ ci[2] = s.go.magic THEN Nak(fresh) ELSE Ack
       [] ci[1] \notin s.ao.opts \union {"auth", "magic"} -> Rej
       [] ci[1] = "mru" -> IF ci[2] < MinMru THEN Nak(MinMru) ELSE Ack
       [] ci[1] = "map" -> IF s.ao.map \subseteq ci[2] THEN Ack
                           ELSE Nak(s.ao.map \union ci[2])
       [] OTHER -> Ack]

LcpAccepted(msg, verdict) == {ci \in msg : verdict[ci].c = "ack"}

lcp_reqci(s, msg, rid) ==
  {LET vs   == LcpVerdicts(s, msg, fresh)
       took == LcpAccepted(msg, vs)
   IN [s |-> [s EXCEPT !.ho = [o \in Names(took) \union {"auth"} |->
                                 IF o \in Names(took) THEN Val(took, o) ELSE <<>>]],
       r |-> Answer(msg, vs, rid, {"magic"}), close |-> FALSE] : fresh \in Magics}

(* A nak for the authentication protocol: give up the one offered, unless  *)
(* the peer proposes a digest of it that is acceptable.                    *)
LcpNakAuth(go, v) ==
  LET drop == [go EXCEPT !.auth = @ \ {First(go.auth)}] IN
  CASE v[1] = "pap" -> IF First(go.auth) = "pap" THEN {} ELSE {drop}
    [] v[1] = "chap" /\ First(go.auth) = "eap" ->
         {IF v[2] \in go.md THEN [drop EXCEPT !.md = {v[2]}] ELSE drop}
    [] v[1] = "chap" /\ First(go.auth) = "chap" ->
         IF v[2] = ChapDigest(go.md) THEN {}
         ELSE IF v[2] \in go.md THEN {[go EXCEPT !.md = {v[2]}]}
         ELSE LET low  == IF "ms2" \in go.md THEN "ms2"
                          ELSE IF "ms" \in go.md THEN "ms" ELSE "md5"
                  left == go.md \ {low}
              IN {[go EXCEPT !.md = left, !.auth = IF left = {} THEN @ \ {"chap"} ELSE @]}
    [] OTHER -> {drop}

(* The options of a nak, all of which were offered: reqci of LCP adds none. *)
(* A bad nak has no successor.                                             *)
LcpNakOffered(go, wo, msg, fresh) ==
  LET a == IF "mru" \in Names(msg) /\ (Val(msg, "mru") <= wo.mru \/ Val(msg, "mru") <= DefMru)
           THEN [go EXCEPT !.mru = Val(msg, "mru")] ELSE go
      b == IF "map" \in Names(msg) THEN [a EXCEPT !.map = @ \union Val(msg, "map")] ELSE a
      c == IF "magic" \in Names(msg)
           THEN [b EXCEPT !.magic = fresh, !.loops = @ + 1] ELSE [b EXCEPT !.loops = 0]
      d == [c EXCEPT !.comp = @ \ Names(msg)]
  IN IF "auth" \in Names(msg) THEN LcpNakAuth(d, Val(msg, "auth")) ELSE {d}

lcp_nakci(s, msg, treat) ==
  {[s |-> [s EXCEPT !.go = g], close |-> g.loops >= LoopbackFail]
   : g \in UNION {LcpNakOffered(s.go, s.wo, msg, fresh) : fresh \in Magics}}

(* A reject of CHAP gives up all authentication, a reject of EAP only EAP. *)
LcpRejAuth(go) ==
  IF First(go.auth) = "chap" THEN {} ELSE go.auth \ {First(go.auth)}

lcp_rejci(s, msg) ==
  IF ~ (msg \subseteq lcp_addci(s.go)) THEN {}
  ELSE {[close |-> FALSE,
         s |-> [s EXCEPT !.go.neg_mru = @ /\ "mru" \notin Names(msg),
                         !.go.neg_map = @ /\ "map" \notin Names(msg),
                         !.go.auth = IF "auth" \in Names(msg) THEN LcpRejAuth(s.go) ELSE @,
                         !.go.neg_magic = @ /\ "magic" \notin Names(msg),
                         !.go.comp = @ \ Names(msg)]]}

(* lcp_up and the check of link_established: an end that requires          *)
(* authentication closes the link when the peer has refused it.            *)
lcp_up(s) == [s |-> s, close |-> s.wo.req /\ s.go.auth = {}]

(* What the end that offers and the end that accepted must agree on. *)
LcpAgree(s, t) ==
  /\ s.go.auth # {} => t.ho.auth = AuthCi(s.go.auth, s.go.md)
  /\ s.go.auth = {} => t.ho.auth = <<>>
  /\ s.go.auth # {} => First(s.go.auth) \in t.ao.auth
  /\ s.go.auth # {} /\ First(s.go.auth) = "chap" => ChapDigest(s.go.md) \in t.ao.md
  /\ \A o \in {"pcomp", "accomp"} : o \in s.go.comp <=> o \in DOMAIN t.ho
  /\ "magic" \in DOMAIN t.ho /\ t.go.neg_magic => t.ho["magic"] # t.go.magic
  /\ "map" \in DOMAIN t.ho => t.ao.map \subseteq t.ho["map"] /\ t.ho["map"] = s.go.map

-----------------------------------------------------------------------------
(* IPCP.  Address 0 is "none yet".                                         *)

Dns == {"dns1", "dns2"}

ipcp_resetci(cfg) ==
  LET want == [addr |-> TRUE, old |-> TRUE, req |-> cfg.addr,
               our |-> cfg.our, his |-> cfg.his,
               acl |-> cfg.our = 0, acr |-> cfg.his = 0,
               dns |-> [d \in Dns |-> 0], askdns |-> IF cfg.peerdns THEN Dns ELSE {},
               vj |-> TRUE, slots |-> cfg.slots, noremote |-> cfg.noremote]
  IN {[wo |-> want, go |-> want, ho |-> [addr |-> FALSE, old |-> FALSE, our |-> 0, his |-> 0, vj |-> FALSE, slots |-> 0],
       ao |-> [addr |-> cfg.addr, old |-> cfg.addr, vj |-> cfg.vj, slots |-> cfg.slots, dns |-> cfg.dns]]}

ipcp_addci(go) ==
  Ci(~ go.addr /\ go.old, "addrs", <<go.our, go.his>>)
  \union Ci(go.vj, "vj", go.slots)
  \union Ci(go.addr, "addr", go.our)
  \union {<<d, go.dns[d]>> : d \in go.askdns}

(* An address the peer claims is nak'ed when another one is wanted and the *)
(* peer may not choose, and rejected when neither end knows one.           *)
IpcpAddrVerdict(wo, a) ==
  IF a # wo.his /\ (a = 0 \/ ~ wo.acr) THEN "nak"
  ELSE IF a = 0 /\ wo.his = 0 THEN "rej" ELSE "ack"

IpcpVerdict(s, ci) ==
  CASE ci[1] = "addr" ->
         IF ~ s.ao.addr \/ IpcpAddrVerdict(s.wo, ci[2]) = "rej" THEN Rej
         ELSE IF IpcpAddrVerdict(s.wo, ci[2]) = "nak" THEN Nak(s.wo.his) ELSE Ack
    [] ci[1] = "addrs" ->
         LET mine == IpcpAddrVerdict(s.wo, ci[2][1])
             yours == ci[2][2] # s.wo.our /\ (ci[2][2] = 0 \/ ~ s.wo.acl)
         IN IF ~ s.ao.old \/ mine = "rej" THEN Rej
            ELSE IF mine = "nak" \/ yours
                 THEN Nak(<<IF mine = "nak" THEN s.wo.his ELSE ci[2][1],
                            IF yours THEN s.wo.our ELSE ci[2][2]>>)
                 ELSE Ack
    [] ci[1] \in Dns -> IF s.ao.dns[ci[1]] = 0 THEN Rej
                        ELSE IF ci[2] # s.ao.dns[ci[1]] THEN Nak(s.ao.dns[ci[1]]) ELSE Ack
    [] OTHER -> IF ~ s.ao.vj THEN Rej
                ELSE IF ci[2] > s.ao.slots THEN Nak(s.ao.slots) ELSE Ack

(* The peer's options as recorded, the nak'ed ones included. *)
IpcpHis(s, msg) ==
  LET has(o) == o \in Names(msg) /\ IpcpVerdict(s, <<o, Val(msg, o)>>) # Rej
  IN [addr |-> has("addr"), old |-> has("addrs"),
      his |-> IF has("addr") THEN Val(msg, "addr")
              ELSE IF has("addrs") THEN Val(msg, "addrs")[1] ELSE 0,
      our |-> IF has("addrs") THEN Val(msg, "addrs")[2] ELSE 0,
      vj |-> has("vj"), slots |-> IF has("vj") THEN Val(msg, "vj") ELSE 0]

(* A peer that sent no address at all is asked once, with a nak, to.       *)
IpcpAskAddr(s, ho, r, rid) ==
  IF r.c # "rej" /\ ~ ho.addr /\ ~ ho.old /\ s.wo.req /\ ~ rid /\ ~ s.wo.noremote
  THEN [r |-> [c |-> "nak",
               m |-> (IF r.c = "nak" THEN r.m ELSE {}) \union {<<"addr", s.wo.his>>}],
        req |-> r.c = "nak"]
  ELSE [r |-> r, req |-> s.wo.req]

IpcpTakeOur(s, msg) ==
  IF "addrs" \in Names(msg) /\ s.ao.old /\ IpcpAddrVerdict(s.wo, Val(msg, "addrs")[1]) # "rej"
     /\ Val(msg, "addrs")[2] # 0 /\ s.wo.acl
  THEN Val(msg, "addrs")[2] ELSE s.wo.our

ipcp_reqci(s, msg, rid) ==
  LET ho   == IpcpHis(s, msg)
      none == \E o \in {"addr", "addrs"} \intersect Names(msg) :
                IpcpAddrVerdict(s.wo, IF o = "addr" THEN Val(msg, o) ELSE Val(msg, o)[1]) = "rej"
      s1   == IF none THEN [s EXCEPT !.wo.req = FALSE] ELSE s
      ask  == IpcpAskAddr(s1, ho, Answer(msg, [ci \in msg |-> IpcpVerdict(s, ci)], rid, {}), rid)
  IN {[s |-> [s1 EXCEPT !.ho = ho, !.wo.req = ask.req, !.wo.our = IpcpTakeOur(s, msg)],
       r |-> ask.r, close |-> FALSE]}

IpcpNakAddr(s, go, msg, treat) ==
  LET a == Val(msg, "addr") IN
  CASE "addr" \notin Names(msg) -> go
    [] "addr" \in Names(msg) /\ s.go.addr /\ treat -> [go EXCEPT !.addr = FALSE, !.old = FALSE]
    [] "addr" \in Names(msg) /\ s.go.addr /\ ~ treat ->
         IF s.go.acl /\ a # 0 THEN [go EXCEPT !.our = a] ELSE go
    [] OTHER -> LET our == IF a # 0 /\ s.go.acl THEN a ELSE go.our
                IN [go EXCEPT !.old = FALSE, !.our = our, !.addr = our # 0 \/ @]

IpcpNakAddrs(s, go, msg, treat) ==
  IF "addrs" \notin Names(msg) THEN go
  ELSE IF treat THEN [go EXCEPT !.old = FALSE]
  ELSE [go EXCEPT !.our = IF s.go.acl /\ Val(msg, "addrs")[1] # 0 THEN Val(msg, "addrs")[1] ELSE @,
                  !.his = IF s.go.acr /\ Val(msg, "addrs")[2] # 0 THEN Val(msg, "addrs")[2] ELSE @]

ipcp_nakci(s, msg, treat) ==
  LET g1 == IpcpNakAddr(s, IpcpNakAddrs(s, s.go, msg, treat), msg, treat)
      g2 == IF "vj" \notin Names(msg) THEN g1
            ELSE IF treat THEN [g1 EXCEPT !.vj = FALSE]
            ELSE IF Val(msg, "vj") < s.go.slots THEN [g1 EXCEPT !.slots = Val(msg, "vj")] ELSE g1
      g3 == IF treat THEN [g2 EXCEPT !.askdns = @ \ Names(msg)]
            ELSE [g2 EXCEPT !.dns = [d \in Dns |-> IF d \in Names(msg) THEN Val(msg, d) ELSE g2.dns[d]]]
  IN {[s |-> [s EXCEPT !.go = g3], close |-> FALSE]}

ipcp_rejci(s, msg) ==
  IF ~ (msg \subseteq ipcp_addci(s.go)) THEN {}
  ELSE {[close |-> FALSE,
         s |-> [s EXCEPT !.go.addr = @ /\ "addr" \notin Names(msg),
                         !.go.old = @ /\ "addrs" \notin Names(msg),
                         !.go.vj = @ /\ "vj" \notin Names(msg),
                         !.go.askdns = @ \ Names(msg)]]}

(* The value ppp uses for the peer when neither end named one. *)
Fallback == 64

ipcp_up(s) ==
  LET his0 == IF ~ s.ho.addr /\ ~ s.ho.old THEN s.wo.his ELSE s.ho.his
      his  == IF his0 = 0 /\ ~ s.wo.noremote THEN Fallback ELSE his0
  IN [close |-> \/ ~ (s.go.addr \/ s.go.old) /\ s.wo.our # 0
                \/ s.go.our = 0,
      s |-> [s EXCEPT !.ho.his = his, !.wo.our = s.go.our]]

IpcpAgree(s, t) ==
  /\ s.go.our # 0
  /\ s.go.addr => t.ho.his = s.go.our
  /\ t.wo.his # 0 /\ s.go.addr => s.go.our = t.wo.his
  /\ s.go.vj <=> t.ho.vj
  /\ t.ho.vj => s.go.slots <= t.ao.slots
  /\ \A d \in s.go.askdns : s.go.dns[d] = t.ao.dns[d]

-----------------------------------------------------------------------------
(* IPV6CP.  Identifier 0 is "none"; eui64_magic draws until the identifier *)
(* differs from the ones it must differ from.                              *)

ipv6cp_resetci(cfg) ==
  {LET want == [neg |-> TRUE, our |-> IF cfg.our # 0 THEN cfg.our ELSE m, his |-> cfg.his,
                req |-> cfg.allow]
   IN [wo |-> want, go |-> [want EXCEPT !.his = 0], ho |-> [neg |-> FALSE, his |-> 0],
       ao |-> [neg |-> cfg.allow]] : m \in Magics}

ipv6cp_addci(go) == Ci(go.neg, "ifaceid", go.our)

(* The identifier to propose instead of id; id itself when it is accepted. *)
Ipv6cpPropose(s, id) ==
  IF s.wo.his # 0 /\ id # s.wo.his /\ s.go.his = 0 THEN {s.wo.his}
  ELSE IF id = 0 \/ id = s.go.our
       THEN LET first == IF s.go.his = 0 THEN s.wo.his ELSE id
            IN IF first # 0 /\ first # s.go.our THEN {first} ELSE Magics \ {s.go.our}
       ELSE {id}

Ipv6cpTake(s, msg, rid, id, new) ==
  LET v == [ci \in msg |-> IF new = id THEN Ack ELSE Nak(new)]
  IN [s |-> [s EXCEPT !.ho = [neg |-> TRUE, his |-> new],
                      !.go.his = IF new = id THEN @ ELSE new],
      r |-> Answer(msg, v, rid, {}), close |-> FALSE]

ipv6cp_reqci(s, msg, rid) ==
  LET id == Val(msg, "ifaceid") IN
  CASE msg # {} /\ (~ s.ao.neg \/ (id = 0 /\ s.go.our = 0)) ->
         {[s |-> [s EXCEPT !.ho = [neg |-> FALSE, his |-> 0]], r |-> [c |-> "rej", m |-> msg],
           close |-> FALSE]}
    [] msg # {} /\ s.ao.neg /\ ~ (id = 0 /\ s.go.our = 0) ->
         {Ipv6cpTake(s, msg, rid, id, new) : new \in Ipv6cpPropose(s, id)}
    [] OTHER ->
         LET ask == s.wo.req /\ ~ rid
         IN {[s |-> [s EXCEPT !.ho = [neg |-> FALSE, his |-> 0], !.wo.req = @ /\ ~ ask],
              r |-> IF ask THEN [c |-> "nak", m |-> {<<"ifaceid", s.wo.his>>}]
                    ELSE [c |-> "ack", m |-> {}], close |-> FALSE]}

ipv6cp_nakci(s, msg, treat) ==
  LET id == Val(msg, "ifaceid") IN
  IF s.go.neg /\ treat THEN {[s |-> [s EXCEPT !.go.neg = FALSE], close |-> FALSE]}
  ELSE {[s |-> [s EXCEPT !.go.neg = TRUE, !.go.our = new], close |-> FALSE]
        : new \in IF id = 0 \/ id = s.go.his THEN Magics \ {s.go.his} ELSE {id}}

ipv6cp_rejci(s, msg) ==
  IF ~ (msg \subseteq ipv6cp_addci(s.go)) THEN {}
  ELSE {[s |-> [s EXCEPT !.go.neg = FALSE], close |-> FALSE]}

ipv6cp_up(s) ==
  LET his == IF s.ho.neg THEN s.ho.his ELSE s.wo.his
  IN [s |-> [s EXCEPT !.ho.his = his],
      close |-> his = 0 \/ s.go.our = 0 \/ s.go.our = his]

Ipv6cpAgree(s, t) ==
  /\ s.go.our # s.ho.his
  /\ s.go.neg => t.ho.his = s.go.our

-----------------------------------------------------------------------------
(* CCP with MPPE, the one compressor lwIP has.  An option is the set of    *)
(* the mode bits; both ends required MPPE and have their keys.             *)

Strong == {"40", "128"}

ccp_resetci(cfg) ==
  LET want == IF cfg.require
              THEN (Strong \ cfg.refuse) \ (IF cfg.mschap1 THEN {"40"} ELSE {}) ELSE {}
      may  == want \union (IF cfg.stateful THEN {"stateful"} ELSE {})
  IN {[wo |-> [mppe |-> may], go |-> [mppe |-> may], ho |-> [mppe |-> {}],
       ao |-> [mppe |-> want, stateful |-> cfg.takestateful]]}

ccp_addci(go) == Ci(go.mppe # {}, "mppe", go.mppe)

MppeVerdict(ao, bits) ==
  CASE ao.mppe = {} -> Rej
    [] ao.mppe # {} /\ "stateful" \in bits /\ ~ ao.stateful -> Rej
    [] OTHER ->
         CASE Strong \subseteq bits ->
                IF "128" \in ao.mppe THEN Nak(bits \ {"40"})
                ELSE IF "40" \in ao.mppe THEN Nak(bits \ {"128"}) ELSE Rej
           [] bits \intersect Strong = {} -> Nak(ao.mppe)
           [] OTHER -> IF bits \intersect Strong \subseteq ao.mppe THEN Ack ELSE Rej

(* The link closes when the mode asked for is rejected outright. *)
ccp_reqci(s, msg, rid) ==
  LET v == [ci \in msg |-> MppeVerdict(s.ao, ci[2])]
      r == Answer(msg, v, rid, {})
  IN {[s |-> [s EXCEPT !.ho.mppe = IF r.c = "ack" /\ msg # {} THEN Val(msg, "mppe") ELSE {}],
       r |-> r, close |-> s.ao.mppe # {} /\ \E ci \in msg : v[ci] = Rej]}

ccp_nakci(s, msg, treat) ==
  LET bits == Val(msg, "mppe")
      try  == IF "stateful" \in bits /\ ~ s.ao.stateful THEN {}
              ELSE IF ~ (bits \subseteq s.go.mppe \union {"stateful"}) THEN {} ELSE bits
  IN {[s |-> [s EXCEPT !.go.mppe = try], close |-> try = {}]}

ccp_rejci(s, msg) == {[s |-> s, close |-> msg # {}]}

ccp_up(s) == [s |-> s, close |-> FALSE]

CcpAgree(s, t) ==
  /\ s.go.mppe = t.ho.mppe
  /\ Cardinality(s.go.mppe \intersect Strong) = 1
  /\ s.go.mppe \intersect Strong \subseteq t.ao.mppe \intersect s.ao.mppe

-----------------------------------------------------------------------------
(* The automaton's calls of the option callbacks, for both ends.           *)

ResetCi(proto, cfg) ==
  CASE proto = "lcp" -> lcp_resetci(cfg)       [] proto = "ipcp" -> ipcp_resetci(cfg)
    [] proto = "ipv6cp" -> ipv6cp_resetci(cfg) [] proto = "ccp" -> ccp_resetci(cfg)
AddCi(proto, go) ==
  CASE proto = "lcp" -> lcp_addci(go)       [] proto = "ipcp" -> ipcp_addci(go)
    [] proto = "ipv6cp" -> ipv6cp_addci(go) [] proto = "ccp" -> ccp_addci(go)
ReqCi(proto, s, msg, rid) ==
  CASE proto = "lcp" -> lcp_reqci(s, msg, rid)       [] proto = "ipcp" -> ipcp_reqci(s, msg, rid)
    [] proto = "ipv6cp" -> ipv6cp_reqci(s, msg, rid) [] proto = "ccp" -> ccp_reqci(s, msg, rid)
NakCi(proto, s, msg, treat) ==
  CASE proto = "lcp" -> lcp_nakci(s, msg, treat)       [] proto = "ipcp" -> ipcp_nakci(s, msg, treat)
    [] proto = "ipv6cp" -> ipv6cp_nakci(s, msg, treat) [] proto = "ccp" -> ccp_nakci(s, msg, treat)
RejCi(proto, s, msg) ==
  CASE proto = "lcp" -> lcp_rejci(s, msg)       [] proto = "ipcp" -> ipcp_rejci(s, msg)
    [] proto = "ipv6cp" -> ipv6cp_rejci(s, msg) [] proto = "ccp" -> ccp_rejci(s, msg)
UpCb(proto, s) ==
  CASE proto = "lcp" -> lcp_up(s)       [] proto = "ipcp" -> ipcp_up(s)
    [] proto = "ipv6cp" -> ipv6cp_up(s) [] proto = "ccp" -> ccp_up(s)
(* ackci takes an ack exactly when it repeats the request. *)
lcp_ackci(s, msg)    == msg = lcp_addci(s.go)
ipcp_ackci(s, msg)   == msg = ipcp_addci(s.go)
ipv6cp_ackci(s, msg) == msg = ipv6cp_addci(s.go)
ccp_ackci(s, msg)    == msg = ccp_addci(s.go)
AckCi(proto, s, msg) ==
  CASE proto = "lcp" -> lcp_ackci(s, msg)       [] proto = "ipcp" -> ipcp_ackci(s, msg)
    [] proto = "ipv6cp" -> ipv6cp_ackci(s, msg) [] proto = "ccp" -> ccp_ackci(s, msg)

NegInit ==
  \E c \in NegConfigs : \E a \in ResetCi(c.proto, c.A), b \in ResetCi(c.proto, c.B) :
    LET end(s) == [opt |-> s, nak |-> 0, rnak |-> 0, acked |-> FALSE, acks |-> FALSE,
                   st |-> "neg"]
    IN neg = [proto |-> c.proto, e |-> [x \in Ends |-> end(IF x = "A" THEN a ELSE b)],
              n |-> 0, lost |-> 0]

(* An end whose request is acknowledged and that has acknowledged the      *)
(* peer's is OPENED; its up callback may find the result unusable.         *)
Opened(e) ==
  IF ~ (e.acked /\ e.acks) THEN e
  ELSE LET u == UpCb(neg.proto, e.opt)
       IN [e EXCEPT !.opt = u.s, !.st = IF u.close THEN "closed" ELSE "open"]

(* fsm_rconfreq: the receiver of a request. *)
Receive(e, q) ==
  LET n1 == IF q.r.c = "ack" THEN 0 ELSE IF q.r.c = "nak" THEN e.nak + 1 ELSE e.nak
      e1 == [e EXCEPT !.opt = q.s, !.acks = q.r.c = "ack", !.nak = n1]
  IN IF q.close THEN [e1 EXCEPT !.st = "closed"] ELSE Opened(e1)

(* An OPENED receiver first goes down and sends a request of its own. *)
Down(e) == [e EXCEPT !.st = "neg", !.acked = FALSE, !.acks = FALSE, !.nak = 0, !.rnak = 0]

(* fsm_rconfack and fsm_rconfnakrej: what the answer can do to the sender; *)
(* a bad answer is dropped and the request sent again.                     *)
Apply(e, r) ==
  LET p == neg.proto
      next(u, rn) == [e EXCEPT !.opt = u.s, !.rnak = rn, !.st = IF u.close THEN "closed" ELSE @]
  IN CASE r.c = "ack" -> {IF AckCi(p, e.opt, r.m) THEN Opened([e EXCEPT !.acked = TRUE, !.rnak = 0])
                          ELSE e}
       [] r.c = "nak" -> LET us == NakCi(p, e.opt, r.m, e.rnak + 1 >= NegMaxNak)
                         IN IF us = {} THEN {[e EXCEPT !.rnak = @ + 1]}
                            ELSE {next(u, e.rnak + 1) : u \in us}
       [] r.c = "rej" -> LET us == RejCi(p, e.opt, r.m)
                         IN IF us = {} THEN {[e EXCEPT !.rnak = 0]} ELSE {next(u, 0) : u \in us}

(* A Terminate-Request follows when one end closes. *)
Both(es) == IF \E x \in Ends : es[x].st = "closed" THEN [x \in Ends |-> [es[x] EXCEPT !.st = "closed"]]
            ELSE es

Request(to, from) ==
  ReqCi(neg.proto, to.opt, AddCi(neg.proto, from.opt.go), to.nak >= NegMaxNak)

Exchanged(x, e, f, lost) ==
  neg' = [neg EXCEPT !.n = @ + 1, !.lost = IF lost THEN @ + 1 ELSE @,
                     !.e = Both([y \in Ends |-> IF y = x THEN e ELSE f])]

MaySend(x, lost) ==
  /\ neg.e[x].st = "neg" /\ ~ neg.e[x].acked
  /\ neg.n < NegMaxRounds /\ (lost => neg.lost < NegMaxLost)

(* One request of x and, unless it is lost, its answer. *)
Exchange(x, lost) ==
  /\ MaySend(x, lost) /\ neg.e[Peer(x)].st = "neg"
  /\ \E q \in Request(neg.e[Peer(x)], neg.e[x]) :
     \E e \in IF lost THEN {neg.e[x]} ELSE Apply(neg.e[x], q.r) :
       Exchanged(x, e, Receive(neg.e[Peer(x)], q), lost)

(* The request of x finds its peer OPENED: the peer's own request reaches  *)
(* x before the answer does, unless both are lost.                         *)
Reopen(x, lost) ==
  /\ MaySend(x, lost) /\ neg.e[Peer(x)].st = "open"
  /\ \E f \in {Down(neg.e[Peer(x)])} :
     \E q \in Request(f, neg.e[x]) :
     \E f1 \in {Receive(f, q)} :
       \/ lost /\ Exchanged(x, neg.e[x], f1, TRUE)
       \/ /\ ~ lost
          /\ \E q1 \in Request(neg.e[x], f) :
             \E e \in Apply(Receive(neg.e[x], q1), q.r) :
             \E f2 \in Apply(f1, q1.r) : Exchanged(x, e, f2, FALSE)

(* fsm_timeout in ACKRCVD: the peer was too slow and is asked again. *)
NegTimeout(x) ==
  /\ neg.e[x].st = "neg" /\ neg.e[x].acked /\ ~ neg.e[x].acks
  /\ neg.lost < NegMaxLost
  /\ neg' = [neg EXCEPT !.lost = @ + 1, !.e[x].acked = FALSE]

NegNext ==
  \E x \in Ends : \/ \E lost \in BOOLEAN : Exchange(x, lost) \/ Reopen(x, lost)
                  \/ NegTimeout(x)

NegSpec == NegInit /\ [][NegNext]_neg

-----------------------------------------------------------------------------
Agree(proto, s, t) ==
  CASE proto = "lcp" -> LcpAgree(s, t)       [] proto = "ipcp" -> IpcpAgree(s, t)
    [] proto = "ipv6cp" -> Ipv6cpAgree(s, t) [] proto = "ccp" -> CcpAgree(s, t)

(* When both ends have opened a protocol, each end's record of what the    *)
(* other offered is what the other uses, and it is acceptable to both: the *)
(* same authentication and digest, distinct magic numbers and identifiers, *)
(* the address one end wants the other to have, one MPPE key length.       *)
NegAgrees ==
  (\A x \in Ends : neg.e[x].st = "open") =>
    \A x \in Ends : Agree(neg.proto, neg.e[x].opt, neg.e[Peer(x)].opt)

(* The naks and rejects converge: after NegMaxRounds exchanges both ends   *)
(* have opened, or one has given up and closed.  IPV6CP is left out: its   *)
(* ends may draw the same identifiers again and again, and the reject that *)
(* then follows quotes the identifier reqci wrote over the peer's, so that *)
(* rejci drops it.                                                         *)
NegConverges ==
  neg.n = NegMaxRounds /\ neg.proto # "ipv6cp" =>
    \/ \A x \in Ends : neg.e[x].st = "open"
    \/ \A x \in Ends : neg.e[x].st = "closed"
=============================================================================

-------------------------------- MODULE Mdns --------------------------------
(***************************************************************************)
(* The multicast DNS responder (apps/mdns/mdns.c) on one interface: the    *)
(* probing of the host's and the services' names, the announcements, the   *)
(* answers to queries with suppression of what the querier already knows,  *)
(* and the names of the packets it writes, compressed against one another. *)
(*                                                                         *)
(* A domain is the sequence of its labels, the closing empty label left    *)
(* out.  An address stands in a reverse domain as one label.  Of a packet  *)
(* the bytes that belong to names are kept, at their offsets; the other    *)
(* fields only take room.                                                  *)
(***************************************************************************)
EXTENDS Integers, Sequences, SequencesExt, FiniteSets, FiniteSetsExt, Functions, TLC

CONSTANTS LabelLen,        \* the number of characters of every label
          HostNames,       \* names the application gives the host
          ServiceNames,    \* and a service
          Addrs4,          \* IPv4 addresses the interface may get (labels)
          Addrs6,          \* its IPv6 addresses, in slot order (labels)
          Queries,         \* [qs, known, mdns, uni] query packets that arrive
          MAX_SERVICES, PROBE_COUNT, OUTPACKET_SIZE, NUM_OFFSETS, TxtLen

VARIABLE md

NoServ == [name |-> ""]
NoTx == [k |-> "none"]
NoAddr == ""
HDR == 12
JUMP_SIZE == 2
MAX_JUMPS == 5
DOMAIN_MAXLEN == 256

(***************************************************************************)
(* Domains.                                                                *)
(***************************************************************************)
Bytes(labels) == FoldLeft(LAMBDA n, l : n + 1 + LabelLen[l], 0, labels)

DomLen(d) == Bytes(d) + 1

mdns_build_host_domain(m) == <<m.name, "local">>

mdns_build_dnssd_domain == <<"_services", "_dns-sd", "_udp", "local">>

mdns_build_service_domain(s, named) ==
  (IF named THEN <<s.name>> ELSE <<>>) \o <<s.service, s.proto, "local">>

mdns_build_reverse_v4_domain(a) == <<a, "in-addr", "arpa">>

mdns_build_reverse_v6_domain(a) == <<a, "ip6", "arpa">>

(***************************************************************************)
(* Names in a packet.  pk.cells: offset -> the label, jump or end written  *)
(* there; pk.off: where the next byte goes; pk.doms: the offsets of names  *)
(* written before; pk.names: the names meant to stand at which offset.     *)
(***************************************************************************)
EmptyPacket == [cells |-> <<>>, off |-> HDR, doms |-> <<>>, names |-> <<>>, ok |-> TRUE]

Unread == [ok |-> FALSE, dom |-> <<>>, end |-> 0]

RECURSIVE mdns_readname_loop(_, _, _, _)
mdns_readname_loop(cells, off, dom, depth) ==
  IF depth > MAX_JUMPS \/ off \notin DOMAIN cells THEN Unread
  ELSE CASE cells[off].k = "jump" ->
              [mdns_readname_loop(cells, cells[off].to, dom, depth + 1)
                 EXCEPT !.end = off + JUMP_SIZE]
         [] cells[off].k = "end" -> [ok |-> TRUE, dom |-> dom, end |-> off + 1]
         [] OTHER ->
              IF LabelLen[cells[off].l] + Bytes(dom) >= DOMAIN_MAXLEN THEN Unread
              ELSE mdns_readname_loop(cells, off + 1 + LabelLen[cells[off].l],
                                      Append(dom, cells[off].l), depth)

mdns_readname(cells, off) == mdns_readname_loop(cells, off, <<>>, 0)

\* How many labels of d are written before the jump, and where it goes.
NotCompressed(d) == [keep |-> Len(d) + 1, to |-> 0]

SuffixOf(d, i) == SubSeq(d, i + 1, Len(d))

\* "at or beyond a jump in the original, stop looking"
BeyondJump(t, off, d, i) ==
  DomLen(t.dom) - DomLen(SuffixOf(d, i)) + JUMP_SIZE >= t.end - off

Comparable(t, d, i) ==
  /\ DomLen(SuffixOf(d, i)) <= DomLen(t.dom)
  /\ DomLen(SuffixOf(d, i)) > JUMP_SIZE

CompressAt(t, off, d, hits) ==
  IF hits = {} \/ BeyondJump(t, off, d, Min(hits)) THEN NotCompressed(d)
  ELSE [keep |-> Min(hits),
        to |-> off + DomLen(t.dom) - DomLen(SuffixOf(d, Min(hits)))]

CompressAgainst(t, off, d) ==
  IF ~t.ok THEN NotCompressed(d)
  ELSE CompressAt(t, off, d,
         {i \in 0..Len(d) : /\ Comparable(t, d, i)
                            /\ \/ BeyondJump(t, off, d, i)
                               \/ IsSuffix(SuffixOf(d, i), t.dom)})

mdns_compress_domain(pk, off, d) == CompressAgainst(mdns_readname(pk.cells, off), off, d)

Best(pk, d, skip) ==
  IF skip THEN NotCompressed(d)
  ELSE FoldLeft(LAMBDA b, c : IF c.keep < b.keep THEN c ELSE b, NotCompressed(d),
                [i \in DOMAIN pk.doms |-> mdns_compress_domain(pk, pk.doms[i], d)])

LabelCells(off, labels) ==
  [o \in {off + Bytes(SubSeq(labels, 1, i - 1)) : i \in DOMAIN labels} |->
     [k |-> "label", to |-> 0,
      l |-> labels[CHOOSE i \in DOMAIN labels : o = off + Bytes(SubSeq(labels, 1, i - 1))]]]

LastCell(off, to) ==
  off :> (IF to = 0 THEN [k |-> "end", l |-> "", to |-> 0]
                    ELSE [k |-> "jump", l |-> "", to |-> to])

WriteName(pk, d, labels, to) ==
  [pk EXCEPT !.cells = pk.cells @@ LabelCells(pk.off, labels)
                                @@ LastCell(pk.off + Bytes(labels), to),
             !.off = pk.off + Bytes(labels) + (IF to = 0 THEN 1 ELSE JUMP_SIZE),
             !.doms = IF (to = 0 \/ labels # <<>>) /\ Len(pk.doms) < NUM_OFFSETS
                      THEN Append(pk.doms, pk.off) ELSE pk.doms,
             !.names = Append(pk.names, <<pk.off, d>>)]

WriteBest(pk, d, b) == WriteName(pk, d, SubSeq(d, 1, Min({b.keep, Len(d)})), b.to)

mdns_write_domain(pk, d, skip) == WriteBest(pk, d, Best(pk, d, skip))

Advance(pk, n) == [pk EXCEPT !.off = pk.off + n]

NoSpace(pk) == [pk EXCEPT !.ok = FALSE]

mdns_add_question(pk, d) ==
  IF ~pk.ok \/ pk.off + DomLen(d) + 4 > OUTPACKET_SIZE THEN NoSpace(pk)
  ELSE Advance(mdns_write_domain(pk, d, FALSE), 4)

(***************************************************************************)
(* Resource records: r.data is the domain or the address answered with,    *)
(* r.fixed the number of other bytes in front of it.                       *)
(***************************************************************************)
RR(name, type, data, fixed) == [name |-> name, type |-> type, data |-> data, fixed |-> fixed]

NamesAnswer(r) == r.type \in {"PTR", "SRV"}

AnswerLen(r) == DomLen(r.name) + 10 + r.fixed + (IF NamesAnswer(r) THEN DomLen(r.data) ELSE 0)

AnswerData(pk, r, legacy) ==
  IF NamesAnswer(r) THEN mdns_write_domain(pk, r.data, legacy /\ r.type = "SRV") ELSE pk

mdns_add_answer(pk, r, legacy) ==
  IF ~pk.ok \/ pk.off + AnswerLen(r) > OUTPACKET_SIZE THEN NoSpace(pk)
  ELSE AnswerData(Advance(mdns_add_question(pk, r.name), 6 + r.fixed), r, legacy)

mdns_add_a_answer(m) == RR(mdns_build_host_domain(m), "A", <<m.v4>>, 4)

mdns_add_hostv4_ptr_answer(m) ==
  RR(mdns_build_reverse_v4_domain(m.v4), "PTR", mdns_build_host_domain(m), 0)

mdns_add_aaaa_answer(m, i) == RR(mdns_build_host_domain(m), "AAAA", <<Addrs6[i]>>, 16)

mdns_add_hostv6_ptr_answer(m, i) ==
  RR(mdns_build_reverse_v6_domain(Addrs6[i]), "PTR", mdns_build_host_domain(m), 0)

mdns_add_servicetype_ptr_answer(s) ==
  RR(mdns_build_dnssd_domain, "PTR", mdns_build_service_domain(s, FALSE), 0)

mdns_add_servicename_ptr_answer(s) ==
  RR(mdns_build_service_domain(s, FALSE), "PTR", mdns_build_service_domain(s, TRUE), 0)

mdns_add_srv_answer(m, s) ==
  RR(mdns_build_service_domain(s, TRUE), "SRV", mdns_build_host_domain(m), 6)

mdns_add_txt_answer(s) == RR(mdns_build_service_domain(s, TRUE), "TXT", <<"txt">>, TxtLen)

(***************************************************************************)
(* The reply masks: rep.host and rep.serv[i] hold the names of the REPLY_  *)
(* bits, rep.rev the IPv6 slots whose reverse names were asked for.        *)
(***************************************************************************)
Slots(m) == {i \in 1..MAX_SERVICES : m.servs[i] # NoServ}

Mask(m, host, rev, serv) ==
  [host |-> host, rev |-> rev,
   serv |-> [i \in 1..MAX_SERVICES |-> IF i \in Slots(m) THEN serv ELSE {}]]

Asked(rr, type) == rr.type \in {type, "ANY"}

check_host(m, rr) ==
  [host |-> {b \in {"A"} : m.v4 # NoAddr /\ rr.dom = mdns_build_host_domain(m) /\ Asked(rr, "A")}
            \cup {b \in {"AAAA"} : rr.dom = mdns_build_host_domain(m) /\ Asked(rr, "AAAA")}
            \cup {b \in {"PTR_V4"} : /\ Asked(rr, "PTR") /\ m.v4 # NoAddr
                                     /\ rr.dom = mdns_build_reverse_v4_domain(m.v4)}
            \cup {b \in {"PTR_V6"} : /\ Asked(rr, "PTR")
                                     /\ \E i \in m.v6 : rr.dom = mdns_build_reverse_v6_domain(Addrs6[i])},
   rev |-> {i \in m.v6 : Asked(rr, "PTR") /\ rr.dom = mdns_build_reverse_v6_domain(Addrs6[i])}]

check_service(s, rr) ==
  {b \in {"TYPE"} : rr.dom = mdns_build_dnssd_domain /\ Asked(rr, "PTR")}
  \cup {b \in {"NAME"} : rr.dom = mdns_build_service_domain(s, FALSE) /\ Asked(rr, "PTR")}
  \cup {b \in {"SRV", "TXT"} : rr.dom = mdns_build_service_domain(s, TRUE) /\ Asked(rr, b)}

When(c, r) == IF c THEN <<r>> ELSE <<>>

Ascending(S) == SetToSortSeq(S, LAMBDA a, b : a < b)

AaaaAnswers(m) == [j \in DOMAIN Ascending(m.v6) |-> mdns_add_aaaa_answer(m, Ascending(m.v6)[j])]

HostAnswers(m, rep) ==
  When("A" \in rep.host, mdns_add_a_answer(m))
  \o When("PTR_V4" \in rep.host, mdns_add_hostv4_ptr_answer(m))
  \o (IF "AAAA" \in rep.host THEN AaaaAnswers(m) ELSE <<>>)
  \o (IF "PTR_V6" \in rep.host
      THEN [j \in DOMAIN Ascending(rep.rev) |->
              mdns_add_hostv6_ptr_answer(m, Ascending(rep.rev)[j])]
      ELSE <<>>)

ServiceAnswers(m, bits, s) ==
  When("TYPE" \in bits, mdns_add_servicetype_ptr_answer(s))
  \o When("NAME" \in bits, mdns_add_servicename_ptr_answer(s))
  \o When("SRV" \in bits, mdns_add_srv_answer(m, s))
  \o When("TXT" \in bits, mdns_add_txt_answer(s))

HostAddresses(m, rep, bits) ==
  IF bits \cap {"NAME", "SRV"} # {} \/ rep.host \cap {"A", "AAAA"} # {}
  THEN (IF "AAAA" \in rep.host THEN <<>> ELSE AaaaAnswers(m))
       \o When("A" \notin rep.host /\ m.v4 # NoAddr, mdns_add_a_answer(m))
  ELSE <<>>

Additional(m, rep, bits, s) ==
  When("NAME" \in bits /\ "SRV" \notin bits, mdns_add_srv_answer(m, s))
  \o When("NAME" \in bits /\ "TXT" \notin bits, mdns_add_txt_answer(s))
  \o HostAddresses(m, rep, bits)

OverSlots(m, f) == FlattenSeq([j \in 1..Cardinality(Slots(m)) |-> f[Ascending(Slots(m))[j]]])

Answers(m, rep) ==
  HostAnswers(m, rep)
  \o OverSlots(m, [i \in Slots(m) |-> ServiceAnswers(m, rep.serv[i], m.servs[i])])

Additionals(m, rep) ==
  OverSlots(m, [i \in Slots(m) |-> Additional(m, rep, rep.serv[i], m.servs[i])])

AddAll(pk, rrs, legacy) == FoldLeft(LAMBDA p, r : mdns_add_answer(p, r, legacy), pk, rrs)

\* What goes out: the records and, of every name, what was meant to be
\* written and what mdns_readname makes of the packet at its place.
Sent(pk, k, dest, ans, extra) ==
  [k |-> k, dest |-> dest, ans |-> ans, extra |-> extra,
   names |-> [i \in DOMAIN pk.names |-> pk.names[i][2]],
   read |-> [i \in DOMAIN pk.names |-> mdns_readname(pk.cells, pk.names[i][1]).dom]]

Finish(pk, k, dest, ans, extra) ==
  IF ~pk.ok THEN [k |-> "nospace"]
  ELSE IF pk.names = <<>> THEN NoTx
  ELSE Sent(pk, k, dest, ans, extra)

\* pk holds the questions already written; no memory for the pbuf, or a
\* record that finds no room, drops the packet.
mdns_send_outpacket(m, pk, rep, k, dest, legacy, nomem) ==
  IF nomem THEN [k |-> "nospace"]
  ELSE Finish(AddAll(AddAll(pk, Answers(m, rep), legacy), Additionals(m, rep), legacy),
              k, dest, Answers(m, rep), Additionals(m, rep))

IsSent(tx) == tx.k \notin {"none", "nospace"}

(***************************************************************************)
(* Probing.                                                                *)
(***************************************************************************)
OwnNames(m) ==
  {mdns_build_host_domain(m)} \cup {mdns_build_service_domain(m.servs[i], TRUE) : i \in Slots(m)}

\* A probe timer that sys_untimeout finds is taken back.
Untimeout(m) == [m EXCEPT !.timers = IF @ > 0 THEN @ - 1 ELSE 0]

mdns_resp_restart(m) ==
  [(IF m.state = "ongoing" THEN Untimeout(m) ELSE m)
     EXCEPT !.sent = 0, !.state = "ongoing", !.timers = @ + 1, !.told = FALSE]

HostBits(m, own4) == (IF m.v4 # NoAddr THEN own4 ELSE {})

AnnounceMask(m) ==
  Mask(m, HostBits(m, {"A", "PTR_V4"}) \cup (IF m.v6 # {} THEN {"AAAA", "PTR_V6"} ELSE {}),
       m.v6, {"TYPE", "NAME", "SRV", "TXT"})

mdns_announce(m, nomem) ==
  mdns_send_outpacket(m, EmptyPacket, AnnounceMask(m), "announce", "group", FALSE, nomem)

\* The announcement on IPv6 and, with an IPv4 address, the same on IPv4.
mdns_resp_announce(m, nomem) ==
  IF m.state = "complete" THEN [m EXCEPT !.tx = mdns_announce(m, nomem)] ELSE m

Questions(m) ==
  FoldLeft(mdns_add_question, EmptyPacket,
           <<mdns_build_host_domain(m)>>
           \o OverSlots(m, [i \in Slots(m) |-> <<mdns_build_service_domain(m.servs[i], TRUE)>>]))

mdns_send_probe(m, nomem) ==
  mdns_send_outpacket(m, Questions(m),
    Mask(m, HostBits(m, {"A"}) \cup (IF m.v6 # {} THEN {"AAAA"} ELSE {}), {}, {"SRV", "TXT"}),
    "probe", "group", FALSE, nomem)

\* The ghost m.proofs keeps the names of the last PROBE_COUNT probes that
\* met no conflict.
Probed(m, tx) ==
  [m EXCEPT !.tx = tx, !.sent = @ + 1,
            !.proofs = IF Len(@) = PROBE_COUNT THEN Append(Tail(@), OwnNames(m))
                                               ELSE Append(@, OwnNames(m))]

\* A probe counts when it went out on IPv4 and on IPv6.
ProbeSent(m, tx) == IF IsSent(tx) THEN Probed(m, tx) ELSE m

ProbeAgain(m, nomem) ==
  [(IF m.v4 # NoAddr THEN ProbeSent(m, mdns_send_probe(m, nomem)) ELSE m) EXCEPT !.timers = @ + 1]

\* The timer has been taken off the list when its handler runs.
mdns_probe(m, nomem) ==
  IF m.sent >= PROBE_COUNT THEN mdns_resp_announce([m EXCEPT !.state = "complete"], nomem)
  ELSE ProbeAgain(m, nomem)

(***************************************************************************)
(* Received packets.                                                       *)
(***************************************************************************)
MergeQuestion(m, rep, q) ==
  [host |-> rep.host \cup check_host(m, q).host,
   rev |-> rep.rev \cup check_host(m, q).rev,
   serv |-> [i \in 1..MAX_SERVICES |->
               IF i \in Slots(m) THEN rep.serv[i] \cup check_service(m.servs[i], q) ELSE {}]]

\* A known host record that is planned, fresh and has our data is not sent.
KnownHost(m, rep, k, match, rev) ==
  CASE k.type = "PTR" /\ k.data = mdns_build_host_domain(m) ->
         [rep EXCEPT !.host = @ \ (({"PTR_V4"} \cap match)
                                   \cup (IF rep.rev \subseteq rev THEN {"PTR_V6"} \cap match ELSE {})),
                     !.rev = IF "PTR_V6" \in match THEN @ \ rev ELSE @]
    [] k.type # "PTR" /\ "A" \in match /\ k.data = <<m.v4>> -> [rep EXCEPT !.host = @ \ {"A"}]
    [] k.type # "PTR" /\ "A" \notin match /\ "AAAA" \in match /\ k.data = <<Addrs6[1]>> ->
         [rep EXCEPT !.host = @ \ {"AAAA"}]
    [] OTHER -> rep

KnownService(m, bits, k, match, s) ==
  CASE k.type = "PTR" ->
         bits \ {b \in match : \/ b = "TYPE" /\ k.data = mdns_build_service_domain(s, FALSE)
                               \/ b = "NAME" /\ k.data = mdns_build_service_domain(s, TRUE)}
    [] k.type # "PTR" /\ "SRV" \in match /\ k.data = mdns_build_host_domain(m) -> bits \ {"SRV"}
    [] k.type # "PTR" /\ "SRV" \notin match /\ "TXT" \in match /\ k.data = <<"txt">> -> bits \ {"TXT"}
    [] OTHER -> bits

KnownServices(m, rep, k) ==
  [rep EXCEPT !.serv = [i \in 1..MAX_SERVICES |->
     IF i \in Slots(m) /\ rep.serv[i] \cap check_service(m.servs[i], k) # {}
     THEN KnownService(m, rep.serv[i], k, rep.serv[i] \cap check_service(m.servs[i], k), m.servs[i])
     ELSE rep.serv[i]]]

KnownAnswer(m, rep, k) ==
  IF k.type = "ANY" \/ ~k.fresh THEN rep
  ELSE KnownServices(m, KnownHost(m, rep, k, rep.host \cap check_host(m, k).host, check_host(m, k).rev), k)

Requested(m, q) == FoldLeft(LAMBDA rep, x : MergeQuestion(m, rep, x), Mask(m, {}, {}, {}), q.qs)

Replies(m, q) == FoldLeft(LAMBDA rep, k : KnownAnswer(m, rep, k), Requested(m, q), q.known)

Legacy(q) == ~q.mdns /\ Len(q.qs) = 1

Wanted(rep) == rep.host # {} \/ \E i \in DOMAIN rep.serv : rep.serv[i] # {}

ReplyDest(q) ==
  IF ~q.mdns \/ q.uni \/ \E i \in DOMAIN q.qs : q.qs[i].unicast THEN "querier" ELSE "group"

\* A legacy query is repeated in front of its answer.
ReplyStart(m, q) ==
  IF Legacy(q) /\ Wanted(Requested(m, q)) THEN mdns_add_question(EmptyPacket, q.qs[1].dom)
  ELSE EmptyPacket

mdns_handle_question(m, q, nomem) ==
  IF m.state # "complete" THEN m
  ELSE [m EXCEPT !.tx = mdns_send_outpacket(m, ReplyStart(m, q), Replies(m, q), "reply",
                                            ReplyDest(q), Legacy(q), nomem)]

\* An answer for one of our names while we probe: probing stops and the
\* application is told.  It may give the host another name right away.
Conflict(m) == [Untimeout(m) EXCEPT !.told = TRUE, !.proofs = <<>>]

Conflicting(m, d) == m.state = "ongoing" /\ m.sent > 0 /\ d \in OwnNames(m)

mdns_handle_response(m, doms) ==
  FoldLeft(LAMBDA x, d : IF Conflicting(x, d) THEN Conflict(x) ELSE x, m, doms)

(***************************************************************************)
(* The application's calls and the interface's events.                     *)
(***************************************************************************)
Step(on, m) == md.tx = NoTx /\ md.on = on /\ md' = m

Stopped == [on |-> FALSE, tx |-> NoTx, timers |-> 0]

\* The IPv4 or the IPv6 group may not be joined, which undoes the call.
mdns_resp_add_netif(name, v4, v6, joined) ==
  Step(FALSE, IF ~joined THEN md
              ELSE mdns_resp_restart(
                     [on |-> TRUE, name |-> name, servs |-> [i \in 1..MAX_SERVICES |-> NoServ],
                      sent |-> 0, state |-> "not_started", timers |-> md.timers, told |-> FALSE,
                      v4 |-> v4, v6 |-> v6, proofs |-> <<>>, tx |-> NoTx]))

mdns_resp_remove_netif ==
  Step(TRUE, [Stopped EXCEPT !.timers =
                (IF md.state = "ongoing" THEN Untimeout(md) ELSE md).timers])

mdns_resp_rename_netif(name) == Step(TRUE, mdns_resp_restart([md EXCEPT !.name = name]))

NewService(name) == [name |-> name, service |-> "_http", proto |-> "_tcp"]

mdns_resp_add_service(name) ==
  /\ md.on /\ \E i \in 1..MAX_SERVICES : md.servs[i] = NoServ
  /\ Step(TRUE, mdns_resp_restart(
       [md EXCEPT !.servs[Min({i \in 1..MAX_SERVICES : md.servs[i] = NoServ})] = NewService(name)]))

mdns_resp_del_service(i) ==
  md.on /\ i \in Slots(md) /\ Step(TRUE, [md EXCEPT !.servs[i] = NoServ])

mdns_resp_rename_service(i, name) ==
  md.on /\ i \in Slots(md) /\ Step(TRUE, mdns_resp_restart([md EXCEPT !.servs[i].name = name]))

\* LWIP_NSC_STATUS_CHANGED and LWIP_NSC_LINK_CHANGED, towards up.
LinkUp == Step(TRUE, mdns_resp_restart(md))

Addressed(v4, v6, nomem) ==
  /\ md.on /\ <<v4, v6>> # <<md.v4, md.v6>>
  /\ Step(TRUE, mdns_resp_announce([md EXCEPT !.v4 = v4, !.v6 = v6], nomem))

ProbeTimer(nomem) ==
  md.timers > 0 /\ Step(TRUE, mdns_probe([md EXCEPT !.timers = @ - 1], nomem))

RecvQuery(q, nomem) == md.on /\ Step(TRUE, mdns_handle_question(md, q, nomem))

\* renamed: what the application's conflict callback calls the host, if it does.
RecvResponse(doms, renamed) ==
  LET m == mdns_handle_response(md, doms)
  IN md.on /\ Step(TRUE, IF m.told /\ ~md.told /\ renamed # ""
                         THEN mdns_resp_restart([m EXCEPT !.name = renamed]) ELSE m)

\* The packet has left.
Done == md.tx # NoTx /\ md' = [md EXCEPT !.tx = NoTx]

Responses == UNION {{<<d>>, <<d, d>>} : d \in OwnNames(md) \cup {<<"other", "local">>}}

Init == md = Stopped

Next ==
  \/ \E n \in HostNames, v4 \in Addrs4 \cup {NoAddr}, v6 \in SUBSET DOMAIN Addrs6, j \in BOOLEAN :
       mdns_resp_add_netif(n, v4, v6, j)
  \/ mdns_resp_remove_netif
  \/ \E n \in HostNames : mdns_resp_rename_netif(n)
  \/ \E n \in ServiceNames : mdns_resp_add_service(n)
  \/ \E i \in 1..MAX_SERVICES : mdns_resp_del_service(i)
  \/ \E i \in 1..MAX_SERVICES, n \in ServiceNames : mdns_resp_rename_service(i, n)
  \/ LinkUp
  \/ \E v4 \in Addrs4 \cup {NoAddr}, v6 \in SUBSET DOMAIN Addrs6, f \in BOOLEAN : Addressed(v4, v6, f)
  \/ \E f \in BOOLEAN : ProbeTimer(f)
  \/ \E q \in Queries, f \in BOOLEAN : RecvQuery(q, f)
  \/ md.on /\ \E r \in Responses, n \in HostNames \cup {""} : RecvResponse(r, n)
  \/ Done

Spec == Init /\ [][Next]_md

(***************************************************************************)
(* Properties.                                                             *)
(***************************************************************************)
\* Every name the responder answers or announces for was in each of the last
\* MDNS_PROBE_COUNT probes, none of which met a conflicting answer, whatever
\* was renamed, added or restarted in between (mdns_probe,
\* mdns_handle_question).
MdnsProbed ==
  md.on /\ md.tx.k \in {"reply", "announce"} =>
    /\ Len(md.proofs) = PROBE_COUNT
    /\ \A i \in 1..PROBE_COUNT : OwnNames(md) \subseteq md.proofs[i]

\* While probing, and not stopped by a conflict, exactly one probe timer is
\* pending; otherwise none is, and none outlives the interface.
MdnsTimer ==
  md.timers = IF md.on /\ md.state = "ongoing" /\ ~md.told THEN 1 ELSE 0

\* A receiver that expands the compressed names of a packet reads the names
\* the responder meant (mdns_compress_domain, mdns_write_domain against
\* mdns_readname).
MdnsNames == md.on /\ IsSent(md.tx) => md.tx.read = md.tx.names

\* What we publish, as a set of records.
Published ==
  LET all == Mask(md, HostBits(md, {"A", "PTR_V4"}) \cup {"AAAA", "PTR_V6"}, md.v6,
                  {"TYPE", "NAME", "SRV", "TXT"})
  IN Range(Answers(md, all))

WantedBy(q) == {r \in Published : \E i \in DOMAIN q.qs :
                  q.qs[i].dom = r.name /\ q.qs[i].type \in {r.type, "ANY"}}

KnownBy(q) == {r \in Published : \E i \in DOMAIN q.known :
                 /\ q.known[i].dom = r.name /\ q.known[i].type = r.type
                 /\ q.known[i].data = r.data /\ q.known[i].fresh}

\* Knowing the address in slot 0, valid or not, stands for knowing them all.
Excused(q) ==
  KnownBy(q) \cup {r \in Published : r.type = "AAAA" /\ \E i \in DOMAIN q.known :
                     q.known[i].type = "AAAA" /\ q.known[i].data = <<Addrs6[1]>>}

\* The answers to a query are the published records it asks for, less those
\* the querier already knows with their present data; with nothing left
\* nothing is sent, except that a legacy query is repeated.
MdnsReplies ==
  md.on /\ md.state = "complete" /\ md.tx = NoTx =>
    \A q \in Queries :
      LET tx == mdns_handle_question(md, q, FALSE).tx
      IN CASE tx.k = "reply" -> /\ Range(tx.ans) \subseteq WantedBy(q)
                                /\ Range(tx.ans) \cap KnownBy(q) = {}
                                /\ WantedBy(q) \subseteq Range(tx.ans) \cup Excused(q)
           [] tx.k = "none" -> WantedBy(q) \subseteq Excused(q)
           [] OTHER -> TRUE

=============================================================================

-------------------------------- MODULE Sntp --------------------------------
(***************************************************************************)
(* The SNTP client (apps/sntp/sntp.c): its servers, the timeouts that keep *)
(* it polling, the checks an answer has to pass and the clock it sets.     *)
(*                                                                         *)
(* now is true time, nt.off the error of the clock of the system.  A       *)
(* server is honest: it answers a request, at once or later, with the true *)
(* time, or with a kiss-o'-death.  Answers are delayed, reordered and lost.*)
(* The options are SNTP_CHECK_RESPONSE 2, SNTP_COMP_ROUNDTRIP 1,           *)
(* SNTP_RETRY_TIMEOUT_EXP 1, SNTP_SERVER_DNS 1.                            *)
(***************************************************************************)
EXTENDS Integers, FiniteSets

CONSTANTS Num,             \* SNTP_MAX_SERVERS
          Addrs,           \* addresses of servers
          MayName,         \* may a server be given by its name?
          RetryMax,        \* SNTP_RETRY_TIMEOUT_MAX / SNTP_RETRY_TIMEOUT
          Offsets,         \* how far the clock may be off, either way, at the start
          Big,             \* a step this large is set without compensation
          MayKod,          \* do servers send kiss-o'-death packets?
          MayRepeat,       \* does the network duplicate answers?
          MayStopLooking,  \* may the client be stopped during a DNS lookup?
          MaxTime, MaxNet, MaxChains, MaxChanges \* bounds; what exceeds MaxNet is lost

VARIABLE nt

NoAddr == 0
NoTime == [off |-> 0, bound |-> 0]

Servers == 1..Num

Abs(x) == IF x < 0 THEN 0 - x ELSE x

\* C's division truncates.
Half(x) == IF x < 0 THEN 0 - ((0 - x) \div 2) ELSE x \div 2

Clock(t) == t.now + t.off

Untimeout(n) == IF n > 0 THEN n - 1 ELSE 0

SNTP_RESET_RETRY_TIMEOUT(t) == [t EXCEPT !.retry = 1]

\* The system's time becomes c, and is to be right within bound / 2.
SetTime(t, c, bound) == [t EXCEPT !.off = c - t.now, !.set = [off |-> c - t.now, bound |-> bound]]

Rtt(t, a) == t.now - a.at

\* t4 is the clock, t1 the timestamp of the request, t2 = t3 the server's; a
\* broadcast has no receive timestamp and is not compensated.
sntp_process(t, a) ==
  IF ~a.bcast /\ Abs(a.time - Clock(t)) < Big
  THEN SetTime(t, Clock(t) + Half((a.time - a.orig) + (a.time - Clock(t))), Rtt(t, a))
  ELSE SetTime(t, a.time, 2 * Rtt(t, a))

(***************************************************************************)
(* Requests.                                                               *)
(***************************************************************************)
sntp_retry(t) ==
  [t EXCEPT !.req = @ + 1, !.retry = IF 2 * @ <= RetryMax THEN 2 * @ ELSE @]

\* Sending takes time, so no two requests have one timestamp.
sntp_initialize_request(t) == [t EXCEPT !.stamp = Clock(t)]

Carried(t, q) == IF Cardinality(t.net) + Cardinality(t.ans) < MaxNet THEN t.net \cup {q} ELSE t.net

sntp_send_request(t, addr, mem) ==
  IF mem
  THEN LET u == sntp_initialize_request(t)
       IN [u EXCEPT !.net = Carried(u, [to |-> addr, orig |-> u.stamp, at |-> u.now]),
                    !.nxt = @ + 1, !.last = addr, !.now = @ + 1]
  ELSE [t EXCEPT !.req = @ + 1]

Known(s) == s.addr # NoAddr \/ s.name

\* dns: the address is known at once ("found"), is looked up ("later") or the
\* lookup cannot start ("fail").
RequestByName(t, dns, addr, mem) ==
  LET u == [t EXCEPT !.srv[t.cur].addr = NoAddr]
  IN CASE dns = "later" -> [u EXCEPT !.look = @ + 1]
       [] dns = "found" -> sntp_send_request([u EXCEPT !.srv[t.cur].addr = addr], addr, mem)
       [] OTHER -> [u EXCEPT !.nxt = @ + 1]

sntp_request(t, dns, addr, mem) ==
  CASE t.srv[t.cur].name -> RequestByName(t, dns, addr, mem)
    [] ~t.srv[t.cur].name /\ t.srv[t.cur].addr # NoAddr ->
         sntp_send_request(t, t.srv[t.cur].addr, mem)
    [] OTHER -> [t EXCEPT !.nxt = @ + 1]

\* The servers after the current one, nearest first.
After(t, i) == 1 + ((t.cur - 1 + i) % Num)
NextKnown(t) == {i \in 1..(Num - 1) : Known(t.srv[After(t, i)])}

sntp_try_next_server(t, dns, addr, mem) ==
  IF NextKnown(t) = {} THEN sntp_retry(t)
  ELSE LET i == CHOOSE i \in NextKnown(t) : \A j \in NextKnown(t) : i <= j
       IN sntp_request(SNTP_RESET_RETRY_TIMEOUT([t EXCEPT !.cur = After(t, i)]), dns, addr, mem)

sntp_dns_found(t, found, dns, addr, mem) ==
  IF found THEN sntp_send_request([t EXCEPT !.srv[t.cur].addr = addr], addr, mem)
  ELSE sntp_try_next_server(t, dns, addr, mem)

(***************************************************************************)
(* Answers.                                                                *)
(***************************************************************************)
\* The timeouts that wait for the answer give way to the next poll.
PollLater(t) ==
  SNTP_RESET_RETRY_TIMEOUT([t EXCEPT !.nxt = Untimeout(@), !.req = Untimeout(@) + 1])

\* An answer to the request sent last; broadcasts answer none.
Accepts(t, a) == a.orig = t.stamp

FromLast(t, a) == t.mode = "poll" => a.from = t.last

RightMode(t, a) == a.bcast <=> t.mode = "listen"

sntp_recv(t, a, dns, addr, mem) ==
  CASE ~(FromLast(t, a) /\ RightMode(t, a)) -> t
    [] FromLast(t, a) /\ RightMode(t, a) /\ a.kod ->
         IF t.mode = "poll" THEN sntp_try_next_server(t, dns, addr, mem) ELSE t
    [] OTHER -> IF ~Accepts(t, a) THEN t
                ELSE IF t.mode = "poll" THEN PollLater(sntp_process(t, a)) ELSE sntp_process(t, a)

(***************************************************************************)
(* Starting, stopping and configuring.                                     *)
(***************************************************************************)
sntp_init(t, dns, addr, mem) ==
  IF t.mode = "poll"
  THEN sntp_request(SNTP_RESET_RETRY_TIMEOUT([t EXCEPT !.on = TRUE]), dns, addr, mem)
  ELSE [t EXCEPT !.on = TRUE]

sntp_stop(t) == [t EXCEPT !.on = FALSE, !.req = Untimeout(@), !.nxt = Untimeout(@)]

sntp_setserver(t, i, addr) == [t EXCEPT !.srv[i] = [addr |-> addr, name |-> FALSE]]

sntp_setservername(t, i) == [t EXCEPT !.srv[i].name = TRUE]

dhcp_set_ntp_servers(t, num, addr) ==
  [t EXCEPT !.srv = [i \in Servers |-> [addr |-> IF i <= num THEN addr ELSE NoAddr,
                                        name |-> FALSE]]]

(***************************************************************************)
(* The next-state relation.  How a call goes is chosen with it.            *)
(***************************************************************************)
Step(Op(_, _, _, _), t) ==
  \E dns \in {"found", "later", "fail"}, addr \in Addrs, mem \in BOOLEAN :
    LET u == Op(t, dns, addr, mem)
    IN u.now <= MaxTime /\ u.req + u.nxt + u.look <= MaxChains /\ nt' = u

Start == ~nt.on /\ nt.look = 0 /\ Step(sntp_init, nt)

Stop == nt.on /\ (MayStopLooking \/ nt.look = 0) /\ nt' = sntp_stop(nt)

SetMode(m) == ~nt.on /\ nt.changes < MaxChanges /\ nt' = [nt EXCEPT !.mode = m, !.changes = @ + 1]

Configure ==
  /\ nt.changes < MaxChanges
  /\ LET t == [nt EXCEPT !.changes = @ + 1]
     IN \/ \E i \in Servers, a \in Addrs \cup {NoAddr} : nt' = sntp_setserver(t, i, a)
        \/ MayName /\ \E i \in Servers : nt' = sntp_setservername(t, i)
        \/ \E n \in Servers, a \in Addrs : nt' = dhcp_set_ntp_servers(t, n, a)

RequestFires == nt.req > 0 /\ Step(sntp_request, [nt EXCEPT !.req = @ - 1])

NextFires == nt.nxt > 0 /\ Step(sntp_try_next_server, [nt EXCEPT !.nxt = @ - 1])

Found ==
  /\ nt.look > 0
  /\ \E found \in BOOLEAN :
       Step(LAMBDA t, dns, addr, mem : sntp_dns_found(t, found, dns, addr, mem),
            [nt EXCEPT !.look = @ - 1])

\* A server answers a request, or broadcasts.
Serve ==
  \/ \E q \in nt.net, kod \in {FALSE, MayKod} :
       nt' = [nt EXCEPT !.net = @ \ {q},
                        !.ans = @ \cup {[from |-> q.to, orig |-> q.orig, at |-> q.at, time |-> nt.now,
                                         kod |-> kod, bcast |-> FALSE]}]
  \/ nt.mode = "listen" /\ \E a \in Addrs :
       nt' = [nt EXCEPT !.ans = {[from |-> a, orig |-> 0, at |-> nt.now, time |-> nt.now,
                                  kod |-> FALSE, bcast |-> TRUE]}]

Receive ==
  /\ nt.on
  /\ \E a \in nt.ans :
       Step(LAMBDA t, dns, addr, mem : sntp_recv(t, a, dns, addr, mem),
            IF MayRepeat THEN nt ELSE [nt EXCEPT !.ans = @ \ {a}])

Tick == nt.now < MaxTime /\ nt' = [nt EXCEPT !.now = @ + 1]

Init ==
  \E o \in Offsets \cup {0 - x : x \in Offsets}, b \in Addrs \cup {NoAddr} :
    nt = [on |-> FALSE, mode |-> "poll", cur |-> 1,
          srv |-> [i \in Servers |-> [addr |-> IF i = 1 THEN b ELSE Num, name |-> FALSE]],
          req |-> 0, nxt |-> 0, look |-> 0, retry |-> 1, last |-> NoAddr, stamp |-> 0,
          now |-> 1, off |-> o, set |-> NoTime, net |-> {}, ans |-> {}, changes |-> 0]

Next ==
  \/ Start \/ Stop \/ Configure
  \/ \E m \in {"poll", "listen"} : SetMode(m)
  \/ RequestFires \/ NextFires \/ Found
  \/ Serve \/ Receive \/ Tick

Spec == Init /\ [][Next]_nt

(***************************************************************************)
(* Properties.                                                             *)
(***************************************************************************)
\* A client that polls never falls silent: there is a timeout or a lookup
\* that will bring the next request, whatever failed and whatever servers
\* were taken away (sntp_request, sntp_try_next_server, sntp_recv).
SntpNeverSilent == nt.on /\ nt.mode = "poll" => nt.req + nt.nxt + nt.look > 0

\* It polls once at a time: only one timeout leads to a request, and none is
\* left when the client was stopped (sntp_recv, sntp_stop).
SntpPollsOnce == nt.req + nt.nxt + nt.look = IF nt.on /\ nt.mode = "poll" THEN 1 ELSE 0

\* Setting the clock leaves an error of at most half the round trip
\* (sntp_process), or of all the delay when it cannot be compensated.
SntpClock == 2 * Abs(nt.set.off) <= nt.set.bound + 1

=============================================================================

-------------------------------- MODULE Dns ---------------------------------
(***************************************************************************)
(* The DNS resolver of src/src/core/dns.c with LWIP_DNS_SECURE at its      *)
(* default (random transaction ids and source ports, one query for all     *)
(* requests of a name) and a dynamic local host list.  A response may bear *)
(* any id, name, family and server: answers to earlier queries come late,  *)
(* come twice or never.  An address is named by the host name and family   *)
(* it belongs to.                                                          *)
(***************************************************************************)
EXTENDS Integers, FiniteSets, Sequences, SequencesExt

CONSTANTS
  Names,       \* host names
  Types,       \* address types asked for: "v4", "v4v6"
  TableSize,   \* DNS_TABLE_SIZE = DNS_MAX_REQUESTS = DNS_MAX_SOURCE_PORTS
  Servers,     \* DNS_MAX_SERVERS
  MaxRetries,  \* DNS_MAX_RETRIES
  Ttls,        \* times to live of answers
  Txids,       \* transaction ids
  SeqnoMod,      \* 256, the range of dns_seqno
  MaxRequests, \* calls of dns_gethostbyname in a run
  MaxChanges,  \* changes of servers and local hosts in a run
  MayReenter   \* whether a callback may look up another name

VARIABLE dns

Slots == 1..TableSize
NoName == ""
Failed == <<>>
NoReq == [name |-> NoName, type |-> "v4", i |-> 1]
Unused == [st |-> "unused", name |-> NoName, type |-> "v4", ip |-> <<>>, txid |-> 0, srv |-> 1,
           tmr |-> 0, retries |-> 0, ttl |-> 0, seqno |-> 0, pcb |-> 0]

(* told is what callers were told in the last step, waiting the number of  *)
(* callers that wait for their callback.                                   *)
Init == dns = [tab |-> [i \in Slots |-> Unused], req |-> [r \in Slots |-> NoReq],
               pcbs |-> {}, last |-> 1, seqno |-> 0, servers |-> [s \in 1..Servers |-> TRUE],
               local |-> <<>>, changes |-> 0, calls |-> 0, told |-> {}, waiting |-> 0]

Family(type) == IF type = "v6" THEN "v6" ELSE "v4"
First(is) == CHOOSE i \in is : \A j \in is : i <= j

-----------------------------------------------------------------------------
(* A call made by the application, or from within a callback. *)
dns_lookup(d, name, type) ==
  {d.local[k][2] : k \in {k \in DOMAIN d.local : d.local[k][1] = name /\ d.local[k][2][2] = Family(type)}}
  \union {d.tab[i].ip : i \in {i \in Slots : /\ d.tab[i].st = "done" /\ d.tab[i].name = name
                                             /\ d.tab[i].ip[2] = Family(type)}}

(* A free source port is opened when there is one; without memory for it a *)
(* query shares one that is open.                                          *)
dns_alloc_pcb(d, mem) ==
  LET free == Slots \ d.pcbs
      next == [k \in Slots |-> ((d.last + k - 1) % TableSize) + 1]
      open == {k \in Slots : next[k] \in d.pcbs}
  IN CASE free # {} /\ mem -> First(free)
       [] (free = {} \/ ~ mem) /\ open # {} -> next[First(open)]
       [] OTHER -> 0

(* dns_check_entry of a NEW entry whose first server is known. *)
Ask(d, i, txid) ==
  [d EXCEPT !.tab[i] = [@ EXCEPT !.st = "asking", !.txid = txid, !.srv = 1, !.tmr = 1, !.retries = 0]]

Told(d, name, type, ip) == [d EXCEPT !.told = @ \union {[name |-> name, type |-> type, ip |-> ip]}]

dns_create_txid(d) == First({t \in Txids : \A i \in Slots : d.tab[i].st = "asking" => d.tab[i].txid # t})

(* A query that is out for the same name and type is joined; else an       *)
(* unused entry, or the DONE one asked longest ago, is taken.              *)
dns_enqueue(d, name, type, mem) ==
  LET same   == {i \in Slots : d.tab[i].st = "asking" /\ d.tab[i].name = name /\ d.tab[i].type = type}
      slots  == {r \in Slots : d.req[r] = NoReq}
      unused == {i \in Slots : d.tab[i].st = "unused"}
      Age(i) == (d.seqno - d.tab[i].seqno) % SeqnoMod
      done   == {i \in Slots : d.tab[i].st = "done" /\ Age(i) > 0}
      i == IF unused # {} THEN First(unused)
           ELSE First({k \in done : \A j \in done : Age(k) >= Age(j)})
      pcb == dns_alloc_pcb(d, mem)
  IN CASE same # {} /\ slots # {} ->
            [d EXCEPT !.waiting = @ + 1, !.req[First(slots)] = [name |-> name, type |-> type, i |-> First(same)]]
       [] slots = {} \/ (same = {} /\ unused = {} /\ done = {}) -> Told(d, name, type, Failed)
       [] OTHER ->
            IF pcb = 0 THEN Told([d EXCEPT !.tab[i] = Unused], name, type, Failed)
            ELSE Ask([d EXCEPT !.waiting = @ + 1,
                        !.tab[i] = [@ EXCEPT !.st = "new", !.name = name, !.type = type,
                                             !.seqno = d.seqno, !.pcb = pcb],
                        !.req[First(slots)] = [name |-> name, type |-> type, i |-> i],
                        !.pcbs = @ \union {pcb}, !.last = pcb,
                        !.seqno = (@ + 1) % SeqnoMod], i, dns_create_txid(d))

dns_gethostbyname(d, name, type, mem) ==
  LET c    == [d EXCEPT !.calls = @ + 1]
      hits == dns_lookup(d, name, type) \union (IF type = "v4v6" THEN dns_lookup(d, name, "v6") ELSE {})
  IN CASE hits # {} -> Told(c, name, type, CHOOSE a \in hits : TRUE)
       [] hits = {} /\ ~ d.servers[1] -> Told(c, name, type, Failed)
       [] OTHER -> dns_enqueue(c, name, type, mem)

MayCall(d) == d.calls < MaxRequests

-----------------------------------------------------------------------------
(* dns_call_found: every request of the entry is answered with what the    *)
(* entry holds at that moment, its slot is freed after its callback, which *)
(* may itself look up the name re; then the entry's port is closed unless  *)
(* another query uses it.                                                  *)
CallBack(d, i, r, ok, re) ==
  LET t == Told([d EXCEPT !.waiting = @ - 1], d.req[r].name, d.req[r].type,
                IF ok THEN d.tab[i].ip ELSE Failed)
  IN [(IF re # NoName /\ MayCall(d) THEN dns_gethostbyname(t, re, "v4", TRUE) ELSE t)
        EXCEPT !.req[r] = NoReq]

ClosePort(d, i) ==
  LET shared == \E j \in Slots \ {i} : d.tab[j].st = "asking" /\ d.tab[j].pcb = d.tab[i].pcb
  IN [d EXCEPT !.pcbs = IF shared THEN @ ELSE @ \ {d.tab[i].pcb}, !.tab[i].pcb = 0]

dns_call_found(d, i, ok, re) ==
  ClosePort(FoldLeft(LAMBDA x, r : IF x.req[r] = NoReq \/ x.req[r].i # i THEN x
                                   ELSE CallBack(x, i, r, ok, re),
                     d, [r \in Slots |-> r]), i)

(* What an unused entry still holds is never read. *)
GiveUp(d, i, re) == [dns_call_found(d, i, FALSE, re) EXCEPT !.tab[i] = Unused]

(* dns_send: a server that has been removed meanwhile ends the query. *)
dns_send(d, i, re) == IF d.servers[d.tab[i].srv] THEN d ELSE GiveUp(d, i, re)

dns_backupserver_available(d, i) == d.tab[i].srv + 1 <= Servers /\ d.servers[d.tab[i].srv + 1]

(* Mutant: the last retry frees the entry without telling anyone. *)
CheckSilent(d, i, re) ==
  LET e == d.tab[i] IN
  CASE e.st = "asking" /\ e.tmr > 1 -> [d EXCEPT !.tab[i].tmr = @ - 1]
    [] e.st = "asking" /\ e.tmr = 1 ->
         IF e.retries + 1 = MaxRetries
         THEN IF dns_backupserver_available(d, i)
              THEN dns_send([d EXCEPT !.tab[i] = [@ EXCEPT !.srv = @ + 1, !.tmr = 1, !.retries = 0]], i, re)
              ELSE [d EXCEPT !.tab[i].st = "unused"]
         ELSE dns_send([d EXCEPT !.tab[i] = [@ EXCEPT !.retries = @ + 1, !.tmr = e.retries + 1]], i, re)
    [] e.st = "done" -> [d EXCEPT !.tab[i] = IF e.ttl <= 1 THEN Unused ELSE [e EXCEPT !.ttl = @ - 1]]
    [] OTHER -> d

dns_check_entry(d, i, re) ==
  LET e == d.tab[i] IN
  CASE e.st = "asking" /\ e.tmr > 1 -> [d EXCEPT !.tab[i].tmr = @ - 1]
    [] e.st = "asking" /\ e.tmr = 1 ->
         IF e.retries + 1 = MaxRetries
         THEN IF dns_backupserver_available(d, i)
              THEN dns_send([d EXCEPT !.tab[i] = [@ EXCEPT !.srv = @ + 1, !.tmr = 1, !.retries = 0]], i, re)
              ELSE GiveUp(d, i, re)
         ELSE dns_send([d EXCEPT !.tab[i] = [@ EXCEPT !.retries = @ + 1, !.tmr = e.retries + 1]], i, re)
    [] e.st = "done" -> [d EXCEPT !.tab[i] = IF e.ttl <= 1 THEN Unused ELSE [e EXCEPT !.ttl = @ - 1]]
    [] OTHER -> d

NotCached(d, i) ==
  IF d.tab[i].ttl = 0 /\ d.tab[i].st = "done" THEN [d EXCEPT !.tab[i] = Unused] ELSE d

dns_correct_response(d, i, ttl, re) ==
  NotCached(dns_call_found([d EXCEPT !.tab[i] = [@ EXCEPT !.st = "done", !.ttl = ttl, !.txid = 0, !.srv = 1,
                                                          !.tmr = 0, !.retries = 0]], i, TRUE, re), i)

(* dns_recv once an entry has asked with this id: the server, the name and *)
(* the family must be those of the entry.                                  *)
dns_recv(d, i, m, kind, ttl, re) ==
  LET e == d.tab[i] IN
  CASE e.srv # m.srv \/ e.name # m.name \/ Family(e.type) # m.fam -> d
    [] OTHER ->
       CASE kind = "answer" ->
              dns_correct_response([d EXCEPT !.tab[i].ip = <<m.name, m.fam>>], i, ttl, re)
         [] kind = "error" /\ dns_backupserver_available(d, i) ->
              dns_check_entry([d EXCEPT !.tab[i].retries = MaxRetries - 1, !.tab[i].tmr = 1], i, re)
         [] kind = "none" /\ e.type = "v4v6" ->
              IF d.servers[1] THEN Ask([d EXCEPT !.tab[i].type = "v6"], i,
                                       dns_create_txid([d EXCEPT !.tab[i].st = "new"]))
              ELSE GiveUp([d EXCEPT !.tab[i].type = "v6", !.tab[i].srv = 1], i, re)
         [] OTHER -> GiveUp(d, i, re)

Reentered == IF MayReenter THEN Names \union {NoName} ELSE {NoName}

-----------------------------------------------------------------------------
Now == [dns EXCEPT !.told = {}]
Call == \E name \in Names, type \in Types, mem \in BOOLEAN :
          MayCall(dns) /\ dns' = dns_gethostbyname(Now, name, type, mem)
Tmr == /\ \E i \in Slots : dns.tab[i].st # "unused"
       /\ \E re \in Reentered :
            dns' = FoldLeft(LAMBDA d, i : dns_check_entry(d, i, re), Now, [i \in Slots |-> i])
Recv == \E m \in [txid : Txids, name : Names, srv : 1..Servers, fam : {"v4", "v6"}],
           kind \in {"answer", "error", "none"}, ttl \in Ttls, re \in Reentered :
          LET is == {i \in Slots : dns.tab[i].st = "asking" /\ dns.tab[i].txid = m.txid} IN
          is # {} /\ dns' = dns_recv(Now, First(is), m, kind, ttl, re)
dns_setserver == \E s \in 1..Servers :
                   /\ dns.changes < MaxChanges
                   /\ dns' = [Now EXCEPT !.servers[s] = ~ @, !.changes = @ + 1]
dns_local_addhost == \E name \in Names :
                       /\ dns.changes < MaxChanges
                       /\ dns' = [Now EXCEPT !.local = <<<<name, <<name, "v4">>>>>> \o @, !.changes = @ + 1]
dns_local_removehost == \E name \in {dns.local[k][1] : k \in DOMAIN dns.local} :
                          dns' = [Now EXCEPT !.local = SelectSeq(@, LAMBDA e : e[1] # name)]

Next == \/ Call \/ Tmr \/ Recv \/ dns_setserver \/ dns_local_addhost \/ dns_local_removehost
Spec == Init /\ [][Next]_dns

-----------------------------------------------------------------------------
(* Every caller that was told to wait (ERR_INPROGRESS) and has not been    *)
(* called back holds a request slot, attached to a query for its name that *)
(* is still being asked, on a port that is open.                           *)
DnsWaitersServed ==
  /\ Cardinality({r \in Slots : dns.req[r] # NoReq}) = dns.waiting
  /\ \A r \in Slots : dns.req[r] # NoReq =>
       LET e == dns.tab[dns.req[r].i] IN
       e.st = "asking" /\ e.name = dns.req[r].name /\ e.pcb \in dns.pcbs

(* The address a caller gets is one of the host it asked for, and of a     *)
(* family it asked for.                                                    *)
DnsAnswersMatch ==
  \A t \in dns.told : t.ip # Failed => t.ip[1] = t.name /\ (t.type = "v4" => t.ip[2] = "v4")
=============================================================================

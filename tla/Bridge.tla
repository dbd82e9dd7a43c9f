------------------------------- MODULE Bridge -------------------------------
(***************************************************************************)
(* The bridge (netif/bridgeif.c) and its forwarding database               *)
(* (netif/bridgeif_fdb.c).  Every operation runs under the bridge's        *)
(* protection or in the tcpip thread, so each is one step.                 *)
(*                                                                         *)
(* Hosts are their MAC addresses; where a host is attached, br.at, belongs *)
(* to the environment, and so does br.heard: the port where the host spoke *)
(* last and for how much longer the bridge is to remember it.              *)
(***************************************************************************)
EXTENDS Integers, Sequences, FiniteSets

CONSTANTS Hosts,           \* MAC addresses of other hosts
          Local,           \* those of the bridge and its ports
          Broadcast,       \* the broadcast address, for all group addresses
          MaxPorts,        \* max_ports
          NumDynamic,      \* max_fdb_dynamic_entries
          NumStatic,       \* max_fdb_static_entries
          Timeout,         \* BR_FDB_TIMEOUT_SEC
          MayReuse,        \* is a received pbuf sent back through the bridge?
          Unstable,        \* the ports whose link goes up and down
          MayMove          \* do hosts move from port to port?

VARIABLE br

Cpu == MaxPorts + 1        \* the bit above those of the ports
Ports == 1..MaxPorts
BR_FLOOD == 1..Cpu
Group(a) == a = Broadcast

NoStatic == [used |-> FALSE, addr |-> 0, ports |-> {}]
NoEntry == [used |-> FALSE, addr |-> 0, port |-> 0, ts |-> 0]
NoFrame == [k |-> "none", src |-> 0, dst |-> 0, rx |-> 0, out |-> {}, cpu |-> FALSE]
Silent == [port |-> 0, left |-> 0]

FirstOf(S) == CHOOSE i \in S : \A j \in S : i <= j

(***************************************************************************)
(* The forwarding database.                                                *)
(***************************************************************************)
Live(e) == e.used /\ e.ts > 0

Learnt(fdb, addr) == {i \in DOMAIN fdb : Live(fdb[i]) /\ fdb[i].addr = addr}
FreeSlots(fdb) == {i \in DOMAIN fdb : ~Live(fdb[i])}

bridgeif_fdb_update_src(fdb, src, port) ==
  IF Learnt(fdb, src) # {}
  THEN [fdb EXCEPT ![FirstOf(Learnt(fdb, src))].ts = Timeout, ![FirstOf(Learnt(fdb, src))].port = port]
  ELSE IF FreeSlots(fdb) # {}
  THEN [fdb EXCEPT ![FirstOf(FreeSlots(fdb))] = [used |-> TRUE, addr |-> src, port |-> port, ts |-> Timeout]]
  ELSE fdb

bridgeif_fdb_get_dst_ports(fdb, dst) ==
  IF Learnt(fdb, dst) # {} THEN {fdb[FirstOf(Learnt(fdb, dst))].port} ELSE BR_FLOOD

AgedEntry(e) == IF ~Live(e) THEN e
                ELSE IF e.ts = 1 THEN [e EXCEPT !.ts = 0, !.used = FALSE]
                ELSE [e EXCEPT !.ts = @ - 1]

bridgeif_fdb_age_one_second(fdb) == [i \in DOMAIN fdb |-> AgedEntry(fdb[i])]

StaticFor(t, addr) == {i \in DOMAIN t.fdbs : t.fdbs[i].used /\ t.fdbs[i].addr = addr}

bridgeif_find_dst_ports(t, dst) ==
  IF StaticFor(t, dst) # {} THEN t.fdbs[FirstOf(StaticFor(t, dst))].ports
  ELSE IF Group(dst) THEN BR_FLOOD
  ELSE bridgeif_fdb_get_dst_ports(t.fdbd, dst)

(***************************************************************************)
(* Frames.  A pbuf knows the port it was received on (if_idx), 0 if none.  *)
(***************************************************************************)
bridgeif_is_local_mac(t, addr) == addr \in Local

\* Mutant: the port a frame came from is not left out.
SendsBack(t, idx, p) == p \in 1..t.num /\ p \in t.up

bridgeif_send_to_port(t, idx, p) == p \in 1..t.num /\ p # idx /\ p \in t.up

bridgeif_send_to_ports(t, idx, dstports) ==
  {p \in Ports : p \in dstports /\ bridgeif_send_to_port(t, idx, p)}

Forwarded(t, src, dst, rx) ==
  LET ports == bridgeif_find_dst_ports(t, dst)
      frame == [NoFrame EXCEPT !.k = "in", !.src = src, !.dst = dst, !.rx = rx]
      host == [frame EXCEPT !.cpu = TRUE]
  IN CASE Group(dst) ->
            LET f == IF Cpu \in ports THEN host ELSE frame
            IN [f EXCEPT !.out = bridgeif_send_to_ports(t, rx, ports)]
       [] ~Group(dst) /\ bridgeif_is_local_mac(t, dst) -> host
       [] OTHER -> [frame EXCEPT !.out = bridgeif_send_to_ports(t, rx, ports)]

bridgeif_input(t, src, dst, rx) ==
  LET u == IF Group(src) THEN t ELSE [t EXCEPT !.fdbd = bridgeif_fdb_update_src(@, src, rx)]
  IN [u EXCEPT !.frame = Forwarded(u, src, dst, rx)]

bridgeif_output(t, dst, idx) ==
  [t EXCEPT !.frame = [NoFrame EXCEPT !.k = "out", !.dst = dst, !.rx = idx,
                         !.out = bridgeif_send_to_ports(t, idx, bridgeif_find_dst_ports(t, dst))]]

(***************************************************************************)
(* The next-state relation.                                                *)
(***************************************************************************)
Idle == br.frame.k = "none"
Done == ~Idle /\ br' = [br EXCEPT !.frame = NoFrame]

\* A host at a port of the bridge whose link is up sends a frame.
Receive ==
  /\ Idle
  /\ \E src \in Hosts, dst \in Hosts \cup Local \cup {Broadcast} :
       /\ src # dst /\ br.at[src] \in 1..br.num \cap br.up
       /\ br' = bridgeif_input([br EXCEPT !.heard[src] = [port |-> br.at[src], left |-> Timeout]],
                               src, dst, br.at[src])

\* The host sends a frame of its own, or answers in the pbuf it received.
Output ==
  \/ /\ Idle
     /\ \E dst \in Hosts \cup {Broadcast} : br' = bridgeif_output(br, dst, 0)
  \/ /\ MayReuse /\ br.frame.k = "in" /\ br.frame.cpu
     /\ br' = bridgeif_output(br, br.frame.src, br.frame.rx)

bridgeif_age_tmr ==
  /\ Idle
  /\ br' = [br EXCEPT !.fdbd = bridgeif_fdb_age_one_second(@),
                      !.heard = [h \in Hosts |-> IF br.heard[h].left <= 1 THEN Silent
                                                 ELSE [br.heard[h] EXCEPT !.left = @ - 1]]]

bridgeif_fdb_add ==
  /\ Idle
  /\ \E i \in DOMAIN br.fdbs, addr \in Hosts \cup {Broadcast}, ports \in {{}, {1, Cpu}} :
       /\ ~br.fdbs[i].used /\ \A j \in DOMAIN br.fdbs : j < i => br.fdbs[j].used
       /\ br' = [br EXCEPT !.fdbs[i] = [used |-> TRUE, addr |-> addr, ports |-> ports]]

bridgeif_fdb_remove ==
  /\ Idle
  /\ \E addr \in Hosts \cup {Broadcast} :
       /\ StaticFor(br, addr) # {}
       /\ br' = [br EXCEPT !.fdbs[FirstOf(StaticFor(br, addr))] = NoStatic]

bridgeif_add_port == Idle /\ br.num < MaxPorts /\ br' = [br EXCEPT !.num = @ + 1]

LinkChanges ==
  /\ Idle
  /\ \E p \in Unstable : br' = [br EXCEPT !.up = IF p \in @ THEN @ \ {p} ELSE @ \cup {p}]

HostMoves ==
  /\ Idle /\ MayMove
  /\ \E h \in Hosts, p \in Ports : br.at[h] # p /\ br' = [br EXCEPT !.at[h] = p]

Init ==
  \E at \in [Hosts -> Ports] :
    br = [num |-> 0, up |-> Ports, fdbd |-> [i \in 1..NumDynamic |-> NoEntry],
          fdbs |-> [i \in 1..NumStatic |-> NoStatic], at |-> at,
          heard |-> [h \in Hosts |-> Silent], frame |-> NoFrame]

Next ==
  \/ Receive \/ Output \/ Done
  \/ bridgeif_age_tmr
  \/ bridgeif_fdb_add \/ bridgeif_fdb_remove \/ bridgeif_add_port
  \/ LinkChanges \/ HostMoves

Spec == Init /\ [][Next]_br

(***************************************************************************)
(* Properties.                                                             *)
(***************************************************************************)
Reached(p) == p \in 1..br.num \cap br.up

\* A frame reaches the host it is for: when nothing static is known of its
\* destination, and the destination has not moved since it was heard, it goes
\* out at the port of the destination if that is not the port it came from;
\* it goes nowhere else when the destination was heard and has an entry.  A
\* frame for the bridge reaches the host behind it and no port, a broadcast
\* all ports and the host; none goes back where it came from
\* (bridgeif_input, bridgeif_output).
BridgeForwards ==
  LET f == br.frame IN f.k # "none" /\ StaticFor(br, f.dst) = {} =>
    /\ f.dst \in Hosts /\ br.heard[f.dst].port \in {0, br.at[f.dst]} /\ Reached(br.at[f.dst]) =>
         br.at[f.dst] \in f.out \/ (f.k = "in" /\ br.at[f.dst] = f.rx)
    /\ f.dst \in Hosts /\ Learnt(br.fdbd, f.dst) # {} => f.out \subseteq {br.heard[f.dst].port}
    /\ f.dst \in Local => f.cpu /\ f.out = {}
    /\ f.dst = Broadcast => f.out = {p \in Ports : Reached(p)} \ {f.rx} /\ (f.k = "in" => f.cpu)
    /\ f.k = "in" => f.rx \notin f.out

\* The database never knows more than was heard: an entry is for a host that
\* was heard within the timeout, once, at the port of the entry
\* (bridgeif_fdb_update_src, bridgeif_fdb_age_one_second).
BridgeLearns ==
  \A i \in DOMAIN br.fdbd : Live(br.fdbd[i]) =>
    LET e == br.fdbd[i]
    IN /\ br.heard[e.addr].port = e.port /\ br.heard[e.addr].left = e.ts
       /\ Learnt(br.fdbd, e.addr) = {i}

=============================================================================

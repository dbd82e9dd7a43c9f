-------------------------------- MODULE Dhcp --------------------------------
(***************************************************************************)
(* The DHCP client and AutoIP on one Ethernet interface:                   *)
(* src/src/core/ipv4/dhcp.c with DHCP_DOES_ARP_CHECK and                   *)
(* LWIP_DHCP_AUTOIP_COOP, and src/src/core/ipv4/autoip.c.  Lease times are *)
(* in coarse ticks.  The fine timers are at most a coarse tick long: they  *)
(* are armed or not, and an armed one may run out at any time.  A reply    *)
(* with another transaction id or of the wrong form changes nothing.       *)
(***************************************************************************)
EXTENDS Integers

CONSTANTS
  Addrs,       \* addresses DHCP servers hand out
  Leases,      \* <<t0, t1, t2>> of an ACK, Inf for 0xffffffff
  Inf,
  SelectTries, \* 5, the requests for one offer
  RebootTries, \* REBOOT_TRIES
  CoopTries,   \* LWIP_DHCP_AUTOIP_COOP_TRIES
  MaxTries,    \* the value tries saturates at
  ProbeNum,    \* PROBE_NUM
  AnnounceNum, \* ANNOUNCE_NUM
  MaxConflict, \* conflicts met in a run
  MaxReplies,  \* replies received in a run
  MayRestart   \* whether dhcp_start is called on a running client

VARIABLE host

OffDhcp == [st |-> "off", tries |-> 0, armed |-> FALSE, offered |-> 0, lease |-> <<0, 0, 0>>,
            t0 |-> 0, t2t |-> 0, t1 |-> 0, t2 |-> 0, used |-> 0, coop |-> FALSE, pcb |-> 0]
OffAuto == [st |-> "off", sent |-> 0, tried |-> 0, recent |-> FALSE]

(* left is what remains of the lease of the configured address, grant what *)
(* the last ACK gave, probed the probes sent for the AutoIP candidate;     *)
(* they serve the properties only.                                         *)
Init == host = [d |-> OffDhcp, a |-> OffAuto, addr |-> 0, up |-> FALSE, ref |-> 0,
                left |-> 0, grant |-> 0, probed |-> 0, seen |-> 0, conf |-> 0]

AutoAddr(h) == -1 - h.a.tried
IsAuto(addr) == addr < 0
Supplied(h) == h.d.st \in {"bound", "renewing", "rebinding"}
Least(x, y) == IF x < y THEN x ELSE y

dhcp_set_state(h, st) ==
  IF h.d.st = st THEN h ELSE [h EXCEPT !.d.st = st, !.d.tries = 0, !.d.armed = FALSE]
Tried(h) == [h EXCEPT !.d.tries = Least(@ + 1, MaxTries), !.d.armed = TRUE]

-----------------------------------------------------------------------------
(* AutoIP. *)
autoip_start_probing(h) == [h EXCEPT !.a.st = "probing", !.a.sent = 0, !.probed = 0]
autoip_start(h) == autoip_start_probing([h EXCEPT !.addr = 0, !.a.recent = FALSE])
autoip_stop(h) == [h EXCEPT !.a.st = "off", !.addr = IF IsAuto(@) THEN 0 ELSE @]
autoip_restart(h) == autoip_start([h EXCEPT !.a.tried = @ + 1])
autoip_network_changed(h) == IF h.a.st = "off" THEN h ELSE autoip_start_probing(h)

(* What autoip_tmr does when ttw has run out. *)
autoip_due(h) ==
  CASE h.a.st = "probing" /\ h.a.sent >= ProbeNum ->
         [h EXCEPT !.a.st = "announcing", !.a.sent = 1, !.addr = AutoAddr(h)]
    [] h.a.st = "probing" /\ h.a.sent < ProbeNum -> [h EXCEPT !.a.sent = @ + 1, !.probed = @ + 1]
    [] h.a.st = "announcing" ->
         IF h.a.sent + 1 >= AnnounceNum THEN [h EXCEPT !.a.st = "bound", !.a.sent = 0]
         ELSE [h EXCEPT !.a.sent = @ + 1]
    [] OTHER -> h

(* Another host uses our candidate or our address. *)
autoip_arp_reply(h) ==
  CASE h.a.st = "off" -> h
    [] h.a.st = "probing" \/ (h.a.st # "off" /\ h.a.recent) -> autoip_restart(h)
    [] OTHER -> [h EXCEPT !.a.recent = TRUE]

-----------------------------------------------------------------------------
(* The DHCP client. *)
dhcp_discover(h) ==
  LET s == Tried(dhcp_set_state([h EXCEPT !.d.offered = 0], "selecting")) IN
  IF s.d.tries >= CoopTries /\ ~ s.d.coop THEN autoip_start([s EXCEPT !.d.coop = TRUE]) ELSE s

CoopOff(h) == IF h.d.coop THEN [autoip_stop(h) EXCEPT !.d.coop = FALSE] ELSE h

dhcp_select(h) == Tried(dhcp_set_state(h, "requesting"))
dhcp_check(h) == Tried(dhcp_set_state(h, "checking"))
dhcp_reboot(h) == Tried(dhcp_set_state(h, "rebooting"))
dhcp_renew(h) == Tried(dhcp_set_state(h, "renewing"))
dhcp_rebind(h) == Tried(dhcp_set_state(h, "rebinding"))
dhcp_decline(h) == Tried(dhcp_set_state(h, "backing_off"))

dhcp_handle_nak(h) == dhcp_discover([dhcp_set_state(h, "backing_off") EXCEPT !.addr = 0])

dhcp_handle_offer(h, addr) == dhcp_select([h EXCEPT !.d.armed = FALSE, !.d.offered = addr])

dhcp_handle_ack(h, addr, lease) ==
  [h EXCEPT !.d.offered = addr, !.d.lease = lease, !.grant = lease[1]]

(* An infinite time leaves the timer of the earlier lease as it is. *)
dhcp_bind(h) ==
  LET l == h.d.lease
      b == CoopOff([h EXCEPT !.d.used = 0,
                             !.d.t0  = IF l[1] = Inf THEN @ ELSE l[1],
                             !.d.t1  = IF l[2] = Inf THEN @ ELSE l[2],
                             !.d.t2t = IF l[3] = Inf THEN @ ELSE l[3],
                             !.d.t2  = IF l[3] = Inf THEN @ ELSE l[3]])
  IN [dhcp_set_state(b, "bound") EXCEPT !.addr = h.d.offered, !.left = h.grant]

dhcp_release_and_stop(h) ==
  IF h.d.st = "off" THEN h
  ELSE [CoopOff([h EXCEPT !.addr = 0, !.d.offered = 0, !.d.lease = <<0, 0, 0>>,
                          !.d.t0 = 0, !.d.t1 = 0, !.d.t2 = 0, !.d.used = 0])
          EXCEPT !.d.st = "off", !.d.tries = 0, !.d.armed = FALSE,
                 !.ref = @ - h.d.pcb, !.d.pcb = 0]

dhcp_start(h) ==
  LET f == [h EXCEPT !.ref = @ - h.d.pcb + 1, !.d = [OffDhcp EXCEPT !.pcb = 1]] IN
  IF h.up THEN dhcp_discover(f) ELSE dhcp_set_state(f, "init")

dhcp_timeout(h) ==
  LET i == [h EXCEPT !.d.armed = FALSE] IN
  CASE h.d.st \in {"backing_off", "selecting"} -> dhcp_discover(i)
    [] h.d.st = "requesting" -> IF h.d.tries <= SelectTries THEN dhcp_select(i)
                                ELSE dhcp_start(dhcp_release_and_stop(i))
    [] h.d.st = "checking" -> IF h.d.tries <= 1 THEN dhcp_check(i) ELSE dhcp_bind(i)
    [] h.d.st = "rebooting" -> IF h.d.tries < RebootTries THEN dhcp_reboot(i) ELSE dhcp_discover(i)
    [] OTHER -> i

dhcp_t1_timeout(h) ==
  IF h.d.st \notin {"requesting", "bound", "renewing"} THEN h
  ELSE [dhcp_renew(h) EXCEPT !.d.t1 = LET half == (h.d.t2t - h.d.used) \div 2 IN
                                      IF half >= 1 THEN half ELSE @]
dhcp_t2_timeout(h) ==
  IF h.d.st \notin {"requesting", "bound", "renewing", "rebinding"} THEN h
  ELSE [dhcp_rebind(h) EXCEPT !.d.t2 = LET half == (h.d.t0 - h.d.used) \div 2 IN
                                       IF half >= 1 THEN half ELSE @]

(* The first of the three timers that runs out hides the later ones. *)
dhcp_coarse_tick(h) ==
  IF h.d.t0 # 0 /\ h.d.used + 1 = h.d.t0 THEN dhcp_start(dhcp_release_and_stop(h))
  ELSE LET u == [h EXCEPT !.d.used = IF h.d.t0 # 0 THEN @ + 1 ELSE @,
                          !.d.t2 = IF @ > 0 THEN @ - 1 ELSE 0]
       IN IF h.d.t2 = 1 THEN dhcp_t2_timeout(u)
          ELSE IF h.d.t1 = 1 THEN dhcp_t1_timeout([u EXCEPT !.d.t1 = 0])
          ELSE [u EXCEPT !.d.t1 = IF @ > 0 THEN @ - 1 ELSE 0]

dhcp_network_changed(h) ==
  CASE h.d.st \in {"rebinding", "renewing", "bound", "rebooting"} ->
         dhcp_reboot([h EXCEPT !.d.tries = 0])
    [] h.d.st = "off" -> h
    [] OTHER -> dhcp_discover([CoopOff(h) EXCEPT !.d.tries = 0])

dhcp_recv(h, type, addr, lease) ==
  CASE type = "ack" /\ h.d.st = "requesting" -> dhcp_check(dhcp_handle_ack(h, addr, lease))
    [] type = "ack" /\ h.d.st \in {"rebooting", "rebinding", "renewing"} ->
         dhcp_bind(dhcp_handle_ack(h, addr, lease))
    [] type = "nak" /\ h.d.st \in {"rebooting", "requesting", "rebinding", "renewing"} ->
         dhcp_handle_nak(h)
    [] type = "offer" /\ h.d.st = "selecting" -> dhcp_handle_offer(h, addr)
    [] OTHER -> h

-----------------------------------------------------------------------------
CoarseTmr == /\ host.d.st # "off"
             /\ host' = dhcp_coarse_tick([host EXCEPT !.left = IF @ \in {0, Inf} THEN @ ELSE @ - 1])
FineTmr == host.d.armed /\ host' = dhcp_timeout(host)
Reply == \E type \in {"offer", "ack", "nak"}, addr \in Addrs, lease \in Leases :
           /\ host.d.pcb = 1 /\ host.seen < MaxReplies
           /\ host' = [dhcp_recv(host, type, addr, lease) EXCEPT !.seen = @ + 1]
dhcp_arp_reply == /\ host.d.st = "checking" /\ host.conf < MaxConflict
                  /\ host' = [dhcp_decline(host) EXCEPT !.conf = @ + 1]
AutoTmr == host.a.st # "off" /\ host' \in {autoip_due(host), [host EXCEPT !.a.recent = FALSE]}
ArpConflict == /\ host.a.st # "off" /\ host.conf < MaxConflict
               /\ host' = [autoip_arp_reply(host) EXCEPT !.conf = @ + 1]
(* netif_set_link_up reports to DHCP, then to AutoIP. *)
LinkUp == ~ host.up /\ host' = autoip_network_changed(dhcp_network_changed([host EXCEPT !.up = TRUE]))
LinkDown == host.up /\ host' = [host EXCEPT !.up = FALSE]
(* With MayRestart the application also starts a client that is running:   *)
(* its lease timers and its hold on AutoIP are cleared, the address and    *)
(* AutoIP are left as they are, and LeaseHeld and AutoAddrProbed fail.     *)
Start == /\ host.d.st = "off" \/ MayRestart
         /\ host' = dhcp_start(host)
Stop == host.d.st # "off" /\ host' = dhcp_release_and_stop(host)
Renew == Supplied(host) /\ host' = dhcp_renew(host)

Next == \/ CoarseTmr \/ FineTmr \/ Reply \/ dhcp_arp_reply \/ AutoTmr \/ ArpConflict
        \/ LinkUp \/ LinkDown \/ Start \/ Stop \/ Renew
Spec == Init /\ [][Next]_host

-----------------------------------------------------------------------------
(* An address that DHCP configured is on the interface only while its      *)
(* lease lasts, whatever states the client has gone through since.         *)
LeaseHeld == host.addr > 0 => host.left > 0

(* A link-local address on the interface is AutoIP's current candidate,   *)
(* AutoIP is running and DHCP is not bound; and unless it is being probed  *)
(* anew after a link change, every probe of it was sent without a conflict *)
(* since the last such change.  (T1 of an earlier lease may run out while  *)
(* a new offer is requested: the client then renews with an AutoIP         *)
(* address.)                                                               *)
AutoAddrProbed ==
  IsAuto(host.addr) => /\ host.a.st # "off" /\ host.d.st # "bound"
                       /\ host.addr = AutoAddr(host)
                       /\ host.a.st # "probing" => host.probed = ProbeNum

(* While AutoIP probes its candidate the interface does not use it, as the *)
(* comments of autoip_network_changed ("take the interface down and begin  *)
(* probing") and autoip_arp_probe ("netif->ip_addr is ANY") say; but       *)
(* autoip_network_changed leaves the address in place.                     *)
ProbedUnused == host.a.st = "probing" => ~ IsAuto(host.addr)

(* A client that waits for a server has a timer running, and the shared    *)
(* UDP pcb is counted once for a client that is on.                        *)
DhcpNeverStuck ==
  /\ host.d.st \in {"selecting", "requesting", "checking", "rebooting", "backing_off"} => host.d.armed
  /\ host.ref = host.d.pcb /\ (host.d.st # "off" => host.d.pcb = 1)
  /\ host.d.coop => host.a.st # "off"
=============================================================================

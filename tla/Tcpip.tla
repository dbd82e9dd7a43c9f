------------------------------- MODULE Tcpip -------------------------------
(* The tcpip thread and what feeds it: the timer list (core/timeouts.c),   *)
(* the message loop (api/tcpip.c), the mailbox and the pools of the port    *)
(* (port/arch/sys_arch.cpp) and the receive path of the Ethernet driver     *)
(* (port/ethernetif.cpp) with its DMA ring and its interrupt.  The core     *)
(* lock is held by the thread except while it waits at its mailbox; time    *)
(* wraps around like sys_now().                                             *)
EXTENDS Integers, FiniteSets, SequencesExt

CONSTANTS TimeMod,    \* range of sys_now(), a multiple of 4
          ArpInterval, TcpInterval,
          MaxLate,    \* how late the thread may come to a timer
          QueueSize,  \* ARCH_QUEUE_SIZE
          NumApi, NumInpkt, \* MEMP_NUM_TCPIP_MSG_API, .._INPKT
          RingSize,   \* receive descriptors
          MaxPcbs, Delays,  \* delays applications ask tcpip_timeout for
          Ticks, Frames, \* whether time passes and frames arrive
          MayRunOut   \* the pbuf pool may be empty when a frame comes

VARIABLE os

(* TIME_LESS_THAN and its arithmetic. *)
Later(t, d) == (t + d) % TimeMod
TimeLess(t, u) == (t - u) % TimeMod >= TimeMod \div 2

None == <<>>
Idle == [run |-> None, due |-> 0, now |-> 0]
NoIrq == [nie |-> TRUE, ri |-> FALSE, flag |-> FALSE]

Init ==
  os = [now |-> 0, list |-> <<[h |-> "arp", at |-> ArpInterval]>>,
        pc |-> "fetch", until |-> 0, cur |-> Idle, msg |-> None,
        mbox |-> <<>>, api |-> 0, inpkt |-> 0,
        pcbs |-> 0, active |-> FALSE,
        ring |-> [i \in 1..RingSize |-> 0], dma |-> 1, rx |-> 1, irq |-> NoIrq,
        drv |-> "wait"]

----------------------------------------------------------------------------
(* The timer list. *)
(* Mutant: insertion that looks at the raw times. *)
PlaceRaw(list, at) ==
  LET later == {k \in DOMAIN list : at < list[k].at}
  IN  IF later = {} THEN Len(list) + 1
      ELSE CHOOSE k \in later : \A j \in later : k <= j

Place(list, at) ==
  LET later == {k \in DOMAIN list : TimeLess(at, list[k].at)}
  IN  IF later = {} THEN Len(list) + 1
      ELSE CHOOSE k \in later : \A j \in later : k <= j

sys_timeout_abs(s, at, h) ==
  [s EXCEPT !.list = InsertAt(@, Place(s.list, at), [h |-> h, at |-> at])]

sys_timeout(s, msecs, h) == sys_timeout_abs(s, Later(s.now, msecs), h)

sys_untimeout(s, h) ==
  LET is == {k \in DOMAIN s.list : s.list[k].h = h}
  IN  IF is = {} THEN s
      ELSE [s EXCEPT !.list = RemoveAt(@, CHOOSE k \in is : \A j \in is : k <= j)]

(* A cyclic timer comes again one interval after it was due, or one        *)
(* interval from now when that is already past.                             *)
lwip_cyclic_timer(s, h, interval) ==
  LET next == Later(s.cur.due, interval)
  IN  IF TimeLess(next, s.now) THEN sys_timeout_abs(s, Later(s.now, interval), h)
      ELSE sys_timeout_abs(s, next, h)

tcp_timer_needed(s) ==
  IF ~s.active /\ s.pcbs > 0
  THEN sys_timeout([s EXCEPT !.active = TRUE], TcpInterval, "tcp") ELSE s

tcpip_tcp_timer(s) ==
  IF s.pcbs > 0 THEN sys_timeout(s, TcpInterval, "tcp")
  ELSE [s EXCEPT !.active = FALSE]

Handler(s, h) ==
  CASE h = "arp" -> lwip_cyclic_timer(s, "arp", ArpInterval)
    [] h = "tcp" -> tcpip_tcp_timer(s)
    [] OTHER -> s

(* One turn of the loop of sys_check_timeouts: now was read before it. *)
sys_check_timeouts ==
  /\ os.pc = "check"
  /\ LET t == Head(os.list)
     IN  os' = IF os.list = <<>> \/ TimeLess(os.cur.now, t.at)
               THEN [os EXCEPT !.pc = "fetch", !.cur = Idle]
               ELSE [os EXCEPT !.pc = "run", !.list = Tail(@),
                               !.cur.run = <<t.h>>, !.cur.due = t.at]

RunHandler ==
  /\ os.pc = "run"
  /\ os' = [Handler(os, os.cur.run[1]) EXCEPT !.pc = "check",
              !.cur.run = None, !.cur.due = 0]

----------------------------------------------------------------------------
(* The thread. *)
StartCheck(s) == [s EXCEPT !.pc = "check", !.cur = [Idle EXCEPT !.now = s.now],
                           !.until = 0]

(* tcpip_timeouts_mbox_fetch: the time to sleep is read under the lock,     *)
(* the wait is without it.                                                  *)
tcpip_timeouts_mbox_fetch ==
  /\ os.pc = "fetch"
  /\ os' = IF os.list # <<>> /\ ~TimeLess(os.now, os.list[1].at)
           THEN StartCheck(os)
           ELSE [os EXCEPT !.pc = "wait",
                   !.until = IF os.list = <<>> THEN -1 ELSE os.list[1].at]

WakeForMessage ==
  /\ os.pc = "wait" /\ os.mbox # <<>>
  /\ os' = [os EXCEPT !.pc = "woken", !.until = 0, !.msg = <<Head(os.mbox)>>,
                      !.mbox = Tail(@)]

WakeForTimer ==
  /\ os.pc = "wait" /\ os.mbox = <<>> /\ os.until # -1
  /\ ~TimeLess(os.now, os.until)
  /\ os' = [os EXCEPT !.pc = "timeout", !.until = 0]

LockAfterTimeout == os.pc = "timeout" /\ os' = StartCheck(os)

(* The message is handled, then its element is given back. *)
tcpip_thread_handle_msg ==
  /\ os.pc = "woken"
  /\ LET m == os.msg[1]
         s == [os EXCEPT !.pc = "fetch", !.msg = None]
     IN  os' = CASE m.t = "inpkt" -> [s EXCEPT !.inpkt = @ - 1]
                 [] m.t = "callback" -> [s EXCEPT !.api = @ - 1]
                 [] m.t = "timeout" ->
                      [sys_timeout(s, m.d, "user") EXCEPT !.api = @ - 1]
                 [] m.t = "untimeout" ->
                      [sys_untimeout(s, "user") EXCEPT !.api = @ - 1]

(* Time passes; the thread comes to its timers in bounded time. *)
Overdue(s) == IF s.list = <<>> \/ TimeLess(s.now, s.list[1].at) THEN 0
              ELSE (s.now - s.list[1].at) % TimeMod
Tick ==
  /\ Ticks /\ Overdue(os) < MaxLate
  /\ os.pc \in {"check", "run"} => (os.now - os.cur.now) % TimeMod < MaxLate
  /\ os.pc = "run" => (os.now - os.cur.due) % TimeMod < MaxLate
  /\ os' = [os EXCEPT !.now = Later(@, 1)]

----------------------------------------------------------------------------
(* Other threads: a mailbox post waits for room, a trypost gives the        *)
(* element back to its pool when there is none.                             *)
sys_mbox_trypost(s, m, pool) ==
  IF Len(s.mbox) < QueueSize THEN [s EXCEPT !.mbox = Append(@, m)] ELSE [s EXCEPT ![pool] = @ - 1]

(* tcpip_callback, tcpip_timeout, tcpip_untimeout. *)
PostWaiting ==
  /\ os.api < NumApi /\ Len(os.mbox) < QueueSize
  /\ \E m \in {[t |-> "callback"], [t |-> "untimeout"]}
           \cup {[t |-> "timeout", d |-> d] : d \in Delays} :
       /\ m.t = "timeout" => \A k \in DOMAIN os.list : os.list[k].h # "user"
       /\ m.t = "timeout" => \A k \in DOMAIN os.mbox : os.mbox[k].t # "timeout"
       /\ m.t = "timeout" => os.msg = None
       /\ os' = [os EXCEPT !.api = @ + 1, !.mbox = Append(@, m)]

tcpip_try_callback ==
  /\ os.api < NumApi
  /\ os' = sys_mbox_trypost([os EXCEPT !.api = @ + 1], [t |-> "callback"], "api")

(* tcpip_api_call and tcpip_send_msg_wait_sem: the call runs in the caller *)
(* while the thread is without the lock.                                    *)
Unlocked == os.pc \in {"wait", "woken", "timeout"}

tcpip_api_call ==
  /\ Unlocked
  /\ \/ os.pcbs < MaxPcbs /\ os' = tcp_timer_needed([os EXCEPT !.pcbs = @ + 1])
     \/ os.pcbs > 0 /\ os' = [os EXCEPT !.pcbs = @ - 1]

----------------------------------------------------------------------------
(* The driver.  The DMA fills the descriptor it owns and raises RI, and    *)
(* with it the interrupt while NIE is set.                                  *)
Frame ==
  /\ Frames /\ os.ring[os.dma] = 0
  /\ os' = [os EXCEPT !.ring[os.dma] = 1, !.dma = (@ % RingSize) + 1,
                      !.irq.ri = TRUE]

ETH_IRQHandler ==
  /\ os.irq.ri /\ os.irq.nie
  /\ os' = [os EXCEPT !.irq.nie = FALSE, !.irq.flag = TRUE]

EthernetProc ==
  /\ os.drv = "wait" /\ os.irq.flag
  /\ os' = [os EXCEPT !.irq.flag = FALSE, !.drv = "input"]

(* tcpip_inpkt: the frame is posted, or its pbuf is freed by the driver. *)
tcpip_inpkt(s, f) ==
  IF s.inpkt >= NumInpkt THEN s
  ELSE sys_mbox_trypost([s EXCEPT !.inpkt = @ + 1], [t |-> "inpkt", f |-> f], "inpkt")

(* One frame per event; a frame that found no pbuf is passed on as NULL.   *)
Received(s, f) == [tcpip_inpkt(s, f) EXCEPT !.ring[s.rx] = 0,
                                            !.rx = (s.rx % RingSize) + 1]

ethernetif_input ==
  /\ os.drv = "input"
  /\ \E nomem \in IF MayRunOut THEN BOOLEAN ELSE {FALSE} :
       os' = [(IF os.ring[os.rx] = 0 THEN os
               ELSE Received(os, IF nomem THEN -1 ELSE os.ring[os.rx]))
                EXCEPT !.drv = "clear"]

ClearStatus ==
  /\ os.drv = "clear"
  /\ os' = [os EXCEPT !.drv = "enable", !.irq.ri = FALSE]

EnableIrq ==
  /\ os.drv = "enable"
  /\ os' = [os EXCEPT !.drv = "wait", !.irq.nie = TRUE]

Next ==
  \/ sys_check_timeouts \/ RunHandler \/ tcpip_timeouts_mbox_fetch
  \/ WakeForMessage \/ WakeForTimer \/ LockAfterTimeout
  \/ tcpip_thread_handle_msg \/ Tick
  \/ PostWaiting \/ tcpip_try_callback \/ tcpip_api_call
  \/ Frame \/ ETH_IRQHandler \/ EthernetProc
  \/ ethernetif_input \/ ClearStatus \/ EnableIrq

Spec == Init /\ [][Next]_os

----------------------------------------------------------------------------
Pending(h) == Cardinality({k \in DOMAIN os.list : os.list[k].h = h})
              + IF os.pc = "run" /\ os.cur.run = <<h>> THEN 1 ELSE 0

(* However late the thread comes and wherever the clock wraps, the timer    *)
(* list is ordered, a handler never runs before its time, the cyclic timer  *)
(* is in the list exactly once, and the TCP timer exactly when it is marked *)
(* active, which it is while there is a connection.                         *)
TimersKept ==
  /\ \A k \in 1..(Len(os.list) - 1) : ~TimeLess(os.list[k + 1].at, os.list[k].at)
  /\ os.pc = "run" => ~TimeLess(os.now, os.cur.due)
  /\ Pending("arp") = 1
  /\ Pending("tcp") = IF os.active THEN 1 ELSE 0
  /\ os.pcbs > 0 => os.active

(* Every message element is in the mailbox or in the thread's hands: none   *)
(* leaks when the mailbox is full, none is given back twice; and the frames *)
(* that wait in the ring follow one another from the driver's index on.     *)
MessagesKept ==
  LET ms == os.mbox \o os.msg
      Of(S) == Cardinality({k \in DOMAIN ms : ms[k].t \in S})
  IN  /\ os.inpkt = Of({"inpkt"})
      /\ os.api = Of({"callback", "timeout", "untimeout"})
      /\ \A n \in 1..(RingSize - 1) :
           LET At(k) == ((os.rx + k - 1) % RingSize) + 1
           IN  os.ring[At(n)] # 0 => os.ring[At(n - 1)] # 0

(* The thread is never given a packet that is not there.  A driver that     *)
(* finds no pbuf (MayRunOut) passes NULL on, and ethernet_input reads it.   *)
PacketsThere ==
  LET ms == os.mbox \o os.msg
  IN  \A k \in DOMAIN ms : ms[k].t = "inpkt" => ms[k].f # -1

(* A frame in the ring is one the driver is about to look at. *)
FramesNoticed ==
  os.ring[os.rx] # 0 => os.irq.ri \/ os.irq.flag \/ os.drv = "input"

(* The thread sleeps until the first timer that is due, no longer. *)
SleepsUntilDue ==
  os.pc = "wait" /\ os.list # <<>> =>
    os.until # -1 /\ ~TimeLess(os.list[1].at, os.until)
=============================================================================

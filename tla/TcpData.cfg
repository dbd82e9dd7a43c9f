SPECIFICATION SpecOpen
CONSTANTS
  SeqSpace = 64
  U16 = 65536
  TCP_SND_QUEUELEN = 4
  TCP_SND_BUF = 4
  TCP_MAXRTX = 1
  TCP_SYNMAXRTX = 1
  INITIAL_MSS = 2
  TCP_MSS = 2
  PERSIST_SLOTS = 1
  CWND_MAX = 12
  DUPACKS_MAX = 4
  WndA = 4
  WndB = 4
  IssA = 62
  IssB = 10
  BytesA = 3
  BytesB = 0
  MaxWrite = 3
  MoreFlags = {TRUE, FALSE}
  CallsA = {"write"}
  CallsB = {}
  RecvCbs = {"take", "refuse"}
  ConnCbs = {"ok"}
  EofCbs = {"keep"}
  Fails <- AnyFail
  Timers <- DataTimers
  Patient = FALSE
  NetCap = 4
  MaxFaults = 1
CHECK_DEADLOCK FALSE
INVARIANTS DeliveredIsPrefix SendAccounting SendQueuesTile OversizeFits

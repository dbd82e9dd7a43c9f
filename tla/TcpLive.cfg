SPECIFICATION SpecLive
CONSTANTS
  SeqSpace = 64
  U16 = 65536
  TCP_SND_QUEUELEN = 2
  TCP_SND_BUF = 2
  TCP_MAXRTX = 1
  TCP_SYNMAXRTX = 1
  INITIAL_MSS = 2
  TCP_MSS = 2
  PERSIST_SLOTS = 1
  CWND_MAX = 12
  DUPACKS_MAX = 4
  WndA = 4
  WndB = 1
  IssA = 62
  IssB = 10
  BytesA = 2
  BytesB = 0
  MaxWrite = 1
  MoreFlags = {FALSE}
  CallsA = {"write", "close"}
  CallsB = {}
  RecvCbs = {"take"}
  ConnCbs = {"ok"}
  EofCbs = {"close"}
  Fails <- NoFails
  Timers <- LiveTimers
  Patient = TRUE
  NetCap = 4
  MaxFaults = 1
PROPERTIES DataArrives CloseCompletes
CHECK_DEADLOCK FALSE

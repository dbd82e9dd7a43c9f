SPECIFICATION SpecClosed
CONSTANTS
  SeqSpace = 64
  U16 = 65536
  TCP_SND_QUEUELEN = 4
  TCP_SND_BUF = 4
  TCP_MAXRTX = 1
  TCP_SYNMAXRTX = 1
  INITIAL_MSS = 2
  TCP_MSS = 2
  PERSIST_SLOTS = 1
  CWND_MAX = 12
  DUPACKS_MAX = 4
  WndA = 4
  WndB = 4
  IssA = 62
  IssB = 10
  BytesA = 1
  BytesB = 0
  MaxWrite = 1
  MoreFlags = {FALSE}
  CallsA = {"write", "shuttx"}
  CallsB = {"close", "shutrx", "abort"}
  RecvCbs = {"recved", "refuse"}
  ConnCbs = {"ok", "abort"}
  EofCbs = {"keep"}
  Fails <- AllocFails
  Timers <- CloseTimers
  Patient = FALSE
  NetCap = 2
  MaxFaults = 1
CHECK_DEADLOCK FALSE
INVARIANTS EofComplete CloseProceeds
PROPERTIES StateDiagram FreedKnowingly

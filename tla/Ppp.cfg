CONSTANTS
  MaxConf = 1
  MaxTerm = 1
  MaxNak = 1
  MaxAuth = 2
  MaxDisc = 2
  MaxEcho = 1
  MaxConnects = 2
  MaxOpen = 1
  MaxStale = 1
  Fuel = 12
  Configs <- MCConfigs
SPECIFICATION Spec
CHECK_DEADLOCK FALSE
INVARIANTS AuthBeforeNetwork NetworkCounts FsmTimers DeadIsClean StatusReported CloseUnderway

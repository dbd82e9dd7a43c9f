\* Sockets: one thread, a listener or a client connection, one data connection.
SPECIFICATION Spec
CONSTANTS
  QSize = 1
  NPbuf = 2
  SndBuf = 1
  WriteLen = 2
  NConn = 2
  NSock = 2
  Threads <- OneThread
  NonBlock <- Both
  Selects <- Waits
  Created = 1
  MaxEvents = 1
  RecvLens <- PbufAndHalf
  MayLosePeer = FALSE
  Hows <- NotTxAlone
INVARIANTS
  PcbConnLinked
  SignalAnswersWait
  SelectSleepsSoundly
  SelectAgrees
  WindowAccounted
CHECK_DEADLOCK FALSE
PROPERTIES
  IsPipe

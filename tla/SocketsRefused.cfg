\* A half-closed connection: refused data is not presented again.
SPECIFICATION Spec
CONSTANTS
  QSize = 1
  NPbuf = 2
  SndBuf = 1
  WriteLen = 2
  NConn = 1
  NSock = 1
  Threads <- OneThread
  NonBlock <- Both
  Selects <- Waits
  Created = 1
  MaxEvents = 1
  RecvLens <- Lens
  MayLosePeer = FALSE
  Hows <- AllHows
PROPERTY IsPipe
CHECK_DEADLOCK FALSE

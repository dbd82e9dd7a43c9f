\* Liveness of the socket calls: one thread, one connection, fair timers.
SPECIFICATION FairSpec
CONSTANTS
  QSize = 1
  NPbuf = 2
  SndBuf = 1
  WriteLen = 2
  NConn = 2
  NSock = 1
  Threads <- OneThread
  NonBlock <- Blocks
  Selects <- Waits
  Created = 1
  MaxEvents = 1
  RecvLens <- Lens
  MayLosePeer = FALSE
  Hows <- AllHows
PROPERTIES
  RefusedReachesReader
  DeadConnReleases
CHECK_DEADLOCK FALSE

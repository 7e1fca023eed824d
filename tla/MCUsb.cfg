CONSTANTS
  LastPipe = 3
  QSize = 3
  Burst = 2
  TxSize = 2
  CtlPacket = 2
  RespLengths = {0, 2, 3}
  Requests <- MCRequests
  Rx = 2
  MaxPackets = 4
  MaxOut = 3
SPECIFICATION MCSpec
INVARIANTS
  LineIsLevel
  NothingDropped
PROPERTIES
  OneQueue
  DriverEnumerates
  DriverReads
  DriverSends
  DriverServed
CONSTRAINT Bound
CHECK_DEADLOCK FALSE

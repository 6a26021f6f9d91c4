SPECIFICATION Spec
CONSTANTS
  Responses <- ThreeKinds
  BufSize = 2
  ChunkSize = 2
  SendBuf = 3
INVARIANTS TypeOK InOrder RemovedIsSent ListStraight
CHECK_DEADLOCK FALSE

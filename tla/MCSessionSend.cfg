CONSTANTS
  MaxSendQue = 2
  Parts = 2
  MaxSends = 6
SPECIFICATION Spec
INVARIANTS
  TypeOK
  OneWriteOfFront
  WireIsAcceptedFrames
  NoStall
PROPERTIES
  SentInOrder
  EveryFrameWritten
  DeadPeerCleared
CHECK_DEADLOCK FALSE

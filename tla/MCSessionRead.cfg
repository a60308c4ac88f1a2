CONSTANTS
  HeadLen = 2
  MaxLength = 4
  Lens <- MCLens
  Longest = 5
  MaxFrames = 3
SPECIFICATION Spec
INVARIANTS
  TypeOK
  PostedAreSent
  OverrunExplained
  DroppedForACause
PROPERTIES
  FramesInOrder
  EveryFramePosted
CHECK_DEADLOCK FALSE

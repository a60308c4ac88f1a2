CONSTANTS
  s1 = s1
  s2 = s2
  Sessions = {s1, s2}
  MaxPosts = 2
SPECIFICATION SafetySpec
INVARIANTS
  TypeOK
  NoLostWakeup
  FrontExists
  DrainedAtExit
PROPERTY HandledInOrder
SYMMETRY Symmetry
CHECK_DEADLOCK FALSE

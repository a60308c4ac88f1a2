CONSTANTS
  s1 = s1
  s2 = s2
  Sessions = {s1, s2}
  MaxPosts = 1
SPECIFICATION Spec
PROPERTIES
  EveryRequestHandled
  ShutdownCompletes
CHECK_DEADLOCK FALSE

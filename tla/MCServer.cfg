CONSTANTS
  PoolSize = 2
  MaxSessions = 4
  MaxAccepts = 2
SPECIFICATION Spec
INVARIANTS
  TypeOK
  DeadEntriesExplained
  PoolBalanced
  ServerOutlivesHandlers
PROPERTY ClearedIsReleased
CHECK_DEADLOCK FALSE

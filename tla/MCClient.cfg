CONSTANTS
  Locals = {a}
  NoLocal = NoLocal
  MaxSendQue = 1
  MaxRequests = 3
SPECIFICATION Spec
INVARIANTS
  TypeOK
  WaitingExplained
PROPERTIES
  PromptReturns
  ServerLossNoticed
  ExitCompletes
CHECK_DEADLOCK FALSE

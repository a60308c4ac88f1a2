CONSTANTS
  Locals = {a, b}
  NoLocal = NoLocal
  MaxSendQue = 1
  MaxRequests = 3
SPECIFICATION SafetySpec
INVARIANT SavedAsAsked
CHECK_DEADLOCK FALSE

CONSTANTS
  Values = {v1, v2, unsavable}
  Unsavable = {unsavable}
  NoValue = NoValue
  Broken = Broken
  Missing = Missing
  Format = "JSON"
  MaxTime = 4
SPECIFICATION Spec
INVARIANTS
  TypeOK
  WipedOnlyIfExcused
  TerminationExplained
PROPERTY DisableCompletes
CHECK_DEADLOCK FALSE

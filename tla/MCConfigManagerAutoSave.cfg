CONSTANTS
  Values = {v1, v2}
  Unsavable = {}
  NoValue = NoValue
  Broken = Broken
  Missing = Missing
  Format = "JSON"
  MaxTime = 4
SPECIFICATION AloneSpec
PROPERTY AutoSaved
CHECK_DEADLOCK FALSE

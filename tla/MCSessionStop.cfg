SPECIFICATION Spec
CONSTANTS
  MaxModes = 4
  MaxTime = 3
  MaxQueue = 2
  Rates <- BothWays
  Starts = {"LIVE"}
INVARIANTS StopsOnlyAtEnd

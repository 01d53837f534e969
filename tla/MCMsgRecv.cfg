SPECIFICATION RecvFairSpec
CONSTANTS
  HdrParts = 3
  Overwritten <- MCViewer
  Timed = TRUE
  MaxMsgs = 3
  MaxData = 2
INVARIANTS ActedOnAsSent
PROPERTIES CloseNoticed
CHECK_DEADLOCK FALSE

SPECIFICATION RecvSpec
CONSTANTS
  HdrParts = 3
  Overwritten <- MCWebcam
  Timed = FALSE
  MaxMsgs = 2
  MaxData = 0
INVARIANTS ReceivedAsSent
CHECK_DEADLOCK FALSE

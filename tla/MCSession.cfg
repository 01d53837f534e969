SPECIFICATION FairSpec
CONSTANTS
  MaxModes = 3
  MaxTime = 3
  MaxQueue = 1
  Rates <- BothWays
  Starts = {"LIVE", "PLAY"}
INVARIANT ShownFits
PROPERTIES ServerFollows PaneSettles PauseFrameArrives

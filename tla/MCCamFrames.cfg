SPECIFICATION FairSpec
CONSTANTS
  Interval = 5
  Hold = 10
  Silence = 50
  MaxFrames = 75
  Clients = {c1, c2}
  MaxChanges = 2
INVARIANTS ArraysInStep NothingLeaked SilenceBounded
PROPERTIES HandedInTime DroppedOnlyStill ResolutionFollows

SPECIFICATION FairSpec
CONSTANTS
  Clients = {c1}
  Writer = w
  MaxFrames = 3
INVARIANTS NoUseAfterFree RefCountExact MissedOnlyIfAged
PROPERTIES OldFramesReclaimed LiveAdvances

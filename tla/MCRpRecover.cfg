SPECIFICATION RecoverSpec
CONSTANTS
  FileSize = 17
  MinOff = 1
  TailSlack = 2
  MinFree = 9
  Align = 1
  MaxLen = 2
  MaxWrites = 12
  FrameLens = {1, 2}
  MaxToc = 8
  TocGap = 2
  MaxUnsaved = 4
  MaxStarts = 2
  MaxShort = 1
  ReadLag = 1
INVARIANTS WindowIsChain WindowIntact ScanMeetsFrames
PROPERTIES RecoveredKept
CHECK_DEADLOCK FALSE

SPECIFICATION Spec
CONSTANTS
  FileSize = 34
  MinOff = 2
  TailSlack = 4
  MinFree = 18
  Align = 2
  MaxLen = 4
  MaxWrites = 11
  FrameLens = {2, 4}
  MaxToc = 8
  TocGap = 2
  ReadLag = 1
INVARIANTS NotOverwritten WindowListsFrames ScanStaysInWindow ServedFrameWhole
PROPERTIES ImplementsRpFile HistoryKept
CHECK_DEADLOCK FALSE

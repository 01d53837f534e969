SPECIFICATION SearchSpec
CONSTANTS
  MaxToc = 9
  MaxCount = 3
  Tables <- MCTables
  Requests <- MCRequests
INVARIANTS FoundCovers NotFoundJustified NeverGivesUp

SPECIFICATION Spec
CONSTANTS
  NodeOrder <- TwoNodes
  DayLength = 2
  SingleFileSize = 2
  TotalFileCount = 1
  MaxLinesReturn = 2
  KMaxLines = 1
  Requests <- SomeRequests
  MaxTime = 3
  MaxRecords = 3
  MaxStarts = 2
  MaxSearches = 2
  None = None
INVARIANTS
  IndexSound
  SearchSound
  SearchComplete
CHECK_DEADLOCK FALSE

SPECIFICATION FairSpec
CONSTANTS
  NodeOrder <- TwoNodes
  DayLength = 2
  SingleFileSize = 2
  TotalFileCount = 1
  MaxLinesReturn = 2
  KMaxLines = 1
  Requests <- SomeRequests
  MaxTime = 3
  MaxRecords = 4
  MaxStarts = 2
  MaxSearches = 0
  None = None
INVARIANTS
  DropsExplained
PROPERTIES
  ImplementsSecondLog
  EventuallyLogged
CHECK_DEADLOCK FALSE

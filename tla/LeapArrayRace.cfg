SPECIFICATION FairWindow
CONSTANTS
  Threads = {t1, t2}
  SampleCount = 2
  Interval = 2
  MaxOps = 3
  MaxTime = 5
  NoThread = NoThread
INVARIANTS
  NoExpiredCount
PROPERTIES
  OperationEnds
CHECK_DEADLOCK FALSE

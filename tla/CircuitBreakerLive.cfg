SPECIFICATION FairSpec
CONSTANTS
  Threads = {t1, t2}
  MaxRules = 2
  RuleLists <- OneOrTwo
  Outcomes <- AllOrNone
  MaxLoads = 1
  MaxCalls = 3
  MaxTime = 2
  NoThread = NoThread
  NoRule = NoRule
PROPERTIES
  HalfOpenResolvedOrLost
CHECK_DEADLOCK FALSE

SPECIFICATION Spec
CONSTANTS
  Threads = {t1, t2}
  MaxRules = 3
  RuleLists <- Reloads
  Outcomes <- AllOrNone
  MaxLoads = 2
  MaxCalls = 3
  MaxTime = 2
  NoThread = NoThread
  NoRule = NoRule
SYMMETRY Symmetry
INVARIANTS
  ProbeOutstanding
  FreshProbeIsDue
  TimestampCoversTimeout
PROPERTIES
  LegalTransitions
  ReloadReuses
CHECK_DEADLOCK FALSE

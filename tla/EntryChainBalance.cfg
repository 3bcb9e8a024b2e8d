SPECIFICATION Spec
CONSTANTS
  Calls = {c1, c2}
  NumThreads = 2
  Tags <- TwoTags
  NoTag = NoTag
  NoNode = NoNode
  NoRule = NoRule
  EntryTypes <- BothWays
  RuleLists <- TagRules
  MaxTagSize = 0
  MaxLoads = 1
  MaxSwitches = 1
  MaxExpiries = 1
SYMMETRY Symmetry
INVARIANTS
  TypeOK
  ThreadNumSound
CHECK_DEADLOCK FALSE

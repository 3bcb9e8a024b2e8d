SPECIFICATION Spec
CONSTANTS
  Calls = {c1, c2, c3, c4}
  NumThreads = 2
  Tags <- NoTags
  NoTag = NoTag
  NoNode = NoNode
  NoRule = NoRule
  EntryTypes <- Outbound
  RuleLists <- Reloads
  MaxTagSize = 1
  MaxLoads = 2
  MaxSwitches = 0
  MaxExpiries = 1
SYMMETRY Symmetry
INVARIANTS
  AdmissionBounded
CHECK_DEADLOCK FALSE

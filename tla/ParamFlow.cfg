SPECIFICATION Spec
CONSTANTS
  Calls = {c1, c2, c3}
  NumThreads = 2
  Params <- OneOrTwoParams
  NumShards = 2
  ShardOf <- OneShard
  RuleLists <- SomeRules
  Unset = Unset
  NoCache = NoCache
  MaxLoads = 2
  MaxExpiries = 1
SYMMETRY Symmetry
INVARIANTS
  ThreadCountSound
  PassCountSound
  AdmissionBounded
CHECK_DEADLOCK FALSE

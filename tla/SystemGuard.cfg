SPECIFICATION FairSpec
CONSTANTS
  Callers = {c1, c2, c3}
  Loaders = {l1, l2}
  Lists <- TwoLists
  Properties = {p1, p2}
  FirstProperty = p1
  Readings <- TwoReadings
  One = 2
  NoRules = NoRules
  MaxLoads = 2
  MaxPass = 1
INVARIANTS RulesWhole LoadedInForce
PROPERTIES NeverShutOut

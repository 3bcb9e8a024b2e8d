SPECIFICATION Spec
CONSTANTS
  Threads = {t1, t2}
  Keys = {k1, k2}
  MaxSize = 1
  Ops = {"increase"}
  MaxOps = 2
  MaxClears = 0
  MaxSnapshots = 1
  NoThread = NoThread
  NoKey = NoKey
SYMMETRY Symmetry
INVARIANTS
  NoStall
CHECK_DEADLOCK FALSE

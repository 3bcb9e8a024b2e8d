SPECIFICATION Spec
CONSTANTS
  Threads = {t1, t2}
  Keys = {k1, k2, k3}
  MaxSize = 1
  Ops = {"increase", "find"}
  MaxOps = 4
  MaxClears = 1
  MaxSnapshots = 1
  NoThread = NoThread
  NoKey = NoKey
SYMMETRY Symmetry
INVARIANTS
  EntryEvictable
  ListAgrees
  SizeBounded
  NotUnderfilled
CHECK_DEADLOCK FALSE

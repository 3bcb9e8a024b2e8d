SPECIFICATION AllSpec
CONSTANTS
  r1 = r1
  r2 = r2
  r3 = r3
  NoAnswer = NoAnswer
  Requests = {r1, r2, r3}
  Asks <- ThreeRequests
  MaxStarts = 2
  MaxStops = 2
  Loads = {0, 2}
  MaxSpent = 2
  Blocked = {b1, b2}
  Causes = {k1, k2}
  NoCause = NoCause
  MaxClock = 2
  MaxReports = 2
  Users = {u1, u2}
  Resources = {q1, q2}
  Updaters = {a1, a2}
  SampleCounts = {0, 1, 3}
  Intervals = {0, 3, 4, 6}
  Nobody = Nobody
  NoNode = NoNode
  MaxUpdates = 2
  Shaped = {s1, s2}
  Cost = 2
  Timeout = 3
  Garbage <- PastOrFuture
  MaxMillis = 4
  Threads = {t1}
  SampleCount = 2
  Interval = 4
  MaxOps = 4
  MaxTime = 7
  NoThread = NoThread
INVARIANTS
  FreedAlone
  DestroyedJoined
  StartedServes
  UsageIsShare
  LinesBacked
  OneNode
  WindowsCurrent
  NoTurnLost
  WindowSumExact
PROPERTIES
  StartReturnsAtLast
  StopReturnsAtLast
  ListenerStops
  BlockIsLogged
CHECK_DEADLOCK FALSE

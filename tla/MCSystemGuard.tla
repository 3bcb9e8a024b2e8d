--------------------------- MODULE MCSystemGuard ---------------------------
(***************************************************************************)
(* Three callers, so that one may find two others inside, and two loaders  *)
(* with two lists.  A CPU usage of one is 2 units.                         *)
(***************************************************************************)
EXTENDS SystemGuard

R(metric, threshold) == [metric |-> metric, threshold |-> threshold]

\* Two limits on the load and a CPU threshold that is no share; limits on the
\* calls, one of them invalid.
TwoLists ==
  {<<R("kSystemLoad", 2), R("kCpuUsage", 1), R("kCpuUsage", 3), R("kSystemLoad", 1)>>,
   <<R("kConcurrency", 1), R("kRt", 1), R("kQps", -1), R("kConcurrency", 2),
     R("kQps", 1)>>}

Reading(rt, qps, minRt, load, cpu) ==
  [rt |-> rt, maxQps |-> qps, minRt |-> minRt, load |-> load, cpu |-> cpu]

\* Before the first sample; nothing completed on an overloaded machine.
TwoReadings ==
  {Reading(0, 0, 1000, -1, <<-1, 1>>), Reading(2, 0, 1000, 2, <<2, 3>>)}
=============================================================================

-------------------------- MODULE MCCircuitBreaker --------------------------
(***************************************************************************)
(* Small instances of CircuitBreaker for TLC.                              *)
(***************************************************************************)
EXTENDS CircuitBreaker, TLC

R(strategy, threshold, timeout, interval, min) ==
  [strategy |-> strategy, threshold |-> threshold, retry_timeout |-> timeout,
   stat_interval |-> interval, min_request_amount |-> min]

\* Half of the calls in error, seen from the first call on.
ErrorRule == R("kErrorRatio", 50, 1, 2, 1)
SlowRule  == R("kSlowRtRatio", 50, 2, 3, 1)
InvalidRule == R("kErrorRatio", 101, 1, 2, 1)

OneOrTwo    == {<<ErrorRule>>, <<ErrorRule, SlowRule>>}
Reloads     == {<<ErrorRule, ErrorRule>>, <<InvalidRule, SlowRule, ErrorRule>>}

\* What the breakers of the instance can tell apart.
AllOrNone  == {{}, {"error", "slow"}}

\* The threads are interchangeable.
Symmetry == Permutations(Threads)
=============================================================================

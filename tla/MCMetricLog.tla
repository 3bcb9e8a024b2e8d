---------------------------- MODULE MCMetricLog ----------------------------
(***************************************************************************)
(* A small instance of MetricLog for TLC.                                  *)
(***************************************************************************)
EXTENDS MetricLog

TwoNodes == <<"a", "b">>

\* By end time for one resource, and by number of lines for all of them.
SomeRequests ==
  {[begin |-> 0, end |-> 1, identity |-> "a", maxLines |-> None],
   [begin |-> 1, end |-> None, identity |-> None, maxLines |-> 0]}
=============================================================================

---------------------------- MODULE MCLeapArray ----------------------------
(***************************************************************************)
(* The sliding window, with what its constants are assumed to be.  The cfg *)
(* gives two threads and a small ring; MCComponents, which has the window  *)
(* beside other components, gives one thread.                              *)
(***************************************************************************)
EXTENDS Integers

CONSTANTS Threads, SampleCount, Interval, MaxOps, MaxTime, NoThread

\* A window has buckets, and each of them a millisecond at least.
ASSUME WindowAssumption ==
  /\ SampleCount \in Nat \ {0}
  /\ Interval \in Nat /\ Interval >= SampleCount
  /\ MaxOps \in Nat /\ MaxTime \in Nat
  /\ NoThread \notin Threads

VARIABLES now, start, cnt, mtx, pc, op, time, idx, list, sum, ops, oldest, log

Window == INSTANCE LeapArray

FairWindow == Window!FairSpec

-----------------------------------------------------------------------------
(***************************************************************************)
(* The properties, which LeapArray explains.                               *)
(***************************************************************************)
\* GetSum counts nothing that has expired, outside of a bucket in reset.
NoExpiredCount == Window!NoExpiredCount

\* Used by one thread, GetSum of the sliding window is exact up to the window
\* that is Interval old to the millisecond.
WindowSumExact == Window!WindowSumExact

\* An operation on the window ends.
OperationEnds == Window!OperationEnds
=============================================================================

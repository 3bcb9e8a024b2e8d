----------------------------- MODULE LeapArray -----------------------------
(***************************************************************************)
(* The sliding window of sentinel-core/statistic/base: SlidingWindowMetric *)
(* over BucketLeapArray.  A ring of SampleCount buckets covers the last    *)
(* Interval milliseconds; the bucket of a moment is found from the clock,  *)
(* and recycled when it still carries the counts of an earlier window.     *)
(*                                                                         *)
(* One metric event is modelled: AddPass(1) and its like ("add") and       *)
(* GetSum ("sum").  The ring is read without a lock; mtx_ is only tried    *)
(* (try_lock), around the creation and the recycling of a bucket, and      *)
(* ResetWindowTo first moves the start of the bucket and then clears it.   *)
(* A step is one access to a bucket or to the clock.  A bucket, once       *)
(* created, stays in its slot, so the load of the slot and the first read  *)
(* of its start are one step.                                              *)
(***************************************************************************)
EXTENDS Integers

CONSTANTS Threads,      \* threads that add to the window or sum it up
          SampleCount,  \* sample_count_
          Interval,     \* interval_ms_
          MaxOps,       \* bound: operations started
          MaxTime,      \* bound: the last value of the clock
          NoThread      \* a value that is no thread

VARIABLES
  now,     \* the clock
  start,   \* bucket_start_ of the bucket in each slot, Null while none
  cnt,     \* the counter of the bucket
  mtx,     \* the thread that holds mtx_
  pc,      \* what the thread does next
  op,      \* the operation it is in
  time,    \* the clock value it works with
  idx,     \* the slot at which it looks in Values()
  list,    \* the slots whose buckets Values() has collected
  sum,     \* the sum so far
  ops,     \* operations started
  \* -- history, read by the properties only
  oldest,  \* when the oldest of the counts in the bucket was added
  log      \* how many events each window start has seen

ringVars == <<start, cnt, oldest>>
sumVars  == <<idx, list, sum>>
vars == <<now, start, cnt, mtx, pc, op, time, idx, list, sum, ops, oldest, log>>

Slots == 0 .. SampleCount - 1
Null  == -1

BucketLength == Interval \div SampleCount

\* Mutant: the slot is computed from milliseconds, not from buckets.
TimeIdxOfMillis(tm) == tm % SampleCount

CalculateTimeIdx(tm) == (tm \div BucketLength) % SampleCount

CalculateWindowStart(tm) == tm - (tm % BucketLength)

IsBucketDeprecated(tm, i) == tm - start[i] > Interval

\* The slot and the window start of the operation of thread t.
Slot(t)        == CalculateTimeIdx(time[t])
BucketStart(t) == CalculateWindowStart(time[t])

-----------------------------------------------------------------------------
Init ==
  /\ now = 0
  /\ start = [i \in Slots |-> Null]
  /\ cnt = [i \in Slots |-> 0]
  /\ mtx = NoThread
  /\ pc = [t \in Threads |-> "idle"]
  /\ op = [t \in Threads |-> "add"]
  /\ time = [t \in Threads |-> 0]
  /\ idx = [t \in Threads |-> 0]
  /\ list = [t \in Threads |-> {}]
  /\ sum = [t \in Threads |-> 0]
  /\ ops = 0
  /\ oldest = [i \in Slots |-> 0]
  /\ log = [s \in 0 .. MaxTime |-> 0]

Tick == /\ now < MaxTime
        /\ now' = now + 1
        /\ UNCHANGED <<ringVars, mtx, pc, op, time, sumVars, ops, log>>

-----------------------------------------------------------------------------
(***************************************************************************)
(* CurrentWindow(), the first thing that both operations do.               *)
(***************************************************************************)
Goto(t, label) == pc' = [pc EXCEPT ![t] = label]

\* CurrentWindow() has returned the bucket of the slot.
Return(t) == Goto(t, IF op[t] = "add" THEN "add" ELSE "values")

\* The end of an operation: its local variables go out of scope.
Leave(t) ==
  /\ Goto(t, "idle")
  /\ op' = [op EXCEPT ![t] = "add"]
  /\ time' = [time EXCEPT ![t] = 0]
  /\ idx' = [idx EXCEPT ![t] = 0]
  /\ sum' = [sum EXCEPT ![t] = 0]

Begin(t, o) ==
  /\ pc[t] = "idle"
  /\ ops < MaxOps
  /\ ops' = ops + 1
  /\ op' = [op EXCEPT ![t] = o]
  /\ time' = [time EXCEPT ![t] = now]
  /\ Goto(t, "load")
  /\ UNCHANGED <<now, ringVars, mtx, sumVars, log>>

LoadBucket(t) ==
  /\ pc[t] = "load"
  /\ \/ start[Slot(t)] = Null /\ Goto(t, "create")
     \/ start[Slot(t)] = BucketStart(t) /\ Return(t)
     \/ start[Slot(t)] \notin {Null, BucketStart(t)} /\ Goto(t, "newer")
  /\ UNCHANGED <<now, ringVars, mtx, op, time, sumVars, ops, log>>

\* The second and the third read of BucketStart().
IsNewer(t) ==
  /\ pc[t] = "newer"
  /\ Goto(t, IF BucketStart(t) > start[Slot(t)] THEN "reset" ELSE "older")
  /\ UNCHANGED <<now, ringVars, mtx, op, time, sumVars, ops, log>>

IsOlder(t) ==
  /\ pc[t] = "older"
  /\ Goto(t, IF BucketStart(t) < start[Slot(t)] THEN "behind" ELSE "load")
  /\ UNCHANGED <<now, ringVars, mtx, op, time, sumVars, ops, log>>

\* Mutant: a thread that finds the bucket created keeps mtx_.
CreateKeepsLock(t) ==
  /\ pc[t] = "create"
  /\ \/ mtx # NoThread /\ Goto(t, "load") /\ UNCHANGED <<ringVars, mtx>>
     \/ mtx = NoThread /\ start[Slot(t)] # Null /\ Goto(t, "load") /\ mtx' = t
        /\ UNCHANGED ringVars
     \/ /\ mtx = NoThread /\ start[Slot(t)] = Null
        /\ start' = [start EXCEPT ![Slot(t)] = BucketStart(t)]
        /\ Return(t)
        /\ UNCHANGED <<cnt, oldest, mtx>>
  /\ UNCHANGED <<now, op, time, sumVars, ops, log>>

\* mtx_ is released by the end of the step: only the new bucket shows.
CreateBucket(t) ==
  /\ pc[t] = "create"
  /\ \/ /\ mtx = NoThread /\ start[Slot(t)] = Null
        /\ start' = [start EXCEPT ![Slot(t)] = BucketStart(t)]
        /\ Return(t)
        /\ UNCHANGED <<cnt, oldest>>
     \/ /\ mtx # NoThread \/ start[Slot(t)] # Null
        /\ Goto(t, "load")
        /\ UNCHANGED ringVars
  /\ UNCHANGED <<now, mtx, op, time, sumVars, ops, log>>

\* ResetWindowTo, once try_lock has succeeded.  The start that made the
\* thread come here is not looked at again.
ResetTo(t) ==
  /\ pc[t] = "reset"
  /\ \/ /\ mtx = NoThread
        /\ mtx' = t
        /\ start' = [start EXCEPT ![Slot(t)] = BucketStart(t)]
        /\ Goto(t, "clear")
     \/ /\ mtx # NoThread
        /\ Goto(t, "load")
        /\ UNCHANGED <<mtx, start>>
  /\ UNCHANGED <<now, cnt, op, time, sumVars, ops, oldest, log>>

\* Mutant: the recycled bucket keeps its counts.
ResetKeepsCounts(t) ==
  /\ pc[t] = "clear"
  /\ mtx' = NoThread
  /\ Return(t)
  /\ UNCHANGED <<now, ringVars, op, time, sumVars, ops, log>>

ResetCounters(t) ==
  /\ pc[t] = "clear"
  /\ cnt' = [cnt EXCEPT ![Slot(t)] = 0]
  /\ mtx' = NoThread
  /\ Return(t)
  /\ UNCHANGED <<now, start, op, time, sumVars, ops, oldest, log>>

\* The time is already behind: a bucket of its own, outside the ring.  What
\* is added to it is never seen.
NewDetachedBucket(t) ==
  /\ pc[t] = "behind"
  /\ \/ op[t] = "add" /\ Leave(t)
     \/ op[t] = "sum" /\ Goto(t, "values") /\ UNCHANGED <<op, time, idx, sum>>
  /\ UNCHANGED <<now, ringVars, mtx, list, ops, log>>

-----------------------------------------------------------------------------
(***************************************************************************)
(* The operations.                                                         *)
(***************************************************************************)
Add(t) ==
  /\ pc[t] = "add"
  /\ cnt' = [cnt EXCEPT ![Slot(t)] = @ + 1]
  /\ oldest' = [oldest EXCEPT ![Slot(t)] = IF cnt[Slot(t)] = 0 THEN now ELSE @]
  /\ log' = [log EXCEPT ![BucketStart(t)] = @ + 1]
  /\ Leave(t)
  /\ UNCHANGED <<now, start, mtx, list, ops>>

\* Values() reads the clock again and then visits the slots in order.
Values(t) ==
  /\ pc[t] = "values"
  /\ time' = [time EXCEPT ![t] = now]
  /\ Goto(t, "collect")
  /\ UNCHANGED <<now, ringVars, mtx, op, sumVars, ops, log>>

Collect(t) ==
  /\ pc[t] = "collect"
  /\ list' = [list EXCEPT ![t] =
                IF start[idx[t]] = Null \/ IsBucketDeprecated(time[t], idx[t])
                  THEN @ ELSE @ \cup {idx[t]}]
  /\ IF idx[t] + 1 < SampleCount
       THEN idx' = [idx EXCEPT ![t] = @ + 1] /\ UNCHANGED pc
       ELSE Goto(t, "get") /\ UNCHANGED idx
  /\ UNCHANGED <<now, ringVars, mtx, op, time, sum, ops, log>>

Get(t) ==
  /\ pc[t] = "get"
  /\ \E i \in list[t] :
       /\ \A j \in list[t] : i <= j
       /\ sum' = [sum EXCEPT ![t] = @ + cnt[i]]
       /\ list' = [list EXCEPT ![t] = @ \ {i}]
  /\ UNCHANGED <<now, ringVars, mtx, pc, op, time, idx, ops, log>>

ReturnSum(t) ==
  /\ pc[t] = "get"
  /\ list[t] = {}
  /\ Leave(t)
  /\ UNCHANGED <<now, ringVars, mtx, list, ops, log>>

-----------------------------------------------------------------------------
Step(t) ==
  \/ LoadBucket(t) \/ IsNewer(t) \/ IsOlder(t) \/ CreateBucket(t)
  \/ ResetTo(t) \/ ResetCounters(t) \/ NewDetachedBucket(t)
  \/ Add(t) \/ Values(t) \/ Collect(t) \/ Get(t) \/ ReturnSum(t)

Next == Tick \/ \E t \in Threads : Step(t) \/ \E o \in {"add", "sum"} : Begin(t, o)

Spec == Init /\ [][Next]_vars

\* A thread inside an operation is scheduled again and again.
FairSpec == Spec /\ \A t \in Threads : WF_vars(Step(t))

-----------------------------------------------------------------------------
(***************************************************************************)
(* Properties.                                                             *)
(***************************************************************************)
Pcs == {"idle", "load", "newer", "older", "create", "reset", "clear", "behind",
        "add", "values", "collect", "get"}

RingTypeOK ==
  /\ now \in 0 .. MaxTime /\ ops \in Nat
  /\ start \in [Slots -> Int]
  /\ cnt \in [Slots -> Nat]
  /\ mtx \in Threads \cup {NoThread}
  /\ oldest \in [Slots -> Nat]
  /\ log \in [0 .. MaxTime -> Nat]

ThreadTypeOK ==
  /\ pc \in [Threads -> Pcs]
  /\ op \in [Threads -> {"add", "sum"}]
  /\ time \in [Threads -> 0 .. MaxTime]
  /\ idx \in [Threads -> Slots]
  /\ list \in [Threads -> SUBSET Slots]
  /\ sum \in [Threads -> Nat]

\* Every variable has its type; Values() stays inside the ring.
TypeOK == RingTypeOK /\ ThreadTypeOK

\* The bucket of slot i is of a new window already and has the counts of
\* the old one still.
InReset(i) == \E t \in Threads : pc[t] = "clear" /\ Slot(t) = i

\* GetSum never counts what was added before the Interval that ends when
\* Values() read the clock: of the buckets it has collected, whatever their
\* threads do in the meantime, none holds an older count.  The one exception
\* is a bucket between the two halves of ResetWindowTo, whose expired counts
\* are taken for new ones.
NoExpiredCount ==
  \A t \in Threads : pc[t] = "get" =>
    \A i \in list[t] : cnt[i] = 0 \/ InReset(i) \/ oldest[i] >= time[t] - Interval

\* How many events a set of windows has seen.
Seen(windows) ==
  LET upTo[n \in 0 .. MaxTime + 1] ==
        IF n = 0 THEN 0 ELSE upTo[n - 1] + (IF n - 1 \in windows THEN log[n - 1] ELSE 0)
  IN  upTo[MaxTime + 1]

\* Used by one thread, the window is exact up to the window that is Interval
\* old to the millisecond (IsBucketDeprecated compares with >): GetSum has
\* all the events of the later windows and none of the earlier ones.
WindowSumExact ==
  \A t \in Threads : pc[t] = "get" /\ list[t] = {} =>
    /\ Seen({s \in DOMAIN log : s > time[t] - Interval}) <= sum[t]
    /\ sum[t] <= Seen({s \in DOMAIN log : s >= time[t] - Interval})

\* An operation ends, although its thread only ever tries the lock and
\* starts over when somebody else has it.
OperationEnds == \A t \in Threads : pc[t] = "load" ~> pc[t] = "idle"
=============================================================================

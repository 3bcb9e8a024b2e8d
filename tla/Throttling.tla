----------------------------- MODULE Throttling -----------------------------
(***************************************************************************)
(* ThrottlingTrafficShapingChecker::DoCheck: calls are spread out so that  *)
(* one passes every cost milliseconds, waiting at most max_timeout_ for    *)
(* their turn.  Calls with a negative count or without a threshold are     *)
(* answered before any state is touched and are left out.                  *)
(***************************************************************************)
EXTENDS Integers

CONSTANTS
  Shaped,       \* the threads that make calls
  Cost,         \* cost_time of a call
  Timeout,      \* max_timeout_
  Garbage,      \* what the uninitialised last_passed_time_ may hold
  MaxMillis     \* bound

VARIABLES
  millis,       \* CurrentTimeMillis
  last,         \* last_passed_time_
  shaped,       \* where each call is
  seen          \* what each call has read and not used yet: cur_time, the first
                \* operand of wait_time, old_time

vars == <<millis, last, shaped, seen>>

Init ==
  /\ millis = 0 /\ last \in Garbage
  /\ shaped = [s \in Shaped |-> "idle"] /\ seen = [s \in Shaped |-> 0]

Tick ==
  /\ millis < MaxMillis /\ millis' = millis + 1
  /\ UNCHANGED <<last, shaped, seen>>

At(s, from, to) == shaped[s] = from /\ shaped' = [shaped EXCEPT ![s] = to]

\* The call is answered: let through, at once or after a wait, or blocked.
Answer(s) ==
  /\ shaped' = [shaped EXCEPT ![s] = "idle"] /\ seen' = [seen EXCEPT ![s] = 0]

-----------------------------------------------------------------------------
Enter(s) ==
  /\ At(s, "idle", "load")
  /\ seen' = [seen EXCEPT ![s] = millis]
  /\ UNCHANGED <<millis, last>>

\* Is the expected time past?
Load(s) ==
  /\ shaped[s] = "load"
  /\ shaped' = [shaped EXCEPT ![s] = IF Cost + last <= seen[s] THEN "store" ELSE "wait"]
  /\ UNCHANGED <<millis, last, seen>>

Store(s) ==
  /\ shaped[s] = "store"
  /\ last' = seen[s] /\ Answer(s)
  /\ UNCHANGED millis

\* The first look at the wait: its two operands are read in either order.
WaitLoad(s) ==
  /\ At(s, "wait", "clock")
  /\ seen' = [seen EXCEPT ![s] = Cost + last]
  /\ UNCHANGED <<millis, last>>

WaitClock(s) ==
  /\ At(s, "wait", "reload")
  /\ seen' = [seen EXCEPT ![s] = millis]
  /\ UNCHANGED <<millis, last>>

\* A wait that is too long blocks the call, any other sends it for its turn.
FirstLook(s, wait) ==
  /\ shaped' = [shaped EXCEPT ![s] = IF wait > Timeout THEN "idle" ELSE "add"]
  /\ seen' = [seen EXCEPT ![s] = 0]
  /\ UNCHANGED <<millis, last>>

ThenClock(s) == shaped[s] = "clock" /\ FirstLook(s, seen[s] - millis)

ThenLoad(s) == shaped[s] = "reload" /\ FirstLook(s, Cost + last - seen[s])

Wait(s) == WaitLoad(s) \/ WaitClock(s) \/ ThenClock(s) \/ ThenLoad(s)

\* fetch_add: the call takes the next turn.
FetchAdd(s) ==
  /\ At(s, "add", "again")
  /\ last' = last + Cost
  /\ seen' = [seen EXCEPT ![s] = Cost + last]
  /\ UNCHANGED millis

\* The second look: others may have taken turns since the first.
WaitAgain(s) ==
  /\ shaped[s] = "again"
  /\ IF seen[s] - millis > Timeout
       THEN At(s, "again", "sub") /\ UNCHANGED seen
       ELSE Answer(s)
  /\ UNCHANGED <<millis, last>>

\* Mutant: the turn of a call that gives up is not given back.
TurnLost == UNCHANGED last

TurnBack == last' = last - Cost

FetchSub(s) ==
  /\ shaped[s] = "sub"
  /\ TurnBack /\ Answer(s)
  /\ UNCHANGED millis

-----------------------------------------------------------------------------
Step(s) ==
  Load(s) \/ Store(s) \/ Wait(s) \/ FetchAdd(s) \/ WaitAgain(s) \/ FetchSub(s)

Next == Tick \/ \E s \in Shaped : Enter(s) \/ Step(s)

Spec == Init /\ [][Next]_vars

-----------------------------------------------------------------------------
(***************************************************************************)
(* Properties.                                                             *)
(***************************************************************************)
\* When nobody is in the checker the queue is no longer than the timeout: no
\* turn of a call that was blocked stays behind, whatever last_passed_time_
\* held at first.
NoTurnLost ==
  (\A s \in Shaped : shaped[s] = "idle") =>
     last <= millis + Timeout \/ last \in Garbage
=============================================================================

--------------------------- MODULE CircuitBreaker ---------------------------
(***************************************************************************)
(* The circuit breakers of one resource, as sentinel-core/circuitbreaker   *)
(* runs them: request threads go through CheckerSlot::Entry (TryPass on    *)
(* every breaker of the resource, in order) and, when the call ends,       *)
(* through CompleteStatSlot::Exit (RecordComplete on every breaker that    *)
(* the rule manager holds by then), while LoadRules replaces the breakers. *)
(*                                                                         *)
(* A step of a thread is one access to the shared state: a load of         *)
(* current_state_, a compare_exchange, a load or a store of                *)
(* next_retry_timestamp_, an addition to a counter; or a reading of the    *)
(* clock for that timestamp.  Everything that the code does between two    *)
(* such accesses is thread local and belongs to the step before.  The      *)
(* sliding counter of a breaker is a leap array of ONE bucket.  Its        *)
(* CurrentWindow() and the look of Values() at the bucket's age, each with *)
(* the clock it reads, are one step here; LeapArray opens them up.         *)
(***************************************************************************)
EXTENDS Naturals, Integers, Sequences, FiniteSets

CONSTANTS Threads,      \* the request threads
          MaxRules,     \* bound: length of a rule vector
          RuleLists,    \* the rule vectors that LoadRules is called with
          Outcomes,     \* what a finished call may have been
          MaxLoads,     \* bound: calls of LoadRules
          MaxCalls,     \* bound: guarded calls started by the threads
          MaxTime,      \* bound: the last value of the clock
          NoThread,     \* a value that is no thread
          NoRule        \* a value that is no rule

\* A rule of the resource.  threshold is in percent; a kErrorCount rule
\* reads it as a number of errors.  The resource name is not empty and
\* max_allowed_rt is not negative.
Rule == [strategy : {"kSlowRtRatio", "kErrorRatio", "kErrorCount"},
         threshold : Nat, retry_timeout : Nat, stat_interval : Nat,
         min_request_amount : Nat]

ASSUME ConstantsAssumption ==
  /\ MaxRules \in Nat /\ MaxLoads \in Nat
  /\ MaxCalls \in Nat /\ MaxTime \in Nat
  /\ Outcomes \subseteq SUBSET {"error", "slow"}
  /\ NoThread \notin Threads
  /\ NoRule \notin Rule
  /\ RuleLists \subseteq Seq(Rule)
  /\ \A list \in RuleLists : Len(list) <= MaxRules

\* A breaker object is named after the call of LoadRules that made it and
\* its place in the vector of that call.
Breaker == (1 .. MaxLoads) \X (1 .. MaxRules)

VARIABLES
  now,        \* the clock
  \* -- RuleManager
  lastValue,  \* last_value_ of the rule property
  cbMap,      \* cb_map_ of the resource: the breakers in rule order
  loads, calls,  \* LoadRules calls and guarded calls so far
  \* -- the breaker objects
  rule,       \* rule_, NoRule while the object has not been created
  state,      \* current_state_
  nextRetry,  \* next_retry_timestamp_
  winStart,   \* start of the only bucket, -1 while there is none
  bad, total, \* slow_count_ or error_count_, and total_count_, of the bucket
  \* -- the request threads
  pc,         \* what the thread does next
  cbs,        \* the vector that GetCircuitBreakers returned to it
  pos,        \* its position in cbs
  out,        \* the outcome of its call
  snap,       \* what it has read and not used yet: the bad count it has
              \* summed, the clock, or next_retry_timestamp_
  \* -- history, read by the properties only
  prober,     \* the thread that last took the breaker half open
  lost,       \* that thread left without reporting to the breaker
  openedAt,   \* when the thread opened the breaker that it has still to stamp
  owedSince,  \* while the breaker is open, the earliest opening still to be
              \* stamped when it was opened: this one, unless openers overlap
  fresh       \* the breaker has not been reopened since the thread loaded its
              \* retry timestamp, with no write of that outstanding

managerVars == <<lastValue, cbMap, loads>>
counterVars == <<winStart, bad, total>>
historyVars == <<prober, lost, openedAt, owedSince, fresh>>
vars == <<now, lastValue, cbMap, loads, calls, rule, state, nextRetry,
          winStart, bad, total, pc, cbs, pos, out, snap,
          prober, lost, openedAt, owedSince, fresh>>

CheckPcs  == {"tryPass", "retryTimeout", "loadTimestamp", "readClock", "toHalfOpen"}
StampPcs  == {"stampClock", "stamp"}
RecordPcs == {"window", "addBad", "addTotal", "loadOpen", "loadHalfOpen",
              "halfOpenToOpen", "halfOpenToClose", "resetBad", "resetTotal",
              "sumBad", "sumTotal", "trip", "closeToOpen"} \cup StampPcs

-----------------------------------------------------------------------------
(***************************************************************************)
(* Rules.                                                                  *)
(***************************************************************************)
IsValidRule(r) ==
  /\ r.retry_timeout > 0
  /\ r.stat_interval > 0
  /\ r.strategy \in {"kSlowRtRatio", "kErrorRatio"} => r.threshold <= 100

\* NewCircuitBreaker returns nullptr for every other strategy.
HasBreakerClass(r) == r.strategy \in {"kSlowRtRatio", "kErrorRatio"}

\* Is a call of outcome o a bad one for breaker b?
Bad(b, o) == IF rule[b].strategy = "kSlowRtRatio" THEN "slow" \in o
                                                  ELSE "error" \in o

\* err_count * 1.0 / total_count > threshold, in integers.  The quotient is
\* NaN (no trip) for 0/0 and infinite (a trip) for n/0, as here.
AboveThreshold(r, n, d) == n * 100 > r.threshold * d

-----------------------------------------------------------------------------
Init ==
  /\ now = 0
  /\ lastValue = <<>> /\ cbMap = <<>> /\ loads = 0 /\ calls = 0
  /\ rule = [b \in Breaker |-> NoRule]
  /\ state = [b \in Breaker |-> "Closed"]
  /\ nextRetry = [b \in Breaker |-> 0]
  /\ winStart = [b \in Breaker |-> -1]
  /\ bad = [b \in Breaker |-> 0]
  /\ total = [b \in Breaker |-> 0]
  /\ pc = [t \in Threads |-> "idle"]
  /\ cbs = [t \in Threads |-> <<>>]
  /\ pos = [t \in Threads |-> 1]
  /\ out = [t \in Threads |-> {}]
  /\ snap = [t \in Threads |-> 0]
  /\ prober = [b \in Breaker |-> NoThread]
  /\ lost = [b \in Breaker |-> FALSE]
  /\ openedAt = [t \in Threads |-> 0]
  /\ owedSince = [b \in Breaker |-> 0]
  /\ fresh = [t \in Threads |-> FALSE]

Tick == /\ now < MaxTime
        /\ now' = now + 1
        /\ UNCHANGED <<managerVars, calls, rule, state, nextRetry, counterVars,
                       pc, cbs, pos, out, snap, historyVars>>

-----------------------------------------------------------------------------
(***************************************************************************)
(* LoadRules(list): DynamicSentinelProperty::UpdateValue drops a value     *)
(* equal to the last one; RulePropertyListener::ConfigUpdate rebuilds the  *)
(* breaker vector under update_mtx_.  A rule that a current breaker has    *)
(* keeps the FIRST such breaker; every other usable rule gets a new one.   *)
(***************************************************************************)
Usable(r) == IsValidRule(r) /\ HasBreakerClass(r)

\* f lists the positions of the usable rules of the vector, in order.
Keeps(f, list) ==
  /\ \A j, k \in DOMAIN f : j < k => f[j] < f[k]
  /\ {f[k] : k \in DOMAIN f} = {k \in DOMAIN list : Usable(list[k])}

\* Mutant: only the first breaker is compared with the rule.
HoldersOfFirst(r) == {j \in DOMAIN cbMap \cap {1} : rule[cbMap[j]] = r}

HoldersOf(r) == {j \in DOMAIN cbMap : rule[cbMap[j]] = r}

FirstHolder(r) == CHOOSE j \in HoldersOf(r) : \A k \in HoldersOf(r) : j <= k

GetExistingSameCbOrNew(r, k) ==
  IF HoldersOf(r) # {} THEN cbMap[FirstHolder(r)] ELSE <<loads + 1, k>>

BuildCircuitBreakerMap(list, f) ==
  /\ cbMap' = [k \in DOMAIN f |-> GetExistingSameCbOrNew(list[f[k]], k)]
  /\ rule' = [b \in Breaker |->
                IF /\ b[1] = loads + 1
                   /\ b[2] \in DOMAIN f
                   /\ HoldersOf(list[f[b[2]]]) = {}
                  THEN list[f[b[2]]]
                  ELSE rule[b]]

LoadRules(list) ==
  /\ loads < MaxLoads
  /\ loads' = loads + 1
  /\ \/ list = lastValue /\ UNCHANGED <<lastValue, cbMap, rule>>
     \/ /\ list # lastValue
        /\ lastValue' = list
        /\ \E n \in 0 .. Len(list) : \E f \in [1 .. n -> DOMAIN list] :
              Keeps(f, list) /\ BuildCircuitBreakerMap(list, f)
  /\ UNCHANGED <<now, calls, state, nextRetry, counterVars,
                 pc, cbs, pos, out, snap, historyVars>>

-----------------------------------------------------------------------------
(***************************************************************************)
(* Entering: SphU::Entry reaches CheckerSlot::Entry, the last checker of   *)
(* the chain, so a call that all breakers let pass runs.                   *)
(***************************************************************************)
Cur(t) == cbs[t][pos[t]]

\* Breakers that thread t has taken half open and now fails to report to.
Abandons(t) == {b \in Breaker : state[b] = "HalfOpen" /\ prober[b] = t}

MarkLost(S) == lost' = [b \in Breaker |-> lost[b] \/ b \in S]

\* Another step at the same breaker.
Goto(t, label) == pc' = [pc EXCEPT ![t] = label] /\ UNCHANGED <<cbs, pos, out>>

\* The next breaker of the vector, or the call itself.
PassNext(t) ==
  /\ IF pos[t] < Len(cbs[t])
       THEN /\ pos' = [pos EXCEPT ![t] = @ + 1]
            /\ pc' = [pc EXCEPT ![t] = "tryPass"]
       ELSE /\ pc' = [pc EXCEPT ![t] = "running"]
            /\ UNCHANGED pos
  /\ UNCHANGED <<cbs, out>>

\* The end of a call: its local variables go out of scope.
Leave(t) ==
  /\ pc' = [pc EXCEPT ![t] = "idle"]
  /\ cbs' = [cbs EXCEPT ![t] = <<>>]
  /\ pos' = [pos EXCEPT ![t] = 1]
  /\ out' = [out EXCEPT ![t] = {}]

\* A blocked entry carries a block error; CompleteStatSlot::Exit returns at
\* once for it, so no breaker hears of the call again.
Block(t) == Leave(t) /\ MarkLost(Abandons(t))

Entry(t) ==
  /\ pc[t] = "idle"
  /\ calls < MaxCalls
  /\ calls' = calls + 1
  /\ cbs' = [cbs EXCEPT ![t] = cbMap]
  /\ pos' = [pos EXCEPT ![t] = 1]
  /\ pc' = [pc EXCEPT ![t] = IF cbMap = <<>> THEN "running" ELSE "tryPass"]
  /\ UNCHANGED <<now, managerVars, rule, state, nextRetry, counterVars,
                 out, snap, historyVars>>

TryPass(t) ==
  /\ pc[t] = "tryPass"
  /\ \/ state[Cur(t)] = "Closed" /\ PassNext(t) /\ UNCHANGED lost
     \/ state[Cur(t)] = "Open" /\ Goto(t, "retryTimeout") /\ UNCHANGED lost
     \/ state[Cur(t)] = "HalfOpen" /\ Block(t)
  /\ UNCHANGED <<now, managerVars, calls, rule, state, nextRetry, counterVars,
                 snap, prober, openedAt, owedSince, fresh>>

\* The threads that have opened b and have still to write its timestamp.
Stampers(b) == {t \in Threads : pc[t] \in StampPcs /\ Cur(t) = b}

StampPending(b) == Stampers(b) # {}

\* History: what the load of the timestamp tells thread t.
NoteLoad(t) ==
  fresh' = [fresh EXCEPT ![t] = state[Cur(t)] = "Open" /\ ~StampPending(Cur(t))]

\* Mutant: the timeout ends one tick early.
ArrivedEarly(time, stamp) == time + 1 >= stamp

Arrived(time, stamp) == time >= stamp

\* RetryTimeoutArrived() evaluates the operands of its >= in either order: it
\* reads the clock and then loads the timestamp ...
RetryClockFirst(t) ==
  /\ pc[t] = "retryTimeout"
  /\ snap' = [snap EXCEPT ![t] = now]
  /\ Goto(t, "loadTimestamp")
  /\ UNCHANGED <<now, managerVars, calls, rule, state, nextRetry, counterVars,
                 historyVars>>

LoadTimestamp(t) ==
  /\ pc[t] = "loadTimestamp"
  /\ snap' = [snap EXCEPT ![t] = 0]
  /\ IF Arrived(snap[t], nextRetry[Cur(t)])
       THEN Goto(t, "toHalfOpen") /\ NoteLoad(t) /\ UNCHANGED lost
       ELSE Block(t) /\ UNCHANGED fresh
  /\ UNCHANGED <<now, managerVars, calls, rule, state, nextRetry, counterVars,
                 prober, openedAt, owedSince>>

\* ... or the timestamp and then the clock.
RetryTimestampFirst(t) ==
  /\ pc[t] = "retryTimeout"
  /\ snap' = [snap EXCEPT ![t] = nextRetry[Cur(t)]]
  /\ NoteLoad(t)
  /\ Goto(t, "readClock")
  /\ UNCHANGED <<now, managerVars, calls, rule, state, nextRetry, counterVars,
                 prober, lost, openedAt, owedSince>>

ReadClock(t) ==
  /\ pc[t] = "readClock"
  /\ snap' = [snap EXCEPT ![t] = 0]
  /\ IF Arrived(now, snap[t])
       THEN Goto(t, "toHalfOpen") /\ UNCHANGED <<lost, fresh>>
       ELSE Block(t) /\ fresh' = [fresh EXCEPT ![t] = FALSE]
  /\ UNCHANGED <<now, managerVars, calls, rule, state, nextRetry, counterVars,
                 prober, openedAt, owedSince>>

RetryTimeoutArrived(t) ==
  RetryClockFirst(t) \/ LoadTimestamp(t) \/ RetryTimestampFirst(t) \/ ReadClock(t)

FromOpenToHalfOpen(t) ==
  /\ pc[t] = "toHalfOpen"
  /\ \/ /\ state[Cur(t)] = "Open"
        /\ state' = [state EXCEPT ![Cur(t)] = "HalfOpen"]
        /\ prober' = [prober EXCEPT ![Cur(t)] = t]
        /\ lost' = [lost EXCEPT ![Cur(t)] = FALSE]
        /\ PassNext(t)
        /\ owedSince' = [owedSince EXCEPT ![Cur(t)] = 0]
     \/ /\ state[Cur(t)] # "Open"
        /\ Block(t)
        /\ UNCHANGED <<state, prober, owedSince>>
  /\ fresh' = [fresh EXCEPT ![t] = FALSE]
  /\ UNCHANGED <<now, managerVars, calls, rule, nextRetry, counterVars,
                 snap, openedAt>>

-----------------------------------------------------------------------------
(***************************************************************************)
(* Leaving: CompleteStatSlot::Exit fetches the breakers AGAIN and calls    *)
(* RecordComplete on each.                                                 *)
(***************************************************************************)
Exit(t, o) ==
  /\ pc[t] = "running"
  /\ \/ cbMap = <<>> /\ Leave(t)
     \/ /\ cbMap # <<>>
        /\ cbs' = [cbs EXCEPT ![t] = cbMap]
        /\ pos' = [pos EXCEPT ![t] = 1]
        /\ out' = [out EXCEPT ![t] = o]
        /\ pc' = [pc EXCEPT ![t] = "window"]
  /\ MarkLost({b \in Abandons(t) : \A k \in DOMAIN cbMap : cbMap[k] # b})
  /\ UNCHANGED <<now, managerVars, calls, rule, state, nextRetry, counterVars,
                 snap, prober, openedAt, owedSince, fresh>>

\* The next breaker of the vector, or the end of the call.
RecordNext(t) ==
  \/ /\ pos[t] < Len(cbs[t])
     /\ pos' = [pos EXCEPT ![t] = @ + 1]
     /\ pc' = [pc EXCEPT ![t] = "window"]
     /\ UNCHANGED <<cbs, out>>
  \/ pos[t] = Len(cbs[t]) /\ Leave(t)

WindowStart(b) == now - (now % rule[b].stat_interval)

\* CurrentWindow() of the breaker's leap array: the bucket moves to the
\* window of the present and is emptied when it was of an earlier one.
Roll(b) ==
  IF winStart[b] = WindowStart(b)
    THEN UNCHANGED counterVars
    ELSE /\ winStart' = [winStart EXCEPT ![b] = WindowStart(b)]
         /\ bad' = [bad EXCEPT ![b] = 0]
         /\ total' = [total EXCEPT ![b] = 0]

RecordWindow(t) ==
  /\ pc[t] = "window"
  /\ Roll(Cur(t))
  /\ Goto(t, IF Bad(Cur(t), out[t]) THEN "addBad" ELSE "addTotal")
  /\ UNCHANGED <<now, managerVars, calls, rule, state, nextRetry,
                 snap, historyVars>>

AddBadCount(t) ==
  /\ pc[t] = "addBad"
  /\ bad' = [bad EXCEPT ![Cur(t)] = @ + 1]
  /\ Goto(t, "addTotal")
  /\ UNCHANGED <<now, managerVars, calls, rule, state, nextRetry, winStart,
                 total, snap, historyVars>>

AddTotalCount(t) ==
  /\ pc[t] = "addTotal"
  /\ total' = [total EXCEPT ![Cur(t)] = @ + 1]
  /\ Goto(t, "loadOpen")
  /\ UNCHANGED <<now, managerVars, calls, rule, state, nextRetry, winStart,
                 bad, snap, historyVars>>

\* Mutant: a half-open breaker is taken for an open one.
LoadNotClosed(t) ==
  /\ pc[t] = "loadOpen"
  /\ IF state[Cur(t)] # "Closed" THEN RecordNext(t) ELSE Goto(t, "loadHalfOpen")
  /\ UNCHANGED <<now, managerVars, calls, rule, state, nextRetry, counterVars,
                 snap, historyVars>>

\* The first load of current_state_ in RecordAndHandleStateChange ...
LoadOpen(t) ==
  /\ pc[t] = "loadOpen"
  /\ IF state[Cur(t)] = "Open" THEN RecordNext(t) ELSE Goto(t, "loadHalfOpen")
  /\ UNCHANGED <<now, managerVars, calls, rule, state, nextRetry, counterVars,
                 snap, historyVars>>

\* Mutant: a good probe does not close the breaker.
LoadHalfOpenBadOnly(t) ==
  /\ pc[t] = "loadHalfOpen"
  /\ Goto(t, IF state[Cur(t)] = "HalfOpen" /\ Bad(Cur(t), out[t])
               THEN "halfOpenToOpen" ELSE "sumBad")
  /\ UNCHANGED <<now, managerVars, calls, rule, state, nextRetry, counterVars,
                 snap, historyVars>>

\* ... and the second, which may find another state than the first.
LoadHalfOpen(t) ==
  /\ pc[t] = "loadHalfOpen"
  /\ Goto(t, IF state[Cur(t)] # "HalfOpen" THEN "sumBad"
             ELSE IF Bad(Cur(t), out[t]) THEN "halfOpenToOpen"
             ELSE "halfOpenToClose")
  /\ UNCHANGED <<now, managerVars, calls, rule, state, nextRetry, counterVars,
                 snap, historyVars>>

\* History: the openings of b still to be stamped when b is opened now.
Owed(b) == {now} \cup {openedAt[u] : u \in Stampers(b)}

EarliestOwed(b) == CHOOSE x \in Owed(b) : \A y \in Owed(b) : x <= y

\* Thread t turns the breaker Open and has still to write the timestamp.
Opens(t) ==
  /\ state' = [state EXCEPT ![Cur(t)] = "Open"]
  /\ openedAt' = [openedAt EXCEPT ![t] = now]
  /\ owedSince' = [owedSince EXCEPT ![Cur(t)] = EarliestOwed(Cur(t))]
  /\ fresh' = [u \in Threads |-> fresh[u] /\ ~(pc[u] \in CheckPcs /\ Cur(u) = Cur(t))]
  /\ Goto(t, "stampClock")

FromHalfOpenToOpen(t) ==
  /\ pc[t] = "halfOpenToOpen"
  /\ \/ state[Cur(t)] = "HalfOpen" /\ Opens(t)
     \/ /\ state[Cur(t)] # "HalfOpen"
        /\ RecordNext(t)
        /\ UNCHANGED <<state, openedAt, owedSince, fresh>>
  /\ UNCHANGED <<now, managerVars, calls, rule, nextRetry, counterVars,
                 snap, prober, lost>>

FromCloseToOpen(t) ==
  /\ pc[t] = "closeToOpen"
  /\ \/ state[Cur(t)] = "Closed" /\ Opens(t)
     \/ /\ state[Cur(t)] # "Closed"
        /\ RecordNext(t)
        /\ UNCHANGED <<state, openedAt, owedSince, fresh>>
  /\ UNCHANGED <<now, managerVars, calls, rule, nextRetry, counterVars,
                 snap, prober, lost>>

\* Mutant: the timestamp is the time of the opening.
WithoutTimeout(t) ==
  /\ pc[t] = "stampClock"
  /\ snap' = [snap EXCEPT ![t] = now]
  /\ Goto(t, "stamp")
  /\ UNCHANGED <<now, managerVars, calls, rule, state, nextRetry, counterVars,
                 historyVars>>

\* UpdateNextRetryTimestamp() reads the clock and adds the timeout ...
ComputeTimestamp(t) ==
  /\ pc[t] = "stampClock"
  /\ snap' = [snap EXCEPT ![t] = now + rule[Cur(t)].retry_timeout]
  /\ Goto(t, "stamp")
  /\ UNCHANGED <<now, managerVars, calls, rule, state, nextRetry, counterVars,
                 historyVars>>

\* ... and then stores the sum, over whatever has been stored meanwhile.
UpdateNextRetryTimestamp(t) ==
  /\ pc[t] = "stamp"
  /\ nextRetry' = [nextRetry EXCEPT ![Cur(t)] = snap[t]]
  /\ snap' = [snap EXCEPT ![t] = 0]
  /\ openedAt' = [openedAt EXCEPT ![t] = 0]
  /\ RecordNext(t)
  /\ UNCHANGED <<now, managerVars, calls, rule, state, counterVars,
                 prober, lost, owedSince, fresh>>

\* Mutant: a plain store instead of the compare_exchange.
StoreClosed(t) ==
  /\ pc[t] = "halfOpenToClose"
  /\ state' = [state EXCEPT ![Cur(t)] = "Closed"]
  /\ Goto(t, "resetBad")
  /\ UNCHANGED <<now, managerVars, calls, rule, nextRetry, counterVars,
                 snap, historyVars>>

FromHalfOpenToClose(t) ==
  /\ pc[t] = "halfOpenToClose"
  /\ \/ /\ state[Cur(t)] = "HalfOpen"
        /\ state' = [state EXCEPT ![Cur(t)] = "Closed"]
        /\ Goto(t, "resetBad")
     \/ /\ state[Cur(t)] # "HalfOpen"
        /\ RecordNext(t)
        /\ UNCHANGED state
  /\ UNCHANGED <<now, managerVars, calls, rule, nextRetry, counterVars,
                 snap, historyVars>>

\* Reset(): roll the window and clear the two counters of the bucket, one
\* after the other.
ResetBadCount(t) ==
  /\ pc[t] = "resetBad"
  /\ IF winStart[Cur(t)] = WindowStart(Cur(t))
       THEN /\ bad' = [bad EXCEPT ![Cur(t)] = 0]
            /\ UNCHANGED <<winStart, total>>
       ELSE Roll(Cur(t))
  /\ Goto(t, "resetTotal")
  /\ UNCHANGED <<now, managerVars, calls, rule, state, nextRetry,
                 snap, historyVars>>

ResetTotalCount(t) ==
  /\ pc[t] = "resetTotal"
  /\ total' = [total EXCEPT ![Cur(t)] = 0]
  /\ RecordNext(t)
  /\ UNCHANGED <<now, managerVars, calls, rule, state, nextRetry, winStart, bad,
                 snap, historyVars>>

\* Values(): the bucket counts unless it is deprecated; no bucket sums to
\* 0 of 0, which trips nothing.
SumBadCount(t) ==
  /\ pc[t] = "sumBad"
  /\ \/ /\ now - winStart[Cur(t)] <= rule[Cur(t)].stat_interval
        /\ snap' = [snap EXCEPT ![t] = bad[Cur(t)]]
        /\ Goto(t, "sumTotal")
     \/ /\ now - winStart[Cur(t)] > rule[Cur(t)].stat_interval
        /\ RecordNext(t)
        /\ UNCHANGED snap
  /\ UNCHANGED <<now, managerVars, calls, rule, state, nextRetry, counterVars,
                 historyVars>>

SumTotalCount(t) ==
  LET b == Cur(t) IN
  /\ pc[t] = "sumTotal"
  /\ snap' = [snap EXCEPT ![t] = 0]
  /\ IF /\ total[b] >= rule[b].min_request_amount
        /\ AboveThreshold(rule[b], snap[t], total[b])
       THEN Goto(t, "trip")
       ELSE RecordNext(t)
  /\ UNCHANGED <<now, managerVars, calls, rule, state, nextRetry, counterVars,
                 historyVars>>

\* The third load of current_state_ and the switch on it.
Trip(t) ==
  /\ pc[t] = "trip"
  /\ \/ state[Cur(t)] = "Closed" /\ Goto(t, "closeToOpen")
     \/ state[Cur(t)] = "HalfOpen" /\ Goto(t, "halfOpenToOpen")
     \/ state[Cur(t)] = "Open" /\ RecordNext(t)
  /\ UNCHANGED <<now, managerVars, calls, rule, state, nextRetry, counterVars,
                 snap, historyVars>>

-----------------------------------------------------------------------------
CheckStep(t) == TryPass(t) \/ RetryTimeoutArrived(t) \/ FromOpenToHalfOpen(t)

RecordStep(t) ==
  \/ RecordWindow(t) \/ AddBadCount(t) \/ AddTotalCount(t)
  \/ LoadOpen(t) \/ LoadHalfOpen(t)
  \/ FromHalfOpenToOpen(t) \/ FromHalfOpenToClose(t) \/ FromCloseToOpen(t)
  \/ ComputeTimestamp(t) \/ UpdateNextRetryTimestamp(t)
  \/ ResetBadCount(t) \/ ResetTotalCount(t)
  \/ SumBadCount(t) \/ SumTotalCount(t) \/ Trip(t)

Next ==
  \/ Tick
  \/ \E list \in RuleLists : LoadRules(list)
  \/ \E t \in Threads : \/ Entry(t) \/ CheckStep(t) \/ RecordStep(t)
                        \/ \E o \in Outcomes : Exit(t, o)

Spec == Init /\ [][Next]_vars

\* A thread inside the slots keeps running and a guarded call ends; nothing
\* obliges a caller to make another call or the clock to be seen to move.
Fairness == \A t \in Threads :
              WF_vars(CheckStep(t) \/ RecordStep(t) \/ \E o \in Outcomes : Exit(t, o))

FairSpec == Spec /\ Fairness

-----------------------------------------------------------------------------
(***************************************************************************)
(* Properties.                                                             *)
(***************************************************************************)
\* The breaker objects that exist.
Made == {b \in Breaker : rule[b] # NoRule}

ManagerTypeOK ==
  /\ now \in Nat /\ loads \in 0 .. MaxLoads /\ calls \in Nat
  /\ lastValue \in Seq(Rule)
  /\ rule \in [Breaker -> {r \in Rule : Usable(r)} \cup {NoRule}]
  /\ cbMap \in Seq(Made)

BreakerTypeOK ==
  /\ state \in [Breaker -> {"Closed", "Open", "HalfOpen"}]
  /\ nextRetry \in [Breaker -> Nat]
  /\ winStart \in [Breaker -> Int]
  /\ bad \in [Breaker -> Nat]
  /\ total \in [Breaker -> Nat]

ThreadTypeOK ==
  /\ pc \in [Threads -> {"idle", "running"} \cup CheckPcs \cup RecordPcs]
  /\ cbs \in [Threads -> Seq(Made)]
  /\ pos \in [Threads -> Nat \ {0}]
  /\ \A t \in Threads : pc[t] \in CheckPcs \cup RecordPcs => pos[t] <= Len(cbs[t])
  /\ out \in [Threads -> SUBSET {"error", "slow"}]
  /\ snap \in [Threads -> Nat]

HistoryTypeOK ==
  /\ prober \in [Breaker -> Threads \cup {NoThread}]
  /\ lost \in [Breaker -> BOOLEAN]
  /\ openedAt \in [Threads -> Nat]
  /\ owedSince \in [Breaker -> Nat]
  /\ fresh \in [Threads -> BOOLEAN]

\* Every variable has its type; a thread in a slot stands at a breaker of
\* its vector that has been created.
TypeOK == ManagerTypeOK /\ BreakerTypeOK /\ ThreadTypeOK /\ HistoryTypeOK

\* Whatever the threads have read before, a breaker only moves along
\* Closed -> Open -> HalfOpen -> {Open, Closed}: a late completion never
\* closes an open breaker and never opens a probe for itself.
LegalTransitions ==
  [][\A b \in Breaker : state'[b] # state[b] =>
       <<state[b], state'[b]>> \in {<<"Closed", "Open">>, <<"Open", "HalfOpen">>,
                                    <<"HalfOpen", "Open">>, <<"HalfOpen", "Closed">>}]_vars

\* Once every opener has written the timestamp, an open breaker turns nobody
\* loose before retry_timeout has passed since its last opening, or, when
\* openers overlapped, since the earliest of the openings that were still to be
\* stamped then.  (No more is true: UpdateNextRetryTimestamp computes its value
\* before it stores it, so an opener that was preempted between the two stores
\* an old time over that of a later opening.)
TimestampCoversTimeout ==
  \A b \in Made :
    state[b] = "Open" /\ ~StampPending(b)
      => nextRetry[b] >= owedSince[b] + rule[b].retry_timeout

\* A thread about to take an open breaker half open does so no earlier than
\* that, if no write of next_retry_timestamp_ was outstanding when it loaded it
\* and the breaker has not been reopened since.  (Without either proviso the
\* code lets a probe through early: FromCloseToOpen publishes Open before the
\* timestamp, and TryPass looks at it before its compare_exchange.)
FreshProbeIsDue ==
  \A t \in Threads :
    /\ pc[t] = "toHalfOpen"
    /\ fresh[t]
    /\ state[Cur(t)] = "Open"
    => now >= owedSince[Cur(t)] + rule[Cur(t)].retry_timeout

\* Thread t is on its way to settle the half-open breaker b.
Undecided(t, b) ==
  \/ pc[t] \in CheckPcs /\ \E k \in 1 .. pos[t] - 1 : cbs[t][k] = b
  \/ pc[t] = "running"
  \/ /\ pc[t] \in RecordPcs
     /\ \E k \in pos[t] + 1 .. Len(cbs[t]) : cbs[t][k] = b
  \/ /\ pc[t] \in {"window", "addBad", "addTotal", "loadOpen", "loadHalfOpen",
                   "halfOpenToOpen", "halfOpenToClose"}
     /\ Cur(t) = b

\* A half-open breaker blocks everybody, so somebody must still be on the
\* way to settle it: the thread that took it half open, unless that thread
\* was blocked by a later breaker of the vector, or found the breaker gone
\* from the rule manager when its call ended.
ProbeOutstanding ==
  \A b \in Breaker :
    state[b] = "HalfOpen" => lost[b] \/ (prober[b] \in Threads /\ Undecided(prober[b], b))

\* Loading rules never replaces the breaker of a rule that stays: a new
\* breaker object is only made for a rule that no current breaker has
\* (GetExistingSameCbOrNew), so an open breaker survives a reload.
ReloadReuses ==
  [][\A k \in DOMAIN cbMap' : cbMap'[k] \notin Made =>
       \A j \in DOMAIN cbMap : rule[cbMap[j]] # rule'[cbMap'[k]]]_vars

\* One of several does not either, unless its probe gets lost.
HalfOpenResolvedOrLost ==
  \A b \in Breaker : state[b] = "HalfOpen" ~> (state[b] # "HalfOpen" \/ lost[b])
=============================================================================

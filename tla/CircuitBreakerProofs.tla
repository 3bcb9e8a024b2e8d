------------------------ MODULE CircuitBreakerProofs ------------------------
(***************************************************************************)
(* Proofs about CircuitBreaker, for every set of threads, every set of     *)
(* rule vectors and every bound.                                           *)
(***************************************************************************)
EXTENDS CircuitBreaker, DataFacts, SequenceTheorems, TLAPS

\* Where a thread in a slot stands there is a breaker with a rule.
LEMMA CurMade ==
  ASSUME TypeOK, NEW t \in Threads, pc[t] \in CheckPcs \cup RecordPcs
  PROVE  /\ Cur(t) \in Made /\ Cur(t) \in Breaker
         /\ rule[Cur(t)] \in Rule /\ Usable(rule[Cur(t)])
<1>1. cbs[t] \in Seq(Made) /\ pos[t] \in 1 .. Len(cbs[t])
  BY DEF TypeOK, ThreadTypeOK
<1>2. Cur(t) \in Made
  BY <1>1 DEF Cur
<1> QED
  BY <1>2 DEF Made, TypeOK, ManagerTypeOK

\* The steps that keep the rules keep the created breakers.
LEMMA MadeStable == UNCHANGED rule => Made' = Made
BY DEF Made

\* Types hold of the state before the first call of LoadRules.
LEMMA InitTypeOK == Init => TypeOK
<1> SUFFICES ASSUME Init PROVE TypeOK
  OBVIOUS
<1>1. ManagerTypeOK
  BY ConstantsAssumption, EmptySeq DEF Init, ManagerTypeOK
<1>2. BreakerTypeOK
  BY DEF Init, BreakerTypeOK
<1>3. ThreadTypeOK
  BY EmptySeq DEF Init, ThreadTypeOK, CheckPcs, RecordPcs, StampPcs
<1>4. HistoryTypeOK
  BY DEF Init, HistoryTypeOK
<1> QED
  BY <1>1, <1>2, <1>3, <1>4 DEF TypeOK

-----------------------------------------------------------------------------
(***************************************************************************)
(* Loading rules: the new vector consists of created breakers, and no      *)
(* created breaker goes away.                                              *)
(***************************************************************************)
LEMMA LoadRulesTypeOK ==
  ASSUME TypeOK, NEW list \in RuleLists, LoadRules(list)
  PROVE  TypeOK' /\ Made \subseteq Made'
<1>1. loads \in Nat /\ loads + 1 \in 1 .. MaxLoads /\ loads' = loads + 1
  BY ConstantsAssumption DEF LoadRules, TypeOK, ManagerTypeOK
<1>2. ManagerTypeOK' /\ Made \subseteq Made'
  <2>1. CASE list = lastValue /\ UNCHANGED <<lastValue, cbMap, rule>>
    <3>1. Made' = Made
      BY <2>1, MadeStable
    <3> QED
      BY <1>1, <2>1, <3>1, ConstantsAssumption DEF TypeOK, ManagerTypeOK, LoadRules
  <2>2. CASE /\ lastValue' = list
             /\ \E n \in 0 .. Len(list) : \E f \in [1 .. n -> DOMAIN list] :
                  Keeps(f, list) /\ BuildCircuitBreakerMap(list, f)
    <3>1. list \in Seq(Rule) /\ Len(list) <= MaxRules /\ Len(list) \in Nat
      BY ConstantsAssumption
    <3>2. PICK n \in 0 .. Len(list) : \E f \in [1 .. n -> DOMAIN list] :
                  Keeps(f, list) /\ BuildCircuitBreakerMap(list, f)
      BY <2>2
    <3>3. PICK f \in [1 .. n -> DOMAIN list] :
                  Keeps(f, list) /\ BuildCircuitBreakerMap(list, f)
      BY <3>2
    <3>4. n \in Nat /\ n <= MaxRules
      BY <3>1, ConstantsAssumption
    <3>5. \A k \in 1 .. n : list[f[k]] \in Rule /\ Usable(list[f[k]])
      BY <3>1, <3>3 DEF Keeps
    <3>6. rule' \in [Breaker -> {r \in Rule : Usable(r)} \cup {NoRule}]
      BY <3>3, <3>5 DEF BuildCircuitBreakerMap, TypeOK, ManagerTypeOK
    <3>7. Made \subseteq Made'
      <4> SUFFICES ASSUME NEW b \in Breaker, rule[b] # NoRule
                   PROVE  rule'[b] # NoRule
        BY DEF Made
      <4> QED
        BY <3>3, <3>5, ConstantsAssumption DEF BuildCircuitBreakerMap
    <3>8. ASSUME NEW k \in 1 .. n
          PROVE  GetExistingSameCbOrNew(list[f[k]], k) \in Made'
      <4>1. CASE HoldersOf(list[f[k]]) # {}
        <5> DEFINE r == list[f[k]]
        <5>1. cbMap \in Seq(Made) /\ HoldersOf(r) \subseteq Nat
          BY DEF HoldersOf, TypeOK, ManagerTypeOK
        <5>2. FirstHolder(r) \in DOMAIN cbMap
          BY <4>1, <5>1, LeastElement DEF FirstHolder, HoldersOf
        <5> QED
          BY <4>1, <5>1, <5>2, <3>7 DEF GetExistingSameCbOrNew
      <4>2. CASE HoldersOf(list[f[k]]) = {}
        <5> DEFINE b == <<loads + 1, k>>
        <5>1. b \in Breaker /\ b[1] = loads + 1 /\ b[2] = k
          BY <1>1, <3>4, ConstantsAssumption DEF Breaker
        <5>2. rule'[b] = list[f[k]]
          BY <5>1, <3>3, <4>2 DEF BuildCircuitBreakerMap
        <5>3. b \in Made'
          BY <5>1, <5>2, <3>5, ConstantsAssumption DEF Made
        <5> QED
          BY <4>2, <5>3 DEF GetExistingSameCbOrNew
      <4> QED
        BY <4>1, <4>2
    <3>9. cbMap' = [k \in 1 .. n |-> GetExistingSameCbOrNew(list[f[k]], k)]
      BY <3>3 DEF BuildCircuitBreakerMap
    <3>10. cbMap' \in Seq(Made')
      BY <3>4, <3>8, <3>9, IsASeq
    <3> QED
      BY <1>1, <2>2, <3>1, <3>6, <3>7, <3>10, ConstantsAssumption
         DEF TypeOK, ManagerTypeOK, LoadRules
  <2> QED
    BY <2>1, <2>2 DEF LoadRules
<1>3. BreakerTypeOK'
  BY DEF TypeOK, BreakerTypeOK, LoadRules, counterVars
<1>4. ThreadTypeOK'
  <2>1. \A t \in Threads : cbs[t] \in Seq(Made')
    BY <1>2, SeqMonotonic DEF TypeOK, ThreadTypeOK
  <2> QED
    BY <2>1 DEF TypeOK, ThreadTypeOK, LoadRules
<1>5. HistoryTypeOK'
  BY DEF TypeOK, HistoryTypeOK, LoadRules, historyVars
<1> QED
  BY <1>2, <1>3, <1>4, <1>5 DEF TypeOK

-----------------------------------------------------------------------------
(***************************************************************************)
(* The steps of a request thread.                                          *)
(***************************************************************************)
ThreadStep(t) == \/ Entry(t) \/ CheckStep(t) \/ RecordStep(t)
                 \/ \E o \in Outcomes : Exit(t, o)

\* What no step of a request thread touches.
LEMMA StepFrame ==
  ASSUME NEW t \in Threads, ThreadStep(t)
  PROVE  UNCHANGED <<now, lastValue, cbMap, loads, rule>>
BY DEF ThreadStep, Entry, CheckStep, RecordStep, Exit, managerVars, TryPass,
       RetryTimeoutArrived, RetryClockFirst, LoadTimestamp, RetryTimestampFirst,
       ReadClock, FromOpenToHalfOpen, RecordWindow, AddBadCount, AddTotalCount,
       LoadOpen, LoadHalfOpen, FromHalfOpenToOpen, FromHalfOpenToClose,
       FromCloseToOpen, ComputeTimestamp, UpdateNextRetryTimestamp, ResetBadCount,
       ResetTotalCount, SumBadCount, SumTotalCount, Trip

\* The thread-local variables after each way of moving on.
ControlOK ==
  /\ pc \in [Threads -> {"idle", "running"} \cup CheckPcs \cup RecordPcs]
  /\ cbs \in [Threads -> Seq(Made)]
  /\ pos \in [Threads -> Nat \ {0}]
  /\ \A t \in Threads : pc[t] \in CheckPcs \cup RecordPcs => pos[t] <= Len(cbs[t])
  /\ out \in [Threads -> SUBSET {"error", "slow"}]

\* A thread that leaves its call (Leave) keeps the thread-local types.
LEMMA LeaveControl ==
  ASSUME ControlOK, NEW t \in Threads, UNCHANGED Made, Leave(t)
  PROVE  ControlOK'
BY EmptySeq DEF ControlOK, Leave, CheckPcs, RecordPcs, StampPcs

\* A thread that stays at its breaker (Goto) keeps the thread-local types.
LEMMA GotoControl ==
  ASSUME ControlOK, NEW t \in Threads, UNCHANGED Made,
         pc[t] \in CheckPcs \cup RecordPcs,
         NEW label \in CheckPcs \cup RecordPcs, Goto(t, label)
  PROVE  ControlOK'
BY DEF ControlOK, Goto

\* The next breaker of the vector exists.
LEMMA AdvanceControl ==
  ASSUME ControlOK, NEW t \in Threads, UNCHANGED Made,
         NEW label \in CheckPcs \cup RecordPcs,
         pos[t] < Len(cbs[t]),
         pos' = [pos EXCEPT ![t] = @ + 1],
         pc' = [pc EXCEPT ![t] = label],
         UNCHANGED <<cbs, out>>
  PROVE  ControlOK'
<1>1. Len(cbs[t]) \in Nat /\ pos[t] \in Nat /\ pos[t] + 1 <= Len(cbs[t])
  BY DEF ControlOK
<1>2. pos' \in [Threads -> Nat \ {0}]
  BY <1>1 DEF ControlOK
<1>3. pc' \in [Threads -> {"idle", "running"} \cup CheckPcs \cup RecordPcs]
  BY DEF ControlOK
<1>4. ASSUME NEW u \in Threads, pc'[u] \in CheckPcs \cup RecordPcs
      PROVE  pos'[u] <= Len(cbs'[u])
  BY <1>1, <1>4 DEF ControlOK
<1> QED
  BY <1>2, <1>3, <1>4 DEF ControlOK

\* Passing one breaker (TryPass returned true) keeps the thread-local types.
LEMMA PassNextControl ==
  ASSUME ControlOK, NEW t \in Threads, UNCHANGED Made,
         pc[t] \in CheckPcs \cup RecordPcs, PassNext(t)
  PROVE  ControlOK'
<1>1. CASE pos[t] < Len(cbs[t])
  BY <1>1, AdvanceControl DEF PassNext, CheckPcs
<1>2. CASE ~ (pos[t] < Len(cbs[t]))
  BY <1>2 DEF ControlOK, PassNext, CheckPcs, RecordPcs, StampPcs
<1> QED
  BY <1>1, <1>2

\* Recording on one breaker (RecordComplete) keeps the thread-local types.
LEMMA RecordNextControl ==
  ASSUME ControlOK, NEW t \in Threads, UNCHANGED Made,
         pc[t] \in CheckPcs \cup RecordPcs, RecordNext(t)
  PROVE  ControlOK'
<1>1. CASE Leave(t)
  BY <1>1, LeaveControl
<1>2. CASE ~ Leave(t)
  BY <1>2, AdvanceControl DEF RecordNext, RecordPcs, StampPcs
<1> QED
  BY <1>1, <1>2

\* A thread that is about to record a completion or to check a breaker
\* moves in one of four ways, with the thread-local types preserved.
LEMMA StepControl ==
  ASSUME TypeOK, NEW t \in Threads, ThreadStep(t)
  PROVE  ControlOK'
<1>1. ControlOK /\ UNCHANGED Made
  BY StepFrame, MadeStable DEF TypeOK, ThreadTypeOK, ControlOK
<1>2. CASE Entry(t)
  BY <1>1, <1>2, StepFrame DEF Entry, ControlOK, TypeOK, ManagerTypeOK, CheckPcs,
                               RecordPcs, StampPcs
<1>3. CASE CheckStep(t)
  <2>1. pc[t] \in CheckPcs
    BY <1>3 DEF CheckStep, TryPass, RetryTimeoutArrived, RetryClockFirst,
                LoadTimestamp, RetryTimestampFirst, ReadClock, FromOpenToHalfOpen,
                CheckPcs
  <2>2. \/ PassNext(t) \/ Leave(t)
        \/ \E label \in CheckPcs : Goto(t, label)
    BY <1>3 DEF CheckStep, TryPass, RetryTimeoutArrived, RetryClockFirst,
                LoadTimestamp, RetryTimestampFirst, ReadClock, FromOpenToHalfOpen,
                Block, Goto, CheckPcs
  <2> QED
    BY <1>1, <2>1, <2>2, PassNextControl, LeaveControl, GotoControl
<1>4. CASE \E o \in Outcomes : Exit(t, o)
  <2>1. CASE Leave(t)
    BY <1>1, <2>1, LeaveControl
  <2>2. CASE ~ Leave(t)
    <3>1. cbMap \in Seq(Made)
      BY DEF TypeOK, ManagerTypeOK
    <3>2. cbMap # <<>> => 1 <= Len(cbMap)
      BY <3>1, EmptySeq
    <3>3. PICK o \in SUBSET {"error", "slow"} :
                 /\ cbMap # <<>>
                 /\ cbs' = [cbs EXCEPT ![t] = cbMap]
                 /\ pos' = [pos EXCEPT ![t] = 1]
                 /\ out' = [out EXCEPT ![t] = o]
                 /\ pc' = [pc EXCEPT ![t] = "window"]
      BY <1>4, <2>2, ConstantsAssumption DEF Exit
    <3>4. /\ pc' \in [Threads -> {"idle", "running"} \cup CheckPcs \cup RecordPcs]
          /\ pos' \in [Threads -> Nat \ {0}]
          /\ out' \in [Threads -> SUBSET {"error", "slow"}]
      BY <1>1, <3>3 DEF ControlOK, RecordPcs, StampPcs
    <3>5. cbs' \in [Threads -> Seq(Made')]
      BY <1>1, <3>1, <3>3 DEF ControlOK
    <3>6. \A u \in Threads : pc'[u] \in CheckPcs \cup RecordPcs => pos'[u] <= Len(cbs'[u])
      BY <1>1, <3>2, <3>3 DEF ControlOK
    <3> QED
      BY <3>4, <3>5, <3>6 DEF ControlOK
  <2> QED
    BY <2>1, <2>2
<1>5. CASE RecordStep(t)
  <2>1. pc[t] \in RecordPcs
    BY <1>5 DEF RecordStep, RecordPcs, StampPcs, RecordWindow, AddBadCount,
                AddTotalCount, LoadOpen, LoadHalfOpen, FromHalfOpenToOpen,
                FromHalfOpenToClose, FromCloseToOpen, ComputeTimestamp,
                UpdateNextRetryTimestamp, ResetBadCount, ResetTotalCount,
                SumBadCount, SumTotalCount, Trip
  <2>2. RecordNext(t) \/ \E label \in RecordPcs : Goto(t, label)
    <3>1. CASE RecordWindow(t) \/ LoadHalfOpen(t)
      BY <3>1 DEF RecordWindow, LoadHalfOpen, RecordPcs, StampPcs
    <3>2. CASE AddBadCount(t) \/ AddTotalCount(t) \/ LoadOpen(t) \/ ResetBadCount(t)
      BY <3>2 DEF AddBadCount, AddTotalCount, LoadOpen, ResetBadCount, RecordPcs,
                  StampPcs
    <3>3. CASE FromHalfOpenToOpen(t) \/ FromHalfOpenToClose(t) \/ FromCloseToOpen(t)
      BY <3>3 DEF FromHalfOpenToOpen, FromHalfOpenToClose, FromCloseToOpen, Opens,
                  RecordPcs, StampPcs
    <3>4. CASE \/ ComputeTimestamp(t) \/ UpdateNextRetryTimestamp(t)
               \/ ResetTotalCount(t) \/ SumBadCount(t)
      BY <3>4 DEF ComputeTimestamp, UpdateNextRetryTimestamp, ResetTotalCount,
                  SumBadCount, RecordPcs, StampPcs
    <3>5. CASE SumTotalCount(t) \/ Trip(t)
      BY <3>5 DEF SumTotalCount, Trip, RecordPcs, StampPcs
    <3> QED
      BY <1>5, <3>1, <3>2, <3>3, <3>4, <3>5 DEF RecordStep
  <2> QED
    BY <1>1, <2>1, <2>2, RecordNextControl, GotoControl
<1> QED
  BY <1>2, <1>3, <1>4, <1>5 DEF ThreadStep

\* The earliest opening to be stamped: no later than now, nor than the opening
\* of any thread that has still to stamp the breaker.
LEMMA OwedFacts ==
  ASSUME TypeOK, NEW b
  PROVE  /\ EarliestOwed(b) \in Nat
         /\ EarliestOwed(b) <= now
         /\ \A u \in Stampers(b) : EarliestOwed(b) <= openedAt[u]
<1>1. Owed(b) \subseteq Nat /\ now \in Owed(b)
  BY DEF Owed, Stampers, TypeOK, ManagerTypeOK, HistoryTypeOK
<1>2. EarliestOwed(b) \in Owed(b) /\ \A y \in Owed(b) : EarliestOwed(b) <= y
  BY <1>1, LeastElement DEF EarliestOwed
<1> QED
  BY <1>1, <1>2 DEF Owed

\* No step of a request thread breaks a type.
LEMMA StepTypeOK ==
  ASSUME TypeOK, NEW t \in Threads, ThreadStep(t)
  PROVE  TypeOK'
<1>1. UNCHANGED <<now, lastValue, cbMap, loads, rule>> /\ Made' = Made
  BY StepFrame, MadeStable
<1>2. calls' \in Nat
  <2>1. CASE Entry(t)
    BY <2>1 DEF Entry, TypeOK, ManagerTypeOK
  <2>2. CASE ~ Entry(t)
    <3>1. UNCHANGED calls
      BY <2>2 DEF ThreadStep, CheckStep, RecordStep, Exit, TryPass,
                  RetryTimeoutArrived, RetryClockFirst, LoadTimestamp,
                  RetryTimestampFirst, ReadClock, FromOpenToHalfOpen, RecordWindow,
                  AddBadCount, AddTotalCount, LoadOpen, LoadHalfOpen,
                  FromHalfOpenToOpen, FromHalfOpenToClose, FromCloseToOpen,
                  ComputeTimestamp, UpdateNextRetryTimestamp, ResetBadCount,
                  ResetTotalCount, SumBadCount, SumTotalCount, Trip
    <3> QED
      BY <3>1 DEF TypeOK, ManagerTypeOK
  <2> QED
    BY <2>1, <2>2
<1>3. ManagerTypeOK'
  BY <1>1, <1>2 DEF TypeOK, ManagerTypeOK
<1>4. CASE Entry(t) \/ CheckStep(t) \/ \E o \in Outcomes : Exit(t, o)
  <2>1. UNCHANGED <<nextRetry, winStart, bad, total, openedAt>>
    BY <1>4 DEF Entry, CheckStep, Exit, TryPass, RetryTimeoutArrived,
                RetryClockFirst, LoadTimestamp, RetryTimestampFirst, ReadClock,
                FromOpenToHalfOpen, counterVars, historyVars
  <2>2. BreakerTypeOK'
    BY <1>4, <2>1, CurMade DEF TypeOK, BreakerTypeOK, Entry, CheckStep, Exit,
                               TryPass, RetryTimeoutArrived, RetryClockFirst,
                               LoadTimestamp, RetryTimestampFirst, ReadClock,
                               FromOpenToHalfOpen
  <2>3. HistoryTypeOK'
    <3> USE DEF TypeOK, HistoryTypeOK
    <3>1. CASE Entry(t) \/ \E o \in Outcomes : Exit(t, o)
      BY <2>1, <3>1 DEF Entry, Exit, MarkLost, historyVars
    <3>2. CASE TryPass(t) \/ RetryClockFirst(t) \/ RetryTimestampFirst(t)
      BY <2>1, <3>2 DEF TryPass, RetryClockFirst, RetryTimestampFirst, Block, MarkLost,
                        NoteLoad, historyVars
    <3>3. CASE LoadTimestamp(t) \/ ReadClock(t)
      BY <2>1, <3>3 DEF LoadTimestamp, ReadClock, Block, MarkLost, NoteLoad
    <3>4. CASE FromOpenToHalfOpen(t)
      <4>1. /\ prober' \in [Breaker -> Threads \cup {NoThread}]
            /\ owedSince' \in [Breaker -> Nat]
        BY <3>4 DEF FromOpenToHalfOpen
      <4>2. lost' \in [Breaker -> BOOLEAN]
        BY <3>4 DEF FromOpenToHalfOpen, Block, MarkLost
      <4>3. fresh' \in [Threads -> BOOLEAN]
        BY <3>4 DEF FromOpenToHalfOpen
      <4> QED
        BY <2>1, <4>1, <4>2, <4>3
    <3> QED
      BY <1>4, <3>1, <3>2, <3>3, <3>4 DEF CheckStep, RetryTimeoutArrived
  <2>4. snap' \in [Threads -> Nat]
    <3>1. now \in Nat /\ snap \in [Threads -> Nat]
      BY DEF TypeOK, ManagerTypeOK, ThreadTypeOK
    <3>2. CASE RetryTimestampFirst(t)
      <4>1. nextRetry[Cur(t)] \in Nat
        BY <3>2, CurMade DEF RetryTimestampFirst, CheckPcs, TypeOK, BreakerTypeOK
      <4> QED
        BY <3>1, <3>2, <4>1 DEF RetryTimestampFirst
    <3>3. CASE RetryClockFirst(t) \/ LoadTimestamp(t) \/ ReadClock(t)
      BY <3>1, <3>3 DEF RetryClockFirst, LoadTimestamp, ReadClock
    <3>4. CASE \/ Entry(t) \/ TryPass(t) \/ FromOpenToHalfOpen(t)
               \/ \E o \in Outcomes : Exit(t, o)
      BY <3>1, <3>4 DEF Entry, TryPass, FromOpenToHalfOpen, Exit
    <3> QED
      BY <1>4, <3>2, <3>3, <3>4 DEF CheckStep, RetryTimeoutArrived
  <2> QED
    BY <1>3, <2>2, <2>3, <2>4, StepControl DEF TypeOK, ThreadTypeOK, ControlOK
<1>5. CASE RecordStep(t)
  <2>1. Cur(t) \in Breaker /\ rule[Cur(t)] \in Rule /\ Usable(rule[Cur(t)])
    BY <1>5, CurMade DEF RecordStep, RecordPcs, StampPcs, RecordWindow,
                         AddBadCount, AddTotalCount, LoadOpen, LoadHalfOpen,
                         FromHalfOpenToOpen, FromHalfOpenToClose, FromCloseToOpen,
                         ComputeTimestamp, UpdateNextRetryTimestamp, ResetBadCount,
                         ResetTotalCount, SumBadCount, SumTotalCount, Trip
  <2>2. BreakerTypeOK'
    <3>1. WindowStart(Cur(t)) \in Int
      <4>1. rule[Cur(t)].stat_interval \in Nat \ {0} /\ now \in Nat
        BY <2>1 DEF Rule, Usable, IsValidRule, TypeOK, ManagerTypeOK
      <4> QED
        BY <4>1 DEF WindowStart
    <3>2. CASE RecordWindow(t) \/ ResetBadCount(t)
      BY <2>1, <3>1, <3>2 DEF TypeOK, BreakerTypeOK, RecordWindow, ResetBadCount, Roll, counterVars
    <3>3. CASE AddBadCount(t) \/ AddTotalCount(t) \/ ResetTotalCount(t)
      BY <2>1, <3>3 DEF TypeOK, BreakerTypeOK, AddBadCount, AddTotalCount, ResetTotalCount
    <3>4. CASE FromHalfOpenToOpen(t) \/ FromHalfOpenToClose(t) \/ FromCloseToOpen(t)
      BY <2>1, <3>4 DEF TypeOK, BreakerTypeOK, FromHalfOpenToOpen, FromHalfOpenToClose,
                        FromCloseToOpen, Opens, counterVars
    <3>5. CASE ComputeTimestamp(t) \/ UpdateNextRetryTimestamp(t)
      BY <2>1, <3>5 DEF TypeOK, BreakerTypeOK, ThreadTypeOK, ComputeTimestamp,
                        UpdateNextRetryTimestamp, counterVars
    <3>6. CASE LoadOpen(t) \/ LoadHalfOpen(t) \/ SumBadCount(t) \/ SumTotalCount(t) \/ Trip(t)
      BY <3>6 DEF TypeOK, BreakerTypeOK, LoadOpen, LoadHalfOpen, SumBadCount,
                  SumTotalCount, Trip, counterVars
    <3> QED
      BY <1>5, <3>2, <3>3, <3>4, <3>5, <3>6 DEF RecordStep
  <2>3. HistoryTypeOK'
    <3>1. CASE Opens(t) /\ (FromHalfOpenToOpen(t) \/ FromCloseToOpen(t))
      BY <2>1, <3>1, OwedFacts DEF TypeOK, ManagerTypeOK, HistoryTypeOK, Opens,
                                   FromHalfOpenToOpen, FromCloseToOpen
    <3>2. CASE ~ (Opens(t) /\ (FromHalfOpenToOpen(t) \/ FromCloseToOpen(t)))
      BY <1>5, <3>2 DEF TypeOK, HistoryTypeOK, RecordStep, RecordWindow, AddBadCount,
                        AddTotalCount, LoadOpen, LoadHalfOpen, FromHalfOpenToOpen,
                        FromHalfOpenToClose, FromCloseToOpen, ComputeTimestamp,
                        UpdateNextRetryTimestamp, ResetBadCount, ResetTotalCount,
                        SumBadCount, SumTotalCount, Trip, historyVars
    <3> QED
      BY <3>1, <3>2
  <2>4. snap' \in [Threads -> Nat]
    <3>1. rule[Cur(t)].retry_timeout \in Nat /\ now \in Nat
      BY <2>1 DEF Rule, TypeOK, ManagerTypeOK
    <3> QED
      BY <1>5, <2>1, <3>1 DEF TypeOK, BreakerTypeOK, ThreadTypeOK, RecordStep,
                      RecordWindow, AddBadCount, AddTotalCount, LoadOpen,
                      LoadHalfOpen, FromHalfOpenToOpen, FromHalfOpenToClose,
                      FromCloseToOpen, ComputeTimestamp, UpdateNextRetryTimestamp,
                      ResetBadCount, ResetTotalCount, SumBadCount, SumTotalCount,
                      Trip
  <2> QED
    BY <1>3, <2>2, <2>3, <2>4, StepControl DEF TypeOK, ThreadTypeOK, ControlOK
<1> QED
  BY <1>4, <1>5 DEF ThreadStep

\* Types are inductive.
LEMMA NextTypeOK == TypeOK /\ [Next]_vars => TypeOK'
<1> SUFFICES ASSUME TypeOK, [Next]_vars PROVE TypeOK'
  OBVIOUS
<1>1. CASE Tick
  <2>1. Made' = Made
    BY <1>1, MadeStable DEF Tick
  <2> QED
    BY <1>1, <2>1 DEF Tick, TypeOK, ManagerTypeOK, BreakerTypeOK, ThreadTypeOK,
                      HistoryTypeOK, managerVars, counterVars, historyVars
<1>2. CASE \E list \in RuleLists : LoadRules(list)
  BY <1>2, LoadRulesTypeOK
<1>3. CASE \E t \in Threads : ThreadStep(t)
  BY <1>3, StepTypeOK
<1>4. CASE UNCHANGED vars
  <2>1. Made' = Made
    BY <1>4, MadeStable DEF vars
  <2> QED
    BY <1>4, <2>1 DEF vars, TypeOK, ManagerTypeOK, BreakerTypeOK, ThreadTypeOK, HistoryTypeOK
<1> QED
  BY <1>1, <1>2, <1>3, <1>4 DEF Next, ThreadStep

\* Type correctness of the breakers, the rule manager and the request
\* threads: in particular a thread never steps past the end of its vector
\* and never stands at a breaker whose rule is not usable.
THEOREM TypeCorrect == Spec => []TypeOK
<1>1. Init => TypeOK
  BY InitTypeOK
<1>2. TypeOK /\ [Next]_vars => TypeOK'
  BY NextTypeOK
<1> QED
  BY <1>1, <1>2, PTL DEF Spec

-----------------------------------------------------------------------------
(***************************************************************************)
(* The state machine.  Each compare_exchange expects one state, whatever   *)
(* its thread has loaded before.                                           *)
(***************************************************************************)
\* The ways in which a step changes the state of a breaker.
LEMMA StepState ==
  ASSUME TypeOK, NEW t \in Threads, ThreadStep(t), state' # state
  PROVE  /\ Cur(t) \in Breaker
         /\ \/ /\ FromOpenToHalfOpen(t) /\ state[Cur(t)] = "Open"
               /\ state' = [state EXCEPT ![Cur(t)] = "HalfOpen"]
            \/ /\ FromHalfOpenToClose(t) /\ state[Cur(t)] = "HalfOpen"
               /\ state' = [state EXCEPT ![Cur(t)] = "Closed"]
            \/ /\ FromHalfOpenToOpen(t) /\ state[Cur(t)] = "HalfOpen" /\ Opens(t)
            \/ /\ FromCloseToOpen(t) /\ state[Cur(t)] = "Closed" /\ Opens(t)
<1>1. FromOpenToHalfOpen(t) \/ FromHalfOpenToClose(t) \/ FromHalfOpenToOpen(t) \/ FromCloseToOpen(t)
  BY DEF ThreadStep, Entry, CheckStep, RecordStep, Exit, TryPass,
         RetryTimeoutArrived, RetryClockFirst, LoadTimestamp, RetryTimestampFirst,
         ReadClock, RecordWindow, AddBadCount, AddTotalCount, LoadOpen,
         LoadHalfOpen, ComputeTimestamp, UpdateNextRetryTimestamp, ResetBadCount,
         ResetTotalCount, SumBadCount, SumTotalCount, Trip
<1>2. Cur(t) \in Breaker
  BY <1>1, CurMade DEF FromOpenToHalfOpen, FromHalfOpenToClose, FromHalfOpenToOpen,
                       FromCloseToOpen, CheckPcs, RecordPcs, StampPcs
<1> QED
  BY <1>1, <1>2 DEF FromOpenToHalfOpen, FromHalfOpenToClose, FromHalfOpenToOpen, FromCloseToOpen

\* No interleaving of completions and entries takes a breaker along an edge
\* that the three compare_exchange operations do not have.
THEOREM TransitionsAreLegal == Spec => LegalTransitions
<1> DEFINE Legal == \A b \in Breaker : state'[b] # state[b] =>
       <<state[b], state'[b]>> \in {<<"Closed", "Open">>, <<"Open", "HalfOpen">>,
                                    <<"HalfOpen", "Open">>, <<"HalfOpen", "Closed">>}
<1>1. TypeOK /\ [Next]_vars => [Legal]_vars
  <2> SUFFICES ASSUME TypeOK, Next, state' # state PROVE Legal
    BY DEF vars
  <2>1. PICK t \in Threads : ThreadStep(t)
    BY DEF Next, Tick, LoadRules, ThreadStep
  <2> QED
    BY <2>1, StepState DEF Opens, TypeOK, BreakerTypeOK
<1> QED
  BY <1>1, TypeCorrect, PTL DEF Spec, LegalTransitions

-----------------------------------------------------------------------------
(***************************************************************************)
(* The retry timeout.                                                      *)
(***************************************************************************)
\* A step of t leaves the local variables of the other threads alone.
LEMMA StepOthers ==
  ASSUME TypeOK, NEW t \in Threads, ThreadStep(t), NEW u \in Threads, u # t
  PROVE  pc'[u] = pc[u] /\ cbs'[u] = cbs[u] /\ pos'[u] = pos[u] /\ Cur(u)' = Cur(u)
<1> USE DEF TypeOK, ThreadTypeOK
<1>1. CASE Entry(t) \/ CheckStep(t) \/ \E o \in Outcomes : Exit(t, o)
  BY <1>1 DEF Entry, CheckStep, Exit, TryPass, RetryTimeoutArrived,
              RetryClockFirst, LoadTimestamp, RetryTimestampFirst, ReadClock,
              FromOpenToHalfOpen, PassNext, Block, Leave, Goto, Cur
<1>2. CASE RecordStep(t)
  <2>1. RecordNext(t) \/ \E label : Goto(t, label)
    <3>1. CASE RecordWindow(t) \/ LoadHalfOpen(t) \/ AddBadCount(t) \/ AddTotalCount(t)
      BY <3>1 DEF RecordWindow, LoadHalfOpen, AddBadCount, AddTotalCount
    <3>2. CASE \/ LoadOpen(t) \/ ResetBadCount(t) \/ ComputeTimestamp(t)
               \/ UpdateNextRetryTimestamp(t) \/ ResetTotalCount(t)
      BY <3>2 DEF LoadOpen, ResetBadCount, ComputeTimestamp,
                  UpdateNextRetryTimestamp, ResetTotalCount
    <3>3. CASE FromHalfOpenToOpen(t) \/ FromHalfOpenToClose(t) \/ FromCloseToOpen(t)
      BY <3>3 DEF FromHalfOpenToOpen, FromHalfOpenToClose, FromCloseToOpen, Opens
    <3>4. CASE SumBadCount(t) \/ SumTotalCount(t) \/ Trip(t)
      BY <3>4 DEF SumBadCount, SumTotalCount, Trip
    <3> QED
      BY <1>2, <3>1, <3>2, <3>3, <3>4 DEF RecordStep
  <2> QED
    BY <2>1 DEF RecordNext, Leave, Goto, Cur
<1> QED
  BY <1>1, <1>2 DEF ThreadStep

\* Which actions lead from and to the steps at which a thread has to do with
\* the retry timestamp.
LEMMA StampSteps ==
  ASSUME TypeOK, NEW t \in Threads, ThreadStep(t)
  PROVE  /\ pc[t] = "stampClock" => ComputeTimestamp(t)
         /\ pc[t] = "stamp" => UpdateNextRetryTimestamp(t)
         /\ pc'[t] = "stampClock" => Opens(t) /\ (FromHalfOpenToOpen(t) \/ FromCloseToOpen(t))
         /\ pc'[t] = "stamp" => ComputeTimestamp(t)
         /\ pc'[t] = "loadTimestamp" => RetryClockFirst(t)
         /\ pc'[t] = "readClock" => RetryTimestampFirst(t)
         /\ pc'[t] = "toHalfOpen" => LoadTimestamp(t) \/ ReadClock(t)
<1> USE DEF TypeOK, ThreadTypeOK
<1>1. CASE Entry(t) \/ \E o \in Outcomes : Exit(t, o)
  BY <1>1 DEF Entry, Exit, Leave
<1>2. CASE CheckStep(t)
  BY <1>2 DEF CheckStep, TryPass, RetryTimeoutArrived, RetryClockFirst, LoadTimestamp,
              RetryTimestampFirst, ReadClock, FromOpenToHalfOpen, PassNext, Block, Leave, Goto
<1>3. CASE RecordWindow(t) \/ LoadHalfOpen(t) \/ AddBadCount(t) \/ AddTotalCount(t)
  BY <1>3 DEF RecordWindow, LoadHalfOpen, AddBadCount, AddTotalCount, Goto
<1>4. CASE LoadOpen(t) \/ ResetBadCount(t) \/ ResetTotalCount(t) \/ FromHalfOpenToClose(t)
  BY <1>4 DEF LoadOpen, ResetBadCount, ResetTotalCount, FromHalfOpenToClose, RecordNext,
              Leave, Goto
<1>5. CASE FromHalfOpenToOpen(t) \/ FromCloseToOpen(t)
  BY <1>5 DEF FromHalfOpenToOpen, FromCloseToOpen, Opens, RecordNext, Leave, Goto
<1>6. CASE SumBadCount(t) \/ SumTotalCount(t) \/ Trip(t)
  BY <1>6 DEF SumBadCount, SumTotalCount, Trip, RecordNext, Leave, Goto
<1>7. CASE ComputeTimestamp(t) \/ UpdateNextRetryTimestamp(t)
  BY <1>7 DEF ComputeTimestamp, UpdateNextRetryTimestamp, RecordNext, Leave, Goto
<1> QED
  BY <1>1, <1>2, <1>3, <1>4, <1>5, <1>6, <1>7 DEF ThreadStep, RecordStep

\* A step of t leaves what the other threads have read alone.
LEMMA StepOthersRead ==
  ASSUME TypeOK, NEW t \in Threads, ThreadStep(t), NEW u \in Threads, u # t
  PROVE  /\ snap'[u] = snap[u] /\ openedAt'[u] = openedAt[u]
         /\ fresh'[u] => fresh[u]
<1> USE DEF TypeOK, ThreadTypeOK, HistoryTypeOK
<1>1. CASE Entry(t) \/ CheckStep(t) \/ \E o \in Outcomes : Exit(t, o)
  BY <1>1 DEF Entry, Exit, CheckStep, TryPass, RetryTimeoutArrived, RetryClockFirst,
              LoadTimestamp, RetryTimestampFirst, ReadClock, FromOpenToHalfOpen,
              NoteLoad, historyVars
<1>2. CASE Opens(t) /\ (FromHalfOpenToOpen(t) \/ FromCloseToOpen(t))
  BY <1>2 DEF FromHalfOpenToOpen, FromCloseToOpen, Opens
<1>3. CASE RecordStep(t) /\ ~ (Opens(t) /\ (FromHalfOpenToOpen(t) \/ FromCloseToOpen(t)))
  BY <1>3 DEF RecordStep, RecordWindow, AddBadCount, AddTotalCount, LoadOpen, LoadHalfOpen,
              FromHalfOpenToOpen, FromHalfOpenToClose, FromCloseToOpen, ComputeTimestamp,
              UpdateNextRetryTimestamp, ResetBadCount, ResetTotalCount, SumBadCount,
              SumTotalCount, Trip, historyVars
<1> QED
  BY <1>1, <1>2, <1>3 DEF ThreadStep

\* An outstanding timestamp write stays outstanding until its thread makes it.
LEMMA PendingStays ==
  ASSUME TypeOK, NEW t \in Threads, ThreadStep(t), NEW b \in Breaker,
         StampPending(b), ~ (pc[t] = "stamp" /\ Cur(t) = b)
  PROVE  StampPending(b)'
<1>1. PICK u \in Threads : pc[u] \in StampPcs /\ Cur(u) = b
  BY DEF StampPending, Stampers
<1>2. pc'[u] \in StampPcs /\ Cur(u)' = b
  <2>1. CASE u # t
    BY <1>1, <2>1, StepOthers
  <2>2. CASE u = t
    <3>1. ComputeTimestamp(t)
      BY <1>1, <2>2, StampSteps DEF StampPcs
    <3> QED
      BY <1>1, <2>2, <3>1 DEF ComputeTimestamp, Goto, Cur, StampPcs, TypeOK, ThreadTypeOK
  <2> QED
    BY <2>1, <2>2
<1> QED
  BY <1>2 DEF StampPending, Stampers

\* What the proof about the retry timeout rests on, besides the types: a
\* breaker that does not exist is closed and bears the number of a load that
\* has not happened; a thread that has opened a breaker did so in the past and
\* no earlier than the opening its stamp is owed since, and the stamp that it
\* has computed covers the timeout; and what a checking thread has read of the
\* clock is past, what it has read of the timestamp covers the timeout.
UnmadeUntouched == \A b \in Breaker : /\ b \notin Made => state[b] = "Closed"
                                      /\ b \in Made => b[1] <= loads

StampsCover ==
  \A t \in Threads : pc[t] \in StampPcs =>
    /\ owedSince[Cur(t)] <= openedAt[t]
    /\ openedAt[t] <= now
    /\ pc[t] = "stamp" => snap[t] >= openedAt[t] + rule[Cur(t)].retry_timeout

ReadsCover ==
  \A t \in Threads :
    /\ pc[t] = "loadTimestamp" => snap[t] <= now
    /\ pc[t] = "readClock" /\ fresh[t] /\ state[Cur(t)] = "Open"
         => snap[t] >= owedSince[Cur(t)] + rule[Cur(t)].retry_timeout

TimeInv == /\ TypeOK /\ UnmadeUntouched /\ StampsCover /\ ReadsCover
           /\ TimestampCoversTimeout /\ FreshProbeIsDue

\* The numbers that the invariant compares.
LEMMA TimesAreNat ==
  ASSUME TypeOK
  PROVE  /\ now \in Nat
         /\ \A t \in Threads : snap[t] \in Nat /\ openedAt[t] \in Nat
         /\ \A b \in Made : /\ b \in Breaker /\ nextRetry[b] \in Nat /\ owedSince[b] \in Nat
                            /\ rule[b].retry_timeout \in Nat
         /\ \A t \in Threads : pc[t] \in CheckPcs \cup StampPcs => Cur(t) \in Made
<1>1. \A t \in Threads : pc[t] \in CheckPcs \cup StampPcs => Cur(t) \in Made
  BY CurMade DEF RecordPcs
<1> QED
  BY <1>1 DEF TypeOK, ManagerTypeOK, BreakerTypeOK, ThreadTypeOK, HistoryTypeOK, Made, Rule

\* A created breaker keeps its rule.
LEMMA RuleKept ==
  ASSUME TypeOK, UnmadeUntouched, NEW list \in RuleLists, LoadRules(list), NEW b \in Made
  PROVE  rule'[b] = rule[b]
<1>1. b \in Breaker /\ b[1] \in Nat /\ b[1] # loads + 1
  BY ConstantsAssumption DEF Made, Breaker, UnmadeUntouched, TypeOK, ManagerTypeOK
<1> QED
  BY <1>1 DEF LoadRules, BuildCircuitBreakerMap

\* LoadRules hands a new breaker out closed, so no timestamp is owed.
LEMMA LoadRulesTimeInv ==
  ASSUME TimeInv, NEW list \in RuleLists, LoadRules(list)
  PROVE  TimeInv'
<1>1. TypeOK /\ TypeOK' /\ Made \subseteq Made' /\ UnmadeUntouched
  BY LoadRulesTypeOK DEF TimeInv
<1>2. UNCHANGED <<now, state, nextRetry, openedAt, owedSince, fresh, pc, cbs, pos, snap>>
  BY DEF LoadRules, historyVars
<1>3. loads' = loads + 1 /\ loads \in Nat
  BY <1>1 DEF LoadRules, TypeOK, ManagerTypeOK
<1>4. \A t \in Threads : Cur(t)' = Cur(t)
  BY <1>2 DEF Cur
<1>5. UnmadeUntouched'
  <2> SUFFICES ASSUME NEW b \in Breaker
               PROVE  /\ b \notin Made' => state'[b] = "Closed"
                      /\ b \in Made' => b[1] <= loads'
    BY DEF UnmadeUntouched
  <2>1. b[1] \in Nat
    BY DEF Breaker
  <2>2. b \in Made' => b \in Made \/ b[1] = loads + 1
    BY <1>2 DEF LoadRules, BuildCircuitBreakerMap, Made
  <2> QED
    BY <1>1, <1>2, <1>3, <2>1, <2>2 DEF UnmadeUntouched
<1>6. \A t \in Threads : pc[t] \in CheckPcs \cup StampPcs => rule'[Cur(t)] = rule[Cur(t)]
  BY <1>1, RuleKept, TimesAreNat
<1>7. StampsCover' /\ ReadsCover' /\ FreshProbeIsDue'
  BY <1>2, <1>4, <1>6 DEF TimeInv, StampsCover, ReadsCover, FreshProbeIsDue, CheckPcs, StampPcs
<1>8. TimestampCoversTimeout'
  <2> SUFFICES ASSUME NEW b \in Made', state'[b] = "Open", ~ StampPending(b)'
               PROVE  nextRetry'[b] >= owedSince'[b] + rule'[b].retry_timeout
    BY DEF TimestampCoversTimeout
  <2>1. b \in Made
    BY <1>1, <1>2 DEF UnmadeUntouched, Made
  <2>2. ~ StampPending(b)
    BY <1>2 DEF StampPending, Stampers, Cur
  <2> QED
    BY <1>1, <1>2, <2>1, <2>2, RuleKept DEF TimeInv, TimestampCoversTimeout
<1> QED
  BY <1>1, <1>5, <1>7, <1>8 DEF TimeInv

\* An opening: the stamp is owed since the earliest opening not yet stamped.
LEMMA OpensTimeInv ==
  ASSUME TimeInv, NEW t \in Threads, ThreadStep(t),
         Opens(t), FromHalfOpenToOpen(t) \/ FromCloseToOpen(t)
  PROVE  TimeInv'
<1>1. TypeOK /\ TypeOK' /\ UNCHANGED <<now, loads, rule>> /\ Made' = Made
  BY StepTypeOK, StepFrame, MadeStable DEF TimeInv
<1>2. Cur(t) \in Made /\ Cur(t) \in Breaker
  BY <1>1, CurMade DEF FromHalfOpenToOpen, FromCloseToOpen, RecordPcs
<1>3. UNCHANGED nextRetry
  BY DEF FromHalfOpenToOpen, FromCloseToOpen
<1>4. pc'[t] = "stampClock" /\ Cur(t)' = Cur(t) /\ openedAt'[t] = now
  BY <1>1 DEF Opens, Goto, Cur, TypeOK, ThreadTypeOK, HistoryTypeOK
<1>5. \A b \in Breaker : b # Cur(t) => state'[b] = state[b] /\ owedSince'[b] = owedSince[b]
  BY <1>1 DEF Opens, TypeOK, BreakerTypeOK, HistoryTypeOK
<1>6. /\ owedSince'[Cur(t)] <= now
      /\ \A u \in Stampers(Cur(t)) : owedSince'[Cur(t)] <= openedAt[u]
  BY <1>1, <1>2, OwedFacts DEF Opens, TypeOK, HistoryTypeOK
<1>7. ASSUME NEW u \in Threads, u # t
      PROVE  /\ pc'[u] = pc[u] /\ Cur(u)' = Cur(u)
             /\ snap'[u] = snap[u] /\ openedAt'[u] = openedAt[u]
             /\ fresh'[u] => fresh[u] /\ ~ (pc[u] \in CheckPcs /\ Cur(u) = Cur(t))
  BY <1>1, <1>7, StepOthers, StepOthersRead DEF Opens
<1>8. UnmadeUntouched'
  BY <1>1, <1>2 DEF TimeInv, UnmadeUntouched, Opens, TypeOK, BreakerTypeOK
<1>9. StampsCover'
  <2> SUFFICES ASSUME NEW u \in Threads, pc'[u] \in StampPcs
               PROVE  /\ owedSince'[Cur(u)'] <= openedAt'[u]
                      /\ openedAt'[u] <= now'
                      /\ pc'[u] = "stamp"
                           => snap'[u] >= openedAt'[u] + rule'[Cur(u)'].retry_timeout
    BY DEF StampsCover
  <2>1. CASE u = t
    BY <1>1, <1>4, <1>6, <2>1, TimesAreNat
  <2>2. CASE u # t
    <3>1. pc[u] \in StampPcs /\ Cur(u) \in Breaker
      BY <1>1, <1>7, <2>2, TimesAreNat
    <3>2. owedSince'[Cur(u)] <= openedAt[u]
      BY <1>5, <1>6, <3>1 DEF TimeInv, StampsCover, Stampers
    <3> QED
      BY <1>1, <1>7, <2>2, <3>1, <3>2 DEF TimeInv, StampsCover
  <2> QED
    BY <2>1, <2>2
<1>10. ReadsCover'
  <2> SUFFICES ASSUME NEW u \in Threads
               PROVE  /\ pc'[u] = "loadTimestamp" => snap'[u] <= now'
                      /\ pc'[u] = "readClock" /\ fresh'[u] /\ state'[Cur(u)'] = "Open"
                           => snap'[u] >= owedSince'[Cur(u)'] + rule'[Cur(u)'].retry_timeout
    BY DEF ReadsCover
  <2>1. CASE u = t
    BY <1>4, <2>1
  <2>2. CASE u # t
    BY <1>1, <1>5, <1>7, <2>2, TimesAreNat DEF TimeInv, ReadsCover, CheckPcs
  <2> QED
    BY <2>1, <2>2
<1>11. TimestampCoversTimeout'
  <2> SUFFICES ASSUME NEW b \in Made, state'[b] = "Open", ~ StampPending(b)'
               PROVE  nextRetry'[b] >= owedSince'[b] + rule'[b].retry_timeout
    BY <1>1 DEF TimestampCoversTimeout
  <2>1. b # Cur(t) /\ b \in Breaker
    BY <1>4 DEF StampPending, Stampers, StampPcs, Made
  <2>2. ~ StampPending(b)
    BY <1>1, <2>1, PendingStays
  <2> QED
    BY <1>1, <1>3, <1>5, <2>1, <2>2 DEF TimeInv, TimestampCoversTimeout
<1>12. FreshProbeIsDue'
  <2> SUFFICES ASSUME NEW u \in Threads, pc'[u] = "toHalfOpen", fresh'[u], state'[Cur(u)'] = "Open"
               PROVE  now' >= owedSince'[Cur(u)'] + rule'[Cur(u)'].retry_timeout
    BY DEF FreshProbeIsDue
  <2>1. u # t
    BY <1>4
  <2>2. pc[u] = "toHalfOpen" /\ Cur(u)' = Cur(u) /\ fresh[u] /\ Cur(u) # Cur(t)
    BY <1>7, <2>1 DEF CheckPcs
  <2>3. Cur(u) \in Breaker
    BY <1>1, <2>2, CurMade DEF CheckPcs
  <2> QED
    BY <1>1, <1>5, <2>2, <2>3 DEF TimeInv, FreshProbeIsDue
<1> QED
  BY <1>1, <1>8, <1>9, <1>10, <1>11, <1>12 DEF TimeInv

\* Any other step opens nothing and changes no time that a stamp is owed
\* since, unless it takes the breaker out of the open state.
LEMMA OthersOpenNothing ==
  ASSUME TypeOK, NEW t \in Threads, ThreadStep(t), NEW b \in Breaker,
         ~ (Opens(t) /\ (FromHalfOpenToOpen(t) \/ FromCloseToOpen(t)))
  PROVE  /\ state'[b] = "Open" => state[b] = "Open" /\ owedSince'[b] = owedSince[b]
         /\ owedSince'[b] <= owedSince[b]
<1>1. owedSince[b] \in Nat
  BY DEF TypeOK, HistoryTypeOK
<1>2. CASE FromOpenToHalfOpen(t)
  BY <1>1, <1>2 DEF FromOpenToHalfOpen, TypeOK, BreakerTypeOK, HistoryTypeOK
<1>3. CASE ~ FromOpenToHalfOpen(t)
  <2>1. UNCHANGED owedSince
    BY <1>3 DEF ThreadStep, Entry, Exit, CheckStep, TryPass, RetryTimeoutArrived,
                RetryClockFirst, LoadTimestamp, RetryTimestampFirst, ReadClock, RecordStep,
                RecordWindow, AddBadCount, AddTotalCount, LoadOpen, LoadHalfOpen,
                FromHalfOpenToOpen, FromHalfOpenToClose, FromCloseToOpen, ComputeTimestamp,
                UpdateNextRetryTimestamp, ResetBadCount, ResetTotalCount, SumBadCount,
                SumTotalCount, Trip, historyVars
  <2>2. state'[b] = "Open" => state[b] = "Open"
    BY StepState DEF TypeOK, BreakerTypeOK
  <2> QED
    BY <1>1, <2>1, <2>2
<1> QED
  BY <1>2, <1>3

\* No other step of a request thread lets a timestamp fall short.
LEMMA OtherTimeInv ==
  ASSUME TimeInv, NEW t \in Threads, ThreadStep(t),
         ~ (Opens(t) /\ (FromHalfOpenToOpen(t) \/ FromCloseToOpen(t)))
  PROVE  TimeInv'
<1>1. TypeOK /\ TypeOK' /\ UNCHANGED <<now, loads, rule>> /\ Made' = Made
  BY StepTypeOK, StepFrame, MadeStable DEF TimeInv
<1>2. \A b \in Breaker : /\ state'[b] = "Open" => state[b] = "Open" /\ owedSince'[b] = owedSince[b]
                         /\ owedSince'[b] <= owedSince[b]
  BY <1>1, OthersOpenNothing
<1>3. ASSUME NEW u \in Threads, u # t
      PROVE  /\ pc'[u] = pc[u] /\ Cur(u)' = Cur(u)
             /\ snap'[u] = snap[u] /\ openedAt'[u] = openedAt[u]
             /\ fresh'[u] => fresh[u]
  BY <1>1, <1>3, StepOthers, StepOthersRead
<1>4. UnmadeUntouched'
  <2>1. CASE state' = state
    BY <1>1, <2>1 DEF TimeInv, UnmadeUntouched
  <2>2. CASE state' # state
    <3>1. Cur(t) \in Made
      BY <1>1, <2>2, StepState, CurMade DEF FromOpenToHalfOpen, FromHalfOpenToClose,
                                            CheckPcs, RecordPcs
    <3> QED
      BY <1>1, <2>2, <3>1, StepState DEF TimeInv, UnmadeUntouched, TypeOK, BreakerTypeOK
  <2> QED
    BY <2>1, <2>2
<1>5. StampsCover'
  <2> SUFFICES ASSUME NEW u \in Threads, pc'[u] \in StampPcs
               PROVE  /\ owedSince'[Cur(u)'] <= openedAt'[u]
                      /\ openedAt'[u] <= now'
                      /\ pc'[u] = "stamp"
                           => snap'[u] >= openedAt'[u] + rule'[Cur(u)'].retry_timeout
    BY DEF StampsCover
  <2>1. CASE u = t
    <3>1. ComputeTimestamp(t)
      BY <1>1, <2>1, StampSteps DEF StampPcs
    <3>2. /\ pc[t] = "stampClock" /\ Cur(t)' = Cur(t) /\ UNCHANGED <<openedAt, owedSince>>
          /\ snap'[t] = now + rule[Cur(t)].retry_timeout
      BY <1>1, <3>1 DEF ComputeTimestamp, Goto, Cur, historyVars, TypeOK, ThreadTypeOK
    <3>3. owedSince[Cur(t)] <= openedAt[t] /\ openedAt[t] <= now
      BY <3>2 DEF TimeInv, StampsCover, StampPcs
    <3>4. rule[Cur(t)].retry_timeout \in Nat /\ openedAt[t] \in Nat /\ now \in Nat
      BY <1>1, <3>2, TimesAreNat DEF StampPcs
    <3> QED
      BY <1>1, <2>1, <3>2, <3>3, <3>4
  <2>2. CASE u # t
    <3>1. pc[u] \in StampPcs /\ Cur(u) \in Made
      BY <1>1, <1>3, <2>2, TimesAreNat
    <3>2. /\ owedSince[Cur(u)] <= openedAt[u] /\ openedAt[u] <= now
          /\ pc[u] = "stamp" => snap[u] >= openedAt[u] + rule[Cur(u)].retry_timeout
      BY <3>1 DEF TimeInv, StampsCover
    <3>3. owedSince'[Cur(u)] <= owedSince[Cur(u)] /\ owedSince'[Cur(u)] \in Nat
      BY <1>1, <1>2, <3>1, TimesAreNat DEF TypeOK, HistoryTypeOK
    <3>4. owedSince[Cur(u)] \in Nat /\ openedAt[u] \in Nat
      BY <1>1, <3>1, TimesAreNat
    <3> QED
      BY <1>1, <1>3, <2>2, <3>2, <3>3, <3>4
  <2> QED
    BY <2>1, <2>2
<1>6. ReadsCover'
  <2> SUFFICES ASSUME NEW u \in Threads
               PROVE  /\ pc'[u] = "loadTimestamp" => snap'[u] <= now'
                      /\ pc'[u] = "readClock" /\ fresh'[u] /\ state'[Cur(u)'] = "Open"
                           => snap'[u] >= owedSince'[Cur(u)'] + rule'[Cur(u)'].retry_timeout
    BY DEF ReadsCover
  <2>1. CASE u # t
    BY <1>1, <1>2, <1>3, <2>1, TimesAreNat DEF TimeInv, ReadsCover, CheckPcs
  <2>2. ASSUME u = t, pc'[t] = "loadTimestamp" PROVE snap'[t] <= now'
    BY <1>1, <2>2, StampSteps, TimesAreNat DEF RetryClockFirst, TypeOK, ThreadTypeOK
  <2>3. ASSUME u = t, pc'[t] = "readClock", fresh'[t], state'[Cur(t)'] = "Open"
        PROVE  snap'[t] >= owedSince'[Cur(t)'] + rule'[Cur(t)'].retry_timeout
    <3>1. RetryTimestampFirst(t)
      BY <1>1, <2>3, StampSteps
    <3>2. /\ Cur(t) \in Made /\ Cur(t)' = Cur(t) /\ snap'[t] = nextRetry[Cur(t)]
          /\ state[Cur(t)] = "Open" /\ ~ StampPending(Cur(t)) /\ UNCHANGED owedSince
      BY <1>1, <2>3, <3>1, CurMade DEF RetryTimestampFirst, NoteLoad, Goto, Cur, CheckPcs,
                                        TypeOK, ThreadTypeOK, HistoryTypeOK
    <3> QED
      BY <1>1, <3>2 DEF TimeInv, TimestampCoversTimeout
  <2> QED
    BY <2>1, <2>2, <2>3
<1>7. TimestampCoversTimeout'
  <2> SUFFICES ASSUME NEW b \in Made, state'[b] = "Open", ~ StampPending(b)'
               PROVE  nextRetry'[b] >= owedSince'[b] + rule'[b].retry_timeout
    BY <1>1 DEF TimestampCoversTimeout
  <2>1. b \in Breaker /\ state[b] = "Open" /\ owedSince'[b] = owedSince[b]
    BY <1>2 DEF Made
  <2>2. CASE pc[t] = "stamp" /\ Cur(t) = b
    <3>1. nextRetry'[b] = snap[t]
      BY <1>1, <2>1, <2>2, StampSteps DEF UpdateNextRetryTimestamp, TypeOK, BreakerTypeOK
    <3>2. /\ snap[t] >= openedAt[t] + rule[b].retry_timeout
          /\ owedSince[b] <= openedAt[t]
      BY <2>2 DEF TimeInv, StampsCover, StampPcs
    <3>3. /\ owedSince[b] \in Nat /\ openedAt[t] \in Nat /\ snap[t] \in Nat
          /\ rule[b].retry_timeout \in Nat
      BY <1>1, TimesAreNat
    <3> QED
      BY <1>1, <2>1, <3>1, <3>2, <3>3
  <2>3. CASE ~ (pc[t] = "stamp" /\ Cur(t) = b)
    <3>1. ~ StampPending(b)
      BY <1>1, <2>1, <2>3, PendingStays
    <3>2. nextRetry'[b] = nextRetry[b]
      BY <1>1, <2>1, <2>3 DEF ThreadStep, Entry, CheckStep, RecordStep, Exit, TryPass,
         RetryTimeoutArrived, RetryClockFirst, LoadTimestamp, RetryTimestampFirst, ReadClock,
         FromOpenToHalfOpen, RecordWindow, AddBadCount, AddTotalCount, LoadOpen,
         LoadHalfOpen, FromHalfOpenToOpen, FromHalfOpenToClose, FromCloseToOpen,
         ComputeTimestamp, UpdateNextRetryTimestamp, ResetBadCount, ResetTotalCount,
         SumBadCount, SumTotalCount, Trip, TypeOK, BreakerTypeOK
    <3> QED
      BY <1>1, <2>1, <3>1, <3>2 DEF TimeInv, TimestampCoversTimeout
  <2> QED
    BY <2>2, <2>3
<1>8. FreshProbeIsDue'
  <2> SUFFICES ASSUME NEW u \in Threads, pc'[u] = "toHalfOpen", fresh'[u], state'[Cur(u)'] = "Open"
               PROVE  now' >= owedSince'[Cur(u)'] + rule'[Cur(u)'].retry_timeout
    BY DEF FreshProbeIsDue
  <2>1. CASE u # t
    BY <1>1, <1>2, <1>3, <2>1, TimesAreNat DEF TimeInv, FreshProbeIsDue, CheckPcs
  <2>2. CASE u = t
    <3>1. LoadTimestamp(t) \/ ReadClock(t)
      BY <1>1, <2>2, StampSteps
    <3>2. Cur(t) \in Made /\ Cur(t)' = Cur(t) /\ UNCHANGED <<owedSince, state>>
      BY <1>1, <2>2, <3>1, CurMade DEF LoadTimestamp, ReadClock, Block, Leave, Goto, Cur,
                                       CheckPcs, TypeOK, ThreadTypeOK
    <3>3. /\ now \in Nat /\ snap[t] \in Nat /\ nextRetry[Cur(t)] \in Nat
          /\ owedSince[Cur(t)] + rule[Cur(t)].retry_timeout \in Nat
      BY <1>1, <3>2, TimesAreNat
    <3>4. CASE LoadTimestamp(t)
      <4>1. /\ snap[t] >= nextRetry[Cur(t)] /\ snap[t] <= now
            /\ state[Cur(t)] = "Open" /\ ~ StampPending(Cur(t))
        BY <1>1, <2>2, <3>4 DEF LoadTimestamp, Arrived, NoteLoad, Block, Leave, TimeInv,
                                ReadsCover, TypeOK, ThreadTypeOK, HistoryTypeOK
      <4>2. nextRetry[Cur(t)] >= owedSince[Cur(t)] + rule[Cur(t)].retry_timeout
        BY <3>2, <4>1 DEF TimeInv, TimestampCoversTimeout
      <4> QED
        BY <1>1, <2>2, <3>2, <3>3, <4>1, <4>2
    <3>5. CASE ReadClock(t)
      <4>1. now >= snap[t] /\ fresh[t] /\ pc[t] = "readClock"
        BY <1>1, <2>2, <3>5 DEF ReadClock, Arrived, Block, Leave, TypeOK, ThreadTypeOK,
                                HistoryTypeOK
      <4>2. snap[t] >= owedSince[Cur(t)] + rule[Cur(t)].retry_timeout
        BY <2>2, <3>2, <4>1 DEF TimeInv, ReadsCover
      <4> QED
        BY <1>1, <2>2, <3>2, <3>3, <4>1, <4>2
    <3> QED
      BY <3>1, <3>4, <3>5
  <2> QED
    BY <2>1, <2>2
<1> QED
  BY <1>1, <1>4, <1>5, <1>6, <1>7, <1>8 DEF TimeInv

\* With no breaker, no timestamp is owed.
LEMMA InitTimeInv == Init => TimeInv
BY InitTypeOK DEF Init, TimeInv, UnmadeUntouched, Made, StampsCover, StampPcs, ReadsCover,
                  TimestampCoversTimeout, FreshProbeIsDue

\* The invariant on timestamps is inductive.
LEMMA NextTimeInv == TimeInv /\ [Next]_vars => TimeInv'
<1> SUFFICES ASSUME TimeInv, [Next]_vars PROVE TimeInv'
  OBVIOUS
<1>1. CASE Tick \/ UNCHANGED vars
  <2>1. TypeOK /\ TypeOK'
    BY NextTypeOK DEF TimeInv
  <2>2. /\ UNCHANGED <<loads, rule, state, nextRetry, openedAt, owedSince, fresh, pc, cbs, pos,
                       snap>>
        /\ now' >= now
    BY <1>1, <2>1 DEF Tick, vars, managerVars, historyVars, TypeOK, ManagerTypeOK
  <2>3. Made' = Made
    BY <2>2, MadeStable
  <2>4. \A t \in Threads : Cur(t)' = Cur(t)
    BY <2>2 DEF Cur
  <2>5. UnmadeUntouched'
    BY <2>2, <2>3 DEF TimeInv, UnmadeUntouched
  <2>6. now' \in Nat /\ now \in Nat
    BY <2>1 DEF TypeOK, ManagerTypeOK
  <2>7. StampsCover' /\ ReadsCover'
    BY <2>1, <2>2, <2>4, <2>6, TimesAreNat DEF TimeInv, StampsCover, ReadsCover
  <2>8. TimestampCoversTimeout'
    BY <2>2, <2>3, <2>4 DEF TimeInv, TimestampCoversTimeout, StampPending, Stampers
  <2>9. FreshProbeIsDue'
    <3> SUFFICES ASSUME NEW t \in Threads, pc[t] = "toHalfOpen", fresh[t], state[Cur(t)] = "Open"
                 PROVE  now' >= owedSince[Cur(t)] + rule[Cur(t)].retry_timeout
      BY <2>2, <2>4 DEF FreshProbeIsDue
    <3>1. owedSince[Cur(t)] + rule[Cur(t)].retry_timeout \in Nat
      BY <2>1, TimesAreNat DEF CheckPcs
    <3>2. now >= owedSince[Cur(t)] + rule[Cur(t)].retry_timeout
      BY DEF TimeInv, FreshProbeIsDue
    <3> QED
      BY <2>2, <2>6, <3>1, <3>2
  <2> QED
    BY <2>1, <2>5, <2>7, <2>8, <2>9 DEF TimeInv
<1>2. CASE \E list \in RuleLists : LoadRules(list)
  BY <1>2, LoadRulesTimeInv
<1>3. CASE \E t \in Threads : ThreadStep(t)
  BY <1>3, OpensTimeInv, OtherTimeInv
<1> QED
  BY <1>1, <1>2, <1>3 DEF Next, ThreadStep

\* The retry timestamp covers the timeout of the earliest opening that was
\* still to be stamped when the breaker was last opened, as soon as no write of
\* it is outstanding, however many threads race in opening the breaker and
\* whichever of them stores last, and across every reload of the rules
\* (FromCloseToOpen, FromHalfOpenToOpen, UpdateNextRetryTimestamp).
THEOREM TimestampCovers == Spec => []TimestampCoversTimeout
<1>1. TimeInv => TimestampCoversTimeout
  BY DEF TimeInv
<1> QED
  BY <1>1, InitTimeInv, NextTimeInv, PTL DEF Spec

\* A probe whose load of the timestamp was not overtaken respects the retry
\* timeout, counted from that opening, in whichever order the clock and the
\* timestamp are read (RetryTimeoutArrived() && FromOpenToHalfOpen() in TryPass).
THEOREM FreshProbesAreDue == Spec => []FreshProbeIsDue
<1>1. TimeInv => FreshProbeIsDue
  BY DEF TimeInv
<1> QED
  BY <1>1, InitTimeInv, NextTimeInv, PTL DEF Spec
-----------------------------------------------------------------------------
(***************************************************************************)
(* The outstanding probe.                                                  *)
(***************************************************************************)
\* The record steps at which the prober has not looked at the state yet.
EarlyPcs == {"window", "addBad", "addTotal", "loadOpen", "loadHalfOpen",
             "halfOpenToOpen", "halfOpenToClose"}

\* A thread that did not take b half open cannot take its probe away.
LEMMA ProbeOfOther ==
  ASSUME TypeOK, NEW t \in Threads, ThreadStep(t), NEW b \in Breaker,
         state[b] = "HalfOpen", prober[b] \in Threads, prober[b] # t,
         Undecided(prober[b], b)
  PROVE  prober'[b] = prober[b] /\ Undecided(prober[b], b)'
<1>1. prober'[b] = prober[b]
  BY DEF ThreadStep, Entry, CheckStep, RecordStep, Exit, TryPass,
         RetryTimeoutArrived, RetryClockFirst, LoadTimestamp, RetryTimestampFirst,
         ReadClock, FromOpenToHalfOpen, RecordWindow, AddBadCount, AddTotalCount,
         LoadOpen, LoadHalfOpen, FromHalfOpenToOpen, FromHalfOpenToClose,
         FromCloseToOpen, ComputeTimestamp, UpdateNextRetryTimestamp,
         ResetBadCount, ResetTotalCount, SumBadCount, SumTotalCount, Trip,
         historyVars, TypeOK, HistoryTypeOK
<1>2. PICK p \in Threads : p = prober[b]
  OBVIOUS
<1>3. pc'[p] = pc[p] /\ cbs'[p] = cbs[p] /\ pos'[p] = pos[p] /\ Cur(p)' = Cur(p)
  BY <1>2, StepOthers
<1>4. Undecided(p, b)'
  BY <1>2, <1>3 DEF Undecided
<1> QED
  BY <1>1, <1>2, <1>4

\* A lost probe stays lost while the breaker stays half open, and a thread
\* that gives up marks what it abandons.
LEMMA LostStays ==
  ASSUME TypeOK, NEW t \in Threads, ThreadStep(t), NEW b \in Breaker,
         state[b] = "HalfOpen", lost[b]
  PROVE  lost'[b]
BY DEF ThreadStep, Entry, CheckStep, RecordStep, Exit, TryPass,
       RetryTimeoutArrived, RetryClockFirst, LoadTimestamp, RetryTimestampFirst,
       ReadClock, FromOpenToHalfOpen, RecordWindow, AddBadCount, AddTotalCount,
       LoadOpen, LoadHalfOpen, FromHalfOpenToOpen, FromHalfOpenToClose,
       FromCloseToOpen, ComputeTimestamp, UpdateNextRetryTimestamp, ResetBadCount,
       ResetTotalCount, SumBadCount, SumTotalCount, Trip, Block, MarkLost,
       historyVars, TypeOK, HistoryTypeOK

\* Checking further breakers keeps the probe, or loses it to a block.
LEMMA ProbeChecks ==
  ASSUME TypeOK, NEW t \in Threads, CheckStep(t), NEW b \in Breaker,
         state[b] = "HalfOpen", prober[b] = t,
         \E k \in 1 .. pos[t] - 1 : cbs[t][k] = b
  PROVE  lost'[b] \/ Undecided(t, b)'
<1>1. pc[t] \in CheckPcs /\ pos[t] \in Nat
  BY DEF CheckStep, TryPass, RetryTimeoutArrived, RetryClockFirst, LoadTimestamp,
         RetryTimestampFirst, ReadClock, FromOpenToHalfOpen, CheckPcs, TypeOK,
         ThreadTypeOK
<1>2. CASE Block(t)
  BY <1>2 DEF Block, MarkLost, Abandons
<1>3. CASE PassNext(t) \/ \E label \in CheckPcs : Goto(t, label)
  <2>1. CASE pc'[t] = "running"
    BY <2>1 DEF Undecided
  <2>2. CASE pc'[t] # "running"
    <3>1. pc'[t] \in CheckPcs /\ cbs' = cbs /\ pos'[t] \in Nat /\ pos'[t] >= pos[t]
      BY <1>1, <1>3, <2>2 DEF PassNext, Goto, TypeOK, ThreadTypeOK, CheckPcs
    <3> QED
      BY <1>1, <3>1 DEF Undecided
  <2> QED
    BY <2>1, <2>2
<1> QED
  BY <1>2, <1>3 DEF CheckStep, TryPass, RetryTimeoutArrived, RetryClockFirst,
                    LoadTimestamp, RetryTimestampFirst, ReadClock,
                    FromOpenToHalfOpen, Goto, CheckPcs

\* The end of the call finds the breaker in the manager, or loses the probe.
LEMMA ProbeExits ==
  ASSUME TypeOK, NEW t \in Threads, NEW o \in Outcomes, Exit(t, o), NEW b \in Breaker,
         state[b] = "HalfOpen", prober[b] = t
  PROVE  lost'[b] \/ Undecided(t, b)'
<1>1. cbMap \in Seq(Made)
  BY DEF TypeOK, ManagerTypeOK
<1>2. CASE \A k \in DOMAIN cbMap : cbMap[k] # b
  BY <1>2 DEF Exit, MarkLost, Abandons
<1>3. CASE \E k \in DOMAIN cbMap : cbMap[k] = b
  <2>1. PICK k \in 1 .. Len(cbMap) : cbMap[k] = b
    BY <1>1, <1>3
  <2>2. cbMap # <<>>
    BY <1>1, <2>1
  <2>3. cbs'[t] = cbMap /\ pos'[t] = 1 /\ pc'[t] = "window"
    BY <2>2 DEF Exit, TypeOK, ThreadTypeOK
  <2>4. CASE k = 1
    BY <2>1, <2>3, <2>4 DEF Undecided, Cur
  <2>5. CASE k # 1
    BY <1>1, <2>1, <2>3, <2>5 DEF Undecided, RecordPcs, StampPcs
  <2> QED
    BY <2>4, <2>5
<1> QED
  BY <1>2, <1>3

\* Recording walks towards the breaker and settles it on arrival.
LEMMA ProbeRecords ==
  ASSUME TypeOK, NEW t \in Threads, RecordStep(t), NEW b \in Breaker,
         state[b] = "HalfOpen", state'[b] = "HalfOpen", Undecided(t, b)
  PROVE  Undecided(t, b)'
<1>1. pc[t] \in RecordPcs
  BY DEF RecordStep, RecordPcs, StampPcs, RecordWindow, AddBadCount, AddTotalCount,
         LoadOpen, LoadHalfOpen, FromHalfOpenToOpen, FromHalfOpenToClose,
         FromCloseToOpen, ComputeTimestamp, UpdateNextRetryTimestamp,
         ResetBadCount, ResetTotalCount, SumBadCount, SumTotalCount, Trip
<1>2. cbs[t] \in Seq(Made) /\ pos[t] \in Nat /\ pos[t] <= Len(cbs[t]) /\ Len(cbs[t]) \in Nat
  BY <1>1 DEF TypeOK, ThreadTypeOK
<1>3. CASE \E k \in pos[t] + 1 .. Len(cbs[t]) : cbs[t][k] = b
  <2>1. PICK k \in pos[t] + 1 .. Len(cbs[t]) : cbs[t][k] = b
    BY <1>3
  <2>2. RecordNext(t) \/ \E label \in RecordPcs : Goto(t, label)
    <3>1. CASE RecordWindow(t) \/ LoadHalfOpen(t)
      BY <3>1 DEF RecordWindow, LoadHalfOpen, RecordPcs, StampPcs
    <3>2. CASE AddBadCount(t) \/ AddTotalCount(t) \/ LoadOpen(t) \/ ResetBadCount(t)
      BY <3>2 DEF AddBadCount, AddTotalCount, LoadOpen, ResetBadCount, RecordPcs,
                  StampPcs
    <3>3. CASE FromHalfOpenToOpen(t) \/ FromHalfOpenToClose(t) \/ FromCloseToOpen(t)
      BY <3>3 DEF FromHalfOpenToOpen, FromHalfOpenToClose, FromCloseToOpen, Opens,
                  RecordPcs, StampPcs
    <3>4. CASE \/ ComputeTimestamp(t) \/ UpdateNextRetryTimestamp(t)
               \/ ResetTotalCount(t) \/ SumBadCount(t)
      BY <3>4 DEF ComputeTimestamp, UpdateNextRetryTimestamp, ResetTotalCount,
                  SumBadCount, RecordPcs, StampPcs
    <3>5. CASE SumTotalCount(t) \/ Trip(t)
      BY <3>5 DEF SumTotalCount, Trip, RecordPcs, StampPcs
    <3> QED
      BY <3>1, <3>2, <3>3, <3>4, <3>5 DEF RecordStep
  <2>3. CASE RecordNext(t)
    <3>1. pos'[t] = pos[t] + 1 /\ pc'[t] = "window" /\ cbs'[t] = cbs[t]
      BY <1>2, <2>1, <2>3 DEF RecordNext, TypeOK, ThreadTypeOK
    <3>2. CASE k = pos[t] + 1
      BY <2>1, <3>1, <3>2 DEF Undecided, Cur
    <3>3. CASE k # pos[t] + 1
      BY <1>2, <2>1, <3>1, <3>3 DEF Undecided, RecordPcs, StampPcs
    <3> QED
      BY <3>2, <3>3
  <2>4. CASE \E label \in RecordPcs : Goto(t, label)
    BY <2>1, <2>4 DEF Goto, Undecided, TypeOK, ThreadTypeOK
  <2> QED
    BY <2>2, <2>3, <2>4
<1>4. CASE pc[t] \in EarlyPcs /\ Cur(t) = b
  <2>1. \E label \in EarlyPcs : Goto(t, label)
    <3>1. CASE RecordWindow(t) \/ LoadHalfOpen(t)
      BY <1>4, <3>1 DEF RecordWindow, LoadHalfOpen, EarlyPcs
    <3>2. CASE AddBadCount(t) \/ AddTotalCount(t) \/ LoadOpen(t)
      BY <1>4, <3>2 DEF AddBadCount, AddTotalCount, LoadOpen, EarlyPcs
    <3>3. CASE FromHalfOpenToOpen(t) \/ FromHalfOpenToClose(t)
      BY <1>4, <3>3 DEF FromHalfOpenToOpen, FromHalfOpenToClose, Opens, TypeOK, BreakerTypeOK
    <3> QED
      BY <1>4, <3>1, <3>2, <3>3
         DEF RecordStep, EarlyPcs, FromCloseToOpen, ComputeTimestamp,
             UpdateNextRetryTimestamp, ResetBadCount, ResetTotalCount, SumBadCount,
             SumTotalCount, Trip
  <2> QED
    BY <1>4, <2>1 DEF Goto, Undecided, Cur, EarlyPcs, TypeOK, ThreadTypeOK
<1> QED
  BY <1>1, <1>3, <1>4 DEF Undecided, EarlyPcs, RecordPcs, StampPcs, CheckPcs

\* Every step of a thread keeps each half-open breaker's probe outstanding.
LEMMA StepProbe ==
  ASSUME TypeOK, ProbeOutstanding, NEW t \in Threads, ThreadStep(t)
  PROVE  ProbeOutstanding'
<1> SUFFICES ASSUME NEW b \in Breaker, state'[b] = "HalfOpen", ~ lost'[b]
             PROVE  prober'[b] \in Threads /\ Undecided(prober[b], b)'
  BY DEF ProbeOutstanding
<1>1. CASE state[b] # "HalfOpen"
  <2>1. /\ FromOpenToHalfOpen(t) /\ Cur(t) = b /\ state[b] = "Open"
    BY <1>1, StepState DEF Opens, TypeOK, BreakerTypeOK
  <2>2. prober'[b] = t /\ PassNext(t)
    BY <2>1 DEF FromOpenToHalfOpen, TypeOK, HistoryTypeOK
  <2>3. cbs[t][pos[t]] = b /\ pos[t] \in Nat \ {0}
    BY <2>1 DEF Cur, TypeOK, ThreadTypeOK
  <2>4. CASE pos[t] < Len(cbs[t])
    <3>1. pos'[t] = pos[t] + 1 /\ pc'[t] = "tryPass" /\ cbs'[t] = cbs[t]
      BY <2>2, <2>4 DEF PassNext, TypeOK, ThreadTypeOK
    <3> QED
      BY <2>2, <2>3, <3>1 DEF Undecided, CheckPcs
  <2>5. CASE ~ (pos[t] < Len(cbs[t]))
    BY <2>2, <2>5 DEF PassNext, Undecided, TypeOK, ThreadTypeOK
  <2> QED
    BY <2>4, <2>5
<1>2. CASE state[b] = "HalfOpen"
  <2>1. ~ lost[b]
    BY <1>2, LostStays
  <2>2. prober[b] \in Threads /\ Undecided(prober[b], b)
    BY <1>2, <2>1 DEF ProbeOutstanding
  <2>3. CASE prober[b] # t
    BY <1>2, <2>2, <2>3, ProbeOfOther
  <2>4. CASE prober[b] = t
    <3>1. prober'[b] = t
      BY <1>2, <2>4 DEF ThreadStep, Entry, CheckStep, RecordStep, Exit, TryPass,
                        RetryTimeoutArrived, RetryClockFirst, LoadTimestamp,
                        RetryTimestampFirst, ReadClock, FromOpenToHalfOpen,
                        RecordWindow, AddBadCount, AddTotalCount, LoadOpen,
                        LoadHalfOpen, FromHalfOpenToOpen, FromHalfOpenToClose,
                        FromCloseToOpen, ComputeTimestamp,
                        UpdateNextRetryTimestamp, ResetBadCount, ResetTotalCount,
                        SumBadCount, SumTotalCount, Trip, historyVars, TypeOK,
                        HistoryTypeOK
    <3>2. CASE Entry(t)
      BY <2>2, <2>4, <3>2 DEF Entry, Undecided, CheckPcs, RecordPcs, StampPcs
    <3>3. CASE CheckStep(t)
      <4>1. pc[t] \in CheckPcs
        BY <3>3 DEF CheckStep, TryPass, RetryTimeoutArrived, RetryClockFirst,
                    LoadTimestamp, RetryTimestampFirst, ReadClock,
                    FromOpenToHalfOpen, CheckPcs
      <4>2. \E k \in 1 .. pos[t] - 1 : cbs[t][k] = b
        BY <2>2, <2>4, <4>1 DEF Undecided, CheckPcs, RecordPcs, StampPcs
      <4> QED
        BY <1>2, <2>4, <3>1, <3>3, <4>2, ProbeChecks
    <3>4. CASE \E o \in Outcomes : Exit(t, o)
      BY <1>2, <2>4, <3>1, <3>4, ProbeExits
    <3>5. CASE RecordStep(t)
      BY <1>2, <2>2, <2>4, <3>1, <3>5, ProbeRecords
    <3> QED
      BY <3>2, <3>3, <3>4, <3>5 DEF ThreadStep
  <2> QED
    BY <2>3, <2>4
<1> QED
  BY <1>1, <1>2

\* A half-open breaker is never forgotten: as long as its probe was not
\* blocked by another breaker and its rule was not removed, the thread that
\* took it half open is still going to settle it (TryPass, CompleteStatSlot::
\* Exit, RecordComplete).
THEOREM ProbeIsOutstanding == Spec => []ProbeOutstanding
<1>1. Init => ProbeOutstanding
  BY DEF Init, ProbeOutstanding
<1>2. TypeOK /\ ProbeOutstanding /\ [Next]_vars => ProbeOutstanding'
  <2> SUFFICES ASSUME TypeOK, ProbeOutstanding, [Next]_vars PROVE ProbeOutstanding'
    OBVIOUS
  <2>1. CASE \E t \in Threads : ThreadStep(t)
    BY <2>1, StepProbe
  <2>2. CASE Tick \/ UNCHANGED vars \/ \E list \in RuleLists : LoadRules(list)
    BY <2>2 DEF Tick, LoadRules, vars, historyVars, ProbeOutstanding, Undecided, Cur
  <2> QED
    BY <2>1, <2>2 DEF Next, ThreadStep
<1> QED
  BY <1>1, <1>2, TypeCorrect, PTL DEF Spec

-----------------------------------------------------------------------------
(***************************************************************************)
(* Breakers survive a reload.                                              *)
(***************************************************************************)
\* GetExistingSameCbOrNew makes an object only where no breaker has the rule.
LEMMA LoadRulesReuses ==
  ASSUME TypeOK, NEW list \in RuleLists, LoadRules(list),
         NEW k \in DOMAIN cbMap', cbMap'[k] \notin Made, NEW j \in DOMAIN cbMap
  PROVE  rule[cbMap[j]] # rule'[cbMap'[k]]
<1>0. cbMap \in Seq(Made) /\ loads \in Nat /\ loads + 1 \in 1 .. MaxLoads
  BY ConstantsAssumption DEF LoadRules, TypeOK, ManagerTypeOK
<1>1. list # lastValue
  BY <1>0 DEF LoadRules
<1>2. PICK n \in 0 .. Len(list) : \E f \in [1 .. n -> DOMAIN list] :
        Keeps(f, list) /\ BuildCircuitBreakerMap(list, f)
  BY <1>1 DEF LoadRules
<1>3. PICK f \in [1 .. n -> DOMAIN list] :
        Keeps(f, list) /\ BuildCircuitBreakerMap(list, f)
  BY <1>2
<1>4. n \in Nat /\ n <= MaxRules
  BY ConstantsAssumption
<1>5. k \in 1 .. n /\ cbMap'[k] = GetExistingSameCbOrNew(list[f[k]], k)
  BY <1>3 DEF BuildCircuitBreakerMap
<1> DEFINE r == list[f[k]]
           b == <<loads + 1, k>>
<1>6. HoldersOf(r) = {}
  <2> SUFFICES ASSUME HoldersOf(r) # {} PROVE FALSE
    OBVIOUS
  <2>0. HoldersOf(r) \subseteq Nat
    BY <1>0 DEF HoldersOf
  <2>1. FirstHolder(r) \in DOMAIN cbMap
    BY <2>0, LeastElement DEF FirstHolder, HoldersOf
  <2>2. cbMap'[k] = cbMap[FirstHolder(r)]
    BY <1>5 DEF GetExistingSameCbOrNew
  <2> QED
    BY <1>0, <2>1, <2>2
<1>7. b \in Breaker /\ b[1] = loads + 1 /\ b[2] = k
  BY <1>0, <1>4, <1>5, ConstantsAssumption DEF Breaker
<1>8. rule'[b] = r /\ cbMap'[k] = b
  BY <1>3, <1>5, <1>6, <1>7 DEF BuildCircuitBreakerMap, GetExistingSameCbOrNew
<1>9. rule[cbMap[j]] # r
  BY <1>6 DEF HoldersOf
<1> QED
  BY <1>8, <1>9

\* RulePropertyListener::ConfigUpdate hands every rule that stays the breaker
\* it had, whatever state that is in.
THEOREM ReloadsReuse == Spec => ReloadReuses
<1>1. ASSUME TypeOK, [Next]_vars, NEW k \in DOMAIN cbMap', cbMap'[k] \notin Made,
             NEW j \in DOMAIN cbMap
      PROVE  rule[cbMap[j]] # rule'[cbMap'[k]]
  <2>1. CASE \E list \in RuleLists : LoadRules(list)
    BY <1>1, <2>1, LoadRulesReuses
  <2>2. CASE UNCHANGED cbMap
    BY <1>1, <2>2 DEF TypeOK, ManagerTypeOK
  <2>3. CASE Tick \/ UNCHANGED vars \/ \E t \in Threads : ThreadStep(t)
    BY <2>2, <2>3, StepFrame DEF Tick, managerVars, vars
  <2> QED
    BY <1>1, <2>1, <2>3 DEF Next, ThreadStep
<1>2. TypeOK /\ [Next]_vars =>
        [\A k \in DOMAIN cbMap' : cbMap'[k] \notin Made =>
           \A j \in DOMAIN cbMap : rule[cbMap[j]] # rule'[cbMap'[k]]]_vars
  BY <1>1
<1> QED
  BY <1>2, TypeCorrect, PTL DEF Spec, ReloadReuses

\* Every breaker object made so far comes from a call of LoadRules so far.
MadeByLoads == \A b \in Made : b[1] <= loads

\* So the object that GetExistingSameCbOrNew makes for a rule is none of those
\* that threads may still hold.
THEOREM NewBreakersAreNew == Spec => []MadeByLoads
<1>1. Init => MadeByLoads
  BY DEF Init, MadeByLoads, Made
<1>2. TypeOK /\ MadeByLoads /\ [Next]_vars => MadeByLoads'
  <2> SUFFICES ASSUME TypeOK, MadeByLoads, [Next]_vars PROVE MadeByLoads'
    OBVIOUS
  <2>1. CASE UNCHANGED <<loads, rule>>
    BY <2>1 DEF MadeByLoads, Made
  <2>2. ASSUME NEW list \in RuleLists, LoadRules(list) PROVE MadeByLoads'
    <3>1. loads \in Nat /\ loads' = loads + 1
      BY <2>2 DEF LoadRules, TypeOK, ManagerTypeOK
    <3>2. ASSUME NEW b \in Breaker, rule'[b] # NoRule
          PROVE  b \in Made \/ b[1] = loads + 1
      BY <2>2, <3>2 DEF LoadRules, BuildCircuitBreakerMap, Made
    <3>3. \A b \in Breaker : b[1] \in Nat
      BY DEF Breaker
    <3> QED
      BY <3>1, <3>2, <3>3 DEF MadeByLoads, Made
  <2>3. CASE Tick \/ UNCHANGED vars \/ \E t \in Threads : ThreadStep(t)
    BY <2>1, <2>3, StepFrame DEF Tick, managerVars, vars
  <2> QED
    BY <2>2, <2>3 DEF Next, ThreadStep
<1> QED
  BY <1>1, <1>2, TypeCorrect, PTL DEF Spec
=============================================================================

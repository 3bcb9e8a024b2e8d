------------------------------ MODULE BlockLog ------------------------------
(***************************************************************************)
(* BlockLogTask: blocked calls leave a record per resource and cause, and  *)
(* a thread writes a line for every record once a second and empties the   *)
(* map.  The map is under a reader-writer lock: each critical section is   *)
(* one step.  LogSlot owns the task and reports the calls that its         *)
(* predecessors in the chain have blocked.                                 *)
(***************************************************************************)
EXTENDS Naturals, FiniteSets

CONSTANTS
  Blocked,      \* the calls that get blocked
  Causes,       \* resource and cause, what a record is kept for
  NoCause,
  MaxClock, MaxReports           \* bounds

VARIABLES
  clock,        \* the time, in milliseconds of the model
  logger,       \* did the file open? (logger_ != nullptr)
  records,      \* map_: what is known of each cause
  call, cause,  \* each call: where it is, what it reports
  running,      \* started_
  writer,       \* where the thread is
  slot,         \* where the owner of the task, LogSlot, is
  reports,      \* how often each cause has been reported
  lines         \* the lines written for each cause

tally == <<reports, lines>>
vars == <<clock, logger, records, call, cause, running, writer, slot, reports, lines>>

Init ==
  /\ clock = 1 /\ logger \in BOOLEAN
  /\ records = [k \in {} |-> 0]
  /\ call = [b \in Blocked |-> "idle"] /\ cause = [b \in Blocked |-> NoCause]
  /\ running = FALSE /\ writer = "none" /\ slot = "made"
  /\ reports = [k \in Causes |-> 0] /\ lines = [k \in Causes |-> 0]

Tick ==
  /\ clock < MaxClock /\ clock' = clock + 1
  /\ UNCHANGED <<logger, records, call, cause, running, writer, slot, tally>>

-----------------------------------------------------------------------------
(***************************************************************************)
(* Log, by a blocked call.                                                 *)
(***************************************************************************)
Record(write, block) == [last_write |-> write, last_block |-> block]

Put(k, r) ==
  records' = [j \in DOMAIN records \union {k} |-> IF j = k THEN r ELSE records[j]]

Reported(b) ==
  /\ call' = [call EXCEPT ![b] = "idle"] /\ cause' = [cause EXCEPT ![b] = NoCause]
  /\ reports' = [reports EXCEPT ![cause[b]] = @ + 1]

\* LogSlot::Entry for a call that was blocked; nothing is done without a logger.
Log(b) ==
  /\ call[b] = "idle" /\ logger
  /\ call' = [call EXCEPT ![b] = "find"]
  /\ \E k \in Causes :
       /\ reports[k] + Cardinality({c \in Blocked : cause[c] = k}) < MaxReports
       /\ cause' = [cause EXCEPT ![b] = k]
  /\ UNCHANGED <<clock, logger, records, running, writer, slot, tally>>

\* Under the reader's lock: a record that is there is refreshed.
Find(b) ==
  /\ call[b] = "find"
  /\ IF cause[b] \in DOMAIN records
       THEN /\ Put(cause[b], [records[cause[b]] EXCEPT !.last_block = clock])
            /\ Reported(b)
       ELSE /\ call' = [call EXCEPT ![b] = "emplace"]
            /\ UNCHANGED <<records, cause, reports>>
  /\ UNCHANGED <<clock, logger, running, writer, slot, lines>>

\* Under the writer's lock: emplace leaves a record that has come in between.
Emplace(b) ==
  /\ call[b] = "emplace"
  /\ IF cause[b] \in DOMAIN records THEN UNCHANGED records
                                    ELSE Put(cause[b], Record(0, clock))
  /\ Reported(b)
  /\ UNCHANGED <<clock, logger, running, writer, slot, lines>>

-----------------------------------------------------------------------------
(***************************************************************************)
(* The thread, and Start and Stop.                                         *)
(***************************************************************************)
\* Mutant: the comparison is the wrong way round.
WrittenSince(r) == r.last_write > r.last_block

BlockedSince(r) == r.last_block > r.last_write

Due == {k \in DOMAIN records : BlockedSince(records[k])}

\* Mutant: the records are neither stamped nor dropped.
Keep == UNCHANGED records

\* What is left of the map after a round: it is emptied.
Forget == records' = [k \in {} |-> 0]

\* One round of LoopWriteBlockLog, with the map locked.
WriteLines ==
  /\ writer = "test" /\ running
  /\ lines' = [k \in Causes |-> IF k \in Due THEN lines[k] + 1 ELSE lines[k]]
  /\ Forget
  /\ writer' = "sleep"
  /\ UNCHANGED <<clock, logger, call, cause, running, slot, reports>>

Wake ==
  /\ writer = "sleep" /\ writer' = "test"
  /\ UNCHANGED <<clock, logger, records, call, cause, running, slot, tally>>

LeaveLoop ==
  /\ writer = "test" /\ ~running
  /\ writer' = "ended"
  /\ UNCHANGED <<clock, logger, records, call, cause, running, slot, tally>>

\* LogSlot's constructor: without a logger no thread is started.
Start ==
  /\ slot = "made" /\ slot' = "up"
  /\ IF logger THEN running' = TRUE /\ writer' = "test"
               ELSE UNCHANGED <<running, writer>>
  /\ UNCHANGED <<clock, logger, records, call, cause, tally>>

\* The destructor: the join goes through thd_, which is null without a logger.
Stop ==
  /\ slot = "up"
  /\ running' = FALSE
  /\ slot' = IF logger THEN "join" ELSE "crashed"
  /\ UNCHANGED <<clock, logger, records, call, cause, writer, tally>>

Join ==
  /\ slot = "join" /\ writer = "ended"
  /\ slot' = "gone"
  /\ UNCHANGED <<clock, logger, records, call, cause, running, writer, tally>>

-----------------------------------------------------------------------------
ThreadStep == WriteLines \/ Wake \/ LeaveLoop

\* Calls go through the slot: none while it is being destroyed.
Next ==
  \/ Tick \/ Start \/ Stop \/ Join \/ ThreadStep
  \/ \E b \in Blocked : Find(b) \/ Emplace(b) \/ (slot = "up" /\ Log(b))

Fairness ==
  /\ WF_vars(ThreadStep) /\ WF_vars(Join)
  /\ \A b \in Blocked : WF_vars(Find(b) \/ Emplace(b))

Spec == Init /\ [][Next]_vars /\ Fairness

-----------------------------------------------------------------------------
(***************************************************************************)
(* Properties.                                                             *)
(***************************************************************************)
\* Every line stands for a blocked call of its own, never for one that an
\* earlier line has already told of, however a report's two critical sections
\* fall around the writer's.
LinesBacked ==
  \A k \in Causes : lines[k] + (IF k \in Due THEN 1 ELSE 0) <= reports[k]

\* A call blocked while the task runs is told of: a line is written for its
\* cause, unless the task is stopped before the next round (what is in the map
\* then is lost).
BlockIsLogged ==
  \A k \in Causes : \A n \in 0..MaxReports :
    k \in DOMAIN records /\ lines[k] = n ~> lines[k] > n \/ ~running
=============================================================================

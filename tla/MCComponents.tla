---------------------------- MODULE MCComponents ----------------------------
(***************************************************************************)
(* The components that share no state with one another: the command        *)
(* server, the status listener, the block log, the node storage, the       *)
(* throttling checker and one thread's sliding window.  Their steps        *)
(* commute, so each is explored by itself, with the others in their        *)
(* initial state: a behaviour is one of the component focus names.  Init,  *)
(* Next and vars are the command server's, AllInit, AllNext and allVars    *)
(* those of the whole.                                                     *)
(***************************************************************************)
EXTENDS Integers, FiniteSets, CommandServer, MCLeapArray

CONSTANTS
  Loads, MaxSpent,
  Blocked, Causes, NoCause, MaxClock, MaxReports,
  Users, Resources, Updaters, SampleCounts, Intervals, Nobody, NoNode, MaxUpdates,
  Shaped, Cost, Timeout, Garbage, MaxMillis

CONSTANTS r1, r2, r3

\* Nodes are numbered, and the absent node is no number; no updater is Nobody.
ASSUME StorageAssumption ==
  /\ NoNode \notin Nat /\ Nobody \notin Updaters
  /\ SampleCounts \subseteq Int /\ Intervals \subseteq Int

\* Finitely many calls to space, and times that are no negative numbers; the
\* memory of last_passed_time_ held some integer.
ASSUME ShaperAssumption ==
  IsFiniteSet(Shaped) /\ Cost \in Nat /\ Timeout \in Nat /\ Garbage \subseteq Int

VARIABLES
  focus,
  proc, statOn, loadOn, p1, p2, usage, load, cmd, stopped, inited, listener, stopper,
  clock, logger, records, call, cause, running, writer, slot, reports, lines,
  sampleCount, intervalMs, nodeMap, shape, holder, user, resource, node, updater, new,
  left, updates,
  millis, last, shaped, seen

Listener == INSTANCE StatusListener
Log      == INSTANCE BlockLog
Storage  == INSTANCE NodeStorage
Shaper   == INSTANCE Throttling

\* Two requests that set the switch, and one that would if it were no POST.
ThreeRequests ==
  [r \in {r1, r2, r3} |->
     [method |-> IF r = r3 THEN "POST" ELSE "GET", target |-> "setSwitch",
      value |-> IF r = r1 THEN "false" ELSE "true"]]

\* The memory of last_passed_time_ held a time of the past, or of the far future.
PastOrFuture == {-1, 20}

listenerVars ==
  <<proc, statOn, loadOn, p1, p2, usage, load, cmd, stopped, inited, listener, stopper>>
logVars ==
  <<clock, logger, records, call, cause, running, writer, slot, reports, lines>>
storageVars ==
  <<sampleCount, intervalMs, nodeMap, shape, holder, user, resource, node, updater, new,
    left, updates>>
shaperVars == <<millis, last, shaped, seen>>
windowVars ==
  <<now, start, cnt, mtx, pc, op, time, idx, list, sum, ops, oldest, log>>
allVars ==
  <<focus, vars, listenerVars, logVars, storageVars, shaperVars, windowVars>>

AllInit ==
  /\ focus \in {"server", "listener", "log", "storage", "shaper", "window"}
  /\ Init /\ Listener!Init /\ Log!Init /\ Storage!Init /\ Shaper!Init
  /\ Window!Init
  \* The files and the names a component starts with matter to itself only.
  /\ focus # "listener" => statOn /\ loadOn
  /\ focus # "log" => logger
  /\ focus # "storage" => resource = CHOOSE f \in [Users -> Resources] : TRUE
  /\ focus # "shaper" => last = -1

AllNext ==
  /\ UNCHANGED focus
  /\ \/ /\ focus = "server" /\ Next
        /\ UNCHANGED <<listenerVars, logVars, storageVars, shaperVars, windowVars>>
     \/ /\ focus = "listener" /\ Listener!Next
        /\ UNCHANGED <<vars, logVars, storageVars, shaperVars, windowVars>>
     \/ /\ focus = "log" /\ Log!Next
        /\ UNCHANGED <<vars, listenerVars, storageVars, shaperVars, windowVars>>
     \/ /\ focus = "storage" /\ Storage!Next
        /\ UNCHANGED <<vars, listenerVars, logVars, shaperVars, windowVars>>
     \/ /\ focus = "shaper" /\ Shaper!Next
        /\ UNCHANGED <<vars, listenerVars, logVars, storageVars, windowVars>>
     \/ /\ focus = "window" /\ Window!Next
        /\ UNCHANGED <<vars, listenerVars, logVars, storageVars, shaperVars>>

\* None of the fair steps is enabled in an initial state: the fairness of the
\* components that are not explored demands nothing.
AllSpec ==
  /\ AllInit /\ [][AllNext]_allVars
  /\ Fairness /\ Listener!Fairness /\ Log!Fairness

-----------------------------------------------------------------------------
(***************************************************************************)
(* The properties of the other components, which their modules explain.    *)
(***************************************************************************)
\* The CPU usage is a share of the time between two samples.
UsageIsShare == Listener!UsageIsShare

\* StopListner returns once the thread was started, unless it has crashed.
ListenerStops == Listener!StopReturns

\* Every line of the block log stands for a blocked call no earlier line told of.
LinesBacked == Log!LinesBacked

\* A blocked call is logged while the block log task runs.
BlockIsLogged == Log!BlockIsLogged

\* All calls on a resource get the node of ResourceNodeStorage's map.
OneNode == Storage!OneNode

\* With no change of configuration under way, the node's windows are those of
\* StatConfig.
WindowsCurrent == Storage!WindowsCurrent

\* No turn of a blocked call stays in last_passed_time_.
NoTurnLost == Shaper!NoTurnLost
=============================================================================

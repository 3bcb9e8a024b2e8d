--------------------------- MODULE StatusListener ---------------------------
(***************************************************************************)
(* SystemStatusListener: a detached thread that reads /proc/stat and       *)
(* /proc/loadavg once a second, and StopListner, which waits for it by     *)
(* spinning on a flag the thread also raises while it sleeps.              *)
(***************************************************************************)
EXTENDS Integers

CONSTANTS
  Loads,        \* the load averages /proc/loadavg may show
  MaxSpent       \* bound on the CPU times of /proc/stat

VARIABLES
  proc,         \* the times in /proc/stat: <<active, idle>>
  statOn,       \* are there usage_info_p1_ and usage_info_p2_?
  loadOn,       \* is there a load_info_p_?
  p1, p2,       \* the two samples
  usage,        \* cur_cpu_usage_, as a quotient
  load,         \* cur_load_
  cmd,          \* stopped_cmd_
  stopped,      \* stopped_
  inited,       \* inited_
  listener,     \* where the thread is
  stopper       \* where the caller of StopListner is

files == <<proc, statOn, loadOn, p1, p2, usage, load>>
vars == <<proc, statOn, loadOn, p1, p2, usage, load, cmd, stopped, inited, listener,
          stopper>>

NotSampled == <<-1, 1>>

\* The constructor, with files that open or not.
Init ==
  /\ statOn \in BOOLEAN /\ loadOn \in BOOLEAN
  /\ proc = <<0, 1>> /\ p1 = <<0, 0>> /\ p2 = <<0, 0>>
  /\ usage = NotSampled /\ load = -1
  /\ cmd = FALSE /\ stopped = FALSE /\ inited = FALSE
  /\ listener = "none" /\ stopper = "idle"

-----------------------------------------------------------------------------
\* CPU time is spent, active or idle.
Spend ==
  /\ \/ proc[1] < MaxSpent /\ proc' = <<proc[1] + 1, proc[2]>>
     \/ proc[2] < MaxSpent /\ proc' = <<proc[1], proc[2] + 1>>
  /\ UNCHANGED <<statOn, loadOn, p1, p2, usage, load, cmd, stopped, inited, listener,
                 stopper>>

\* The thread is started once, and only when there is a file to read.
Initialize ==
  /\ ~inited /\ inited' = TRUE
  /\ IF statOn \/ loadOn
       THEN cmd' = FALSE /\ listener' = "while"
       ELSE UNCHANGED <<cmd, listener>>
  /\ UNCHANGED <<files, stopped, stopper>>

At(from, to) == listener = from /\ listener' = to

LoopTest == listener = "while" /\ listener' = IF cmd THEN "leave" ELSE "begin"

TestCommand ==
  /\ LoopTest
  /\ UNCHANGED <<files, cmd, stopped, inited, stopper>>

BeginRound ==
  /\ At("begin", "cpu")
  /\ stopped' = FALSE
  /\ UNCHANGED <<files, cmd, inited, stopper>>

\* Mutant: the active time over the idle one.
OfIdle(a, i) == IF i < 0 THEN <<-a, -i>> ELSE <<a, i>>

\* active_time / total_time; a quotient of negative times is that of their
\* absolute values, and 0/0 stands for itself.
Quotient(a, i) == IF a + i < 0 THEN <<-a, -(a + i)>> ELSE <<a, a + i>>

\* The samples change places and the newer one is overwritten, unless the file
\* does not look as it should.
UpdateCpuUsage ==
  /\ At("cpu", "load") /\ statOn
  /\ p1' = p2 /\ p2' \in {proc, p1}
  /\ usage' = Quotient(p2'[1] - p1'[1], p2'[2] - p1'[2])
  /\ UNCHANGED <<proc, statOn, loadOn, load, cmd, stopped, inited, stopper>>

\* A failed read drops both samples, and the next statement dereferences one.
ReadFails ==
  /\ At("cpu", "crashed") /\ statOn
  /\ statOn' = FALSE
  /\ UNCHANGED <<proc, loadOn, p1, p2, usage, load, cmd, stopped, inited, stopper>>

SkipCpuUsage ==
  /\ At("cpu", "load") /\ ~statOn
  /\ UNCHANGED <<files, cmd, stopped, inited, stopper>>

\* A failed read of the load switches it off.
UpdateSystemLoad ==
  /\ At("load", "end")
  /\ \/ loadOn /\ load' \in Loads /\ UNCHANGED loadOn
     \/ loadOn' = FALSE /\ UNCHANGED load
  /\ UNCHANGED <<proc, statOn, p1, p2, usage, cmd, stopped, inited, stopper>>

\* While it sleeps the thread passes for stopped.
EndRound ==
  /\ At("end", "sleep")
  /\ stopped' = TRUE
  /\ UNCHANGED <<files, cmd, inited, stopper>>

Wake ==
  /\ At("sleep", "while")
  /\ UNCHANGED <<files, cmd, stopped, inited, stopper>>

\* Mutant: leaving the loop does not set stopped_.
LeaveSilently ==
  /\ At("leave", "ended")
  /\ UNCHANGED <<files, cmd, stopped, inited, stopper>>

Leave ==
  /\ At("leave", "ended")
  /\ stopped' = TRUE
  /\ UNCHANGED <<files, cmd, inited, stopper>>

StopListner ==
  /\ stopper = "idle" /\ stopper' = "spin"
  /\ cmd' = TRUE
  /\ UNCHANGED <<files, stopped, inited, listener>>

Spin ==
  /\ stopper = "spin" /\ stopped
  /\ stopper' = "returned"
  /\ UNCHANGED <<files, cmd, stopped, inited, listener>>

-----------------------------------------------------------------------------
Round ==
  \/ TestCommand \/ BeginRound \/ UpdateCpuUsage \/ ReadFails \/ SkipCpuUsage
  \/ UpdateSystemLoad \/ EndRound \/ Wake \/ Leave

\* StopListner belongs to the destructor: nothing is initialised after it.
Next ==
  \/ Spend \/ Round \/ Spin \/ StopListner
  \/ Initialize /\ stopper = "idle"

\* The thread and the spinning caller are scheduled.
Fairness == WF_vars(Round) /\ WF_vars(Spin)

Spec == Init /\ [][Next]_vars /\ Fairness

-----------------------------------------------------------------------------
(***************************************************************************)
(* Properties.                                                             *)
(***************************************************************************)
\* The usage is a share, from 0 to 1, of the time between the two samples, or 0/0
\* when none has passed: a line that is not as it should be leaves the samples in
\* the wrong order, and both differences are negative.  It rests on times in
\* /proc/stat that never decrease.
UsageIsShare == usage = NotSampled \/ (0 <= usage[1] /\ usage[1] <= usage[2])

\* The spinning caller gets its answer once the thread was started, unless the
\* thread has crashed: stopped_ stays set when the loop has been left.  (That the
\* loop has stopped by then, as the header says, is not claimed: stopped_ is
\* also set while the thread sleeps, and until it has begun the round it has
\* tested stopped_cmd_ for, so that this one round may still run.)
StopReturns ==
  stopper = "spin" /\ listener # "none" ~> stopper = "returned" \/ listener = "crashed"
=============================================================================

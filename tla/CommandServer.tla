--------------------------- MODULE CommandServer ---------------------------
(***************************************************************************)
(* The command server: HttpCommandCenter owns an HttpServer, which owns an *)
(* EventLoopThread.  The owner starts and stops it from its own thread     *)
(* (Close is documented as not thread-safe); the loop thread waits for     *)
(* events, runs the tasks handed over to it and answers the requests of    *)
(* HTTP clients.  libevent's loop is modelled from how it is used here.    *)
(***************************************************************************)
EXTENDS Naturals

CONSTANTS
  Requests,     \* the HTTP requests clients send
  Asks,         \* what each of them is: its method, the target and the value of
                \* its URI (a POST with a body, which ParsePostData copies to a
                \* vector without room, is left out)
  NoAnswer,     \* a request that has not been answered
  MaxStarts, MaxStops       \* bounds

VARIABLES
  owner,        \* where the owner's thread is; "gone" after the destructor
  server,       \* is there an http_server_?
  leaving,      \* is it the destructor that is stopping the server?
  closed,       \* closed_ of the init target
  started,      \* what the last Start has returned
  loop,         \* where the loop thread is
  stoped,       \* stoped_
  joinable,     \* is thd_ a thread that has not been joined?
  base,         \* is there an event_base?
  bytes,        \* records in the wakeup socket
  tasks,        \* the number of pending_tasks_, each an InternalStart
  loopFuture, startFuture,  \* the two promises of Start: "none" until set
  http,         \* http_: "null", "made", "bound"
  polled,       \* has this round of event_base_loop seen an event?
  queue,        \* requests that have arrived
  answers,      \* the status they were answered with
  activated,    \* GlobalStatus::activated
  starts, stops             \* bounded counters

ownerVars == <<owner, server, leaving, closed, started, starts, stops>>
httpVars  == <<http, queue, answers, activated>>
futures   == <<loopFuture, startFuture>>
vars == <<owner, server, leaving, closed, started, loop, stoped, joinable, base,
          bytes, tasks, loopFuture, startFuture, http, polled, queue, answers, activated, starts,
          stops>>

-----------------------------------------------------------------------------
Init ==
  /\ owner = "idle" /\ server = FALSE /\ leaving = FALSE /\ closed = FALSE
  /\ started = FALSE
  /\ loop = "none" /\ stoped = TRUE /\ joinable = FALSE /\ base = FALSE
  /\ bytes = 0 /\ tasks = 0
  /\ loopFuture = "none" /\ startFuture = "none"
  /\ http = "null" /\ polled = FALSE
  /\ queue = {} /\ answers = [r \in Requests |-> NoAnswer]
  /\ activated = TRUE
  /\ starts = 0 /\ stops = 0

Owner(from, to) == owner = from /\ owner' = to
Loop(from, to) == loop = from /\ loop' = to

-----------------------------------------------------------------------------
(***************************************************************************)
(* Start, by the owner.                                                    *)
(***************************************************************************)
\* HttpCommandCenter::Start with a server already there.
StartAgain ==
  /\ Owner("idle", "idle") /\ server /\ starts < MaxStarts
  /\ starts' = starts + 1
  /\ started' = FALSE
  /\ UNCHANGED <<server, leaving, closed, loop, stoped, joinable, base, bytes, tasks, futures,
                 httpVars, polled, stops>>

\* A server is made and the loop thread created.
Start ==
  /\ Owner("idle", "loopFuture") /\ ~server /\ starts < MaxStarts
  /\ starts' = starts + 1
  /\ server' = TRUE
  /\ loop' = "init" /\ joinable' = TRUE
  /\ UNCHANGED <<leaving, closed, started, stoped, base, bytes, tasks, futures, httpVars,
                 polled, stops>>

\* EventLoopThread::Start returns; HttpServer::Start goes on or fails.
LoopStarted ==
  /\ owner = "loopFuture" /\ loopFuture # "none"
  /\ owner' = IF loopFuture = "true" THEN "push" ELSE "idle"
  /\ started' = FALSE
  /\ UNCHANGED <<server, leaving, closed, starts, stops, loop, stoped, joinable, base, bytes,
                 tasks, futures, httpVars, polled>>

\* Mutant: RunTask wakes the loop before the task is there.
WakeupFirst ==
  \/ /\ Owner("push", "wakeup") /\ bytes' = bytes + 1 /\ UNCHANGED tasks
  \/ /\ Owner("wakeup", "startFuture") /\ tasks' = tasks + 1
     /\ UNCHANGED bytes

PushThenWakeup ==
  \/ /\ Owner("push", "wakeup") /\ tasks' = tasks + 1
     /\ UNCHANGED bytes
  \/ /\ Owner("wakeup", "startFuture") /\ bytes' = bytes + 1 /\ UNCHANGED tasks

\* RunTask(InternalStart): the owner is not in the loop thread.
RunTask ==
  /\ PushThenWakeup
  /\ UNCHANGED <<server, leaving, closed, started, starts, stops, loop, stoped, joinable,
                 base, futures, httpVars, polled>>

\* Mutant: Start does not wait for the task.
NoWait == owner = "startFuture"

TaskDone == owner = "startFuture" /\ startFuture # "none"

StartReturns ==
  /\ TaskDone
  /\ owner' = "idle"
  /\ started' = (startFuture = "true")
  /\ UNCHANGED <<server, leaving, closed, starts, stops, loop, stoped, joinable, base, bytes,
                 tasks, futures, httpVars, polled>>

-----------------------------------------------------------------------------
(***************************************************************************)
(* Close, Stop and the destructor, by the owner.                           *)
(***************************************************************************)
\* HttpServer::Stop, when there is a server: EventLoopThread::Stop returns at
\* once if stoped_ is set, and evhttp_free follows.
StopServer ==
  owner' = IF ~server THEN IF leaving' THEN "gone" ELSE "idle"
           ELSE IF stoped THEN "free" ELSE "setStoped"

\* The init target's Close, the first time.
Close ==
  /\ owner = "idle" /\ ~closed /\ stops < MaxStops
  /\ closed' = TRUE /\ stops' = stops + 1
  /\ UNCHANGED leaving
  /\ StopServer
  /\ UNCHANGED <<server, started, starts, loop, stoped, joinable, base, bytes, tasks,
                 futures, httpVars, polled>>

\* HttpCommandCenter::Stop.
Stop ==
  /\ owner = "idle" /\ stops < MaxStops
  /\ stops' = stops + 1
  /\ UNCHANGED leaving
  /\ StopServer
  /\ UNCHANGED <<server, closed, started, starts, loop, stoped, joinable, base, bytes,
                 tasks, futures, httpVars, polled>>

\* ~HttpCommandCenter.
Destroy ==
  /\ owner = "idle"
  /\ leaving' = TRUE
  /\ StopServer
  /\ UNCHANGED <<server, closed, started, starts, stops, loop, stoped, joinable, base,
                 bytes, tasks, futures, httpVars, polled>>

SetStoped ==
  /\ Owner("setStoped", "wakeStop")
  /\ stoped' = TRUE
  /\ UNCHANGED <<server, leaving, closed, started, starts, stops, loop, joinable, base,
                 bytes, tasks, futures, httpVars, polled>>

\* Mutant: the loop is left asleep.
NoWakeup == UNCHANGED bytes

Wakeup == bytes' = bytes + 1

WakeStop ==
  /\ Owner("wakeStop", "join")
  /\ Wakeup
  /\ UNCHANGED <<server, leaving, closed, started, starts, stops, loop, stoped,
                 joinable, base, tasks, futures, httpVars, polled>>

\* Mutant: the end of the thread is awaited, but it is not joined.
AwaitEnd ==
  /\ Owner("join", "free")
  /\ loop = "ended"
  /\ UNCHANGED <<server, leaving, closed, started, starts, stops, loop, stoped,
                 joinable, base, bytes, tasks, futures, httpVars, polled>>

Join ==
  /\ Owner("join", "free")
  /\ loop = "ended"
  /\ joinable' = FALSE
  /\ UNCHANGED <<server, leaving, closed, started, starts, stops, loop, stoped, base,
                 bytes, tasks, futures, httpVars, polled>>

\* evhttp_free closes the connections; then the caller of Stop goes on, or the
\* server is destroyed.
FreeHttp ==
  /\ owner = "free"
  /\ owner' = IF leaving THEN "gone" ELSE "idle"
  /\ http' = "null" /\ queue' = {}
  /\ UNCHANGED <<server, leaving, closed, started, starts, stops, loop, stoped,
                 joinable, base, bytes, tasks, futures, answers, activated, polled>>

-----------------------------------------------------------------------------
(***************************************************************************)
(* The loop thread.                                                        *)
(***************************************************************************)
\* InitEventBase: the base, the socket pair and its flags may each fail, with
\* or without a base left behind.
InitEventBase ==
  /\ loop = "init"
  /\ \/ loop' = "dispatch" /\ base' = TRUE /\ loopFuture' = "true"
     \/ loop' = "ended" /\ base' \in BOOLEAN /\ loopFuture' = "false"
  /\ UNCHANGED <<ownerVars, stoped, joinable, bytes, tasks, startFuture, httpVars,
                 polled>>

Dispatch ==
  /\ Loop("dispatch", "check")
  /\ stoped' = FALSE
  /\ UNCHANGED <<ownerVars, joinable, base, bytes, tasks, futures, httpVars, polled>>

CheckStoped ==
  /\ loop = "check"
  /\ loop' = IF stoped THEN "clear" ELSE "poll"
  /\ polled' = FALSE
  /\ UNCHANGED <<ownerVars, stoped, joinable, base, bytes, tasks, futures, httpVars>>

\* OnWakeupFdCallback takes one record out of the socket.
OnWakeupFd ==
  /\ loop = "poll" /\ bytes > 0
  /\ bytes' = bytes - 1 /\ polled' = TRUE
  /\ UNCHANGED <<ownerVars, loop, stoped, joinable, base, tasks, futures, httpVars>>

\* The commands the init target registers.
Registered == {"metric", "clusterNode", "setSwitch", "getSwitch", "version"}

\* ParseHttpRequest: for a POST the URI is parsed and then the body, under a
\* path of "/", which leaves the parameters and replaces the target.
Target(r) == IF Asks[r].method = "POST" THEN "" ELSE Asks[r].target

\* SetSwitchStatusCommandHandler.
SetSwitchStatus(r) ==
  activated' = IF Target(r) = "setSwitch" /\ Asks[r].value \in {"true", "false"}
                 THEN Asks[r].value = "true"
                 ELSE activated

\* HandleResponse: unknown commands and bad values are answered 400.
StatusOf(r) ==
  IF \/ Target(r) \notin Registered
     \/ Target(r) = "setSwitch" /\ Asks[r].value \notin {"true", "false"}
  THEN 400 ELSE 200

\* OnHttpRequest, for a request that has arrived.
OnHttpRequest ==
  /\ loop = "poll" /\ polled' = TRUE
  /\ \E r \in queue :
       /\ queue' = queue \ {r}
       /\ answers' = [answers EXCEPT ![r] = StatusOf(r)]
       /\ SetSwitchStatus(r)
  /\ UNCHANGED <<ownerVars, loop, stoped, joinable, base, bytes, tasks, futures, http>>

\* event_base_loop(EVLOOP_ONCE) ends once it has run some callback.
LeavePoll ==
  /\ Loop("poll", "tasks") /\ polled
  /\ UNCHANGED <<ownerVars, stoped, joinable, base, bytes, tasks, futures, httpVars,
                 polled>>

\* Mutant: a failed bind goes unnoticed.
BindUnchecked ==
  \/ http' = "null" /\ startFuture' = "false"
  \/ http' \in {"made", "bound"} /\ startFuture' = "true"

\* What InternalStart may come to: no evhttp, no socket bound, or both.
InternalStart ==
  \/ http' = "null" /\ startFuture' = "false"
  \/ http' = "made" /\ startFuture' = "false"
  \/ http' = "bound" /\ startFuture' = "true"

\* DoPendingTasks: the tasks are swapped out and run.
DoPendingTasks ==
  /\ Loop("tasks", "check")
  /\ tasks' = 0
  /\ IF tasks > 0 THEN InternalStart ELSE UNCHANGED <<http, startFuture>>
  /\ UNCHANGED <<ownerVars, stoped, joinable, base, bytes, loopFuture, queue, answers,
                 activated, polled>>

ClearEventBase ==
  /\ Loop("clear", "ended")
  /\ base' = FALSE
  /\ UNCHANGED <<ownerVars, stoped, joinable, bytes, tasks, futures, httpVars, polled>>

\* A client's request reaches the bound socket while somebody polls it.
Arrive ==
  /\ http = "bound" /\ base
  /\ \E r \in Requests :
       /\ r \notin queue /\ answers[r] = NoAnswer
       /\ queue' = queue \union {r}
  /\ UNCHANGED <<ownerVars, loop, stoped, joinable, base, bytes, tasks, futures, http,
                 answers, activated, polled>>

-----------------------------------------------------------------------------
OwnerGoesOn ==
  LoopStarted \/ RunTask \/ StartReturns \/ SetStoped \/ WakeStop \/ Join \/ FreeHttp

LoopSteps ==
  InitEventBase \/ Dispatch \/ CheckStoped \/ OnWakeupFd \/ LeavePoll
    \/ DoPendingTasks \/ ClearEventBase

Next ==
  \/ Start \/ StartAgain \/ Close \/ Stop \/ Destroy \/ OwnerGoesOn
  \/ LoopSteps \/ OnHttpRequest
  \/ Arrive

Spec == Init /\ [][Next]_vars

\* Both threads are scheduled, and an epoll round takes every socket in turn:
\* neither the wakeup socket nor a connection is passed over for ever.
Fairness ==
  /\ WF_vars(OwnerGoesOn) /\ WF_vars(LoopSteps) /\ WF_vars(OnHttpRequest)
  /\ SF_vars(OnWakeupFd)

-----------------------------------------------------------------------------
(***************************************************************************)
(* Properties.                                                             *)
(***************************************************************************)
\* HttpServer::Stop frees http_, and the destructors after it everything else,
\* without any lock: that is safe only when the loop thread has left the event
\* loop.  The early return of EventLoopThread::Stop when stoped_ is still set
\* must therefore never be taken while the thread is on its way into Dispatch.
FreedAlone ==
  owner \in {"free", "gone"} => loop \in {"none", "ended"}

\* A std::thread destroyed before it is joined ends the process: whenever the
\* command center is gone, its loop thread was joined, unless InitEventBase had
\* failed (event_loop_thread.cc:37 returns, stoped_ stays set and Stop does not
\* join).
DestroyedJoined ==
  owner = "gone" /\ loopFuture # "false" => ~joinable

\* What Start returned stays true of the server: one reported as started has a
\* bound socket and an event base until its owner stops it, whatever is started,
\* closed or asked in between.
StartedServes ==
  started /\ owner = "idle" /\ ~stoped => http = "bound" /\ base

\* Start returns: the loop thread is never asleep with a task pending and no
\* byte in the wakeup socket.
StartReturnsAtLast == owner = "loopFuture" ~> owner = "idle"

\* Stop returns, whatever the loop thread is doing when stoped_ is set.
StopReturnsAtLast == owner = "setStoped" ~> owner \in {"idle", "gone"}
=============================================================================

-------------------------- MODULE ComponentsProofs --------------------------
(***************************************************************************)
(* Proofs about the components that MCComponents puts side by side, for    *)
(* every value of their constants: each behaviour of the whole is one of   *)
(* each component, and the components keep what they promise.              *)
(***************************************************************************)
EXTENDS MCComponents, DataFacts, TLAPS

\* Behaviours of the whole that MCComponents checks are behaviours of each of
\* its components: what follows holds of the run too.
THEOREM ComponentsSideBySide ==
  AllSpec => /\ Spec /\ Listener!Spec /\ Log!Spec
             /\ Storage!Spec /\ Shaper!Spec /\ Window!Spec
<1>1. AllInit => /\ Init /\ Listener!Init /\ Log!Init
                 /\ Storage!Init /\ Shaper!Init /\ Window!Init
  BY DEF AllInit
<1>2. [AllNext]_allVars =>
        /\ [Next]_vars /\ [Listener!Next]_(Listener!vars) /\ [Log!Next]_(Log!vars)
        /\ [Storage!Next]_(Storage!vars) /\ [Shaper!Next]_(Shaper!vars)
        /\ [Window!Next]_(Window!vars)
  <2> SUFFICES ASSUME [AllNext]_allVars
               PROVE  /\ [Next]_vars /\ [Listener!Next]_(Listener!vars)
                      /\ [Log!Next]_(Log!vars) /\ [Storage!Next]_(Storage!vars)
                      /\ [Shaper!Next]_(Shaper!vars) /\ [Window!Next]_(Window!vars)
    OBVIOUS
  <2> USE DEF listenerVars, logVars, storageVars, shaperVars, windowVars,
              Listener!vars, Log!vars, Storage!vars, Shaper!vars, Window!vars
  <2>1. CASE UNCHANGED allVars
    BY <2>1 DEF allVars
  <2>2. CASE AllNext
    BY <2>2 DEF AllNext
  <2> QED
    BY <2>1, <2>2
<1> QED
  BY <1>1, <1>2, PTL
     DEF AllSpec, Spec, Listener!Spec, Log!Spec, Storage!Spec, Shaper!Spec, Window!Spec

-----------------------------------------------------------------------------
(***************************************************************************)
(* The node storage.                                                       *)
(***************************************************************************)

Shapes == Int \X Int

ConfigTypeOK ==
  /\ sampleCount \in Int /\ intervalMs \in Int
  /\ new \in [Updaters -> {"none", "sampleCount", "intervalMs"} \X Int]

MapTypeOK ==
  /\ shape \in Seq(Shapes)
  /\ nodeMap \in [Resources -> 1 .. Len(shape) \cup {NoNode}]
  /\ left \subseteq 1 .. Len(shape)

UserTypeOK ==
  /\ user \in [Users -> {"idle", "create", "has"}]
  /\ node \in [Users -> Nat \cup {NoNode}]
  /\ resource \in [Users -> Resources]

UpdaterTypeOK ==
  updater \in [Updaters -> {"idle", "set", "lock", "reset"}]

\* The variables have their types, and a node in the map has been made.
StorageTypeOK == ConfigTypeOK /\ MapTypeOK /\ UserTypeOK /\ UpdaterTypeOK

\* OneNode, and the node is not the absent one: what a user has, nobody
\* replaces.
NodeInv ==
  \A u \in Users :
    user[u] = "has" => node[u] = nodeMap[resource[u]] /\ node[u] # NoNode

\* Only the holder of the lock resets nodes.
LockInv == \A u \in Updaters : updater[u] = "reset" <=> holder = u

\* Some updater has still to visit node n.
Awaits(n) ==
  \E u \in Updaters : updater[u] = "lock" \/ (updater[u] = "reset" /\ n \in left)

\* A node has a window of the present configuration, or is awaited.
ShapeInv == \A n \in Storage!Nodes : shape[n] = Storage!config \/ Awaits(n)

StorageIInv == StorageTypeOK /\ NodeInv /\ LockInv /\ ShapeInv

-----------------------------------------------------------------------------
LEMMA StorageInit == Storage!Init => StorageIInv
<1> SUFFICES ASSUME Storage!Init PROVE StorageIInv
  OBVIOUS
<1> USE DEF Storage!Init
<1>1. StorageTypeOK
  <2>1. ConfigTypeOK
    BY DEF ConfigTypeOK
  <2>2. MapTypeOK
    BY DEF MapTypeOK, Shapes
  <2>3. UserTypeOK
    BY DEF UserTypeOK
  <2>4. UpdaterTypeOK
    BY DEF UpdaterTypeOK
  <2> QED
    BY <2>1, <2>2, <2>3, <2>4 DEF StorageTypeOK
<1>2. NodeInv
  BY DEF NodeInv
<1>3. LockInv
  BY StorageAssumption DEF LockInv
<1>4. ShapeInv
  BY DEF ShapeInv, Storage!Nodes
<1> QED
  BY <1>1, <1>2, <1>3, <1>4 DEF StorageIInv

\* A user's step keeps the invariant: a node is made only where there is none,
\* with a window of the configuration.
LEMMA UserStep ==
  ASSUME StorageIInv, NEW u \in Users,
         Storage!GetClusterNode(u) \/ Storage!CreateNode(u)
  PROVE  StorageIInv'
<1>0. NoNode \notin Nat
  BY StorageAssumption
<1>1. CASE Storage!GetClusterNode(u)
  <2> USE <1>1 DEF Storage!GetClusterNode, Storage!updaterVars
  <2>1. StorageTypeOK'
    <3> USE DEF StorageIInv, StorageTypeOK, Storage!config
    <3>1. ConfigTypeOK'
      BY DEF ConfigTypeOK
    <3>2. MapTypeOK'
      BY DEF MapTypeOK
    <3>3. UserTypeOK'
      BY DEF UserTypeOK, MapTypeOK
    <3>4. UpdaterTypeOK'
      BY DEF UpdaterTypeOK
    <3> QED
      BY <3>1, <3>2, <3>3, <3>4
  <2>2. NodeInv'
    BY DEF StorageIInv, StorageTypeOK, UserTypeOK, NodeInv
  <2>3. LockInv' /\ ShapeInv'
    BY DEF StorageIInv, LockInv, ShapeInv, Storage!Nodes, Awaits, Storage!config
  <2> QED
    BY <2>1, <2>2, <2>3 DEF StorageIInv
<1>2. CASE Storage!CreateNode(u) /\ nodeMap[resource[u]] # NoNode
  <2> USE <1>2 DEF Storage!CreateNode, Storage!FindOrCreate, Storage!updaterVars
  <2>1. StorageTypeOK'
    <3> USE DEF StorageIInv, StorageTypeOK, Storage!config
    <3>1. ConfigTypeOK'
      BY DEF ConfigTypeOK
    <3>2. MapTypeOK'
      BY DEF MapTypeOK
    <3>3. UserTypeOK'
      <4>1. nodeMap[resource[u]] \in Nat \cup {NoNode}
        BY DEF UserTypeOK, MapTypeOK
      <4>2. /\ node' = [node EXCEPT ![u] = nodeMap[resource[u]]]
            /\ user' = [user EXCEPT ![u] = "has"] /\ resource' = resource
        OBVIOUS
      <4> QED
        BY ONLY <4>1, <4>2, UserTypeOK DEF UserTypeOK
    <3>4. UpdaterTypeOK'
      BY DEF UpdaterTypeOK
    <3> QED
      BY <3>1, <3>2, <3>3, <3>4
  <2>2. NodeInv'
    BY DEF StorageIInv, StorageTypeOK, UserTypeOK, NodeInv
  <2>3. LockInv' /\ ShapeInv'
    BY DEF StorageIInv, LockInv, ShapeInv, Storage!Nodes, Awaits, Storage!config
  <2> QED
    BY <2>1, <2>2, <2>3 DEF StorageIInv
<1>3. CASE Storage!CreateNode(u) /\ nodeMap[resource[u]] = NoNode
  <2> USE <1>3 DEF Storage!CreateNode, Storage!FindOrCreate
  <2>1. /\ shape' = Append(shape, Storage!config)
        /\ node' = [node EXCEPT ![u] = Len(shape')]
        /\ nodeMap' = [nodeMap EXCEPT ![resource[u]] = Len(shape')]
        /\ user' = [user EXCEPT ![u] = "has"]
        /\ UNCHANGED <<Storage!config, holder, resource, Storage!updaterVars>>
    OBVIOUS
  <2>2. Storage!config \in Shapes /\ resource[u] \in Resources
    BY DEF StorageIInv, StorageTypeOK, ConfigTypeOK, UserTypeOK, Storage!config, Shapes
  <2>3. /\ Len(shape') = Len(shape) + 1 /\ shape' \in Seq(Shapes)
        /\ shape'[Len(shape')] = Storage!config
        /\ \A n \in 1 .. Len(shape) : shape'[n] = shape[n]
    BY <2>1, <2>2 DEF StorageIInv, StorageTypeOK, MapTypeOK
  <2>4. StorageTypeOK'
    <3>1. ConfigTypeOK' /\ UpdaterTypeOK'
      BY <2>1 DEF StorageIInv, StorageTypeOK, ConfigTypeOK, UpdaterTypeOK, Storage!updaterVars, Storage!config
    <3>2. MapTypeOK'
      BY <2>1, <2>2, <2>3 DEF StorageIInv, StorageTypeOK, MapTypeOK, Storage!updaterVars
    <3>3. UserTypeOK'
      BY <2>1, <2>3 DEF StorageIInv, StorageTypeOK, UserTypeOK, MapTypeOK
    <3> QED
      BY <3>1, <3>2, <3>3 DEF StorageTypeOK
  <2>5. NodeInv'
    <3>1. Len(shape') # NoNode
      BY <1>0, <2>3 DEF StorageIInv, StorageTypeOK, MapTypeOK
    <3>2. \A v \in Users : resource[v] \in Resources /\ node[v] \in Nat \cup {NoNode}
      BY DEF StorageIInv, StorageTypeOK, UserTypeOK
    <3> QED
      BY <2>1, <2>2, <3>1, <3>2 DEF StorageIInv, StorageTypeOK, UserTypeOK, MapTypeOK, NodeInv
  <2>6. LockInv'
    BY <2>1 DEF StorageIInv, LockInv, Storage!updaterVars
  <2>7. ShapeInv'
    <3> SUFFICES ASSUME NEW n \in (Storage!Nodes)' PROVE (shape[n] = Storage!config \/ Awaits(n))'
      BY DEF ShapeInv
    <3>1. n \in Storage!Nodes \/ n = Len(shape')
      BY <2>1, <2>2 DEF Storage!Nodes, StorageIInv, StorageTypeOK, MapTypeOK
    <3>2. CASE n = Len(shape')
      BY <3>2, <2>1, <2>3 DEF Storage!config
    <3>3. CASE n \in Storage!Nodes
      <4>1. n \in 1 .. Len(shape)
        BY <3>3 DEF Storage!Nodes, StorageIInv, StorageTypeOK, MapTypeOK
      <4> QED
        BY <4>1, <3>3, <2>1, <2>3 DEF StorageIInv, ShapeInv, Awaits, Storage!config, Storage!updaterVars
    <3> QED
      BY <3>1, <3>2, <3>3
  <2> QED
    BY <2>4, <2>5, <2>6, <2>7 DEF StorageIInv
<1> QED
  BY <1>1, <1>2, <1>3

\* An updater's step keeps it: whoever has changed the configuration is going
\* to visit every node, and a node leaves the set of those to visit only with a
\* window of the configuration of then.
LEMMA UpdaterStep ==
  ASSUME StorageIInv, NEW u \in Updaters,
         Storage!Update(u) \/ Storage!SetConfig(u) \/ Storage!LockNodes(u) \/ Storage!ResetNode(u) \/ Storage!UnlockNodes(u)
  PROVE  StorageIInv'
<1> USE StorageAssumption
<1>0. UNCHANGED <<nodeMap, Storage!userVars>>
  BY DEF Storage!Update, Storage!SetConfig, Storage!LockNodes, Storage!ResetNode, Storage!UnlockNodes, Storage!userVars
<1>1. StorageTypeOK'
  <2>1. UserTypeOK'
    BY <1>0 DEF StorageIInv, StorageTypeOK, UserTypeOK, Storage!userVars
  <2>2. CASE Storage!Update(u)
    <3>1. ConfigTypeOK'
      <4>1. \A c \in Storage!Changes : c \in {"none", "sampleCount", "intervalMs"} \X Int
        BY DEF Storage!Changes
      <4> QED
        BY <2>2, <4>1 DEF Storage!Update, StorageIInv, StorageTypeOK, ConfigTypeOK, Storage!config
    <3>2. MapTypeOK' /\ UpdaterTypeOK'
      BY <2>2 DEF Storage!Update, StorageIInv, StorageTypeOK, MapTypeOK, UpdaterTypeOK
    <3> QED
      BY <2>1, <3>1, <3>2 DEF StorageTypeOK
  <2>3. CASE Storage!SetConfig(u)
    <3>1. ConfigTypeOK'
      BY <2>3 DEF Storage!SetConfig, StorageIInv, StorageTypeOK, ConfigTypeOK
    <3>2. MapTypeOK' /\ UpdaterTypeOK'
      BY <2>3 DEF Storage!SetConfig, StorageIInv, StorageTypeOK, MapTypeOK, UpdaterTypeOK
    <3> QED
      BY <2>1, <3>1, <3>2 DEF StorageTypeOK
  <2>4. CASE Storage!LockNodes(u)
    <3>1. ConfigTypeOK' /\ UpdaterTypeOK'
      BY <2>4 DEF Storage!LockNodes, StorageIInv, StorageTypeOK, ConfigTypeOK, UpdaterTypeOK, Storage!config
    <3>2. MapTypeOK'
      BY <2>4 DEF Storage!LockNodes, StorageIInv, StorageTypeOK, MapTypeOK, Storage!Nodes
    <3> QED
      BY <2>1, <3>1, <3>2 DEF StorageTypeOK
  <2>5. CASE Storage!ResetNode(u)
    <3>1. ConfigTypeOK' /\ UpdaterTypeOK'
      BY <2>5 DEF Storage!ResetNode, StorageIInv, StorageTypeOK, ConfigTypeOK, UpdaterTypeOK, Storage!config
    <3>2. MapTypeOK'
      <4>1. Storage!config \in Shapes
        BY DEF StorageIInv, StorageTypeOK, ConfigTypeOK, Storage!config, Shapes
      <4> QED
        BY <2>5, <4>1 DEF Storage!ResetNode, Storage!Reset, StorageIInv, StorageTypeOK, MapTypeOK
    <3> QED
      BY <2>1, <3>1, <3>2 DEF StorageTypeOK
  <2>6. CASE Storage!UnlockNodes(u)
    <3>1. ConfigTypeOK' /\ UpdaterTypeOK'
      BY <2>6 DEF Storage!UnlockNodes, StorageIInv, StorageTypeOK, ConfigTypeOK, UpdaterTypeOK, Storage!config
    <3>2. MapTypeOK'
      BY <2>6 DEF Storage!UnlockNodes, StorageIInv, StorageTypeOK, MapTypeOK
    <3> QED
      BY <2>1, <3>1, <3>2 DEF StorageTypeOK
  <2> QED
    BY <2>2, <2>3, <2>4, <2>5, <2>6
<1>2. NodeInv'
  BY <1>0 DEF StorageIInv, NodeInv, Storage!userVars
<1>3. LockInv'
  BY DEF Storage!Update, Storage!SetConfig, Storage!LockNodes, Storage!ResetNode, Storage!UnlockNodes, StorageIInv, StorageTypeOK,
         UpdaterTypeOK, LockInv
<1>4. ShapeInv'
  <2> SUFFICES ASSUME NEW n \in Storage!Nodes PROVE (shape[n] = Storage!config \/ Awaits(n))'
    BY <1>0 DEF ShapeInv, Storage!Nodes
  <2>1. shape[n] = Storage!config \/ Awaits(n)
    BY DEF StorageIInv, ShapeInv
  <2>2. CASE Storage!Update(u)
    BY <2>1, <2>2 DEF Storage!Update, Awaits, Storage!config, StorageIInv, StorageTypeOK, UpdaterTypeOK
  <2>3. CASE Storage!SetConfig(u)
    BY <2>3 DEF Storage!SetConfig, Awaits, StorageIInv, StorageTypeOK, UpdaterTypeOK
  <2>4. CASE Storage!LockNodes(u)
    BY <2>4 DEF Storage!LockNodes, Awaits, StorageIInv, StorageTypeOK, UpdaterTypeOK
  <2>5. CASE Storage!ResetNode(u)
    <3>1. PICK m \in left : Storage!Reset(m, u) /\ left' = left \ {m}
      BY <2>5 DEF Storage!ResetNode
    <3>2. n \in 1 .. Len(shape) /\ DOMAIN shape = 1 .. Len(shape)
      BY StorageAssumption DEF Storage!Nodes, StorageIInv, StorageTypeOK, MapTypeOK
    <3> QED
      BY <2>1, <2>5, <3>1, <3>2 DEF Storage!ResetNode, Storage!Reset, Awaits, Storage!config
  <2>6. CASE Storage!UnlockNodes(u)
    BY <2>1, <2>6 DEF Storage!UnlockNodes, Awaits, Storage!config, StorageIInv, StorageTypeOK, UpdaterTypeOK, LockInv
  <2> QED
    BY <2>2, <2>3, <2>4, <2>5, <2>6
<1> QED
  BY <1>1, <1>2, <1>3, <1>4 DEF StorageIInv

LEMMA StorageNext ==
  StorageIInv /\ [Storage!Next]_(Storage!vars) => StorageIInv'
<1> SUFFICES ASSUME StorageIInv, [Storage!Next]_(Storage!vars) PROVE StorageIInv'
  OBVIOUS
<1>1. CASE UNCHANGED Storage!vars
  BY <1>1 DEF Storage!vars, StorageIInv, StorageTypeOK, ConfigTypeOK, MapTypeOK, UserTypeOK, UpdaterTypeOK,
              NodeInv, LockInv, ShapeInv, Awaits, Storage!Nodes, Storage!config
<1>2. CASE Storage!Next
  BY <1>2, UserStep, UpdaterStep DEF Storage!Next
<1> QED
  BY <1>1, <1>2

LEMMA StorageInvariance ==
  Storage!Spec => []StorageIInv
  BY StorageInit, StorageNext, PTL DEF Storage!Spec

\* However many calls race for the first node of a resource
\* (GetOrCreateClusterNode), all of them get the one in the map.
THEOREM OneNodeForAll == Storage!Spec => []OneNode
<1>1. StorageIInv => OneNode
  BY DEF StorageIInv, NodeInv, OneNode, Storage!OneNode
<1> QED
  BY <1>1, StorageInvariance, PTL

\* Once no change is under way every node of the map has a window of the
\* configuration in force (ResetClusterNodes), however changes overlapped.
THEOREM WindowsAreCurrent == Storage!Spec => []WindowsCurrent
<1>1. StorageIInv => WindowsCurrent
  BY DEF StorageIInv, ShapeInv, Awaits, WindowsCurrent, Storage!WindowsCurrent,
         Storage!Busy
<1> QED
  BY <1>1, StorageInvariance, PTL

-----------------------------------------------------------------------------
(***************************************************************************)
(* The command server.                                                     *)
(***************************************************************************)

\* Where the loop thread is while it waits for events.
InLoop == {"check", "poll", "tasks"}

\* There is no server yet.
NotMade ==
  /\ owner \in {"idle", "gone"} /\ ~server
  /\ loop = "none" /\ stoped /\ ~joinable /\ tasks = 0
  /\ loopFuture = "none" /\ startFuture = "none" /\ ~started

\* The owner waits for the first promise, that of the thread.
Starting ==
  /\ owner = "loopFuture" /\ server
  /\ loop \in {"init", "dispatch", "ended"} \cup InLoop
  /\ joinable /\ tasks = 0 /\ startFuture = "none"
  /\ loop \in InLoop <=> ~stoped
  /\ loopFuture = IF loop = "init" THEN "none" ELSE IF loop = "ended" THEN "false"
                                                ELSE "true"
  /\ loop \in {"dispatch"} \cup InLoop => base

\* The owner hands InternalStart over and waits for the second promise.
Handing ==
  /\ owner \in {"push", "wakeup", "startFuture"} /\ server /\ ~started
  /\ loop \in {"dispatch"} \cup InLoop /\ base
  /\ joinable /\ loopFuture = "true"
  /\ loop \in InLoop <=> ~stoped
  /\ tasks \in {0, 1} /\ (tasks = 1 => startFuture = "none")
  /\ owner = "push" => tasks = 0 /\ startFuture = "none"
  /\ startFuture # "none" => loop \in InLoop
  /\ startFuture = "true" => http = "bound"

\* The loop runs, and only the owner can end that.
Serving ==
  /\ owner \in {"idle", "setStoped"} /\ server
  /\ loop \in InLoop /\ base /\ ~stoped
  /\ joinable /\ loopFuture = "true" /\ tasks = 0
  /\ started => startFuture = "true"
  /\ startFuture = "true" => http = "bound"

\* The loop thread is on its way out, or has left.
Stopping ==
  /\ owner \in {"wakeStop", "join"} /\ server
  /\ loop \in {"clear", "ended"} \cup InLoop
  /\ stoped /\ loopFuture = "true" /\ tasks = 0

\* It is joined, unless its base could not be made.
Stopped ==
  /\ owner \in {"free", "idle", "gone"} /\ server
  /\ loop = "ended" /\ stoped /\ tasks = 0
  /\ loopFuture \in {"true", "false"} /\ (loopFuture = "true" => ~joinable)

ServerIInv == NotMade \/ Starting \/ Handing \/ Serving \/ Stopping \/ Stopped

-----------------------------------------------------------------------------
LEMMA ServerInit == Init => ServerIInv
  BY DEF Init, ServerIInv, NotMade

\* The owner starts: from the absence of a server, or in vain.
LEMMA StartSteps ==
  ASSUME ServerIInv, Start \/ StartAgain \/ LoopStarted \/ RunTask \/ StartReturns
  PROVE  ServerIInv'
<1> USE DEF ServerIInv, InLoop, Starting, Handing, Serving
<1>1. CASE StartAgain
  BY <1>1 DEF StartAgain, Owner, NotMade, Stopping, Stopped, futures, httpVars
<1>2. CASE Start
  BY <1>2 DEF Start, Owner, NotMade, Stopping, Stopped, futures, httpVars
<1>3. CASE LoopStarted
  <2>1. Starting
    BY <1>3 DEF LoopStarted, NotMade, Stopping, Stopped
  <2> QED
    BY <1>3, <2>1 DEF LoopStarted, Stopped, futures, httpVars
<1>4. CASE RunTask
  <2>1. Handing
    BY <1>4 DEF RunTask, PushThenWakeup, Owner, NotMade, Stopping, Stopped
  <2> QED
    BY <1>4, <2>1 DEF RunTask, PushThenWakeup, Owner, futures, httpVars
<1>5. CASE StartReturns
  <2>1. Handing
    BY <1>5 DEF StartReturns, TaskDone, NotMade, Stopping, Stopped
  <2> QED
    BY <1>5, <2>1 DEF StartReturns, TaskDone, futures, httpVars
<1> QED
  BY <1>1, <1>2, <1>3, <1>4, <1>5

\* The owner stops: it passes by the join only when the loop thread has ended.
LEMMA StopSteps ==
  ASSUME ServerIInv, Close \/ Stop \/ Destroy \/ SetStoped \/ WakeStop \/ Join \/ FreeHttp
  PROVE  ServerIInv'
<1> USE DEF ServerIInv, InLoop, Serving, Stopping, Stopped
<1>1. CASE Close \/ Stop \/ Destroy
  <2>1. /\ owner = "idle" /\ StopServer
        /\ UNCHANGED <<server, loop, stoped, joinable, base, tasks, futures, httpVars>>
        /\ started' = started
    BY <1>1 DEF Close, Stop, Destroy
  <2>2. CASE NotMade
    BY <2>1, <2>2 DEF StopServer, NotMade, futures, httpVars
  <2>3. CASE Serving
    BY <2>1, <2>3 DEF StopServer, futures, httpVars
  <2>4. CASE Stopped
    BY <2>1, <2>4 DEF StopServer, futures, httpVars
  <2> QED
    BY <2>1, <2>2, <2>3, <2>4 DEF Starting, Handing
<1>2. CASE SetStoped
  BY <1>2 DEF SetStoped, Owner, NotMade, Starting, Handing, futures, httpVars
<1>3. CASE WakeStop
  BY <1>3 DEF WakeStop, Owner, NotMade, Starting, Handing, futures, httpVars
<1>4. CASE Join
  BY <1>4 DEF Join, Owner, NotMade, Starting, Handing, futures, httpVars
<1>5. CASE FreeHttp
  BY <1>5 DEF FreeHttp, NotMade, Starting, Handing, futures
<1> QED
  BY <1>1, <1>2, <1>3, <1>4, <1>5

\* The loop thread stays in the loop until stoped_ is set, and runs the task once.
LEMMA LoopStepsInv ==
  ASSUME ServerIInv, LoopSteps \/ OnHttpRequest \/ Arrive
  PROVE  ServerIInv'
<1> USE DEF ServerIInv, InLoop, Starting, Handing, Serving, Stopping
<1>1. CASE InitEventBase
  BY <1>1 DEF InitEventBase, NotMade, Stopped, ownerVars, httpVars
<1>2. CASE Dispatch
  BY <1>2 DEF Dispatch, Loop, NotMade, Stopped, ownerVars, futures, httpVars
<1>3. CASE CheckStoped
  BY <1>3 DEF CheckStoped, NotMade, Stopped, ownerVars, futures, httpVars
<1>4. CASE OnWakeupFd \/ LeavePoll
  BY <1>4 DEF OnWakeupFd, LeavePoll, Loop, NotMade, Stopped, ownerVars, futures, httpVars
<1>5. CASE DoPendingTasks
  <2>1. Starting \/ Handing \/ Serving \/ Stopping
    BY <1>5 DEF DoPendingTasks, Loop, NotMade, Stopped
  <2> QED
    BY <1>5, <2>1 DEF DoPendingTasks, Loop, InternalStart, ownerVars
<1>6. CASE ClearEventBase
  BY <1>6 DEF ClearEventBase, Loop, NotMade, Stopped, ownerVars, futures, httpVars
<1>7. CASE OnHttpRequest \/ Arrive
  BY <1>7 DEF OnHttpRequest, Arrive, NotMade, Stopped, ownerVars, futures
<1> QED
  BY <1>1, <1>2, <1>3, <1>4, <1>5, <1>6, <1>7 DEF LoopSteps

LEMMA ServerNext == ServerIInv /\ [Next]_vars => ServerIInv'
<1> SUFFICES ASSUME ServerIInv, [Next]_vars PROVE ServerIInv'
  OBVIOUS
<1>1. CASE UNCHANGED vars
  BY <1>1 DEF vars, ServerIInv, InLoop, NotMade, Starting, Handing, Serving, Stopping, Stopped
<1>2. CASE Next
  BY <1>2, StartSteps, StopSteps, LoopStepsInv DEF Next, OwnerGoesOn
<1> QED
  BY <1>1, <1>2

LEMMA ServerInvariance == Spec => []ServerIInv
  BY ServerInit, ServerNext, PTL DEF Spec

\* Nothing the loop thread uses is freed (HttpServer::Stop, the destructors)
\* before that thread has left the event loop.
THEOREM FreedOnlyAlone == Spec => []FreedAlone
<1>1. ServerIInv => FreedAlone
  BY DEF ServerIInv, NotMade, Starting, Handing, Serving, Stopping, Stopped, FreedAlone
<1> QED
  BY <1>1, ServerInvariance, PTL

\* The destructor leaves no joinable thread behind, but after a failed
\* InitEventBase.
THEOREM DestroyedIsJoined == Spec => []DestroyedJoined
<1>1. ServerIInv => DestroyedJoined
  BY DEF ServerIInv, NotMade, Starting, Handing, Serving, Stopping, Stopped, DestroyedJoined
<1> QED
  BY <1>1, ServerInvariance, PTL

\* A server that Start has reported as started is bound, with a base, until
\* its owner stops it.
THEOREM StartedDoesServe == Spec => []StartedServes
<1>1. ServerIInv => StartedServes
  BY DEF ServerIInv, NotMade, Starting, Handing, Serving, Stopping, Stopped, StartedServes
<1> QED
  BY <1>1, ServerInvariance, PTL

-----------------------------------------------------------------------------
(***************************************************************************)
(* The block log.                                                          *)
(***************************************************************************)
LogTypeOK ==
  /\ call \in [Blocked -> {"idle", "find", "emplace"}]
  /\ cause \in [Blocked -> Causes \cup {NoCause}]
  /\ reports \in [Causes -> Nat] /\ lines \in [Causes -> Nat]

\* A call on its way has a cause to report.
CauseInv == \A b \in Blocked : call[b] # "idle" => cause[b] \in Causes

\* A record that is there stands for a report no line has told of yet: every
\* line took its record with it.
RecordInv ==
  \A k \in Causes : lines[k] + (IF k \in DOMAIN records THEN 1 ELSE 0) <= reports[k]

LogIInv == LogTypeOK /\ CauseInv /\ RecordInv

LEMMA LogInit == Log!Init => LogIInv
<1> SUFFICES ASSUME Log!Init PROVE LogIInv
  OBVIOUS
<1> USE DEF Log!Init
<1>1. LogTypeOK /\ CauseInv
  BY DEF LogTypeOK, CauseInv
<1>2. DOMAIN records = {}
  OBVIOUS
<1> QED
  BY <1>1, <1>2 DEF LogIInv, RecordInv

\* A report leaves a record of its cause, and counts.
LEMMA ReportStep ==
  ASSUME LogIInv, NEW b \in Blocked, call[b] # "idle", Log!Reported(b), UNCHANGED lines,
         DOMAIN records' \subseteq DOMAIN records \cup {cause[b]}
  PROVE  LogIInv'
<1> USE DEF LogIInv, LogTypeOK
<1>1. cause[b] \in Causes
  BY DEF CauseInv
<1>2. LogTypeOK'
  BY <1>1 DEF Log!Reported
<1>3. CauseInv'
  BY DEF Log!Reported, CauseInv
<1>4. RecordInv'
  <2> SUFFICES ASSUME NEW k \in Causes
               PROVE  (lines[k] + (IF k \in DOMAIN records THEN 1 ELSE 0) <= reports[k])'
    BY DEF RecordInv
  <2>1. lines[k] \in Nat /\ reports[k] \in Nat /\ lines'[k] = lines[k]
    OBVIOUS
  <2>2. lines[k] + (IF k \in DOMAIN records THEN 1 ELSE 0) <= reports[k]
    BY DEF RecordInv
  <2>3. CASE k = cause[b]
    <3>1. reports'[k] = reports[k] + 1
      BY <2>3 DEF Log!Reported
    <3> QED
      BY <2>1, <2>2, <3>1
  <2>4. CASE k # cause[b]
    <3>1. reports'[k] = reports[k] /\ (k \in DOMAIN records' => k \in DOMAIN records)
      BY <2>4 DEF Log!Reported
    <3> QED
      BY <2>1, <2>2, <3>1
  <2> QED
    BY <2>3, <2>4
<1> QED
  BY <1>2, <1>3, <1>4

\* The steps of the calls.
LEMMA CallStep ==
  ASSUME LogIInv, NEW b \in Blocked, Log!Log(b) \/ Log!Find(b) \/ Log!Emplace(b)
  PROVE  LogIInv'
<1>1. CASE Log!Log(b)
  <2>1. PICK k \in Causes : cause' = [cause EXCEPT ![b] = k]
    BY <1>1 DEF Log!Log
  <2>2. /\ call' = [call EXCEPT ![b] = "find"]
        /\ records' = records /\ reports' = reports /\ lines' = lines
    BY <1>1 DEF Log!Log, Log!tally
  <2>3. LogTypeOK' /\ CauseInv'
    BY <2>1, <2>2 DEF LogIInv, LogTypeOK, CauseInv
  <2>4. RecordInv'
    BY <2>2 DEF LogIInv, RecordInv
  <2> QED
    BY <2>3, <2>4 DEF LogIInv
<1>2. CASE Log!Find(b) \/ Log!Emplace(b)
  <2>1. CASE Log!Reported(b)
    <3>1. DOMAIN records' \subseteq DOMAIN records \cup {cause[b]}
      BY <1>2, <2>1 DEF Log!Find, Log!Emplace, Log!Put
    <3>2. call[b] # "idle" /\ UNCHANGED lines
      BY <1>2 DEF Log!Find, Log!Emplace
    <3> QED
      BY <2>1, <3>1, <3>2, ReportStep
  <2>2. CASE ~Log!Reported(b)
    <3>1. /\ call' = [call EXCEPT ![b] = "emplace"] /\ call[b] = "find"
          /\ records' = records /\ cause' = cause /\ reports' = reports /\ lines' = lines
      BY <1>2, <2>2 DEF Log!Find, Log!Emplace
    <3>2. LogTypeOK' /\ CauseInv'
      BY <3>1 DEF LogIInv, LogTypeOK, CauseInv
    <3>3. RecordInv'
      BY <3>1 DEF LogIInv, RecordInv
    <3> QED
      BY <3>2, <3>3 DEF LogIInv
  <2> QED
    BY <2>1, <2>2
<1> QED
  BY <1>1, <1>2

LEMMA LogNext == LogIInv /\ [Log!Next]_(Log!vars) => LogIInv'
<1> SUFFICES ASSUME LogIInv, [Log!Next]_(Log!vars) PROVE LogIInv'
  OBVIOUS
<1>1. CASE UNCHANGED <<records, call, cause, reports, lines>>
  <2>1. LogTypeOK' /\ CauseInv'
    BY <1>1 DEF LogIInv, LogTypeOK, CauseInv
  <2>2. RecordInv'
    BY <1>1 DEF LogIInv, RecordInv
  <2> QED
    BY <2>1, <2>2 DEF LogIInv
<1>2. CASE Log!WriteLines
  <2>1. /\ DOMAIN records' = {}
        /\ lines' = [k \in Causes |-> IF k \in Log!Due THEN lines[k] + 1 ELSE lines[k]]
        /\ UNCHANGED <<call, cause, reports>>
    BY <1>2 DEF Log!WriteLines, Log!Forget
  <2>2. LogTypeOK' /\ CauseInv'
    BY <2>1 DEF LogIInv, LogTypeOK, CauseInv
  <2>3. \A k \in Causes : k \in Log!Due => k \in DOMAIN records
    BY DEF Log!Due
  <2>4. RecordInv'
    BY <2>1, <2>3 DEF LogIInv, LogTypeOK, RecordInv
  <2> QED
    BY <2>2, <2>4 DEF LogIInv
<1>3. CASE \E b \in Blocked : Log!Find(b) \/ Log!Emplace(b) \/ (slot = "up" /\ Log!Log(b))
  BY <1>3, CallStep
<1>4. CASE Log!Tick \/ Log!Start \/ Log!Stop \/ Log!Join \/ Log!Wake \/ Log!LeaveLoop
  BY <1>1, <1>4 DEF Log!Tick, Log!Start, Log!Stop, Log!Join, Log!Wake, Log!LeaveLoop, Log!tally
<1> QED
  BY <1>1, <1>2, <1>3, <1>4 DEF Log!Next, Log!ThreadStep, Log!vars

\* Every line of the block log stands for a blocked call no earlier line told
\* of, however the two critical sections of BlockLogTask::Log fall around the
\* writer's rounds.
THEOREM LinesAreBacked == Log!Spec => []LinesBacked
<1>1. LogIInv => LinesBacked
  <2> SUFFICES ASSUME LogIInv, NEW k \in Causes
               PROVE  lines[k] + (IF k \in Log!Due THEN 1 ELSE 0) <= reports[k]
    BY DEF LinesBacked, Log!LinesBacked
  <2>1. lines[k] + (IF k \in DOMAIN records THEN 1 ELSE 0) <= reports[k]
    BY DEF LogIInv, RecordInv
  <2>2. lines[k] \in Nat /\ reports[k] \in Nat /\ (k \in Log!Due => k \in DOMAIN records)
    BY DEF LogIInv, LogTypeOK, Log!Due
  <2> QED
    BY <2>1, <2>2
<1> QED
  BY <1>1, LogInit, LogNext, PTL DEF Log!Spec

-----------------------------------------------------------------------------
(***************************************************************************)
(* The throttling checker.                                                 *)
(***************************************************************************)
ShaperTypeOK ==
  /\ millis \in Nat /\ last \in Int
  /\ shaped \in [Shaped -> {"idle", "load", "store", "wait", "clock", "reload",
                           "add", "again", "sub"}]
  /\ seen \in [Shaped -> Int]

\* A call has read the clock before it stores, or compares with, what it read.
SeenInv ==
  \A s \in Shaped : shaped[s] \in {"load", "store", "reload"} => seen[s] <= millis

\* The calls that will give their turn back if the time is x.
Leaving(x) ==
  {s \in Shaped : shaped[s] = "sub" \/ (shaped[s] = "again" /\ seen[s] > x + Timeout)}

\* At any later time x, all but the turns of the calls that will give theirs
\* back end within the timeout.
TurnsReturn ==
  \A x \in Nat : millis <= x => last - Cost * Cardinality(Leaving(x)) <= x + Timeout

\* Until then last_passed_time_ is what its memory held, no call has taken a
\* turn, and those that loaded it for their first look know it as it is.
Untouched ==
  /\ last \in Garbage
  /\ \A s \in Shaped :
       /\ shaped[s] \notin {"add", "again", "sub"}
       /\ shaped[s] = "clock" => seen[s] = Cost + last

ShaperIInv == ShaperTypeOK /\ SeenInv /\ (TurnsReturn \/ Untouched)

LEMMA ShaperInit == Shaper!Init => ShaperIInv
<1> SUFFICES ASSUME Shaper!Init PROVE ShaperIInv
  OBVIOUS
<1>1. ShaperTypeOK /\ SeenInv
  BY ShaperAssumption DEF Shaper!Init, ShaperTypeOK, SeenInv
<1>2. Untouched
  BY DEF Shaper!Init, Untouched
<1> QED
  BY <1>1, <1>2 DEF ShaperIInv

\* The turns of n calls last no less than those of fewer.
LEMMA TurnsLast ==
  ASSUME NEW c \in Nat, NEW m \in Nat, NEW n \in Nat
  PROVE  /\ c * n \in Nat /\ c * (n + 1) = c * n + c
         /\ m <= n => c * m <= c * n
<1>1. c * n \in Nat /\ c * m \in Nat /\ c * (n + 1) = c * n + c
  OBVIOUS
<1>2. ASSUME m <= n PROVE c * m <= c * n
  <2>1. n - m \in Nat /\ n = m + (n - m)
    BY <1>2
  <2>2. PICK d \in Nat : n = m + d
    BY <2>1
  <2>3. c * n = c * m + c * d /\ c * d \in Nat
    BY <2>2
  <2> QED
    BY <2>3, <1>1
<1> QED
  BY <1>1, <1>2

\* How one call's step changes the number of those that will give back.
LEMMA LeavingStep ==
  ASSUME NEW s \in Shaped, NEW x,
         \A o \in Shaped \ {s} : shaped'[o] = shaped[o] /\ seen'[o] = seen[o]
  PROVE  \E m \in Nat, n \in Nat :
           /\ m = Cardinality(Leaving(x)) /\ n = Cardinality((Leaving(x))')
           /\ n = m + (IF s \in (Leaving(x))' THEN 1 ELSE 0)
                    - (IF s \in Leaving(x) THEN 1 ELSE 0)
<1>1. Leaving(x) \in SUBSET Shaped
  BY DEF Leaving
<1>2. PICK R \in SUBSET Shaped : R = (Leaving(x))'
  BY DEF Leaving
<1>3. Leaving(x) \ {s} = R \ {s}
  BY <1>2 DEF Leaving
<1> HIDE DEF Leaving
<1>4. /\ Cardinality(Leaving(x)) \in Nat /\ Cardinality(R) \in Nat
      /\ Cardinality(R) = Cardinality(Leaving(x)) + (IF s \in R THEN 1 ELSE 0)
                                                  - (IF s \in Leaving(x) THEN 1 ELSE 0)
  BY <1>1, <1>3, CountOneStep, ShaperAssumption
<1> QED
  BY <1>2, <1>4

\* A call's step that leaves the clock alone keeps the bound.
LEMMA TurnStep ==
  ASSUME ShaperIInv, TurnsReturn, NEW s \in Shaped, Shaper!Step(s)
  PROVE  TurnsReturn'
<1> USE ShaperAssumption DEF ShaperIInv, ShaperTypeOK
<1> SUFFICES ASSUME NEW x \in Nat, millis <= x
             PROVE  (last - Cost * Cardinality(Leaving(x)) <= x + Timeout)'
  BY DEF TurnsReturn, Shaper!Step, Shaper!Load, Shaper!Store, Shaper!Wait,
         Shaper!WaitLoad, Shaper!WaitClock, Shaper!ThenClock, Shaper!ThenLoad,
         Shaper!FirstLook, Shaper!FetchAdd, Shaper!WaitAgain, Shaper!FetchSub
<1>1. \A o \in Shaped \ {s} : shaped'[o] = shaped[o] /\ seen'[o] = seen[o]
  BY DEF Shaper!Step, Shaper!Load, Shaper!Store, Shaper!Wait,
         Shaper!WaitLoad, Shaper!WaitClock, Shaper!ThenClock, Shaper!ThenLoad,
         Shaper!FirstLook, Shaper!FetchAdd, Shaper!WaitAgain, Shaper!FetchSub,
         Shaper!At, Shaper!Answer
<1>2. PICK m \in Nat, n \in Nat :
        /\ m = Cardinality(Leaving(x)) /\ n = Cardinality((Leaving(x))')
        /\ n = m + (IF s \in (Leaving(x))' THEN 1 ELSE 0)
                 - (IF s \in Leaving(x) THEN 1 ELSE 0)
  BY <1>1, LeavingStep
<1>3. last - Cost * m <= x + Timeout
  BY <1>2 DEF TurnsReturn
<1> SUFFICES last' - Cost * n <= x + Timeout
  BY <1>2
<1>4. Cost * m \in Nat /\ Cost * n \in Nat /\ (m <= n => Cost * m <= Cost * n)
      /\ Cost * (m + 1) = Cost * m + Cost /\ Cost * (n + 1) = Cost * n + Cost
  BY TurnsLast
<1>5. last' \in Int
  BY DEF Shaper!Step, Shaper!Load, Shaper!Store, Shaper!Wait,
         Shaper!WaitLoad, Shaper!WaitClock, Shaper!ThenClock, Shaper!ThenLoad,
         Shaper!FirstLook, Shaper!FetchAdd, Shaper!WaitAgain, Shaper!FetchSub,
         Shaper!TurnBack, Shaper!At, Shaper!Answer
<1>6. CASE last' = last /\ (s \in Leaving(x) => s \in (Leaving(x))')
  <2>1. m <= n
    BY <1>2, <1>6
  <2> HIDE DEF ShaperIInv, ShaperTypeOK
  <2> QED
    BY <2>1, <1>3, <1>4, <1>5, <1>6
<1>7. CASE Shaper!Load(s) \/ Shaper!Wait(s)
  <2>1. last' = last /\ s \notin Leaving(x)
    BY <1>7 DEF Shaper!Load, Shaper!Wait,
         Shaper!WaitLoad, Shaper!WaitClock, Shaper!ThenClock, Shaper!ThenLoad,
         Shaper!FirstLook, Shaper!At, Leaving
  <2> QED
    BY <2>1, <1>6
<1>8. CASE Shaper!Store(s)
  <2>1. last' = seen[s] /\ seen[s] <= millis
    BY <1>8 DEF Shaper!Store, SeenInv
  <2> QED
    BY <2>1, <1>4, <1>5
<1>9. CASE Shaper!FetchAdd(s)
  <2>1. /\ last' = last + Cost /\ shaped'[s] = "again" /\ seen'[s] = last + Cost
        /\ s \notin Leaving(x)
    BY <1>9 DEF Shaper!FetchAdd, Shaper!At, Leaving
  <2>2. CASE last + Cost > x + Timeout
    <3>1. s \in (Leaving(x))'
      BY <2>1, <2>2 DEF Leaving
    <3>2. n = m + 1
      BY <2>1, <3>1, <1>2
    <3>3. Cost * n = Cost * m + Cost
      BY <3>2, <1>4
    <3> QED
      BY <3>3, <2>1, <1>3, <1>4
  <2>3. CASE last + Cost <= x + Timeout
    BY <2>1, <2>3, <1>4, <1>5
  <2> QED
    BY <2>2, <2>3
<1>10. CASE Shaper!WaitAgain(s)
  <2>1. last' = last
    BY <1>10 DEF Shaper!WaitAgain
  <2>2. CASE seen[s] - millis > Timeout
    <3>1. shaped'[s] = "sub"
      BY <1>10, <2>2 DEF Shaper!WaitAgain, Shaper!At
    <3>2. s \in (Leaving(x))'
      BY <3>1 DEF Leaving
    <3> QED
      BY <2>1, <3>2, <1>6
  <2>3. CASE ~(seen[s] - millis > Timeout)
    <3>1. s \notin Leaving(x)
      BY <1>10, <2>3 DEF Shaper!WaitAgain, Leaving
    <3> QED
      BY <2>1, <3>1, <1>6
  <2> QED
    BY <2>2, <2>3
<1>11. CASE Shaper!FetchSub(s)
  <2>1. /\ last' = last - Cost /\ s \in Leaving(x) /\ s \notin (Leaving(x))'
    BY <1>11 DEF Shaper!FetchSub, Shaper!TurnBack, Shaper!Answer, Leaving
  <2>2. m = n + 1
    BY <2>1, <1>2
  <2>3. Cost * m = Cost * n + Cost
    BY <2>2, <1>4
  <2> QED
    BY <2>1, <2>3, <1>3, <1>4
<1> QED
  BY <1>7, <1>8, <1>9, <1>10, <1>11 DEF Shaper!Step

\* What last_passed_time_ held at first lasts until a call stores the time, or
\* goes for a turn; and that it only does when it ends within the timeout.
LEMMA UntouchedStep ==
  ASSUME ShaperIInv, Untouched, NEW s \in Shaped, Shaper!Step(s)
  PROVE  TurnsReturn' \/ Untouched'
<1> USE ShaperAssumption DEF ShaperIInv, ShaperTypeOK
<1>1. CASE /\ last' = last /\ shaped'[s] \notin {"add", "again", "sub"}
           /\ shaped'[s] = "clock" => seen'[s] = Cost + last
           /\ \A o \in Shaped \ {s} : shaped'[o] = shaped[o] /\ seen'[o] = seen[o]
  BY <1>1 DEF Untouched
<1>2. CASE Shaper!Load(s) \/ Shaper!WaitLoad(s) \/ Shaper!WaitClock(s)
  BY <1>1, <1>2 DEF Shaper!Load, Shaper!WaitLoad, Shaper!WaitClock, Shaper!At
<1>3. ASSUME last' \in Int, last' <= millis + Timeout, millis' = millis
      PROVE  TurnsReturn'
  <2> SUFFICES ASSUME NEW x \in Nat, millis <= x
               PROVE  (last - Cost * Cardinality(Leaving(x)) <= x + Timeout)'
    BY <1>3 DEF TurnsReturn
  <2>1. PICK R \in SUBSET Shaped : R = (Leaving(x))'
    BY DEF Leaving
  <2>2. Cardinality(R) \in Nat
    BY FS_Subset, FS_CardinalityType
  <2>3. Cost * Cardinality(R) \in Nat
    BY <2>2, TurnsLast
  <2>4. last' - Cost * Cardinality(R) <= x + Timeout
    BY <2>3, <1>3
  <2> QED
    BY <2>1, <2>4
<1>4. CASE Shaper!ThenClock(s) \/ Shaper!ThenLoad(s)
  <2>1. PICK wait \in Int : Shaper!FirstLook(s, wait) /\ Cost + last - millis <= wait
    <3>1. CASE Shaper!ThenClock(s)
      BY <3>1 DEF Shaper!ThenClock, Untouched
    <3>2. CASE Shaper!ThenLoad(s)
      BY <3>2 DEF Shaper!ThenLoad, SeenInv
    <3> QED
      BY <1>4, <3>1, <3>2
  <2>2. CASE wait > Timeout
    BY <1>1, <2>1, <2>2 DEF Shaper!FirstLook
  <2>3. CASE wait <= Timeout
    BY <1>3, <2>1, <2>3 DEF Shaper!FirstLook
  <2> QED
    BY <2>1, <2>2, <2>3
<1>5. CASE Shaper!Store(s)
  <2>1. last' = seen[s] /\ seen[s] <= millis /\ millis' = millis
    BY <1>5 DEF Shaper!Store, SeenInv
  <2> QED
    BY <2>1, <1>3
<1>6. ~(Shaper!FetchAdd(s) \/ Shaper!WaitAgain(s) \/ Shaper!FetchSub(s))
  <2>1. shaped[s] \notin {"add", "again", "sub"}
    BY DEF Untouched
  <2> QED
    BY <2>1 DEF Shaper!FetchAdd, Shaper!WaitAgain, Shaper!FetchSub, Shaper!At
<1> QED
  BY <1>2, <1>4, <1>5, <1>6 DEF Shaper!Step, Shaper!Wait

LEMMA ShaperNext ==
  ShaperIInv /\ [Shaper!Next]_(Shaper!vars) => ShaperIInv'
<1> SUFFICES ASSUME ShaperIInv, [Shaper!Next]_(Shaper!vars) PROVE ShaperIInv'
  OBVIOUS
<1> USE DEF ShaperIInv
<1>1. ShaperTypeOK'
  BY ShaperAssumption DEF ShaperTypeOK, Shaper!vars, Shaper!Next, Shaper!Tick, Shaper!Enter,
         Shaper!Step, Shaper!Load, Shaper!Store, Shaper!Wait,
         Shaper!WaitLoad, Shaper!WaitClock, Shaper!ThenClock, Shaper!ThenLoad,
         Shaper!FirstLook, Shaper!FetchAdd, Shaper!WaitAgain,
         Shaper!FetchSub, Shaper!TurnBack, Shaper!At, Shaper!Answer
<1>2. SeenInv'
  BY DEF ShaperTypeOK, SeenInv, Shaper!vars, Shaper!Next, Shaper!Tick, Shaper!Enter,
         Shaper!Step, Shaper!Load, Shaper!Store, Shaper!Wait,
         Shaper!WaitLoad, Shaper!WaitClock, Shaper!ThenClock, Shaper!ThenLoad,
         Shaper!FirstLook, Shaper!FetchAdd, Shaper!WaitAgain,
         Shaper!FetchSub, Shaper!At, Shaper!Answer
<1>3. (TurnsReturn \/ Untouched)'
  <2>1. CASE \E s \in Shaped : Shaper!Step(s)
    BY <2>1, TurnStep, UntouchedStep
  <2>2. CASE Shaper!Tick \/ UNCHANGED Shaper!vars
    <3>1. \A x : (Leaving(x))' = Leaving(x)
      BY <2>2 DEF Leaving, Shaper!Tick, Shaper!vars
    <3>2. /\ last' = last /\ shaped' = shaped /\ seen' = seen
          /\ millis' \in Nat /\ millis <= millis'
      BY <2>2 DEF Shaper!Tick, Shaper!vars, ShaperTypeOK
    <3>3. TurnsReturn => TurnsReturn'
      <4> SUFFICES ASSUME TurnsReturn, NEW x \in Nat, millis' <= x
                   PROVE  (last - Cost * Cardinality(Leaving(x)) <= x + Timeout)'
        BY DEF TurnsReturn
      <4>1. millis <= x
        BY <3>2 DEF ShaperTypeOK
      <4> QED
        BY <4>1, <3>1, <3>2 DEF TurnsReturn
    <3>4. Untouched => Untouched'
      BY <3>2 DEF Untouched
    <3> QED
      BY <3>3, <3>4
  <2>3. ASSUME NEW s \in Shaped, Shaper!Enter(s) PROVE (TurnsReturn \/ Untouched)'
    <3>1. /\ last' = last /\ millis' = millis /\ shaped[s] = "idle" /\ shaped'[s] = "load"
          /\ \A o \in Shaped \ {s} : shaped'[o] = shaped[o] /\ seen'[o] = seen[o]
      BY <2>3 DEF Shaper!Enter, Shaper!At, ShaperTypeOK
    <3>2. \A x : (Leaving(x))' = Leaving(x)
      BY <3>1 DEF Leaving
    <3>3. TurnsReturn => TurnsReturn'
      BY <3>1, <3>2 DEF TurnsReturn
    <3>4. Untouched => Untouched'
      BY <3>1 DEF Untouched
    <3> QED
      BY <3>3, <3>4
  <2> QED
    BY <2>1, <2>2, <2>3 DEF Shaper!Next
<1> QED
  BY <1>1, <1>2, <1>3

\* However the compare, the fetch_add and the fetch_sub of calls interleave,
\* when nobody is in the checker no turn of a blocked call is left in
\* last_passed_time_ (ThrottlingTrafficShapingChecker::DoCheck).
THEOREM NoTurnIsLost == Shaper!Spec => []NoTurnLost
<1>1. ShaperIInv => NoTurnLost
  <2> SUFFICES ASSUME ShaperIInv, \A s \in Shaped : shaped[s] = "idle", last \notin Garbage
               PROVE  last <= millis + Timeout
    BY DEF NoTurnLost, Shaper!NoTurnLost
  <2>1. Leaving(millis) = {}
    BY DEF Leaving
  <2>2. millis \in Nat /\ last \in Int /\ TurnsReturn
    BY DEF ShaperIInv, ShaperTypeOK, Untouched
  <2>3. last - Cost * Cardinality({}) <= millis + Timeout
    <3>1. last - Cost * Cardinality(Leaving(millis)) <= millis + Timeout
      BY <2>2 DEF TurnsReturn
    <3> QED
      BY <3>1, <2>1
  <2>4. Cardinality({}) = 0 /\ Cost * 0 = 0
    BY FS_EmptySet, ShaperAssumption
  <2> QED
    BY <2>2, <2>3, <2>4, ShaperAssumption
<1> QED
  BY <1>1, ShaperInit, ShaperNext, PTL DEF Shaper!Spec

-----------------------------------------------------------------------------
(***************************************************************************)
(* The status listener.                                                    *)
(***************************************************************************)
\* No CPU time of a is more than that of b: a may have been read before b.
Before(a, b) == a[1] <= b[1] /\ a[2] <= b[2]

\* Both samples show times /proc/stat has shown, one no later than the other.
SamplesInv ==
  /\ proc \in Nat \X Nat /\ p1 \in Nat \X Nat /\ p2 \in Nat \X Nat
  /\ Before(p1, proc) /\ Before(p2, proc)
  /\ Before(p1, p2) \/ Before(p2, p1)

\* The steps that touch neither the samples nor the times they show.
LEMMA SamplesKept ==
  ASSUME [Listener!Next]_(Listener!vars), ~Listener!Spend, ~Listener!UpdateCpuUsage
  PROVE  UNCHANGED <<proc, p1, p2, usage>>
BY DEF Listener!Next, Listener!vars, Listener!files, Listener!Round, Listener!TestCommand,
       Listener!BeginRound, Listener!ReadFails, Listener!SkipCpuUsage,
       Listener!UpdateSystemLoad, Listener!EndRound, Listener!Wake, Listener!Leave,
       Listener!StopListner, Listener!Spin, Listener!Initialize

\* A quotient of two differences of one sign is a share, whichever sign.
LEMMA QuotientIsShare ==
  ASSUME NEW a \in Int, NEW i \in Int, (a >= 0 /\ i >= 0) \/ (a <= 0 /\ i <= 0)
  PROVE  /\ 0 <= Listener!Quotient(a, i)[1]
         /\ Listener!Quotient(a, i)[1] <= Listener!Quotient(a, i)[2]
BY DEF Listener!Quotient

\* UpdateCpuUsage stores a share of the time that passed between two samples,
\* also when a line of the wrong form left the older of them in the place of the
\* newer (SystemStatusListener::ReadCpuUsageFromProc).
THEOREM UsageIsAShare == Listener!Spec => []UsageIsShare
<1> DEFINE IInv == SamplesInv /\ UsageIsShare
<1>1. Listener!Init => IInv
  BY DEF Listener!Init, SamplesInv, Before, UsageIsShare, Listener!UsageIsShare
<1>2. IInv /\ [Listener!Next]_(Listener!vars) => IInv'
  <2> SUFFICES ASSUME SamplesInv, UsageIsShare, [Listener!Next]_(Listener!vars)
               PROVE  SamplesInv' /\ UsageIsShare'
    OBVIOUS
  <2>1. CASE Listener!Spend
    <3>1. proc' \in Nat \X Nat /\ Before(proc, proc')
      BY <2>1 DEF Listener!Spend, SamplesInv, Before
    <3>2. UNCHANGED <<p1, p2, usage>>
      BY <2>1 DEF Listener!Spend
    <3> QED
      BY <3>1, <3>2 DEF SamplesInv, Before, UsageIsShare, Listener!UsageIsShare
  <2>2. CASE Listener!UpdateCpuUsage
    <3>1. proc' = proc /\ p1' = p2 /\ p2' \in {proc, p1}
      BY <2>2 DEF Listener!UpdateCpuUsage
    <3>2. SamplesInv'
      BY <3>1 DEF SamplesInv, Before
    <3>3. usage' = Listener!Quotient(p2'[1] - p1'[1], p2'[2] - p1'[2])
      BY <2>2 DEF Listener!UpdateCpuUsage
    <3>4. 0 <= usage'[1] /\ usage'[1] <= usage'[2]
      <4> DEFINE a == p2'[1] - p1'[1]
                 i == p2'[2] - p1'[2]
      <4>1. a \in Int /\ i \in Int /\ ((a >= 0 /\ i >= 0) \/ (a <= 0 /\ i <= 0))
        BY <3>2 DEF SamplesInv, Before
      <4> HIDE DEF a, i
      <4>2. 0 <= Listener!Quotient(a, i)[1]
            /\ Listener!Quotient(a, i)[1] <= Listener!Quotient(a, i)[2]
        BY <4>1, QuotientIsShare
      <4> QED
        BY <4>2, <3>3 DEF a, i
    <3> QED
      BY <3>2, <3>4 DEF UsageIsShare, Listener!UsageIsShare
  <2>3. CASE ~Listener!Spend /\ ~Listener!UpdateCpuUsage
    BY <2>3, SamplesKept DEF SamplesInv, UsageIsShare, Listener!UsageIsShare
  <2> QED
    BY <2>1, <2>2, <2>3
<1>3. IInv => UsageIsShare
  OBVIOUS
<1> QED
  BY <1>1, <1>2, <1>3, PTL DEF Listener!Spec

-----------------------------------------------------------------------------
(***************************************************************************)
(* The sliding window, for any number of threads: the types, and that      *)
(* GetSum counts nothing that has expired.                                 *)
(***************************************************************************)

\* A ring of SampleCount slots has buckets of at least one millisecond.
LEMMA BucketLengthPositive == Window!BucketLength \in Nat \ {0}
BY WindowAssumption DEF Window!BucketLength

\* The slot of a moment is in the ring and its window does not start later
\* than the moment itself (CalculateTimeIdx, CalculateWindowStart).
LEMMA WindowOfTime ==
  ASSUME NEW tm \in Nat
  PROVE  /\ Window!CalculateTimeIdx(tm) \in Window!Slots
         /\ Window!CalculateWindowStart(tm) \in 0 .. tm
<1>1. tm \div Window!BucketLength \in Nat
  BY BucketLengthPositive
<1>2. (tm \div Window!BucketLength) % SampleCount \in 0 .. SampleCount - 1
  BY <1>1, WindowAssumption
<1>3. tm % Window!BucketLength \in 0 .. Window!BucketLength - 1
  BY BucketLengthPositive
<1>4. tm % Window!BucketLength <= tm
  <2> DEFINE q == tm \div Window!BucketLength
             r == tm % Window!BucketLength
  <2>1. q \in Nat /\ r \in Nat /\ tm = Window!BucketLength * q + r
    BY BucketLengthPositive
  <2>2. Window!BucketLength * q \in Nat
    BY <2>1, BucketLengthPositive
  <2> QED
    BY <2>1, <2>2
<1> QED
  BY <1>2, <1>3, <1>4 DEF Window!CalculateTimeIdx, Window!CalculateWindowStart, Window!Slots

-----------------------------------------------------------------------------
(***************************************************************************)
(* Types.                                                                  *)
(***************************************************************************)
\* The empty ring and the idle threads have their types.
LEMMA InitTypeOK == Window!Init => Window!TypeOK
BY WindowAssumption DEF Window!Init, Window!TypeOK, Window!RingTypeOK, Window!ThreadTypeOK, Window!Pcs, Window!Slots, Window!Null

\* The slot and the window that a thread works on are of the ring.
LEMMA WindowOfThread ==
  ASSUME Window!TypeOK, NEW t \in Threads
  PROVE  Window!Slot(t) \in Window!Slots /\ Window!BucketStart(t) \in 0 .. time[t] /\ time[t] \in 0 .. MaxTime
BY WindowOfTime DEF Window!TypeOK, Window!ThreadTypeOK, Window!Slot, Window!BucketStart

\* No step of a thread breaks a type.
LEMMA StepTypeOK ==
  ASSUME Window!TypeOK, NEW t \in Threads, Window!Step(t)
  PROVE  (Window!TypeOK)'
<1>1. /\ Window!Slot(t) \in Window!Slots
      /\ Window!BucketStart(t) \in 0 .. MaxTime /\ Window!BucketStart(t) \in Int
      /\ 0 \in Window!Slots /\ 0 \in 0 .. MaxTime
  <2>1. Window!Slot(t) \in Window!Slots /\ Window!BucketStart(t) \in 0 .. time[t] /\ time[t] \in 0 .. MaxTime
    BY WindowOfThread
  <2>2. MaxTime \in Nat /\ SampleCount \in Nat \ {0}
    BY WindowAssumption
  <2> QED
    BY <2>1, <2>2 DEF Window!Slots
<1>2. Window!RingTypeOK /\ Window!ThreadTypeOK /\ now \in 0 .. MaxTime /\ now \in Nat
  BY WindowAssumption DEF Window!TypeOK, Window!RingTypeOK
<1>3. (Window!RingTypeOK)'
  <2> USE <1>1, <1>2 DEF Window!RingTypeOK, Window!ringVars, Window!sumVars
  <2>1. CASE Window!LoadBucket(t) \/ Window!IsNewer(t) \/ Window!IsOlder(t) \/ Window!NewDetachedBucket(t)
    BY <2>1 DEF Window!LoadBucket, Window!IsNewer, Window!IsOlder, Window!NewDetachedBucket
  <2>2. CASE Window!CreateBucket(t)
    BY <2>2 DEF Window!CreateBucket
  <2>3. CASE Window!ResetTo(t) \/ Window!ResetCounters(t)
    BY <2>3 DEF Window!ResetTo, Window!ResetCounters
  <2>4. CASE Window!Add(t)
    BY <2>4 DEF Window!Add
  <2>5. CASE Window!Values(t) \/ Window!Collect(t) \/ Window!Get(t) \/ Window!ReturnSum(t)
    BY <2>5 DEF Window!Values, Window!Collect, Window!Get, Window!ReturnSum
  <2> QED
    BY <2>1, <2>2, <2>3, <2>4, <2>5 DEF Window!Step
<1>4. (Window!ThreadTypeOK)'
  <2> USE <1>1, <1>2 DEF Window!ThreadTypeOK, Window!Pcs, Window!sumVars, Window!Goto
  <2>1. CASE Window!LoadBucket(t) \/ Window!IsNewer(t) \/ Window!IsOlder(t)
    BY <2>1 DEF Window!LoadBucket, Window!IsNewer, Window!IsOlder, Window!Return
  <2>2. CASE Window!CreateBucket(t) \/ Window!ResetTo(t) \/ Window!ResetCounters(t)
    BY <2>2 DEF Window!CreateBucket, Window!ResetTo, Window!ResetCounters, Window!Return
  <2>3. CASE Window!Add(t) \/ Window!ReturnSum(t)
    BY <2>3 DEF Window!Add, Window!ReturnSum, Window!Leave
  <2>6. CASE Window!NewDetachedBucket(t)
    <3>1. CASE op[t] = "add"
      BY <2>6, <3>1 DEF Window!NewDetachedBucket, Window!Leave
    <3>2. CASE op[t] # "add"
      BY <2>6, <3>2 DEF Window!NewDetachedBucket
    <3> QED
      BY <3>1, <3>2
  <2>4. CASE Window!Values(t)
    BY <2>4 DEF Window!Values
  <2>7. CASE Window!Get(t)
    <3>1. \A i \in Window!Slots : cnt[i] \in Nat
      BY DEF Window!RingTypeOK
    <3> QED
      BY <2>7, <3>1 DEF Window!Get
  <2>5. CASE Window!Collect(t)
    BY <2>5, WindowAssumption DEF Window!Collect, Window!Slots
  <2> QED
    BY <2>1, <2>2, <2>3, <2>4, <2>5, <2>6, <2>7 DEF Window!Step
<1> QED
  BY <1>3, <1>4 DEF Window!TypeOK

\* Types are inductive.
LEMMA NextTypeOK == Window!TypeOK /\ [Window!Next]_(Window!vars) => (Window!TypeOK)'
<1> SUFFICES ASSUME Window!TypeOK, [Window!Next]_(Window!vars) PROVE (Window!TypeOK)'
  OBVIOUS
<1> USE DEF Window!TypeOK, Window!RingTypeOK, Window!ThreadTypeOK
<1>1. CASE UNCHANGED Window!vars
  BY <1>1 DEF Window!vars
<1>2. CASE Window!Tick
  BY <1>2, WindowAssumption DEF Window!Tick, Window!ringVars, Window!sumVars
<1>3. ASSUME NEW t \in Threads, Window!Step(t) PROVE (Window!TypeOK)'
  BY <1>3, StepTypeOK
<1>4. ASSUME NEW t \in Threads, NEW o \in {"add", "sum"}, Window!Begin(t, o) PROVE (Window!TypeOK)'
  BY <1>4 DEF Window!Begin, Window!Goto, Window!ringVars, Window!sumVars, Window!Pcs
<1> QED
  BY <1>1, <1>2, <1>3, <1>4 DEF Window!Next

\* Every reachable state is well typed: no thread ever addresses a slot
\* outside the ring (CalculateTimeIdx, Values).
THEOREM WindowTypeCorrect == Window!Spec => []Window!TypeOK
BY InitTypeOK, NextTypeOK, PTL DEF Window!Spec

-----------------------------------------------------------------------------
(***************************************************************************)
(* Expired counts.  What makes NoExpiredCount inductive: a bucket outside  *)
(* ResetWindowTo only holds counts that were added after its start, since  *)
(* its start is never in the future and the reset clears it after moving   *)
(* the start; so a bucket that was young enough when Values() collected it *)
(* stays good for that sum whatever is done to it later.                   *)
(***************************************************************************)
InValues(t) == pc[t] \in {"collect", "get"}

ClockInv ==
  /\ \A t \in Threads : time[t] <= now
  /\ \A i \in Window!Slots : start[i] <= now

ListInv == \A t \in Threads : ~InValues(t) => list[t] = {}

\* A slot without a bucket has no counts, and nobody works on it.
NullInv ==
  /\ \A i \in Window!Slots : start[i] = Window!Null => cnt[i] = 0
  /\ \A t \in Threads : pc[t] \in {"add", "clear"} => start[Window!Slot(t)] # Window!Null

YoungInv == \A i \in Window!Slots : Window!InReset(i) \/ cnt[i] = 0 \/ oldest[i] >= start[i]

CollectedInv ==
  \A t \in Threads : \A i \in list[t] :
    Window!InReset(i) \/ cnt[i] = 0 \/ oldest[i] >= time[t] - Interval

RecentInv == Window!TypeOK /\ ClockInv /\ ListInv /\ NullInv /\ YoungInv /\ CollectedInv

\* Nothing has been counted in the empty ring.
LEMMA InitRecentInv == Window!Init => RecentInv
<1> SUFFICES ASSUME Window!Init PROVE RecentInv
  OBVIOUS
<1>1. Window!TypeOK
  BY InitTypeOK
<1> QED
  BY <1>1 DEF Window!Init, RecentInv, ClockInv, ListInv, NullInv, YoungInv,
              CollectedInv, Window!Slots, Window!Null

\* The clock only moves on.
LEMMA StepClockInv ==
  ASSUME RecentInv, NEW t \in Threads, Window!Step(t)
  PROVE  ClockInv' /\ now' = now
<1>1. /\ Window!Slot(t) \in Window!Slots
      /\ Window!BucketStart(t) \in 0 .. time[t]
      /\ Window!TypeOK /\ ClockInv
  BY WindowOfThread DEF RecentInv
<1>2. now \in Nat /\ time[t] \in Nat /\ Window!BucketStart(t) \in Int /\ Window!BucketStart(t) <= now
  BY <1>1, WindowAssumption DEF Window!TypeOK, Window!RingTypeOK, Window!ThreadTypeOK, ClockInv
<1>3. /\ now' = now
      /\ time' = time \/ time' = [time EXCEPT ![t] = 0] \/ time' = [time EXCEPT ![t] = now]
      /\ start' = start \/ start' = [start EXCEPT ![Window!Slot(t)] = Window!BucketStart(t)]
  <2> USE DEF Window!ringVars, Window!sumVars
  <2>1. CASE Window!LoadBucket(t) \/ Window!IsNewer(t) \/ Window!IsOlder(t) \/ Window!CreateBucket(t)
    BY <2>1 DEF Window!LoadBucket, Window!IsNewer, Window!IsOlder, Window!CreateBucket
  <2>2. CASE Window!ResetTo(t) \/ Window!ResetCounters(t) \/ Window!NewDetachedBucket(t)
    BY <2>2 DEF Window!ResetTo, Window!ResetCounters, Window!NewDetachedBucket, Window!Leave
  <2>3. CASE Window!Add(t) \/ Window!ReturnSum(t) \/ Window!Values(t) \/ Window!Collect(t) \/ Window!Get(t)
    BY <2>3 DEF Window!Add, Window!ReturnSum, Window!Values, Window!Collect, Window!Get, Window!Leave
  <2> QED
    BY <2>1, <2>2, <2>3 DEF Window!Step
<1>4. \A u \in Threads : time'[u] <= now
  BY <1>1, <1>2, <1>3 DEF ClockInv, Window!TypeOK, Window!ThreadTypeOK
<1>5. \A i \in Window!Slots : start'[i] <= now
  BY <1>1, <1>2, <1>3 DEF ClockInv, Window!TypeOK, Window!RingTypeOK
<1> QED
  BY <1>3, <1>4, <1>5 DEF ClockInv

\* Only Values() collects slots.
LEMMA StepListInv ==
  ASSUME RecentInv, NEW t \in Threads, Window!Step(t)
  PROVE  ListInv'
<1> USE DEF RecentInv, ListInv, InValues, Window!TypeOK, Window!ThreadTypeOK, Window!sumVars, Window!Goto
<1>1. CASE Window!LoadBucket(t) \/ Window!IsNewer(t) \/ Window!IsOlder(t)
  BY <1>1 DEF Window!LoadBucket, Window!IsNewer, Window!IsOlder, Window!Return
<1>2. CASE Window!CreateBucket(t) \/ Window!ResetTo(t) \/ Window!ResetCounters(t)
  BY <1>2 DEF Window!CreateBucket, Window!ResetTo, Window!ResetCounters, Window!Return
<1>3. CASE Window!NewDetachedBucket(t) \/ Window!Add(t)
  BY <1>3 DEF Window!NewDetachedBucket, Window!Add, Window!Leave
<1>4. CASE Window!Values(t) \/ Window!Collect(t) \/ Window!Get(t) \/ Window!ReturnSum(t)
  BY <1>4 DEF Window!Values, Window!Collect, Window!Get, Window!ReturnSum, Window!Leave
<1> QED
  BY <1>1, <1>2, <1>3, <1>4 DEF Window!Step

\* A step of t leaves the other threads where they are.
LEMMA StepOthers ==
  ASSUME Window!TypeOK, NEW t \in Threads, Window!Step(t), NEW u \in Threads, u # t
  PROVE  pc'[u] = pc[u] /\ time'[u] = time[u] /\ list'[u] = list[u] /\ (Window!Slot(u))' = Window!Slot(u)
<1> USE DEF Window!TypeOK, Window!ThreadTypeOK, Window!sumVars, Window!Goto, Window!Return, Window!Slot
<1>1. CASE Window!LoadBucket(t) \/ Window!IsNewer(t) \/ Window!IsOlder(t) \/ Window!CreateBucket(t)
  BY <1>1 DEF Window!LoadBucket, Window!IsNewer, Window!IsOlder, Window!CreateBucket
<1>2. CASE Window!ResetTo(t) \/ Window!ResetCounters(t) \/ Window!NewDetachedBucket(t)
  BY <1>2 DEF Window!ResetTo, Window!ResetCounters, Window!NewDetachedBucket, Window!Leave
<1>3. CASE Window!Add(t) \/ Window!ReturnSum(t) \/ Window!Values(t) \/ Window!Collect(t) \/ Window!Get(t)
  BY <1>3 DEF Window!Add, Window!ReturnSum, Window!Values, Window!Collect, Window!Get, Window!Leave
<1> QED
  BY <1>1, <1>2, <1>3 DEF Window!Step

\* A reset in progress stays in progress until its own thread clears the
\* counters (ResetWindowTo).
LEMMA InResetStays ==
  ASSUME Window!TypeOK, NEW t \in Threads, Window!Step(t), NEW i \in Window!Slots, Window!InReset(i),
         ~(pc[t] = "clear" /\ Window!Slot(t) = i)
  PROVE  (Window!InReset(i))'
<1>1. PICK u \in Threads : pc[u] = "clear" /\ Window!Slot(u) = i
  BY DEF Window!InReset
<1>2. u # t
  BY <1>1
<1>3. pc'[u] = "clear" /\ (Window!Slot(u))' = i
  BY <1>1, <1>2, StepOthers
<1> QED
  BY <1>3 DEF Window!InReset

\* What a step does to a bucket i of the ring: nothing, unless it is the
\* bucket of the thread's slot.
LEMMA StepRing ==
  ASSUME Window!TypeOK, NEW t \in Threads, Window!Step(t), NEW i \in Window!Slots
  PROVE  \/ start'[i] = start[i] /\ cnt'[i] = cnt[i] /\ oldest'[i] = oldest[i] /\ pc[t] # "clear"
         \/ /\ Window!Slot(t) # i
            /\ start'[i] = start[i] /\ cnt'[i] = cnt[i] /\ oldest'[i] = oldest[i]
         \/ /\ Window!Slot(t) = i /\ start[i] = Window!Null /\ start'[i] = Window!BucketStart(t)
            /\ cnt'[i] = cnt[i] /\ pc[t] = "create"
         \/ /\ Window!Slot(t) = i /\ start'[i] = Window!BucketStart(t) /\ cnt'[i] = cnt[i]
            /\ pc'[t] = "clear" /\ (Window!Slot(t))' = Window!Slot(t) /\ pc[t] = "reset"
         \/ Window!Slot(t) = i /\ start'[i] = start[i] /\ cnt'[i] = 0 /\ pc[t] = "clear"
         \/ /\ Window!Slot(t) = i /\ start'[i] = start[i] /\ pc[t] = "add"
            /\ oldest'[i] = IF cnt[i] = 0 THEN now ELSE oldest[i]
<1>1. Window!Slot(t) \in Window!Slots
  BY WindowOfThread
<1> USE <1>1 DEF Window!TypeOK, Window!RingTypeOK, Window!ThreadTypeOK, Window!ringVars, Window!Goto, Window!Return
<1>2. CASE Window!LoadBucket(t) \/ Window!IsNewer(t) \/ Window!IsOlder(t) \/ Window!NewDetachedBucket(t)
  BY <1>2 DEF Window!LoadBucket, Window!IsNewer, Window!IsOlder, Window!NewDetachedBucket
<1>3. CASE Window!CreateBucket(t)
  BY <1>3 DEF Window!CreateBucket
<1>4. CASE Window!ResetTo(t)
  BY <1>4 DEF Window!ResetTo, Window!Slot
<1>5. CASE Window!ResetCounters(t)
  BY <1>5 DEF Window!ResetCounters
<1>6. CASE Window!Add(t)
  BY <1>6 DEF Window!Add
<1>7. CASE Window!ReturnSum(t) \/ Window!Values(t) \/ Window!Collect(t) \/ Window!Get(t)
  BY <1>7 DEF Window!ReturnSum, Window!Values, Window!Collect, Window!Get
<1> QED
  BY <1>2, <1>3, <1>4, <1>5, <1>6, <1>7 DEF Window!Step

\* A bucket never leaves its slot.
LEMMA BucketStays ==
  ASSUME Window!TypeOK, NEW t \in Threads, Window!Step(t), NEW i \in Window!Slots, start[i] # Window!Null
  PROVE  start'[i] # Window!Null
<1>1. Window!BucketStart(t) # Window!Null
  BY WindowOfThread DEF Window!Null
<1> QED
  BY <1>1, StepRing

\* A thread adds to a bucket, or clears one, only where there is a bucket.
LEMMA StepNullInv ==
  ASSUME RecentInv, NEW t \in Threads, Window!Step(t)
  PROVE  NullInv'
<1>1. Window!TypeOK /\ NullInv /\ Window!Slot(t) \in Window!Slots /\ Window!BucketStart(t) # Window!Null
  BY WindowOfThread DEF RecentInv, Window!Null
<1>2. ASSUME NEW i \in Window!Slots, start'[i] = Window!Null PROVE cnt'[i] = 0
  BY <1>1, <1>2, StepRing DEF NullInv
<1>3. ASSUME NEW u \in Threads, u # t, pc'[u] \in {"add", "clear"}
      PROVE  start'[(Window!Slot(u))'] # Window!Null
  <2>1. (Window!Slot(u))' = Window!Slot(u) /\ pc[u] \in {"add", "clear"}
    BY <1>1, <1>3, StepOthers
  <2>2. Window!Slot(u) \in Window!Slots /\ start[Window!Slot(u)] # Window!Null
    BY <1>1, <2>1, WindowOfThread DEF NullInv
  <2> QED
    BY <1>1, <2>1, <2>2, BucketStays
<1>4. ASSUME pc'[t] \in {"add", "clear"} PROVE start'[(Window!Slot(t))'] # Window!Null
  <2> USE <1>1, <1>4 DEF Window!TypeOK, Window!RingTypeOK, Window!ThreadTypeOK, Window!ringVars, Window!Goto, Window!Return, Window!Slot
  <2>1. CASE Window!LoadBucket(t)
    BY <2>1 DEF Window!LoadBucket
  <2>2. CASE Window!IsNewer(t) \/ Window!IsOlder(t) \/ Window!NewDetachedBucket(t) \/ Window!Add(t)
    BY <2>2 DEF Window!IsNewer, Window!IsOlder, Window!NewDetachedBucket, Window!Add, Window!Leave
  <2>3. CASE Window!CreateBucket(t)
    BY <2>3 DEF Window!CreateBucket
  <2>4. CASE Window!ResetTo(t) \/ Window!ResetCounters(t)
    BY <2>4 DEF Window!ResetTo, Window!ResetCounters, NullInv
  <2>5. CASE Window!Values(t) \/ Window!Collect(t) \/ Window!Get(t) \/ Window!ReturnSum(t)
    BY <2>5 DEF Window!Values, Window!Collect, Window!Get, Window!ReturnSum, Window!Leave
  <2> QED
    BY <2>1, <2>2, <2>3, <2>4, <2>5 DEF Window!Step
<1> QED
  BY <1>2, <1>3, <1>4 DEF NullInv

\* Whatever a thread does to the ring, a bucket that holds no count older
\* than some moment of the past still holds none afterwards, or is in reset.
LEMMA StepKeepsYoung ==
  ASSUME RecentInv, NEW t \in Threads, Window!Step(t), NEW i \in Window!Slots, NEW m \in Int, m <= now,
         Window!InReset(i) \/ cnt[i] = 0 \/ oldest[i] >= m
  PROVE  (Window!InReset(i))' \/ cnt'[i] = 0 \/ oldest'[i] >= m
<1>1. Window!TypeOK /\ NullInv
  BY DEF RecentInv
<1>2. now \in Int /\ cnt[i] \in Nat /\ oldest[i] \in Int
  BY <1>1, WindowAssumption DEF Window!TypeOK, Window!RingTypeOK
<1>3. CASE pc[t] = "clear" /\ Window!Slot(t) = i
  BY <1>1, <1>3, StepRing
<1>4. CASE Window!Slot(t) = i /\ pc'[t] = "clear" /\ (Window!Slot(t))' = Window!Slot(t)
  BY <1>4 DEF Window!InReset
<1>5. CASE /\ ~(pc[t] = "clear" /\ Window!Slot(t) = i)
           /\ ~(Window!Slot(t) = i /\ pc'[t] = "clear" /\ (Window!Slot(t))' = Window!Slot(t))
  <2>1. Window!InReset(i) => (Window!InReset(i))'
    BY <1>1, <1>5, InResetStays
  <2>2. start[i] = Window!Null => cnt[i] = 0
    BY <1>1 DEF NullInv
  <2> QED
    BY <1>1, <1>2, <1>5, <2>1, <2>2, StepRing
<1> QED
  BY <1>3, <1>4, <1>5

\* The counts of a bucket are no older than its start.
LEMMA StepYoungInv ==
  ASSUME RecentInv, NEW t \in Threads, Window!Step(t)
  PROVE  YoungInv'
<1> SUFFICES ASSUME NEW i \in Window!Slots
             PROVE  (Window!InReset(i))' \/ cnt'[i] = 0 \/ oldest'[i] >= start'[i]
  BY DEF YoungInv
<1>1. /\ Window!TypeOK /\ NullInv
      /\ Window!InReset(i) \/ cnt[i] = 0 \/ oldest[i] >= start[i]
      /\ start[i] \in Int /\ start[i] <= now
  BY DEF RecentInv, YoungInv, ClockInv, Window!TypeOK, Window!RingTypeOK
<1>2. CASE start'[i] = start[i]
  BY <1>1, <1>2, StepKeepsYoung
<1>3. CASE start'[i] # start[i]
  <2>1. \/ Window!Slot(t) = i /\ start[i] = Window!Null /\ cnt'[i] = cnt[i]
        \/ Window!Slot(t) = i /\ pc'[t] = "clear" /\ (Window!Slot(t))' = Window!Slot(t)
    BY <1>1, <1>3, StepRing
  <2> QED
    BY <1>1, <2>1 DEF NullInv, Window!InReset
<1> QED
  BY <1>2, <1>3

\* The buckets collected for a sum stay free of expired counts.
LEMMA StepCollectedInv ==
  ASSUME RecentInv, NEW t \in Threads, Window!Step(t)
  PROVE  CollectedInv'
<1> SUFFICES ASSUME NEW u \in Threads, NEW i \in list'[u]
             PROVE  (Window!InReset(i))' \/ cnt'[i] = 0 \/ oldest'[i] >= time'[u] - Interval
  BY DEF CollectedInv
<1>1. Window!TypeOK /\ (Window!TypeOK)' /\ ClockInv /\ ListInv /\ YoungInv /\ CollectedInv
  BY StepTypeOK DEF RecentInv
<1>2. i \in Window!Slots /\ Interval \in Nat /\ now \in Nat /\ time[u] \in Nat /\ time[u] <= now
  BY <1>1, WindowAssumption DEF Window!TypeOK, Window!RingTypeOK, Window!ThreadTypeOK, ClockInv
<1>3. time[u] - Interval \in Int /\ time[u] - Interval <= now
  BY <1>2
<1>4. CASE i \in list[u] /\ time'[u] = time[u]
  <2>1. Window!InReset(i) \/ cnt[i] = 0 \/ oldest[i] >= time[u] - Interval
    BY <1>1, <1>4 DEF CollectedInv
  <2>2. (Window!InReset(i))' \/ cnt'[i] = 0 \/ oldest'[i] >= time[u] - Interval
    BY <1>2, <1>3, <2>1, StepKeepsYoung
  <2> QED
    BY <1>4, <2>2
<1>5. CASE ~(i \in list[u] /\ time'[u] = time[u])
  <2>1. u = t
    BY <1>1, <1>5, StepOthers
  <2>2. Window!Collect(t) /\ i = idx[t] /\ time'[t] = time[t]
    <3> USE <2>1, <1>1, <1>5 DEF Window!TypeOK, Window!ThreadTypeOK, ListInv, InValues, Window!sumVars
    <3>1. CASE Window!LoadBucket(t) \/ Window!IsNewer(t) \/ Window!IsOlder(t) \/ Window!CreateBucket(t)
      BY <3>1 DEF Window!LoadBucket, Window!IsNewer, Window!IsOlder, Window!CreateBucket
    <3>2. CASE Window!ResetTo(t) \/ Window!ResetCounters(t) \/ Window!NewDetachedBucket(t) \/ Window!Add(t)
      BY <3>2 DEF Window!ResetTo, Window!ResetCounters, Window!NewDetachedBucket, Window!Add
    <3>3. CASE Window!Values(t) \/ Window!Get(t) \/ Window!ReturnSum(t)
      BY <3>3 DEF Window!Values, Window!Get, Window!ReturnSum
    <3>4. CASE Window!Collect(t)
      BY <3>4 DEF Window!Collect
    <3> QED
      BY <3>1, <3>2, <3>3, <3>4 DEF Window!Step
  <2>3. /\ time[t] - start[i] <= Interval
        /\ cnt'[i] = cnt[i] /\ oldest'[i] = oldest[i] /\ start[i] \in Int
        /\ ~(pc[t] = "clear" /\ Window!Slot(t) = i)
    BY <2>1, <2>2, <1>1, <1>2, <1>5 DEF Window!Collect, Window!IsBucketDeprecated, Window!ringVars, Window!TypeOK,
                                        Window!ThreadTypeOK, Window!RingTypeOK
  <2>4. Window!InReset(i) => (Window!InReset(i))'
    BY <1>1, <1>2, <2>3, InResetStays
  <2>5. oldest[i] \in Int /\ cnt[i] \in Nat
    BY <1>1, <1>2 DEF Window!TypeOK, Window!RingTypeOK
  <2>6. Window!InReset(i) \/ cnt[i] = 0 \/ oldest[i] >= start[i]
    BY <1>1, <1>2 DEF YoungInv
  <2> QED
    BY <1>2, <2>1, <2>2, <2>3, <2>4, <2>5, <2>6
<1> QED
  BY <1>4, <1>5

\* The invariant is inductive.
LEMMA NextRecentInv == RecentInv /\ [Window!Next]_(Window!vars) => RecentInv'
<1> SUFFICES ASSUME RecentInv, [Window!Next]_(Window!vars) PROVE RecentInv'
  OBVIOUS
<1>1. Window!TypeOK /\ (Window!TypeOK)'
  BY NextTypeOK DEF RecentInv
<1>2. CASE UNCHANGED Window!vars
  BY <1>2, <1>1 DEF Window!vars, RecentInv, ClockInv, ListInv, NullInv, YoungInv, CollectedInv,
                    Window!InReset, InValues, Window!Slot
<1>3. CASE Window!Tick
  <2>1. ClockInv'
    BY <1>1, <1>3 DEF Window!Tick, Window!ringVars, RecentInv, ClockInv, Window!TypeOK, Window!RingTypeOK, Window!ThreadTypeOK
  <2> QED
    BY <1>1, <1>3, <2>1 DEF Window!Tick, Window!ringVars, Window!sumVars, RecentInv, ListInv, NullInv, YoungInv,
                            CollectedInv, Window!InReset, InValues, Window!Slot
<1>4. ASSUME NEW t \in Threads, Window!Step(t) PROVE RecentInv'
  BY <1>1, <1>4, StepClockInv, StepListInv, StepNullInv, StepYoungInv, StepCollectedInv
     DEF RecentInv
<1>5. ASSUME NEW t \in Threads, NEW o \in {"add", "sum"}, Window!Begin(t, o) PROVE RecentInv'
  <2>1. /\ UNCHANGED <<start, cnt, oldest, list, now>>
        /\ pc[t] = "idle" /\ pc'[t] = "load" /\ time'[t] = now
        /\ \A u \in Threads \ {t} : pc'[u] = pc[u] /\ time'[u] = time[u] /\ (Window!Slot(u))' = Window!Slot(u)
    BY <1>1, <1>5 DEF Window!Begin, Window!Goto, Window!ringVars, Window!sumVars, Window!TypeOK, Window!ThreadTypeOK, Window!Slot
  <2>2. \A i \in Window!Slots : Window!InReset(i) => (Window!InReset(i))'
    BY <2>1 DEF Window!InReset
  <2>3. list[t] = {} /\ ListInv'
    BY <1>1, <2>1 DEF RecentInv, ListInv, InValues
  <2>4. ClockInv'
    <3>1. now \in Nat
      BY <1>1, WindowAssumption DEF Window!TypeOK, Window!RingTypeOK
    <3>2. \A u \in Threads : time'[u] = now \/ time'[u] = time[u]
      BY <2>1
    <3> QED
      BY <2>1, <3>1, <3>2 DEF RecentInv, ClockInv
  <2>5. NullInv'
    BY <2>1 DEF RecentInv, NullInv
  <2>6. YoungInv'
    BY <2>1, <2>2 DEF RecentInv, YoungInv
  <2>7. \A u \in Threads : list[u] \subseteq Window!Slots
    BY <1>1 DEF Window!TypeOK, Window!ThreadTypeOK
  <2>8. CollectedInv'
    BY <2>1, <2>2, <2>3, <2>7 DEF RecentInv, CollectedInv
  <2> QED
    BY <1>1, <2>3, <2>4, <2>5, <2>6, <2>8 DEF RecentInv
<1> QED
  BY <1>2, <1>3, <1>4, <1>5 DEF Window!Next

\* For any number of threads and any ring, a sum over the sliding window
\* never counts what was added more than Interval before the clock value it
\* works with, unless it reads a bucket in the middle of ResetWindowTo.
THEOREM SumsAreRecent == Window!Spec => []NoExpiredCount
<1>1. RecentInv => NoExpiredCount
  BY DEF RecentInv, CollectedInv, NoExpiredCount, Window!NoExpiredCount
<1> QED
  BY <1>1, InitRecentInv, NextRecentInv, PTL DEF Window!Spec

-----------------------------------------------------------------------------
(***************************************************************************)
(* Sums of what windows have seen (Seen), for one value of the log.        *)
(***************************************************************************)
\* upTo[n] is what the first n moments contribute.
SumSteps(l, D, upTo) ==
  /\ upTo \in [0 .. MaxTime + 1 -> Nat] /\ upTo[0] = 0
  /\ \A n \in 1 .. MaxTime + 1 : upTo[n] = upTo[n - 1] + (IF n - 1 \in D THEN l[n - 1] ELSE 0)

SumOver(l, D) ==
  LET upTo[n \in 0 .. MaxTime + 1] ==
        IF n = 0 THEN 0 ELSE upTo[n - 1] + (IF n - 1 \in D THEN l[n - 1] ELSE 0)
  IN  upTo[MaxTime + 1]

\* Seen is this sum of the log.
LEMMA SeenIsSum == \A D : Window!Seen(D) = SumOver(log, D)
BY DEF Window!Seen, SumOver

\* What holds of 0, and of n with n - 1, holds up to N.
LEMMA Ascent ==
  ASSUME NEW N \in Nat, NEW T, 0 \in T, \A n \in 1 .. N : n - 1 \in T => n \in T
  PROVE  \A n \in 0 .. N : n \in T
<1> DEFINE R == {n \in 0 .. N : n \notin T}
<1> SUFFICES ASSUME R # {} PROVE FALSE
  OBVIOUS
<1>1. PICK m \in R : \A k \in R : m <= k
  <2>1. R \in SUBSET Nat
    OBVIOUS
  <2> HIDE DEF R
  <2> QED
    BY <2>1, LeastElement
<1>2. m \in 0 .. N /\ m \notin T /\ m # 0
  BY <1>1
<1>3. m \in 1 .. N /\ m - 1 \in 0 .. N /\ ~(m <= m - 1)
  BY <1>2
<1>4. m - 1 \notin R
  <2> HIDE DEF R
  <2> QED
    BY <1>1, <1>3
<1> QED
  BY <1>2, <1>3, <1>4

\* The recursion of Seen has a result after every moment.
LEMMA SumIsMade ==
  ASSUME NEW l \in [0 .. MaxTime -> Nat], NEW D
  PROVE  \E f : SumSteps(l, D, f) /\ SumOver(l, D) = f[MaxTime + 1]
<1> DEFINE N == MaxTime + 1
           part(n) == IF n - 1 \in D THEN l[n - 1] ELSE 0
           Made(g) == g = [n \in 0 .. N |-> IF n = 0 THEN 0 ELSE g[n - 1] + (IF n - 1 \in D THEN l[n - 1] ELSE 0)]
           upTo == CHOOSE g : Made(g)
<1>1. N \in Nat /\ 0 \in Nat /\ 0 \in 0 .. N
  BY WindowAssumption
<1>2. \A n \in 1 .. N : n \in 0 .. N /\ n # 0 /\ n - 1 \in 0 .. N /\ n - 1 \in 0 .. MaxTime
  BY <1>1, WindowAssumption
<1>3. ASSUME NEW n \in 1 .. N PROVE part(n) \in Nat
  BY <1>2
<1>4. \E g : Made(g)
  <2> DEFINE step == [n \in 1 .. N |-> [s \in Nat |-> s + part(n)]]
  <2>1. step \in [1 .. N -> [Nat -> Nat]]
    <3> HIDE DEF part, N
    <3> QED
      BY <1>3
  <2>2. PICK f : Rounds(f, Nat, N, 0, step)
    <3> HIDE DEF step, N
    <3> QED
      BY <1>1, <2>1, Recursion
  <2>3. \A n \in 1 .. N : step[n][f[n - 1]] = f[n - 1] + part(n)
    <3> SUFFICES ASSUME NEW n \in 1 .. N PROVE step[n][f[n - 1]] = f[n - 1] + part(n)
      OBVIOUS
    <3>1. f[n - 1] \in Nat
      BY <1>2, <2>2 DEF Rounds
    <3> HIDE DEF part, N
    <3> QED
      BY <3>1
  <2>4. f = [n \in 0 .. N |-> f[n]]
    BY <2>2 DEF Rounds
  <2>5. ASSUME NEW n \in 0 .. N PROVE f[n] = IF n = 0 THEN 0 ELSE f[n - 1] + part(n)
    <3>1. n # 0 => n \in 1 .. N
      BY <1>1
    <3>2. n = 0 => f[n] = 0
      BY <2>2 DEF Rounds
    <3>3. n \in 1 .. N => f[n] = step[n][f[n - 1]]
      <4> HIDE DEF step, N
      <4> QED
        BY <2>2 DEF Rounds
    <3> HIDE DEF step, N, part
    <3> QED
      BY <2>3, <3>1, <3>2, <3>3
  <2>6. Made(f)
    BY <2>4, <2>5
  <2> QED
    BY <2>6
<1>5. Made(upTo)
  <2> HIDE DEF Made
  <2> QED
    BY <1>4
<1>6. SumOver(l, D) = upTo[N]
  BY DEF SumOver
<1> HIDE DEF upTo
<1>7. upTo[0] = 0 /\ \A n \in 1 .. N : upTo[n] = upTo[n - 1] + part(n)
  <2> HIDE DEF N
  <2> QED
    BY <1>1, <1>2, <1>5
<1> DEFINE T == {n \in 0 .. N : upTo[n] \in Nat}
<1>8. \A n \in 0 .. N : n \in T
  <2>1. 0 \in T
    BY <1>1, <1>7
  <2>2. ASSUME NEW n \in 1 .. N, n - 1 \in T PROVE n \in T
    <3>1. upTo[n - 1] \in Nat /\ n \in 0 .. N /\ part(n) \in Nat
      BY <1>2, <1>3, <2>2
    <3>2. upTo[n] = upTo[n - 1] + part(n)
      BY <1>7
    <3> HIDE DEF N, part
    <3> QED
      BY <3>1, <3>2
  <2> HIDE DEF T, N
  <2> QED
    BY <1>1, <2>1, <2>2, Ascent
<1>9. upTo \in [0 .. N -> Nat]
  <2>1. \A n \in 0 .. N : upTo[n] \in Nat
    BY <1>8
  <2>2. upTo = [n \in 0 .. N |-> upTo[n]]
    BY <1>5
  <2> HIDE DEF N
  <2> QED
    BY <2>1, <2>2
<1>10. SumSteps(l, D, upTo)
  BY <1>7, <1>9 DEF SumSteps
<1> QED
  BY <1>6, <1>10

\* Windows that have seen nothing do not count.
LEMMA SumGrows ==
  ASSUME NEW l \in [0 .. MaxTime -> Nat], NEW D, NEW E,
         \A s \in 0 .. MaxTime : s \in D /\ l[s] # 0 => s \in E
  PROVE  SumOver(l, D) \in Nat /\ SumOver(l, E) \in Nat /\ SumOver(l, D) <= SumOver(l, E)
<1> DEFINE N == MaxTime + 1
<1>1. PICK f : SumSteps(l, D, f) /\ SumOver(l, D) = f[N]
  BY SumIsMade
<1>2. PICK g : SumSteps(l, E, g) /\ SumOver(l, E) = g[N]
  BY SumIsMade
<1>3. N \in Nat /\ N \in 0 .. N
  BY WindowAssumption
<1>4. f \in [0 .. N -> Nat] /\ g \in [0 .. N -> Nat] /\ f[0] = 0 /\ g[0] = 0
  BY <1>1, <1>2 DEF SumSteps
<1> DEFINE T == {n \in 0 .. N : f[n] <= g[n]}
<1>5. \A n \in 0 .. N : n \in T
  <2>1. 0 \in T
    BY <1>3, <1>4
  <2>2. ASSUME NEW n \in 1 .. N, n - 1 \in T PROVE n \in T
    <3>1. n - 1 \in 0 .. N /\ n \in 0 .. N /\ n - 1 \in 0 .. MaxTime
      BY <1>3, WindowAssumption
    <3>2. l[n - 1] \in Nat /\ f[n - 1] \in Nat /\ g[n - 1] \in Nat
      BY <1>4, <3>1
    <3>3. f[n - 1] <= g[n - 1]
      BY <2>2
    <3>4. f[n] = f[n - 1] + (IF n - 1 \in D THEN l[n - 1] ELSE 0)
      BY <1>1 DEF SumSteps
    <3>5. g[n] = g[n - 1] + (IF n - 1 \in E THEN l[n - 1] ELSE 0)
      BY <1>2 DEF SumSteps
    <3>6. n - 1 \in D /\ n - 1 \notin E => l[n - 1] = 0
      BY <3>1
    <3>7. f[n] <= g[n]
      BY <3>2, <3>3, <3>4, <3>5, <3>6
    <3> QED
      BY <3>1, <3>7
  <2> HIDE DEF T, N
  <2> QED
    BY <1>3, <2>1, <2>2, Ascent
<1>6. N \in T
  BY <1>3, <1>5
<1> QED
  BY <1>1, <1>2, <1>3, <1>4, <1>6

\* No windows, no sum.
LEMMA SumOfNothing ==
  ASSUME NEW l \in [0 .. MaxTime -> Nat] PROVE SumOver(l, {}) = 0
<1> DEFINE N == MaxTime + 1
<1>1. PICK f : SumSteps(l, {}, f) /\ SumOver(l, {}) = f[N]
  BY SumIsMade
<1>2. N \in Nat /\ N \in 0 .. N
  BY WindowAssumption
<1> DEFINE T == {n \in 0 .. N : f[n] = 0}
<1>3. \A n \in 0 .. N : n \in T
  <2>1. 0 \in T
    BY <1>1, <1>2 DEF SumSteps
  <2>2. ASSUME NEW n \in 1 .. N, n - 1 \in T PROVE n \in T
    <3>1. f[n] = f[n - 1] + 0 /\ f[n - 1] = 0
      BY <1>1, <2>2 DEF SumSteps
    <3>2. n \in 0 .. N
      BY <1>2
    <3> QED
      BY <3>1, <3>2
  <2> HIDE DEF T, N
  <2> QED
    BY <1>2, <2>1, <2>2, Ascent
<1> QED
  BY <1>1, <1>2, <1>3

\* A further window adds what it has seen.
LEMMA SumWithOneMore ==
  ASSUME NEW l \in [0 .. MaxTime -> Nat], NEW D, NEW s \in 0 .. MaxTime, s \notin D
  PROVE  SumOver(l, D \cup {s}) = SumOver(l, D) + l[s]
<1> DEFINE N == MaxTime + 1
           E == D \cup {s}
<1>1. PICK f : SumSteps(l, D, f) /\ SumOver(l, D) = f[N]
  BY SumIsMade
<1>2. PICK g : SumSteps(l, E, g) /\ SumOver(l, E) = g[N]
  BY SumIsMade
<1>3. N \in Nat /\ N \in 0 .. N /\ s \in Nat /\ s < N
  BY WindowAssumption
<1>4. f \in [0 .. N -> Nat] /\ g \in [0 .. N -> Nat] /\ f[0] = 0 /\ g[0] = 0
  BY <1>1, <1>2 DEF SumSteps
<1> DEFINE T == {n \in 0 .. N : g[n] = IF n > s THEN f[n] + l[s] ELSE f[n]}
<1>5. \A n \in 0 .. N : n \in T
  <2>1. 0 \in T
    BY <1>3, <1>4
  <2>2. ASSUME NEW n \in 1 .. N, n - 1 \in T PROVE n \in T
    <3>1. n - 1 \in 0 .. N /\ n \in 0 .. N /\ n - 1 \in 0 .. MaxTime
      BY <1>3, WindowAssumption
    <3>2. l[n - 1] \in Nat /\ l[s] \in Nat /\ f[n - 1] \in Nat /\ g[n - 1] \in Nat
      BY <1>4, <3>1
    <3>3. g[n - 1] = IF n - 1 > s THEN f[n - 1] + l[s] ELSE f[n - 1]
      BY <2>2
    <3>4. f[n] = f[n - 1] + (IF n - 1 \in D THEN l[n - 1] ELSE 0)
      BY <1>1 DEF SumSteps
    <3>5. g[n] = g[n - 1] + (IF n - 1 \in E THEN l[n - 1] ELSE 0)
      BY <1>2 DEF SumSteps
    <3>6. CASE n - 1 = s
      <4>1. n - 1 \in E /\ n - 1 \notin D /\ ~(n - 1 > s) /\ n > s /\ l[n - 1] = l[s]
        BY <1>3, <3>1, <3>6
      <4>2. g[n] = f[n - 1] + l[s] /\ f[n] = f[n - 1] + 0
        BY <3>3, <3>4, <3>5, <4>1
      <4>3. g[n] = f[n] + l[s]
        BY <3>2, <4>2
      <4> QED
        BY <3>1, <4>1, <4>3
    <3>7. CASE n - 1 # s
      <4>1. (n - 1 \in E <=> n - 1 \in D) /\ (n - 1 > s <=> n > s)
        BY <1>3, <3>1, <3>7
      <4> DEFINE p == IF n - 1 \in D THEN l[n - 1] ELSE 0
      <4>2. f[n] = f[n - 1] + p /\ g[n] = g[n - 1] + p /\ p \in Nat
        BY <3>2, <3>4, <3>5, <4>1
      <4> HIDE DEF p
      <4>3. g[n] = IF n > s THEN f[n] + l[s] ELSE f[n]
        BY <3>2, <3>3, <4>1, <4>2
      <4> QED
        BY <3>1, <4>3
    <3> QED
      BY <3>6, <3>7
  <2> HIDE DEF T, N
  <2> QED
    BY <1>3, <2>1, <2>2, Ascent
<1>6. N \in T
  BY <1>3, <1>5
<1> QED
  BY <1>1, <1>2, <1>3, <1>6

-----------------------------------------------------------------------------
(***************************************************************************)
(* Windows and their slots, where the buckets cover the interval evenly.   *)
(***************************************************************************)
\* The times that are the start of a window.
WindowStarts == {s \in 0 .. MaxTime : Window!CalculateWindowStart(s) = s}

\* The number of the window that a moment is in.
WindowNumber(tm) == tm \div Window!BucketLength

\* A window starts at its number times the length of a bucket.
LEMMA WindowStartIsMultiple ==
  ASSUME NEW tm \in Nat
  PROVE  /\ WindowNumber(tm) \in Nat
         /\ Window!CalculateWindowStart(tm) = Window!BucketLength * WindowNumber(tm)
         /\ Window!CalculateWindowStart(tm) <= tm
         /\ tm < Window!BucketLength * WindowNumber(tm) + Window!BucketLength
<1> DEFINE b == Window!BucketLength
           q == tm \div b
           r == tm % b
<1>1. b \in Nat \ {0}
  BY BucketLengthPositive
<1> HIDE DEF b
<1>2. q \in Nat /\ r \in 0 .. b - 1 /\ tm = b * q + r
  BY <1>1
<1>3. b * q \in Nat
  BY <1>1, <1>2
<1> HIDE DEF q, r
<1>4. tm - r = b * q /\ tm - r <= tm /\ tm < b * q + b
  BY <1>1, <1>2, <1>3
<1> QED
  BY <1>2, <1>4 DEF WindowNumber, Window!CalculateWindowStart, b, q, r

\* A multiple of b divided by b.
LEMMA NumberOfMultiple ==
  ASSUME NEW b \in Nat \ {0}, NEW q \in Nat
  PROVE  (b * q) \div b = q /\ (b * q) % b = 0 /\ b * q \in Nat
<1> DEFINE p == (b * q) \div b
           r == (b * q) % b
<1>1. b * q \in Nat
  OBVIOUS
<1>2. p \in Nat /\ r \in 0 .. b - 1 /\ b * q = b * p + r
  BY <1>1
<1> HIDE DEF p, r
<1>3. b * q = b * p + r /\ b * p \in Nat
  BY <1>2
<1>4. ~(p < q)
  <2> SUFFICES ASSUME p < q PROVE FALSE
    OBVIOUS
  <2>1. PICK d \in Nat : q = p + 1 + d
    <3>1. q - p - 1 \in Nat /\ q = p + 1 + (q - p - 1)
      BY <1>2
    <3> QED
      BY <3>1
  <2>2. b * q = b * p + b + b * d /\ b * d \in Nat
    BY <1>2, <2>1
  <2> QED
    BY <1>1, <1>2, <1>3, <2>2
<1>5. ~(q < p)
  <2> SUFFICES ASSUME q < p PROVE FALSE
    OBVIOUS
  <2>1. PICK d \in Nat : p = q + 1 + d
    <3>1. p - q - 1 \in Nat /\ p = q + 1 + (p - q - 1)
      BY <1>2
    <3> QED
      BY <3>1
  <2>2. b * p = b * q + b + b * d /\ b * d \in Nat
    BY <1>2, <2>1
  <2> QED
    BY <1>1, <1>2, <1>3, <2>2
<1>6. p = q
  BY <1>2, <1>4, <1>5
<1>7. r = 0
  BY <1>1, <1>2, <1>6
<1> QED
  BY <1>1, <1>6, <1>7 DEF p, r

\* The start of a window starts a window, the one of the same slot
\* (CalculateWindowStart, CalculateTimeIdx).
LEMMA StartOfWindow ==
  ASSUME NEW tm \in 0 .. MaxTime
  PROVE  /\ Window!CalculateWindowStart(tm) \in WindowStarts
         /\ Window!CalculateTimeIdx(Window!CalculateWindowStart(tm)) = Window!CalculateTimeIdx(tm)
<1> DEFINE b == Window!BucketLength
           s == Window!CalculateWindowStart(tm)
           q == WindowNumber(tm)
<1>1. tm \in Nat /\ b \in Nat \ {0} /\ MaxTime \in Nat
  BY BucketLengthPositive, WindowAssumption
<1>2. q \in Nat /\ s = b * q /\ s <= tm
  BY <1>1, WindowStartIsMultiple
<1>3. (b * q) \div b = q /\ (b * q) % b = 0 /\ b * q \in Nat
  <2> HIDE DEF b, q
  <2> QED
    BY <1>1, <1>2, NumberOfMultiple
<1>4. s \in 0 .. MaxTime
  <2> HIDE DEF s, b, q
  <2> QED
    BY <1>1, <1>2, <1>3
<1>5. s \div b = q /\ s % b = 0
  BY <1>2, <1>3
<1>6. Window!CalculateWindowStart(s) = s
  <2>1. Window!CalculateWindowStart(s) = s - (s % b)
    BY DEF Window!CalculateWindowStart
  <2> HIDE DEF s, b, q
  <2> QED
    BY <1>4, <1>5, <2>1
<1>7. Window!CalculateTimeIdx(s) = Window!CalculateTimeIdx(tm)
  BY <1>5 DEF Window!CalculateTimeIdx, WindowNumber
<1> QED
  BY <1>4, <1>6, <1>7 DEF WindowStarts

\* A window that started before a moment started before the window of it.
LEMMA StartsInOrder ==
  ASSUME NEW s \in WindowStarts, NEW tm \in 0 .. MaxTime, s <= tm
  PROVE  s <= Window!CalculateWindowStart(tm)
<1> DEFINE b == Window!BucketLength
           p == WindowNumber(s)
           q == WindowNumber(tm)
<1>1. s \in Nat /\ tm \in Nat /\ b \in Nat \ {0} /\ Window!CalculateWindowStart(s) = s
  BY BucketLengthPositive, WindowAssumption DEF WindowStarts
<1>2. p \in Nat /\ s = b * p
  BY <1>1, WindowStartIsMultiple
<1>3. q \in Nat /\ Window!CalculateWindowStart(tm) = b * q /\ tm < b * q + b
  BY <1>1, WindowStartIsMultiple
<1> HIDE DEF b, p, q
<1>4. ~(b * q < b * p)
  <2> SUFFICES ASSUME b * q < b * p PROVE FALSE
    OBVIOUS
  <2>1. ~(p <= q)
    <3> SUFFICES ASSUME p <= q PROVE FALSE
      OBVIOUS
    <3>1. q - p \in Nat /\ b * q = b * p + b * (q - p) /\ b * (q - p) \in Nat /\ b * p \in Nat
      BY <1>1, <1>2, <1>3
    <3> QED
      BY <3>1
  <2>2. PICK d \in Nat : p = q + 1 + d
    <3>1. p - q - 1 \in Nat /\ p = q + 1 + (p - q - 1)
      BY <1>2, <1>3, <2>1
    <3> QED
      BY <3>1
  <2>3. b * p = b * q + b + b * d /\ b * d \in Nat /\ b * q \in Nat
    BY <1>1, <1>3, <2>2
  <2> QED
    BY <1>1, <1>2, <1>3, <2>3
<1>5. b * q \in Nat /\ b * p \in Nat
  BY <1>1, <1>2, <1>3
<1> QED
  BY <1>2, <1>3, <1>4, <1>5

\* The intervals are what StatConfigManager lets through: as many
\* milliseconds in every bucket.
EvenBuckets == Interval % SampleCount = 0

\* Windows that share a slot are an Interval apart.
LEMMA SlotRecurs ==
  ASSUME EvenBuckets, NEW s \in WindowStarts, NEW u \in WindowStarts, s < u,
         Window!CalculateTimeIdx(s) = Window!CalculateTimeIdx(u)
  PROVE  s + Interval <= u
<1> DEFINE b == Window!BucketLength
           n == SampleCount
           p == WindowNumber(s)
           q == WindowNumber(u)
           i == q \div n
           j == p \div n
           r == p % n
<1>1. s \in Nat /\ u \in Nat /\ b \in Nat \ {0} /\ n \in Nat \ {0} /\ Interval \in Nat
      /\ Window!CalculateWindowStart(s) = s /\ Window!CalculateWindowStart(u) = u
  BY BucketLengthPositive, WindowAssumption DEF WindowStarts
<1>2. p \in Nat /\ s = b * p
  BY <1>1, WindowStartIsMultiple
<1>3. q \in Nat /\ u = b * q
  BY <1>1, WindowStartIsMultiple
<1>4. q % n = r
  BY DEF Window!CalculateTimeIdx, WindowNumber
<1>5. Interval = n * b
  <2>1. Interval \div n = b /\ Interval % n = 0
    BY DEF Window!BucketLength, EvenBuckets
  <2> HIDE DEF n, b
  <2>2. Interval = n * (Interval \div n) + (Interval % n)
    BY <1>1
  <2> QED
    BY <1>1, <2>1, <2>2
<1> HIDE DEF p, q, b, n
<1>6. i \in Nat /\ j \in Nat /\ r \in Nat /\ q = n * i + r /\ p = n * j + r
  <2>1. q = n * i + (q % n) /\ i \in Nat
    BY <1>1, <1>3
  <2>2. p = n * j + r /\ j \in Nat /\ r \in Nat
    BY <1>1, <1>2
  <2> QED
    BY <1>4, <2>1, <2>2
<1> HIDE DEF i, j, r
<1>7. ~(i <= j)
  <2> SUFFICES ASSUME i <= j PROVE FALSE
    OBVIOUS
  <2>1. n * j = n * i + n * (j - i) /\ n * (j - i) \in Nat /\ n * i \in Nat
    BY <1>1, <1>6
  <2>2. p - q \in Nat
    BY <1>2, <1>3, <1>6, <2>1
  <2>3. b * p = b * q + b * (p - q) /\ b * (p - q) \in Nat
    BY <1>1, <1>2, <1>3, <2>2
  <2> QED
    BY <1>1, <1>2, <1>3, <2>3
<1>8. PICK d \in Nat : i = j + 1 + d
  <2>1. i - j - 1 \in Nat /\ i = j + 1 + (i - j - 1)
    BY <1>6, <1>7
  <2> QED
    BY <2>1
<1>9. n * i = n * j + n + n * d /\ n * d \in Nat /\ n * j \in Nat
  BY <1>1, <1>6, <1>8
<1>10. q = p + n + n * d
  BY <1>1, <1>6, <1>9
<1>11. b * q = b * p + b * n + b * (n * d) /\ b * (n * d) \in Nat
  BY <1>1, <1>2, <1>9, <1>10
<1>12. b * n = Interval
  BY <1>1, <1>5
<1> QED
  BY <1>1, <1>2, <1>3, <1>11, <1>12

-----------------------------------------------------------------------------
(***************************************************************************)
(* The exact sum of a window that one thread at a time uses.  What makes   *)
(* WindowSumExact inductive: a bucket has what the window it stands for    *)
(* has seen, and whatever has been seen is in the bucket of its slot or    *)
(* was recycled for a later window; the clock being the thread's own,      *)
(* CurrentWindow() is never behind; and the sum so far is that of the      *)
(* buckets already taken from the list of Values().                        *)
(***************************************************************************)
\* The window is used by one thread at a time.
OneAtATime == \A t, u \in Threads : pc[t] # "idle" /\ pc[u] # "idle" => t = u

\* A bucket stands for a window of its slot.
SlotInv ==
  \A i \in Window!Slots : start[i] # Window!Null =>
    start[i] \in WindowStarts /\ Window!CalculateTimeIdx(start[i]) = i

\* Its counter has what its window has seen.
CountInv ==
  \A i \in Window!Slots : start[i] # Window!Null =>
    IF Window!InReset(i) THEN log[start[i]] = 0 ELSE cnt[i] = log[start[i]]

\* A window that has seen something has, or had, the bucket of its slot.
LoggedInv ==
  \A s \in 0 .. MaxTime : log[s] # 0 =>
    /\ s \in WindowStarts
    /\ start[Window!CalculateTimeIdx(s)] # Window!Null
    /\ s <= start[Window!CalculateTimeIdx(s)]

RingInv == SlotInv /\ CountInv /\ LoggedInv

\* The clock value that a thread works with is the latest.
LatestInv ==
  \A t \in Threads : pc[t] # "idle" => \A i \in Window!Slots : start[i] <= time[t]

\* Where CurrentWindow() is, and what it has found there.
PlaceInv ==
  \A t \in Threads :
    /\ pc[t] \notin {"older", "behind"}
    /\ pc[t] = "newer" => start[Window!Slot(t)] \notin {Window!Null, Window!BucketStart(t)}
    /\ pc[t] = "reset" => start[Window!Slot(t)] # Window!Null /\ start[Window!Slot(t)] < Window!BucketStart(t)
    /\ pc[t] \in {"add", "clear"} => start[Window!Slot(t)] = Window!BucketStart(t)

\* The slots whose buckets Values() collects at the time tm.
Collectable(begun, tm) ==
  {i \in Window!Slots : begun[i] # Window!Null /\ tm - begun[i] <= Interval}

StartsOf(begun, I) == {begun[i] : i \in I}

\* The sum has what the buckets already taken from the list hold.
SumInv ==
  \A t \in Threads :
    /\ ~InValues(t) => idx[t] = 0 /\ sum[t] = 0
    /\ pc[t] = "collect" => /\ sum[t] = 0
                            /\ list[t] = {i \in Collectable(start, time[t]) : i < idx[t]}
    /\ pc[t] = "get" =>
         /\ list[t] \subseteq Collectable(start, time[t])
         /\ sum[t] = SumOver(log, StartsOf(start, Collectable(start, time[t]) \ list[t]))

ExactInv == RecentInv /\ RingInv /\ LatestInv /\ PlaceInv /\ SumInv

\* It holds of the empty ring.
LEMMA InitExactInv == Window!Init => ExactInv
<1> SUFFICES ASSUME Window!Init PROVE ExactInv
  OBVIOUS
<1>1. RecentInv /\ Window!TypeOK
  BY InitRecentInv, InitTypeOK
<1>2. RingInv
  BY DEF Window!Init, RingInv, SlotInv, CountInv, LoggedInv
<1>3. LatestInv /\ PlaceInv /\ SumInv
  BY DEF Window!Init, LatestInv, PlaceInv, SumInv, InValues
<1> QED
  BY <1>1, <1>2, <1>3 DEF ExactInv

\* What the steps of a thread t are argued from.
LEMMA ExactTypes ==
  ASSUME ExactInv, NEW t \in Threads
  PROVE  /\ Window!Slot(t) \in Window!Slots /\ Window!BucketStart(t) \in WindowStarts
         /\ Window!CalculateTimeIdx(Window!BucketStart(t)) = Window!Slot(t)
         /\ Window!BucketStart(t) <= time[t] /\ time[t] \in 0 .. MaxTime
         /\ Window!BucketStart(t) # Window!Null /\ Window!BucketStart(t) \in 0 .. MaxTime
         /\ Window!TypeOK /\ RingInv /\ NullInv /\ ClockInv
<1>1. Window!TypeOK /\ RingInv /\ NullInv /\ ClockInv
  BY DEF ExactInv, RecentInv
<1>2. Window!Slot(t) \in Window!Slots /\ Window!BucketStart(t) \in 0 .. time[t] /\ time[t] \in 0 .. MaxTime
  BY <1>1, WindowOfThread
<1>3. Window!BucketStart(t) \in WindowStarts /\ Window!CalculateTimeIdx(Window!BucketStart(t)) = Window!Slot(t)
  BY <1>2, StartOfWindow DEF Window!BucketStart, Window!Slot
<1>4. Window!BucketStart(t) \in 0 .. MaxTime /\ Window!BucketStart(t) # Window!Null /\ Window!BucketStart(t) <= time[t]
  BY <1>2, WindowAssumption DEF Window!Null
<1> QED
  BY <1>1, <1>2, <1>3, <1>4

\* All other threads are idle, and stay so.
LEMMA OthersIdle ==
  ASSUME OneAtATime, ExactInv, NEW t \in Threads, Window!Step(t), NEW u \in Threads, u # t
  PROVE  pc[u] = "idle" /\ pc'[u] = "idle" /\ idx'[u] = idx[u] /\ sum'[u] = sum[u]
<1>1. Window!TypeOK
  BY ExactTypes
<1>2. pc[t] # "idle"
  BY DEF Window!Step, Window!LoadBucket, Window!IsNewer, Window!IsOlder, Window!CreateBucket, Window!ResetTo,
         Window!ResetCounters, Window!NewDetachedBucket, Window!Add, Window!Values, Window!Collect, Window!Get,
         Window!ReturnSum
<1>3. pc[u] = "idle" /\ pc'[u] = "idle"
  BY <1>1, <1>2, StepOthers DEF OneAtATime
<1>4. idx'[u] = idx[u] /\ sum'[u] = sum[u]
  <2> USE <1>1 DEF Window!TypeOK, Window!ThreadTypeOK, Window!sumVars
  <2>1. CASE Window!LoadBucket(t) \/ Window!IsNewer(t) \/ Window!IsOlder(t) \/ Window!CreateBucket(t)
    BY <2>1 DEF Window!LoadBucket, Window!IsNewer, Window!IsOlder, Window!CreateBucket
  <2>2. CASE Window!ResetTo(t) \/ Window!ResetCounters(t) \/ Window!NewDetachedBucket(t)
    BY <2>2 DEF Window!ResetTo, Window!ResetCounters, Window!NewDetachedBucket, Window!Leave
  <2>3. CASE Window!Add(t) \/ Window!ReturnSum(t) \/ Window!Values(t) \/ Window!Collect(t) \/ Window!Get(t)
    BY <2>3 DEF Window!Add, Window!ReturnSum, Window!Values, Window!Collect, Window!Get, Window!Leave
  <2> QED
    BY <2>1, <2>2, <2>3 DEF Window!Step
<1> QED
  BY <1>3, <1>4

\* Only the thread that is in an operation can be in a reset.
LEMMA OneInReset ==
  ASSUME OneAtATime, ExactInv, NEW t \in Threads, Window!Step(t)
  PROVE  /\ \A i : Window!InReset(i) <=> pc[t] = "clear" /\ Window!Slot(t) = i
         /\ \A i : (Window!InReset(i))' <=> pc'[t] = "clear" /\ (Window!Slot(t))' = i
<1>1. \A u \in Threads : u = t \/ (pc[u] # "clear" /\ pc'[u] # "clear")
  BY OthersIdle
<1> QED
  BY <1>1 DEF Window!InReset

\* A window has seen nothing yet when its bucket is made or recycled for it.
LEMMA NothingSeenYet ==
  ASSUME LoggedInv, NEW i \in Window!Slots, NEW s \in WindowStarts, Window!CalculateTimeIdx(s) = i,
         Window!TypeOK, start[i] = Window!Null \/ start[i] < s
  PROVE  log[s] = 0
<1>1. s \in 0 .. MaxTime /\ s \in Int /\ start[i] \in Int
  BY WindowAssumption DEF WindowStarts, Window!TypeOK, Window!RingTypeOK
<1>2. ~(s <= start[i]) \/ start[i] = Window!Null
  BY <1>1
<1> QED
  BY <1>1, <1>2 DEF LoggedInv

\* The steps that leave the ring alone.
LEMMA RingStays ==
  ASSUME RingInv, UNCHANGED <<start, cnt, log>>,
         \A i \in Window!Slots : (Window!InReset(i))' <=> Window!InReset(i)
  PROVE  RingInv'
BY DEF RingInv, SlotInv, CountInv, LoggedInv

\* The bucket of a slot is made, or recycled, for a later window.
LEMMA RingMovesOn ==
  ASSUME RingInv, Window!TypeOK, NEW i \in Window!Slots, NEW s \in WindowStarts,
         Window!CalculateTimeIdx(s) = i, start[i] = Window!Null \/ start[i] < s,
         start' = [start EXCEPT ![i] = s], UNCHANGED <<cnt, log>>,
         (Window!InReset(i))' \/ cnt[i] = 0,
         \A j \in Window!Slots \ {i} : (Window!InReset(j))' <=> Window!InReset(j)
  PROVE  RingInv'
<1>1. log[s] = 0
  BY NothingSeenYet DEF RingInv
<1>2. /\ start'[i] = s /\ \A j \in Window!Slots \ {i} : start'[j] = start[j]
      /\ s \in 0 .. MaxTime /\ s \in Int /\ s # Window!Null /\ start[i] \in Int
  BY WindowAssumption DEF Window!TypeOK, Window!RingTypeOK, WindowStarts, Window!Null
<1>3. SlotInv'
  BY <1>2 DEF RingInv, SlotInv
<1>4. CountInv'
  BY <1>1, <1>2 DEF RingInv, CountInv
<1>5. ASSUME NEW r \in 0 .. MaxTime, log'[r] # 0
      PROVE  /\ r \in WindowStarts
             /\ start'[Window!CalculateTimeIdx(r)] # Window!Null
             /\ r <= start'[Window!CalculateTimeIdx(r)]
  <2>1. /\ r \in WindowStarts
        /\ start[Window!CalculateTimeIdx(r)] # Window!Null
        /\ r <= start[Window!CalculateTimeIdx(r)]
    BY <1>5 DEF RingInv, LoggedInv
  <2>2. Window!CalculateTimeIdx(r) \in Window!Slots /\ r \in Int
    BY WindowOfTime, WindowAssumption
  <2>3. CASE Window!CalculateTimeIdx(r) = i
    BY <1>2, <2>1, <2>2, <2>3
  <2>4. CASE Window!CalculateTimeIdx(r) # i
    BY <1>2, <2>1, <2>2, <2>4
  <2> QED
    BY <2>3, <2>4
<1> QED
  BY <1>3, <1>4, <1>5 DEF RingInv, LoggedInv

\* A step of the thread keeps the ring in order.
LEMMA StepRingInv ==
  ASSUME OneAtATime, ExactInv, NEW t \in Threads, Window!Step(t)
  PROVE  RingInv'
<1>i. PICK i \in Window!Slots : i = Window!Slot(t)
  BY ExactTypes
<1>s. PICK s \in WindowStarts : s = Window!BucketStart(t)
  BY ExactTypes
<1>1. /\ i = Window!Slot(t) /\ s = Window!BucketStart(t) /\ Window!CalculateTimeIdx(s) = i
      /\ s # Window!Null /\ s \in 0 .. MaxTime
      /\ Window!TypeOK /\ RingInv /\ NullInv
  BY <1>i, <1>s, ExactTypes
<1>2. /\ \A j : Window!InReset(j) <=> pc[t] = "clear" /\ i = j
      /\ \A j : (Window!InReset(j))' <=> pc'[t] = "clear" /\ (Window!Slot(t))' = j
  BY <1>1, OneInReset
<1>t. pc \in [Threads -> Window!Pcs] /\ start \in [Window!Slots -> Int] /\ cnt \in [Window!Slots -> Nat]
      /\ log \in [0 .. MaxTime -> Nat]
  BY <1>1 DEF Window!TypeOK, Window!RingTypeOK, Window!ThreadTypeOK
<1>p. /\ pc[t] \notin {"older", "behind"}
      /\ pc[t] = "reset" => start[i] # Window!Null /\ start[i] < s
      /\ pc[t] \in {"add", "clear"} => start[i] = s
  BY <1>1 DEF ExactInv, PlaceInv
<1>3. CASE Window!LoadBucket(t) \/ Window!IsNewer(t) \/ Window!Values(t) \/ Window!Collect(t) \/ Window!Get(t) \/ Window!ReturnSum(t)
  <2>1. UNCHANGED <<start, cnt, log>> /\ pc[t] # "clear" /\ pc'[t] # "clear"
    BY <1>3, <1>t DEF Window!LoadBucket, Window!IsNewer, Window!Values, Window!Collect, Window!Get, Window!ReturnSum,
       Window!Goto, Window!Return, Window!Leave, Window!ringVars
  <2> QED
    BY <1>1, <1>2, <2>1, RingStays
<1>4. CASE Window!IsOlder(t) \/ Window!NewDetachedBucket(t)
  BY <1>4, <1>p DEF Window!IsOlder, Window!NewDetachedBucket
<1>5. CASE Window!CreateBucket(t)
  <2>1. pc[t] # "clear" /\ pc'[t] # "clear" /\ UNCHANGED <<cnt, log>>
    BY <1>5, <1>t DEF Window!CreateBucket, Window!Goto, Window!Return, Window!ringVars
  <2>2. \A j \in Window!Slots : (Window!InReset(j))' <=> Window!InReset(j)
    BY <1>2, <2>1
  <2>3. CASE start' = start
    BY <1>1, <2>1, <2>2, <2>3, RingStays
  <2>4. CASE start' # start
    <3>1. start[i] = Window!Null /\ start' = [start EXCEPT ![i] = s]
      BY <1>5, <2>4, <1>1 DEF Window!CreateBucket, Window!ringVars
    <3>2. cnt[i] = 0
      BY <1>1, <3>1 DEF NullInv
    <3> QED
      BY <1>1, <2>1, <2>2, <3>1, <3>2, RingMovesOn
  <2> QED
    BY <2>3, <2>4
<1>6. CASE Window!ResetTo(t)
  <2>1. pc[t] = "reset" /\ UNCHANGED <<cnt, log, time>>
    BY <1>6 DEF Window!ResetTo
  <2>2. CASE start' = start /\ pc'[t] # "clear"
    BY <1>1, <1>2, <2>1, <2>2, RingStays
  <2>3. CASE ~(start' = start /\ pc'[t] # "clear")
    <3>1. start' = [start EXCEPT ![i] = s] /\ pc'[t] = "clear"
      BY <1>6, <1>1, <1>t, <2>3 DEF Window!ResetTo, Window!Goto
    <3>2. (Window!Slot(t))' = i
      BY <1>1, <2>1 DEF Window!Slot
    <3>3. (Window!InReset(i))' /\ \A j \in Window!Slots \ {i} : (Window!InReset(j))' <=> Window!InReset(j)
      BY <1>2, <2>1, <3>1, <3>2
    <3>4. start[i] < s
      BY <1>p, <2>1
    <3> QED
      BY <1>1, <2>1, <3>1, <3>3, <3>4, RingMovesOn
  <2> QED
    BY <2>2, <2>3
<1>7. CASE Window!ResetCounters(t)
  <2>1. /\ pc[t] = "clear" /\ pc'[t] # "clear" /\ UNCHANGED <<start, log>> /\ cnt' = [cnt EXCEPT ![i] = 0]
        /\ start[i] = s
    BY <1>7, <1>1, <1>t, <1>p DEF Window!ResetCounters, Window!Goto, Window!Return
  <2>2. log[s] = 0
    BY <1>1, <1>2, <2>1 DEF RingInv, CountInv
  <2>3. ASSUME NEW j \in Window!Slots, start'[j] # Window!Null
        PROVE  ~(Window!InReset(j))' /\ cnt'[j] = log'[start'[j]]
    <3>1. cnt'[j] = IF j = i THEN 0 ELSE cnt[j]
      BY <1>t, <2>1
    <3>2. j # i => cnt[j] = log[start[j]]
      BY <1>1, <1>2, <2>1, <2>3 DEF RingInv, CountInv
    <3> QED
      BY <1>2, <2>1, <2>2, <3>1, <3>2
  <2> QED
    BY <1>1, <2>1, <2>3 DEF RingInv, SlotInv, CountInv, LoggedInv
<1>8. CASE Window!Add(t)
  <2>1. /\ pc[t] = "add" /\ pc'[t] # "clear" /\ start' = start /\ cnt' = [cnt EXCEPT ![i] = @ + 1]
        /\ log' = [log EXCEPT ![s] = @ + 1] /\ start[i] = s
    BY <1>8, <1>1, <1>t, <1>p DEF Window!Add, Window!Goto, Window!Leave
  <2>2. ASSUME NEW j \in Window!Slots, start'[j] # Window!Null
        PROVE  ~(Window!InReset(j))' /\ cnt'[j] = log'[start'[j]]
    <3>1. cnt[j] = log[start[j]] /\ start[j] \in WindowStarts /\ Window!CalculateTimeIdx(start[j]) = j
      BY <1>1, <1>2, <2>1, <2>2 DEF RingInv, CountInv, SlotInv
    <3>2. start[j] \in 0 .. MaxTime
      BY <3>1 DEF WindowStarts
    <3>3. cnt'[j] = IF j = i THEN cnt[j] + 1 ELSE cnt[j]
      BY <1>t, <2>1
    <3>4. log'[start[j]] = IF start[j] = s THEN log[start[j]] + 1 ELSE log[start[j]]
      BY <1>t, <2>1, <3>2
    <3>5. start[j] = s <=> j = i
      BY <1>1, <2>1, <3>1
    <3> QED
      BY <1>2, <2>1, <3>1, <3>3, <3>4, <3>5
  <2>3. ASSUME NEW r \in 0 .. MaxTime, log'[r] # 0
        PROVE  /\ r \in WindowStarts
               /\ start'[Window!CalculateTimeIdx(r)] # Window!Null
               /\ r <= start'[Window!CalculateTimeIdx(r)]
    <3>1. CASE r = s
      <4>1. s <= s
        BY <1>1, WindowAssumption
      <4> QED
        BY <1>1, <2>1, <3>1, <4>1
    <3>2. CASE r # s
      <4>1. log[r] # 0
        BY <1>t, <2>1, <2>3, <3>2
      <4> QED
        BY <1>1, <2>1, <4>1 DEF RingInv, LoggedInv
    <3> QED
      BY <3>1, <3>2
  <2> QED
    BY <1>1, <2>1, <2>2, <2>3 DEF RingInv, SlotInv, CountInv, LoggedInv
<1> QED
  BY <1>3, <1>4, <1>5, <1>6, <1>7, <1>8 DEF Window!Step

\* No bucket is of a later window than the thread works with.
LEMMA StepLatestInv ==
  ASSUME OneAtATime, ExactInv, NEW t \in Threads, Window!Step(t)
  PROVE  LatestInv'
<1> SUFFICES ASSUME pc'[t] # "idle", NEW j \in Window!Slots PROVE start'[j] <= time'[t]
  <2>1. \A u \in Threads : u = t \/ pc'[u] = "idle"
    BY OthersIdle
  <2> QED
    BY <2>1 DEF LatestInv
<1>1. /\ Window!Slot(t) \in Window!Slots
      /\ Window!BucketStart(t) <= time[t]
      /\ Window!TypeOK /\ ClockInv
  BY ExactTypes
<1>2. pc \in [Threads -> Window!Pcs] /\ start \in [Window!Slots -> Int] /\ time \in [Threads -> 0 .. MaxTime]
  BY <1>1 DEF Window!TypeOK, Window!RingTypeOK, Window!ThreadTypeOK
<1>3. pc[t] # "idle" => \A i \in Window!Slots : start[i] <= time[t]
  BY DEF ExactInv, LatestInv
<1>4. CASE Window!LoadBucket(t) \/ Window!IsNewer(t) \/ Window!IsOlder(t) \/ Window!CreateBucket(t)
  BY <1>1, <1>2, <1>3, <1>4 DEF Window!LoadBucket, Window!IsNewer, Window!IsOlder, Window!CreateBucket, Window!ringVars
<1>5. CASE Window!ResetTo(t) \/ Window!ResetCounters(t)
  BY <1>1, <1>2, <1>3, <1>5 DEF Window!ResetTo, Window!ResetCounters
<1>6. CASE Window!NewDetachedBucket(t)
  BY <1>6 DEF Window!NewDetachedBucket, ExactInv, PlaceInv
<1>7. CASE Window!Add(t) \/ Window!ReturnSum(t)
  BY <1>2, <1>7 DEF Window!Add, Window!ReturnSum, Window!Leave, Window!Goto
<1>8. CASE Window!Values(t)
  BY <1>1, <1>2, <1>8 DEF Window!Values, Window!ringVars, ClockInv
<1>9. CASE Window!Collect(t) \/ Window!Get(t)
  BY <1>2, <1>3, <1>9 DEF Window!Collect, Window!Get, Window!ringVars
<1> QED
  BY <1>4, <1>5, <1>6, <1>7, <1>8, <1>9 DEF Window!Step

\* CurrentWindow() recycles for a later window only.
LEMMA StepPlaceInv ==
  ASSUME OneAtATime, ExactInv, NEW t \in Threads, Window!Step(t)
  PROVE  PlaceInv'
<1> SUFFICES /\ pc'[t] \notin {"older", "behind"}
             /\ pc'[t] = "newer" => start'[(Window!Slot(t))'] \notin {Window!Null, (Window!BucketStart(t))'}
             /\ pc'[t] = "reset" => /\ start'[(Window!Slot(t))'] # Window!Null
                                    /\ start'[(Window!Slot(t))'] < (Window!BucketStart(t))'
             /\ pc'[t] \in {"add", "clear"} => start'[(Window!Slot(t))'] = (Window!BucketStart(t))'
  <2>1. \A u \in Threads : u = t \/ pc'[u] = "idle"
    BY OthersIdle
  <2> QED
    BY <2>1 DEF PlaceInv, Window!Null
<1>i. PICK i \in Window!Slots : i = Window!Slot(t)
  BY ExactTypes
<1>s. PICK s \in WindowStarts : s = Window!BucketStart(t)
  BY ExactTypes
<1>1. s \in 0 .. MaxTime /\ Window!TypeOK /\ RingInv /\ time[t] \in 0 .. MaxTime
  BY <1>s, ExactTypes
<1>2. pc \in [Threads -> Window!Pcs] /\ start \in [Window!Slots -> Int] /\ start[i] \in Int /\ s \in Int
  BY <1>1 DEF Window!TypeOK, Window!RingTypeOK, Window!ThreadTypeOK
<1>3. /\ pc[t] \notin {"older", "behind"}
      /\ pc[t] = "newer" => start[i] \notin {Window!Null, s}
      /\ pc[t] = "reset" => start[i] # Window!Null /\ start[i] < s
      /\ pc[t] \in {"add", "clear"} => start[i] = s
  BY <1>i, <1>s DEF ExactInv, PlaceInv
<1>4. time' = time => (Window!Slot(t))' = i /\ (Window!BucketStart(t))' = s
  BY <1>i, <1>s DEF Window!Slot, Window!BucketStart
<1> USE DEF Window!Goto, Window!Return, Window!ringVars
<1>5. CASE Window!LoadBucket(t)
  BY <1>2, <1>3, <1>4, <1>5, <1>i, <1>s DEF Window!LoadBucket
<1>6. CASE Window!IsNewer(t)
  <2>1. pc[t] = "newer" /\ time' = time /\ start' = start
    BY <1>6 DEF Window!IsNewer
  <2>2. start[i] \in WindowStarts /\ start[i] <= time[t] /\ start[i] # s
    BY <1>1, <1>3, <2>1 DEF RingInv, SlotInv, ExactInv, LatestInv
  <2>3. start[i] <= s
    BY <1>1, <1>s, <2>2, StartsInOrder DEF Window!BucketStart
  <2>4. s > start[i]
    BY <1>2, <2>2, <2>3
  <2>5. pc'[t] = "reset"
    BY <1>2, <1>6, <1>i, <1>s, <2>4 DEF Window!IsNewer
  <2>6. start[i] < s
    BY <1>2, <2>4
  <2> QED
    BY <1>3, <1>4, <2>1, <2>5, <2>6
<1>7. CASE Window!IsOlder(t) \/ Window!NewDetachedBucket(t)
  BY <1>3, <1>7 DEF Window!IsOlder, Window!NewDetachedBucket
<1>8. CASE Window!CreateBucket(t)
  BY <1>2, <1>3, <1>4, <1>8, <1>i, <1>s DEF Window!CreateBucket
<1>9. CASE Window!ResetTo(t)
  BY <1>2, <1>3, <1>4, <1>9, <1>i, <1>s DEF Window!ResetTo
<1>10. CASE Window!ResetCounters(t)
  BY <1>2, <1>3, <1>4, <1>10, <1>i, <1>s DEF Window!ResetCounters
<1>11. CASE Window!Add(t) \/ Window!ReturnSum(t)
  BY <1>2, <1>11 DEF Window!Add, Window!ReturnSum, Window!Leave
<1>12. CASE Window!Values(t) \/ Window!Collect(t) \/ Window!Get(t)
  BY <1>2, <1>12 DEF Window!Values, Window!Collect, Window!Get
<1> QED
  BY <1>5, <1>6, <1>7, <1>8, <1>9, <1>10, <1>11, <1>12 DEF Window!Step

\* Values() has looked at the slots up to idx, in order.
LEMMA CollectKeepsSum ==
  ASSUME OneAtATime, ExactInv, NEW t \in Threads, Window!Collect(t)
  PROVE  /\ pc'[t] = "collect" => /\ sum'[t] = 0
                                  /\ list'[t] = {i \in Collectable(start', time'[t]) : i < idx'[t]}
         /\ pc'[t] = "get" =>
              /\ list'[t] \subseteq Collectable(start', time'[t])
              /\ sum'[t] = SumOver(log', StartsOf(start', Collectable(start', time'[t]) \ list'[t]))
<1>1. Window!TypeOK
  BY ExactTypes
<1>2. /\ pc \in [Threads -> Window!Pcs] /\ idx \in [Threads -> Window!Slots] /\ list \in [Threads -> SUBSET Window!Slots]
      /\ log \in [0 .. MaxTime -> Nat] /\ start \in [Window!Slots -> Int] /\ time[t] \in Int /\ Interval \in Int
      /\ SampleCount \in Nat /\ Window!Slots \subseteq Nat
  <2>1. Window!Slots \subseteq Nat
    BY WindowAssumption DEF Window!Slots
  <2>2. time[t] \in 0 .. MaxTime /\ time[t] \in Int
    BY <1>1, WindowAssumption DEF Window!TypeOK, Window!ThreadTypeOK
  <2> QED
    BY <1>1, <2>1, <2>2, WindowAssumption DEF Window!TypeOK, Window!RingTypeOK, Window!ThreadTypeOK
<1> DEFINE C == Collectable(start, time[t])
           n == idx[t]
<1>3. pc[t] = "collect" /\ UNCHANGED <<start, time, sum, log>>
  BY DEF Window!Collect, Window!ringVars
<1>4. sum[t] = 0 /\ list[t] = {i \in C : i < n}
  BY <1>3 DEF ExactInv, SumInv
<1>5. n \in Window!Slots /\ n \in Nat /\ C \subseteq Window!Slots
  BY <1>2 DEF Collectable
<1>6. n \in C <=> ~(start[n] = Window!Null \/ Window!IsBucketDeprecated(time[t], n))
  BY <1>2, <1>5 DEF Collectable, Window!IsBucketDeprecated
<1>7. list'[t] = IF n \in C THEN list[t] \cup {n} ELSE list[t]
  BY <1>2, <1>6 DEF Window!Collect
<1>8. list'[t] = {i \in C : i < n + 1}
  <2>1. \A i \in Window!Slots : i < n + 1 <=> i < n \/ i = n
    BY <1>2, <1>5
  <2> HIDE DEF n, C
  <2> QED
    BY <1>4, <1>5, <1>7, <2>1
<1>9. CASE n + 1 < SampleCount
  <2>1. idx'[t] = n + 1 /\ pc'[t] = "collect"
    BY <1>2, <1>3, <1>9 DEF Window!Collect
  <2> QED
    BY <1>3, <1>4, <1>8, <2>1
<1>10. CASE ~(n + 1 < SampleCount)
  <2>1. pc'[t] = "get"
    BY <1>2, <1>10 DEF Window!Collect, Window!Goto
  <2>2. \A i \in Window!Slots : i < n + 1
    BY <1>2, <1>5, <1>10 DEF Window!Slots
  <2>3. list'[t] = C
    BY <1>5, <1>8, <2>2
  <2>4. StartsOf(start, C \ list'[t]) = {}
    BY <2>3 DEF StartsOf
  <2>5. sum'[t] = SumOver(log, StartsOf(start, C \ list'[t]))
    BY <1>2, <1>3, <1>4, <2>4, SumOfNothing
  <2> QED
    BY <1>3, <2>1, <2>3, <2>5
<1> QED
  BY <1>9, <1>10

\* A bucket is taken from the list and its count, that of its window, added.
LEMMA GetKeepsSum ==
  ASSUME OneAtATime, ExactInv, NEW t \in Threads, Window!Get(t)
  PROVE  /\ pc'[t] = "get"
         /\ list'[t] \subseteq Collectable(start', time'[t])
         /\ sum'[t] = SumOver(log', StartsOf(start', Collectable(start', time'[t]) \ list'[t]))
<1>1. Window!TypeOK /\ RingInv
  BY ExactTypes
<1>2. /\ list \in [Threads -> SUBSET Window!Slots] /\ sum \in [Threads -> Nat]
      /\ log \in [0 .. MaxTime -> Nat] /\ pc \in [Threads -> Window!Pcs]
  BY <1>1 DEF Window!TypeOK, Window!RingTypeOK, Window!ThreadTypeOK
<1>3. pc[t] = "get" /\ UNCHANGED <<pc, start, time, log>>
  BY DEF Window!Get, Window!ringVars
<1>4. PICK i \in list[t] : sum' = [sum EXCEPT ![t] = @ + cnt[i]] /\ list' = [list EXCEPT ![t] = @ \ {i}]
  BY DEF Window!Get
<1> DEFINE C == Collectable(start, time[t])
           D == StartsOf(start, C \ list[t])
<1>5. list[t] \subseteq C /\ sum[t] = SumOver(log, D)
  BY <1>3 DEF ExactInv, SumInv
<1>6. i \in Window!Slots /\ start[i] # Window!Null /\ C \subseteq Window!Slots /\ i \in C
      /\ \A j \in C : start[j] # Window!Null
  BY <1>4, <1>5 DEF Collectable
<1>7. cnt[i] = log[start[i]]
  <2>1. ~Window!InReset(i)
    BY <1>3, OneInReset DEF Window!Step
  <2> QED
    BY <1>1, <1>6, <2>1 DEF RingInv, CountInv
<1>8. start[i] \in 0 .. MaxTime
  BY <1>1, <1>6 DEF RingInv, SlotInv, WindowStarts
<1>9. start[i] \notin D
  <2> SUFFICES ASSUME NEW j \in C \ list[t], start[j] = start[i] PROVE FALSE
    BY DEF StartsOf
  <2>1. Window!CalculateTimeIdx(start[j]) = j /\ Window!CalculateTimeIdx(start[i]) = i
    BY <1>1, <1>6 DEF RingInv, SlotInv
  <2> QED
    BY <1>4, <2>1
<1>10. sum'[t] = sum[t] + log[start[i]] /\ list'[t] = list[t] \ {i}
  BY <1>2, <1>4, <1>7
<1>11. StartsOf(start, C \ list'[t]) = D \cup {start[i]}
  <2>1. C \ list'[t] = (C \ list[t]) \cup {i}
    BY <1>4, <1>6, <1>10
  <2> HIDE DEF C
  <2> QED
    BY <2>1 DEF StartsOf
<1>12. sum'[t] = SumOver(log, StartsOf(start, C \ list'[t]))
  <2> HIDE DEF C, D
  <2>1. SumOver(log, D \cup {start[i]}) = SumOver(log, D) + log[start[i]]
    BY <1>2, <1>8, <1>9, SumWithOneMore
  <2> QED
    BY <1>5, <1>10, <1>11, <2>1
<1>13. list'[t] \subseteq C
  BY <1>5, <1>10
<1> QED
  BY <1>3, <1>12, <1>13

\* The sum is, at every step, that of the buckets taken.
LEMMA StepSumInv ==
  ASSUME OneAtATime, ExactInv, NEW t \in Threads, Window!Step(t)
  PROVE  SumInv'
<1> SUFFICES
      /\ ~InValues(t)' => idx'[t] = 0 /\ sum'[t] = 0
      /\ pc'[t] = "collect" => /\ sum'[t] = 0
                               /\ list'[t] = {i \in Collectable(start', time'[t]) : i < idx'[t]}
      /\ pc'[t] = "get" =>
           /\ list'[t] \subseteq Collectable(start', time'[t])
           /\ sum'[t] = SumOver(log', StartsOf(start', Collectable(start', time'[t]) \ list'[t]))
  <2>1. ASSUME NEW u \in Threads, u # t
        PROVE  pc'[u] = "idle" /\ idx'[u] = 0 /\ sum'[u] = 0
    <3>1. idx[u] = 0 /\ sum[u] = 0
      BY <2>1, OthersIdle DEF ExactInv, SumInv, InValues
    <3> QED
      BY <2>1, <3>1, OthersIdle
  <2> QED
    BY <2>1 DEF SumInv, InValues
<1>1. Window!TypeOK /\ RecentInv
  BY ExactTypes DEF ExactInv
<1>2. /\ pc \in [Threads -> Window!Pcs] /\ idx \in [Threads -> Window!Slots] /\ sum \in [Threads -> Nat]
      /\ list \in [Threads -> SUBSET Window!Slots] /\ Window!Slots \subseteq Nat
  BY <1>1 DEF Window!TypeOK, Window!ThreadTypeOK, Window!Slots
<1>3. ~InValues(t) => idx[t] = 0 /\ sum[t] = 0
  BY DEF ExactInv, SumInv
<1> USE DEF InValues, Window!Goto, Window!Return, Window!sumVars
<1>4. CASE Window!LoadBucket(t) \/ Window!IsNewer(t) \/ Window!IsOlder(t) \/ Window!CreateBucket(t)
  BY <1>2, <1>3, <1>4 DEF Window!LoadBucket, Window!IsNewer, Window!IsOlder, Window!CreateBucket
<1>5. CASE Window!ResetTo(t) \/ Window!ResetCounters(t)
  BY <1>2, <1>3, <1>5 DEF Window!ResetTo, Window!ResetCounters
<1>6. CASE Window!NewDetachedBucket(t)
  BY <1>6 DEF Window!NewDetachedBucket, ExactInv, PlaceInv
<1>7. CASE Window!Add(t) \/ Window!ReturnSum(t)
  BY <1>2, <1>7 DEF Window!Add, Window!ReturnSum, Window!Leave
<1>8. CASE Window!Values(t)
  <2>1. pc[t] = "values" /\ pc'[t] = "collect" /\ UNCHANGED <<idx, list, sum>>
    BY <1>2, <1>8 DEF Window!Values
  <2>2. idx[t] = 0 /\ sum[t] = 0 /\ list[t] = {}
    BY <1>1, <1>3, <2>1 DEF RecentInv, ListInv
  <2>3. {i \in Collectable(start', time'[t]) : i < 0} = {}
    <3>1. Collectable(start', time'[t]) \subseteq Window!Slots
      BY DEF Collectable
    <3>2. \A i \in Window!Slots : ~(i < 0)
      BY <1>2
    <3> QED
      BY <3>1, <3>2
  <2> QED
    BY <2>1, <2>2, <2>3
<1>9. CASE Window!Collect(t)
  <2>1. pc'[t] \in {"collect", "get"}
    BY <1>2, <1>9 DEF Window!Collect
  <2> QED
    BY <1>9, <2>1, CollectKeepsSum
<1>10. CASE Window!Get(t)
  BY <1>10, GetKeepsSum
<1> QED
  BY <1>4, <1>5, <1>6, <1>7, <1>8, <1>9, <1>10 DEF Window!Step

\* The invariant is inductive while one thread at a time uses the window.
LEMMA NextExactInv == OneAtATime /\ ExactInv /\ [Window!Next]_(Window!vars) => ExactInv'
<1> SUFFICES ASSUME OneAtATime, ExactInv, [Window!Next]_(Window!vars) PROVE ExactInv'
  OBVIOUS
<1>1. RecentInv /\ Window!TypeOK /\ RecentInv'
  BY NextRecentInv DEF ExactInv, RecentInv
<1>2. CASE UNCHANGED Window!vars
  BY <1>1, <1>2 DEF Window!vars, ExactInv, RingInv, SlotInv, CountInv, LoggedInv, LatestInv, PlaceInv, SumInv,
                    Window!InReset, InValues, Window!Slot, Window!BucketStart
<1>3. CASE Window!Tick
  BY <1>1, <1>3 DEF Window!Tick, Window!ringVars, Window!sumVars, ExactInv, RingInv, SlotInv, CountInv, LoggedInv,
                    LatestInv, PlaceInv, SumInv, Window!InReset, InValues, Window!Slot, Window!BucketStart
<1>4. ASSUME NEW t \in Threads, Window!Step(t) PROVE ExactInv'
  BY <1>1, <1>4, StepRingInv, StepLatestInv, StepPlaceInv, StepSumInv DEF ExactInv
<1>5. ASSUME NEW t \in Threads, NEW o \in {"add", "sum"}, Window!Begin(t, o) PROVE ExactInv'
  <2>1. /\ UNCHANGED <<start, cnt, log, idx, list, sum>>
        /\ pc[t] = "idle" /\ pc'[t] = "load" /\ time'[t] = now
        /\ \A u \in Threads \ {t} : pc'[u] = pc[u] /\ time'[u] = time[u]
    BY <1>1, <1>5 DEF Window!Begin, Window!Goto, Window!ringVars, Window!sumVars, Window!TypeOK, Window!ThreadTypeOK
  <2>2. \A u \in Threads \ {t} : (Window!Slot(u))' = Window!Slot(u) /\ (Window!BucketStart(u))' = Window!BucketStart(u)
    BY <2>1 DEF Window!Slot, Window!BucketStart
  <2>3. RingInv'
    <3>1. \A i \in Window!Slots : (Window!InReset(i))' <=> Window!InReset(i)
      BY <2>1, <2>2 DEF Window!InReset
    <3> QED
      BY <2>1, <3>1, RingStays DEF ExactInv
  <2>4. LatestInv'
    BY <1>1, <2>1 DEF LatestInv, RecentInv, ClockInv, ExactInv
  <2>5. PlaceInv'
    BY <2>1, <2>2 DEF PlaceInv, ExactInv
  <2>6. SumInv'
    BY <2>1 DEF SumInv, InValues, ExactInv
  <2> QED
    BY <1>1, <2>3, <2>4, <2>5, <2>6 DEF ExactInv
<1> QED
  BY <1>2, <1>3, <1>4, <1>5 DEF Window!Next

\* All that the windows less than an Interval old have seen is in buckets
\* that Values() collects, and these are at most an Interval old.
LEMMA SumIsExact ==
  ASSUME EvenBuckets, ExactInv
  PROVE  WindowSumExact
<1> SUFFICES ASSUME NEW t \in Threads, pc[t] = "get", list[t] = {}
             PROVE  /\ SumOver(log, {s \in DOMAIN log : s > time[t] - Interval}) <= sum[t]
                    /\ sum[t] <= SumOver(log, {s \in DOMAIN log : s >= time[t] - Interval})
  BY SeenIsSum DEF WindowSumExact, Window!WindowSumExact
<1>1. Window!TypeOK /\ RingInv /\ time[t] \in Int /\ Interval \in Nat
  BY ExactTypes, WindowAssumption
<1>2. log \in [0 .. MaxTime -> Nat] /\ DOMAIN log = 0 .. MaxTime /\ start \in [Window!Slots -> Int]
  BY <1>1 DEF Window!TypeOK, Window!RingTypeOK
<1> DEFINE C == Collectable(start, time[t])
           D == StartsOf(start, C)
           After == {s \in DOMAIN log : s > time[t] - Interval}
           From == {s \in DOMAIN log : s >= time[t] - Interval}
<1>3. sum[t] = SumOver(log, D)
  <2>1. sum[t] = SumOver(log, StartsOf(start, C \ list[t]))
    BY DEF ExactInv, SumInv
  <2>2. C \ list[t] = C
    OBVIOUS
  <2> QED
    BY <2>1, <2>2
<1>4. ASSUME NEW s \in 0 .. MaxTime, s \in After, log[s] # 0 PROVE s \in D
  <2> DEFINE i == Window!CalculateTimeIdx(s)
  <2>1. s \in WindowStarts /\ start[i] # Window!Null /\ s <= start[i]
    BY <1>1, <1>4 DEF RingInv, LoggedInv
  <2>2. i \in Window!Slots /\ s \in Nat
    BY WindowOfTime, WindowAssumption
  <2>3. start[i] \in WindowStarts /\ Window!CalculateTimeIdx(start[i]) = i /\ start[i] \in Int
    BY <1>1, <1>2, <2>1, <2>2 DEF RingInv, SlotInv
  <2>4. start[i] <= time[t]
    BY <2>2 DEF ExactInv, LatestInv
  <2>5. s > time[t] - Interval
    BY <1>4
  <2> HIDE DEF i
  <2>6. start[i] = s
    <3>1. s < start[i] => s + Interval <= start[i]
      BY <2>1, <2>3, SlotRecurs DEF i
    <3> QED
      BY <1>1, <2>1, <2>2, <2>3, <2>4, <2>5, <3>1
  <2>7. time[t] - start[i] <= Interval
    BY <1>1, <2>2, <2>5, <2>6
  <2>8. i \in C
    BY <2>1, <2>2, <2>7 DEF Collectable
  <2> QED
    BY <2>6, <2>8 DEF StartsOf
<1>5. ASSUME NEW s \in 0 .. MaxTime, s \in D, log[s] # 0 PROVE s \in From
  <2>1. PICK i \in C : s = start[i]
    BY <1>5 DEF StartsOf
  <2>2. time[t] - s <= Interval
    BY <2>1 DEF Collectable
  <2>3. s \in Int
    BY WindowAssumption
  <2>4. s >= time[t] - Interval
    BY <1>1, <2>2, <2>3
  <2> QED
    BY <1>2, <2>4
<1> HIDE DEF C, D, After, From
<1>6. SumOver(log, After) <= SumOver(log, D)
  BY <1>2, <1>4, SumGrows
<1>7. SumOver(log, D) <= SumOver(log, From)
  BY <1>2, <1>5, SumGrows
<1> QED
  BY <1>3, <1>6, <1>7 DEF After, From

\* For any ring whose buckets share the interval evenly, used by one thread at
\* a time: GetSum has all the events of the windows that started less than an
\* Interval before the clock value it works with, and none of those that
\* started more than an Interval before it.
THEOREM SumsAreExact ==
  ASSUME EvenBuckets
  PROVE  Window!Spec /\ []OneAtATime => []WindowSumExact
<1>1. ExactInv => WindowSumExact
  BY SumIsExact
<1> QED
  BY <1>1, InitExactInv, NextExactInv, PTL DEF Window!Spec

\* A single thread, as MCComponents has it, needs no proviso.
THEOREM SumsOfOneThread ==
  ASSUME EvenBuckets, \A t, u \in Threads : t = u
  PROVE  Window!Spec => []WindowSumExact
<1>1. OneAtATime
  BY DEF OneAtATime
<1> QED
  BY <1>1, SumsAreExact, PTL
=============================================================================

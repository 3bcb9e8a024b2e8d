---------------------------- MODULE NodeStorage ----------------------------
(***************************************************************************)
(* ResourceNodeStorage and the statistic configuration: calls get or make  *)
(* the node of their resource while the sample count and the interval are  *)
(* changed, each change replacing the second's window of every node.  The  *)
(* map is under a reader-writer lock; the configuration is two plain       *)
(* integers.                                                               *)
(***************************************************************************)
EXTENDS Integers, Sequences, FiniteSets

CONSTANTS
  Users,        \* the threads that look nodes up
  Resources,
  Updaters,     \* the threads that change the configuration
  SampleCounts, Intervals,     \* the values they try, valid or not
  Nobody, NoNode,
  MaxUpdates    \* bound

VARIABLES
  sampleCount, intervalMs,     \* StatConfig
  nodeMap,      \* node_map_: the node of each resource, NoNode when there is none
  shape,        \* the (sample count, interval) each node's window was made with
  holder,       \* who holds the write lock of the map over several steps
  user, resource, node,        \* each user: where it is, the name, the node it got
  updater, new,                \* each updater: where it is, the field and value it sets
  left,         \* the nodes the reset has still to visit
  updates       \* bounded counter

config == <<sampleCount, intervalMs>>
userVars == <<user, resource, node>>
updaterVars == <<updater, new, left, updates>>
vars == <<sampleCount, intervalMs, nodeMap, shape, holder, user, resource, node, updater,
          new, left, updates>>

Init ==
  /\ sampleCount = 2 /\ intervalMs = 4
  /\ nodeMap = [r \in Resources |-> NoNode] /\ shape = <<>>
  /\ holder = Nobody
  /\ user = [u \in Users |-> "idle"] /\ node = [u \in Users |-> NoNode]
  /\ resource \in [Users -> Resources]
  /\ updater = [u \in Updaters |-> "idle"] /\ new = [u \in Updaters |-> <<"none", 0>>]
  /\ left = {} /\ updates = 0

-----------------------------------------------------------------------------
(***************************************************************************)
(* GetOrCreateClusterNode.                                                 *)
(***************************************************************************)
\* GetClusterNode, under the read lock.
GetClusterNode(u) ==
  /\ user[u] = "idle" /\ holder = Nobody
  /\ node' = [node EXCEPT ![u] = nodeMap[resource[u]]]
  /\ user' = [user EXCEPT ![u] = IF nodeMap[resource[u]] = NoNode THEN "create"
                                                                  ELSE "has"]
  /\ UNCHANGED <<config, nodeMap, shape, holder, resource, updaterVars>>

\* Mutant: the map is not searched again under the write lock.
CreateAnyway(u) ==
  /\ shape' = Append(shape, config)
  /\ node' = [node EXCEPT ![u] = Len(shape')]
  /\ nodeMap' = [nodeMap EXCEPT ![resource[u]] = IF @ = NoNode THEN Len(shape') ELSE @]

\* The node of now, or a new one with a window of the present configuration.
FindOrCreate(u) ==
  IF nodeMap[resource[u]] # NoNode
    THEN /\ node' = [node EXCEPT ![u] = nodeMap[resource[u]]]
         /\ UNCHANGED <<nodeMap, shape>>
    ELSE /\ shape' = Append(shape, config)
         /\ node' = [node EXCEPT ![u] = Len(shape')]
         /\ nodeMap' = [nodeMap EXCEPT ![resource[u]] = Len(shape')]

\* Under the write lock.
CreateNode(u) ==
  /\ user[u] = "create" /\ holder = Nobody
  /\ FindOrCreate(u)
  /\ user' = [user EXCEPT ![u] = "has"]
  /\ UNCHANGED <<config, holder, resource, updaterVars>>

-----------------------------------------------------------------------------
(***************************************************************************)
(* UpdateSampleCount and UpdateInterval.                                   *)
(***************************************************************************)
Busy == {u \in Updaters : updater[u] # "idle"}

\* The restriction both updates test: one value is new, the other is the
\* configuration's.
Divides(s, i) == s > 0 /\ i > 0 /\ i % s = 0

Changes ==
  {<<"sampleCount", s>> : s \in {n \in SampleCounts : /\ n # sampleCount
                                                      /\ Divides(n, intervalMs)}}
  \union
  {<<"intervalMs", i>> : i \in {n \in Intervals : /\ n # intervalMs
                                                  /\ Divides(sampleCount, n)}}

\* The test; a value that is there or not valid is ignored.
Update(u) ==
  /\ updater[u] = "idle" /\ updates < MaxUpdates
  /\ \E change \in Changes : new' = [new EXCEPT ![u] = change]
  /\ updater' = [updater EXCEPT ![u] = "set"]
  /\ updates' = updates + 1
  /\ UNCHANGED <<config, nodeMap, shape, holder, userVars, left>>

\* The assignment, without a lock.
SetConfig(u) ==
  /\ updater[u] = "set"
  /\ updater' = [updater EXCEPT ![u] = "lock"]
  /\ sampleCount' = IF new[u][1] = "sampleCount" THEN new[u][2] ELSE sampleCount
  /\ intervalMs' = IF new[u][1] = "intervalMs" THEN new[u][2] ELSE intervalMs
  /\ UNCHANGED <<nodeMap, shape, holder, userVars, new, left, updates>>

Nodes == {nodeMap[r] : r \in Resources} \ {NoNode}

\* ResetClusterNodes takes the write lock ...
LockNodes(u) ==
  /\ updater[u] = "lock" /\ holder = Nobody
  /\ holder' = u /\ left' = Nodes
  /\ updater' = [updater EXCEPT ![u] = "reset"]
  /\ UNCHANGED <<config, nodeMap, shape, userVars, new, updates>>

\* Mutant: the window is made with the value that was tested, not with the
\* configuration.
ResetTested(n, u) ==
  shape' = [shape EXCEPT ![n] = IF new[u][1] = "sampleCount"
                                  THEN <<new[u][2], @[2]>> ELSE <<@[1], new[u][2]>>]

\* ... gives node after node a new window ...
Reset(n, u) == shape' = [shape EXCEPT ![n] = config]

ResetNode(u) ==
  /\ updater[u] = "reset"
  /\ \E n \in left : Reset(n, u) /\ left' = left \ {n}
  /\ UNCHANGED <<config, nodeMap, holder, userVars, updater, new, updates>>

\* ... and lets the lock go.
UnlockNodes(u) ==
  /\ updater[u] = "reset" /\ left = {}
  /\ updater' = [updater EXCEPT ![u] = "idle"]
  /\ holder' = Nobody
  /\ new' = [new EXCEPT ![u] = <<"none", 0>>]
  /\ UNCHANGED <<config, nodeMap, shape, userVars, left, updates>>

-----------------------------------------------------------------------------
Next ==
  \/ \E u \in Users : GetClusterNode(u) \/ CreateNode(u)
  \/ \E u \in Updaters :
       Update(u) \/ SetConfig(u) \/ LockNodes(u) \/ ResetNode(u) \/ UnlockNodes(u)

Spec == Init /\ [][Next]_vars

-----------------------------------------------------------------------------
(***************************************************************************)
(* Properties.                                                             *)
(***************************************************************************)
\* All calls on a resource count on one node, the one in the map, although the
\* read lock is given up before the write lock is taken.
OneNode ==
  \A u \in Users : user[u] = "has" => node[u] = nodeMap[resource[u]]

\* Once no change is under way, every node in the map has a window of the
\* configuration in force - also the nodes made while a change was between its
\* assignment and its reset, and when changes overlapped.  (The entry node is
\* not in the map and keeps its first window.)
WindowsCurrent ==
  Busy = {} => \A n \in Nodes : shape[n] = config
=============================================================================

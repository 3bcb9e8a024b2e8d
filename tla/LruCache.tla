------------------------------ MODULE LruCache ------------------------------
(***************************************************************************)
(* One shard of the cache in which parameter values are counted            *)
(* (param/statistic/lru_cache.h): a concurrent hash map, a list of its     *)
(* keys from the most to the least recently used, and m_size, which says   *)
(* when an insertion has to evict.  The three are updated one after the    *)
(* other.  An accessor of the hash map locks its entry until the end of    *)
(* the operation, for others that want it and for the eviction; the list   *)
(* has a mutex, which snapshotPairs keeps while it looks entries up.       *)
(* clear() puts an empty map in place; an operation under way goes on with *)
(* the map that it has loaded.                                             *)
(*                                                                         *)
(* The counts themselves are left out.  A list node is named after the     *)
(* operation that made it; it also stands for the map entry it belongs to. *)
(* The map (tbb::concurrent_hash_map) is external: its find and insert     *)
(* wait for an entry that is locked.                                       *)
(***************************************************************************)
EXTENDS Integers, Sequences, FiniteSets

CONSTANTS Threads,       \* threads that use the shard
          Keys,          \* parameter values that hash to it
          MaxSize,       \* m_maxSize
          Ops,           \* the operations in use, of increase and find
          MaxOps,        \* bound: calls of increase and find
          MaxClears,     \* bound: calls of clear
          MaxSnapshots,  \* bound: calls of snapshotPairs
          NoThread, NoKey

ASSUME CacheAssumption ==
  /\ IsFiniteSet(Threads) /\ IsFiniteSet(Keys)
  /\ Ops \subseteq {"increase", "find"}
  /\ MaxSize \in Nat /\ MaxOps \in Nat /\ MaxClears \in Nat /\ MaxSnapshots \in Nat
  /\ NoThread \notin Threads /\ NoKey \notin Keys

Node == 1 .. MaxOps
Null == 0
Map  == 0 .. MaxClears

VARIABLES
  map,        \* the maps made so far: the entry of each key, or Null
  cur,        \* m_map
  list,       \* the nodes from m_head to m_tail
  size,       \* m_size
  listMutex,  \* who has m_listMutex for longer than a step
  keyOf,      \* m_key of each list node
  pc, op,     \* what the thread does next, and the operation it is in
  node,       \* the node named after its operation
  held,       \* the entry that its accessor locks, or Null
  local,      \* the map it has loaded
  seen,       \* the size it has loaded
  evicting,   \* the node it has taken off the list
  again,      \* it evicts for the second time
  at,         \* the position of a snapshot in the list
  ops, clears, snapshots  \* operations so far

threadVars == <<pc, op, node, held, local, seen, evicting, again, at>>
boundVars  == <<ops, clears, snapshots>>
vars == <<map, cur, list, size, listMutex, keyOf, pc, op, node, held, local, seen,
          evicting, again, at, ops, clears, snapshots>>

-----------------------------------------------------------------------------
Init ==
  /\ map = [m \in Map |-> [k \in Keys |-> Null]]
  /\ cur = 0
  /\ list = <<>>
  /\ size = 0
  /\ listMutex = NoThread
  /\ keyOf = [n \in Node |-> NoKey]
  /\ pc = [t \in Threads |-> "idle"]
  /\ op = [t \in Threads |-> "none"]
  /\ node = [t \in Threads |-> Null]
  /\ held = [t \in Threads |-> Null]
  /\ local = [t \in Threads |-> 0]
  /\ seen = [t \in Threads |-> 0]
  /\ evicting = [t \in Threads |-> Null]
  /\ again = [t \in Threads |-> FALSE]
  /\ at = [t \in Threads |-> 0]
  /\ ops = 0 /\ clears = 0 /\ snapshots = 0

Goto(t, label) == pc' = [pc EXCEPT ![t] = label]

Key(t) == keyOf[node[t]]

\* The accessor is released and the local variables go out of scope.
Leave(t) ==
  /\ Goto(t, "idle")
  /\ op' = [op EXCEPT ![t] = "none"]
  /\ node' = [node EXCEPT ![t] = Null]
  /\ held' = [held EXCEPT ![t] = Null]
  /\ local' = [local EXCEPT ![t] = 0]
  /\ seen' = [seen EXCEPT ![t] = 0]
  /\ evicting' = [evicting EXCEPT ![t] = Null]
  /\ again' = [again EXCEPT ![t] = FALSE]
  /\ at' = [at EXCEPT ![t] = 0]

\* Does nobody keep t from a lock on entry n?  A find shares its entry with
\* other finds and with snapshots.
CanWrite(t, n) == \A u \in Threads \ {t} : held[u] # n
CanRead(t, n)  == \A u \in Threads \ {t} : held[u] = n => op[u] = "find"

ListFree == listMutex = NoThread

-----------------------------------------------------------------------------
(***************************************************************************)
(* increase(key, value) and find(key).                                     *)
(***************************************************************************)
Begin(t, o, k) ==
  /\ pc[t] = "idle"
  /\ ops < MaxOps
  /\ ops' = ops + 1
  /\ op' = [op EXCEPT ![t] = o]
  /\ node' = [node EXCEPT ![t] = ops + 1]
  /\ keyOf' = [keyOf EXCEPT ![ops + 1] = k]
  /\ local' = [local EXCEPT ![t] = cur]
  /\ Goto(t, "find")
  /\ UNCHANGED <<map, cur, list, size, listMutex, held, seen, evicting, again, at,
                 clears, snapshots>>

Find(t) ==
  LET n == map[local[t]][Key(t)] IN
  /\ pc[t] = "find"
  /\ \/ /\ n # Null
        /\ IF op[t] = "find" THEN CanRead(t, n) ELSE CanWrite(t, n)
        /\ held' = [held EXCEPT ![t] = n]
        /\ Goto(t, "touch")
        /\ UNCHANGED <<op, node, local, seen, evicting, again, at>>
     \/ n = Null /\ op[t] = "find" /\ Leave(t)
     \/ /\ n = Null /\ op[t] = "increase"
        /\ Goto(t, "loadMap")
        /\ UNCHANGED <<op, node, held, local, seen, evicting, again, at>>
  /\ UNCHANGED <<map, cur, list, size, listMutex, keyOf, boundVars>>

InList(n) == \E i \in DOMAIN list : list[i] = n

\* delink: the list without node n, if that is in it.
Without(n) ==
  LET i == CHOOSE j \in DOMAIN list : list[j] = n
  IN IF InList(n) THEN SubSeq(list, 1, i - 1) \o SubSeq(list, i + 1, Len(list))
                  ELSE list

\* Mutant: a node that has left the list comes back to it.
TouchAny(t) ==
  /\ pc[t] = "touch"
  /\ ListFree
  /\ list' = <<held[t]>> \o Without(held[t])
  /\ Leave(t)
  /\ UNCHANGED <<map, cur, size, listMutex, keyOf, boundVars>>

\* The node moves to the front, if it is in the list.
Touch(t) ==
  /\ pc[t] = "touch"
  /\ ListFree
  /\ list' = IF InList(held[t]) THEN <<held[t]>> \o Without(held[t]) ELSE list
  /\ Leave(t)
  /\ UNCHANGED <<map, cur, size, listMutex, keyOf, boundVars>>

-----------------------------------------------------------------------------
(***************************************************************************)
(* insert(key, value), when increase has found no entry.                   *)
(***************************************************************************)
LoadMap(t) ==
  /\ pc[t] = "loadMap"
  /\ local' = [local EXCEPT ![t] = cur]
  /\ Goto(t, "insert")
  /\ UNCHANGED <<map, cur, list, size, listMutex, keyOf, op, node, held, seen, evicting,
                 again, at, boundVars>>

Insert(t) ==
  LET n == map[local[t]][Key(t)] IN
  /\ pc[t] = "insert"
  /\ \/ /\ n = Null
        /\ map' = [map EXCEPT ![local[t]][Key(t)] = node[t]]
        /\ held' = [held EXCEPT ![t] = node[t]]
        /\ Goto(t, "size")
     \/ /\ n # Null /\ CanWrite(t, n)
        /\ held' = [held EXCEPT ![t] = n]
        /\ Goto(t, "touch")
        /\ UNCHANGED map
  /\ UNCHANGED <<cur, list, size, listMutex, keyOf, op, node, local, seen, evicting,
                 again, at, boundVars>>

LoadSize(t) ==
  /\ pc[t] = "size"
  /\ seen' = [seen EXCEPT ![t] = size]
  /\ Goto(t, IF size >= MaxSize THEN "evict" ELSE "push")
  /\ UNCHANGED <<map, cur, list, size, listMutex, keyOf, op, node, held, local, evicting,
                 again, at, boundVars>>

\* Mutant: a replacement is counted as an addition.
PushAndCount(t) ==
  /\ pc[t] = "push"
  /\ ListFree
  /\ list' = <<node[t]>> \o list
  /\ Goto(t, "count")
  /\ UNCHANGED <<map, cur, size, listMutex, keyOf, op, node, held, local, seen, evicting,
                 again, at, boundVars>>

PushFront(t) ==
  /\ pc[t] = "push"
  /\ ListFree
  /\ list' = <<node[t]>> \o list
  /\ Goto(t, IF seen[t] < MaxSize THEN "count" ELSE "shrink")
  /\ UNCHANGED <<map, cur, size, listMutex, keyOf, op, node, held, local, seen, evicting,
                 again, at, boundVars>>

\* Mutant: m_size is loaded and not increased.
CountNothing(t) ==
  /\ pc[t] = "count"
  /\ seen' = [seen EXCEPT ![t] = size]
  /\ Goto(t, "shrink")
  /\ UNCHANGED <<map, cur, list, size, listMutex, keyOf, op, node, held, local, evicting,
                 again, at, boundVars>>

\* size = m_size++, if nothing was evicted.
Count(t) ==
  /\ pc[t] = "count"
  /\ seen' = [seen EXCEPT ![t] = size]
  /\ size' = size + 1
  /\ Goto(t, "shrink")
  /\ UNCHANGED <<map, cur, list, listMutex, keyOf, op, node, held, local, evicting,
                 again, at, boundVars>>

\* The cache is overfull: whoever manages to lower m_size evicts one more.
Shrink(t) ==
  /\ pc[t] = "shrink"
  /\ \/ /\ seen[t] > MaxSize /\ size = seen[t]
        /\ size' = seen[t] - 1
        /\ again' = [again EXCEPT ![t] = TRUE]
        /\ Goto(t, "evict")
        /\ UNCHANGED <<op, node, held, local, seen, evicting, at>>
     \/ /\ ~ (seen[t] > MaxSize /\ size = seen[t])
        /\ Leave(t)
        /\ UNCHANGED size
  /\ UNCHANGED <<map, cur, list, listMutex, keyOf, boundVars>>

-----------------------------------------------------------------------------
(***************************************************************************)
(* evict(key): the least recently used node leaves the list, then the map  *)
(* is loaded, then the entry with the key of that node leaves the map.     *)
(***************************************************************************)
Last == list[Len(list)]

CanEvict(t) == IF list = <<>> THEN FALSE ELSE keyOf[Last] # Key(t)

\* evict returns: to the first half of insert, or to the end of it.
EvictReturns(t) ==
  \/ again[t] /\ Leave(t)
  \/ /\ ~again[t]
     /\ Goto(t, "push")
     /\ evicting' = [evicting EXCEPT ![t] = Null]
     /\ UNCHANGED <<op, node, held, local, seen, again, at>>

Delink(t) ==
  /\ pc[t] = "evict"
  /\ ListFree
  /\ \/ /\ ~CanEvict(t)
        /\ EvictReturns(t)
        /\ UNCHANGED list
     \/ /\ CanEvict(t)
        /\ evicting' = [evicting EXCEPT ![t] = Last]
        /\ list' = SubSeq(list, 1, Len(list) - 1)
        /\ Goto(t, "evictMap")
        /\ UNCHANGED <<op, node, held, local, seen, again, at>>
  /\ UNCHANGED <<map, cur, size, listMutex, keyOf, boundVars>>

\* Mutant: evict goes on with the map that insert has loaded.
EvictFromLocal(t) ==
  /\ pc[t] = "evictMap"
  /\ Goto(t, "erase")
  /\ UNCHANGED <<map, cur, list, size, listMutex, keyOf, op, node, held, local, seen,
                 evicting, again, at, boundVars>>

EvictMap(t) ==
  /\ pc[t] = "evictMap"
  /\ local' = [local EXCEPT ![t] = cur]
  /\ Goto(t, "erase")
  /\ UNCHANGED <<map, cur, list, size, listMutex, keyOf, op, node, held, seen, evicting,
                 again, at, boundVars>>

Erase(t) ==
  LET k == keyOf[evicting[t]]
      n == map[local[t]][k] IN
  /\ pc[t] = "erase"
  /\ \/ n = Null /\ UNCHANGED map
     \/ /\ n # Null /\ CanWrite(t, n)
        /\ map' = [map EXCEPT ![local[t]][k] = Null]
  /\ EvictReturns(t)
  /\ UNCHANGED <<cur, list, size, listMutex, keyOf, boundVars>>

-----------------------------------------------------------------------------
(***************************************************************************)
(* clear(), which a recycled bucket calls (ParamBucket::Reset), and        *)
(* snapshotPairs.                                                          *)
(***************************************************************************)
Clear(t) ==
  /\ pc[t] = "idle"
  /\ clears < MaxClears
  /\ ListFree
  /\ clears' = clears + 1
  /\ cur' = cur + 1
  /\ list' = <<>>
  /\ op' = [op EXCEPT ![t] = "clear"]
  /\ Goto(t, "zero")
  /\ UNCHANGED <<map, size, listMutex, keyOf, node, held, local, seen, evicting,
                 again, at, ops, snapshots>>

\* m_size.store(0), after both mutexes have been released.
ClearSize(t) ==
  /\ pc[t] = "zero"
  /\ size' = 0
  /\ Leave(t)
  /\ UNCHANGED <<map, cur, list, listMutex, keyOf, boundVars>>

SnapshotPairs(t) ==
  /\ pc[t] = "idle"
  /\ snapshots < MaxSnapshots
  /\ snapshots' = snapshots + 1
  /\ op' = [op EXCEPT ![t] = "snapshot"]
  /\ local' = [local EXCEPT ![t] = cur]
  /\ Goto(t, "lockList")
  /\ UNCHANGED <<map, cur, list, size, listMutex, keyOf, node, held, seen, evicting,
                 again, at, ops, clears>>

LockList(t) ==
  /\ pc[t] = "lockList"
  /\ ListFree
  /\ listMutex' = t
  /\ at' = [at EXCEPT ![t] = 1]
  /\ Goto(t, "pairs")
  /\ UNCHANGED <<map, cur, list, size, keyOf, op, node, held, local, seen, evicting,
                 again, boundVars>>

\* The entry of the node at hand, if its key has one.
Wanted(t) == map[local[t]][keyOf[list[at[t]]]]

NextPair(t) ==
  /\ pc[t] = "pairs"
  /\ \/ /\ at[t] <= Len(list)
        /\ Wanted(t) = Null \/ CanRead(t, Wanted(t))
        /\ at' = [at EXCEPT ![t] = @ + 1]
        /\ UNCHANGED <<listMutex, pc, op, node, held, local, seen, evicting, again>>
     \/ /\ at[t] > Len(list)
        /\ listMutex' = NoThread
        /\ Leave(t)
  /\ UNCHANGED <<map, cur, list, size, keyOf, boundVars>>

-----------------------------------------------------------------------------
Step(t) ==
  \/ Find(t) \/ Touch(t) \/ LoadMap(t) \/ Insert(t) \/ LoadSize(t) \/ PushFront(t)
  \/ Count(t) \/ Shrink(t) \/ Delink(t) \/ EvictMap(t) \/ Erase(t)
  \/ ClearSize(t) \/ LockList(t) \/ NextPair(t)

Next ==
  \E t \in Threads :
    \/ Step(t) \/ Clear(t) \/ SnapshotPairs(t)
    \/ \E o \in Ops, k \in Keys : Begin(t, o, k)

Spec == Init /\ [][Next]_vars

-----------------------------------------------------------------------------
(***************************************************************************)
(* Properties.                                                             *)
(***************************************************************************)
\* Thread t has put node n in the map and has still to put it in the list.
Pushing(t, n) ==
  /\ node[t] = n /\ ~again[t]
  /\ pc[t] \in {"size", "push", "evict", "evictMap", "erase"}

\* Thread t is about to erase the entry of key k in the current map.
Erasing(t, k) ==
  /\ pc[t] \in {"evictMap", "erase"}
  /\ keyOf[evicting[t]] = k
  /\ pc[t] = "erase" => local[t] = cur

\* No entry is left behind: whatever is in the map can be evicted, or is on
\* the way into the list or out of the map.
EntryEvictable ==
  \A k \in Keys : LET n == map[cur][k] IN
    n # Null => \/ InList(n)
                \/ \E t \in Threads : Pushing(t, n) \/ Erasing(t, k)

\* Until clear() is used, map and list agree: every node of the list is that
\* of the entry of its key, and is there once; and a node taken off the list
\* has an entry to erase (not finding one is "presumably unreachable").
ListAgrees ==
  clears = 0 =>
    /\ \A i \in DOMAIN list : map[cur][keyOf[list[i]]] = list[i]
    /\ \A i, j \in DOMAIN list : list[i] = list[j] => i = j
    /\ \A t \in Threads : pc[t] = "erase" => map[local[t]][keyOf[evicting[t]]] = evicting[t]

\* Until clear() is used, the list outgrows its limit (one entry at least) by
\* no more than the insertions that other threads had under way: insert()
\* evicts before it adds, and again when it finds the cache overfull.
SizeBounded ==
  clears = 0 =>
    Len(list) <= (IF MaxSize = 0 THEN 1 ELSE MaxSize) + Cardinality(Threads) - 1

\* "we could end up underfilled": whenever no operation is under way, and
\* until clear() is used, the list has the m_size elements it is credited
\* with, however many threads have been evicting at once.
NotUnderfilled ==
  clears = 0 /\ (\A t \in Threads : pc[t] = "idle") => Len(list) >= size

\* Thread t wants a lock that u has: that of an entry, or m_listMutex.
WaitsFor(t, u) ==
  \/ pc[t] \in {"find", "insert"} /\ held[u] # Null /\ held[u] = map[local[t]][Key(t)]
  \/ pc[t] = "erase" /\ held[u] # Null /\ held[u] = map[local[t]][keyOf[evicting[t]]]
  \/ pc[t] = "pairs" /\ at[t] <= Len(list) /\ held[u] # Null /\ held[u] = Wanted(t)
                    /\ op[u] # "find"
  \/ pc[t] \in {"touch", "push", "evict", "lockList"} /\ listMutex = u

\* "The acquisition of the list mutex during find() is non-blocking (try_lock),
\* so under heavy lookup load, the container will not stall": no two threads
\* wait for one another.
NoStall == \A t, u \in Threads : ~ (WaitsFor(t, u) /\ WaitsFor(u, t))

=============================================================================

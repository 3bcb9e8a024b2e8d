--------------------------- MODULE LruCacheProofs ---------------------------
(***************************************************************************)
(* For every number of threads, keys and operations: what the map, the     *)
(* list and m_size of a shard have to do with one another.                 *)
(***************************************************************************)
EXTENDS LruCache, DataFacts, FiniteSetTheorems, TLAPS

\* Where a thread is while it carries out an increase or a find.
InOp == {"find", "touch", "loadMap", "insert", "size", "push", "count", "shrink",
         "evict", "evictMap", "erase"}

Pcs == InOp \cup {"idle", "zero", "lockList", "pairs"}

StoreTypeOK ==
  /\ map \in [Map -> [Keys -> 0 .. MaxOps]]
  /\ cur \in Map /\ cur = clears
  /\ list \in Seq(Node)
  /\ size \in Int
  /\ keyOf \in [Node -> Keys \cup {NoKey}]

ThreadTypeOK ==
  /\ pc \in [Threads -> Pcs]
  /\ node \in [Threads -> 0 .. MaxOps]
  /\ held \in [Threads -> 0 .. MaxOps]
  /\ evicting \in [Threads -> 0 .. MaxOps]
  /\ local \in [Threads -> Map]
  /\ seen \in [Threads -> Int]
  /\ again \in [Threads -> BOOLEAN]
  /\ ops \in 0 .. MaxOps

\* The variables have their types, and a map is numbered by the clears before it.
TypeOK == StoreTypeOK /\ ThreadTypeOK

\* Thread t has a node that it has taken off the list, and will erase its entry.
Evicts(t) == pc[t] \in {"evictMap", "erase"}

\* Thread t has made the entry of its node, and has still to list it.
Inserting(t) == pc[t] \in {"size", "push", "evict", "evictMap", "erase"} /\ ~again[t]

\* Thread t has not made an entry of its node.
Fresh(t) == pc[t] \in {"find", "loadMap", "insert"}

\* A node stands for one operation; nothing refers to one of an operation that
\* has not begun, and no map to one of another key.
KeysKnown == \A n \in 1 .. ops : keyOf[n] \in Keys

ThreadNodes ==
  \A t \in Threads : /\ node[t] <= ops /\ held[t] <= ops /\ evicting[t] <= ops
                     /\ pc[t] \in InOp => node[t] # Null
                     /\ Evicts(t) => evicting[t] # Null
                     /\ again[t] => pc[t] \in {"evict", "evictMap", "erase"}
                     /\ local[t] <= cur

OwnNode == \A t, u \in Threads : node[t] = node[u] /\ node[t] # Null => t = u

ListNodes == \A i \in DOMAIN list : list[i] <= ops

MapNodes ==
  \A m \in Map, k \in Keys :
    map[m][k] # Null => map[m][k] <= ops /\ keyOf[map[m][k]] = k /\ m <= cur

NodeInv == KeysKnown /\ ThreadNodes /\ OwnNode /\ ListNodes /\ MapNodes

\* ListAgrees, from the moment on at which a node leaves the list; the nodes
\* not in the list are those being inserted and those being evicted.
ListEntries == \A i \in DOMAIN list : map[0][keyOf[list[i]]] = list[i]

ListOnce == \A i, j \in DOMAIN list : list[i] = list[j] => i = j

Evicted ==
  \A t \in Threads : Evicts(t) =>
    /\ map[0][keyOf[evicting[t]]] = evicting[t] /\ ~InList(evicting[t])
    /\ \A u \in Threads : Evicts(u) /\ evicting[u] = evicting[t] => u = t

Inserted ==
  \A t \in Threads : Inserting(t) =>
    /\ map[0][Key(t)] = node[t] /\ ~InList(node[t])
    /\ \A u \in Threads : Evicts(u) => evicting[u] # node[t]

NotYetInserted == \A t \in Threads : Fresh(t) => map[0][Key(t)] # node[t]

Agree == ListEntries /\ ListOnce /\ Evicted /\ Inserted /\ NotYetInserted

AgreeInv == clears = 0 => Agree

\* The threads that have evicted and will list their node without being counted;
\* those that have listed it, or lowered m_size, and have to make up for it.
Promised == {t \in Threads : /\ pc[t] \in {"evictMap", "erase", "push"} /\ ~again[t]
                             /\ seen[t] >= MaxSize}
Owing    == {t \in Threads : pc[t] = "count" \/ (pc[t] = "evict" /\ again[t])}

\* Whoever evicts for its own node has seen a full cache; nobody is in clear()
\* before the first one.
SeenInv ==
  /\ \A t \in Threads : pc[t] \in {"evict", "evictMap", "erase"} /\ ~again[t] =>
                          seen[t] >= MaxSize
  /\ clears = 0 => \A t \in Threads : pc[t] # "zero"

UnderfilledInv ==
  clears = 0 => Len(list) + Cardinality(Promised) >= size + Cardinality(Owing)

\* The threads that will list their node without another eviction; of them and
\* of those that have listed it, the ones that m_size does not count yet.
Committed == {t \in Threads : pc[t] \in {"push", "evictMap", "erase"} /\ ~again[t]}
Uncounted == {t \in Threads : pc[t] = "count" \/ (pc[t] = "push" /\ seen[t] < MaxSize)}

Limit == (IF MaxSize = 0 THEN 1 ELSE MaxSize) + Cardinality(Threads) - 1

\* As long as m_size is below the limit nobody has evicted; it never gets
\* below the limit again.
GrowthInv ==
  clears = 0 /\ size < MaxSize =>
    /\ \A t \in Threads : /\ pc[t] \notin {"evict", "evictMap", "erase"}
                          /\ pc[t] = "push" => seen[t] < MaxSize
    /\ Len(list) + Cardinality(Committed) <= size + Cardinality(Uncounted)

LimitInv == clears = 0 => Len(list) + Cardinality(Committed) <= Limit

CountInv == SeenInv /\ UnderfilledInv /\ GrowthInv /\ LimitInv

IInv == TypeOK /\ NodeInv /\ EntryEvictable /\ AgreeInv /\ CountInv

-----------------------------------------------------------------------------
(***************************************************************************)
(* The list operations, on any sequence.                                   *)
(***************************************************************************)
Has(s, x) == \E i \in DOMAIN s : s[i] = x

\* A list with a new head (push_front) has that node and the old ones.
LEMMA Pushed ==
  ASSUME NEW S, NEW s \in Seq(S), NEW n \in S
  PROVE  LET r == <<n>> \o s
         IN  /\ r \in Seq(S) /\ Len(r) = Len(s) + 1
             /\ DOMAIN r = 1 .. Len(s) + 1
             /\ \A i \in 1 .. Len(s) + 1 : r[i] = IF i = 1 THEN n ELSE s[i - 1]
             /\ \A x : Has(r, x) <=> x = n \/ Has(s, x)
<1> DEFINE r == <<n>> \o s
<1>1. <<n>> \in Seq(S) /\ Len(<<n>>) = 1 /\ <<n>>[1] = n
  OBVIOUS
<1>2. Len(s) \in Nat /\ DOMAIN s = 1 .. Len(s)
  BY LenProperties
<1>3. /\ r \in Seq(S) /\ Len(r) = 1 + Len(s)
      /\ \A i \in 1 .. 1 + Len(s) : r[i] = IF i <= 1 THEN <<n>>[i] ELSE s[i - 1]
  BY <1>1, ConcatProperties
<1> HIDE DEF r
<1>4. DOMAIN r = 1 .. Len(s) + 1
  BY <1>2, <1>3, LenProperties
<1>5. \A i \in 1 .. Len(s) + 1 : r[i] = IF i = 1 THEN n ELSE s[i - 1]
  BY <1>1, <1>2, <1>3
<1>6. ASSUME NEW x PROVE Has(r, x) <=> x = n \/ Has(s, x)
  <2>1. ASSUME NEW i \in DOMAIN s, s[i] = x PROVE Has(r, x)
    <3>1. i + 1 \in DOMAIN r /\ r[i + 1] = x
      BY <1>2, <1>4, <1>5, <2>1
    <3> QED
      BY <3>1 DEF Has
  <2>2. x = n => Has(r, x)
    <3>1. 1 \in DOMAIN r /\ r[1] = n
      BY <1>2, <1>4, <1>5
    <3> QED
      BY <3>1 DEF Has
  <2>3. ASSUME NEW i \in DOMAIN r, r[i] = x PROVE x = n \/ Has(s, x)
    <3>1. CASE i = 1
      BY <1>4, <1>5, <2>3, <3>1
    <3>2. CASE i # 1
      <4>1. i - 1 \in DOMAIN s /\ s[i - 1] = x
        BY <1>2, <1>4, <1>5, <2>3, <3>2
      <4> QED
        BY <4>1 DEF Has
    <3> QED
      BY <3>1, <3>2
  <2> QED
    BY <2>1, <2>2, <2>3 DEF Has
<1> QED
  BY <1>2, <1>3, <1>4, <1>5, <1>6 DEF r

\* A list without its last node (evict delinks m_tail.m_prev).
LEMMA Popped ==
  ASSUME NEW S, NEW s \in Seq(S), s # <<>>
  PROVE  LET r == SubSeq(s, 1, Len(s) - 1)
         IN  /\ r \in Seq(S) /\ Len(r) = Len(s) - 1 /\ Len(s) \in Nat \ {0}
             /\ DOMAIN s = 1 .. Len(s) /\ DOMAIN r = 1 .. Len(s) - 1
             /\ s[Len(s)] \in S /\ Has(s, s[Len(s)])
             /\ \A i \in 1 .. Len(s) - 1 : r[i] = s[i]
             /\ \A x : Has(r, x) => Has(s, x)
             /\ \A x : Has(s, x) => Has(r, x) \/ x = s[Len(s)]
<1> DEFINE r == SubSeq(s, 1, Len(s) - 1)
<1>1. Len(s) \in Nat \ {0} /\ DOMAIN s = 1 .. Len(s)
  BY EmptySeq, LenProperties
<1>2. /\ r \in Seq(S) /\ Len(r) = Len(s) - 1
      /\ \A i \in 1 .. Len(s) - 1 : r[i] = s[i]
  BY <1>1, SubSeqProperties, ElementOfSeq
<1> HIDE DEF r
<1>3. DOMAIN r = 1 .. Len(s) - 1
  BY <1>2, LenProperties
<1>4. s[Len(s)] \in S /\ Has(s, s[Len(s)])
  BY <1>1, ElementOfSeq DEF Has
<1>5. \A x : Has(r, x) => Has(s, x)
  BY <1>1, <1>2, <1>3 DEF Has
<1>6. ASSUME NEW i \in DOMAIN s PROVE Has(r, s[i]) \/ s[i] = s[Len(s)]
  <2>1. CASE i = Len(s)
    BY <2>1
  <2>2. CASE i # Len(s)
    <3>1. i \in DOMAIN r /\ r[i] = s[i]
      BY <1>1, <1>2, <1>3, <2>2
    <3> QED
      BY <3>1 DEF Has
  <2> QED
    BY <2>1, <2>2
<1>7. \A x : Has(s, x) => Has(r, x) \/ x = s[Len(s)]
  BY <1>6 DEF Has
<1> QED
  BY <1>1, <1>2, <1>3, <1>4, <1>5, <1>7 DEF r

\* A node that is moved to the front (touch) leaves the nodes of the list the
\* same, and each of them in it as often as it was.
LEMMA Moved ==
  ASSUME NEW S, NEW s \in Seq(S), NEW p \in 1 .. Len(s)
  PROVE  LET r == <<s[p]>> \o (SubSeq(s, 1, p - 1) \o SubSeq(s, p + 1, Len(s)))
         IN  /\ r \in Seq(S) /\ Len(r) = Len(s) /\ DOMAIN r = DOMAIN s
             /\ \E f \in [DOMAIN s -> DOMAIN s] :
                  /\ \A i \in DOMAIN s : r[i] = s[f[i]]
                  /\ \A i, j \in DOMAIN s : f[i] = f[j] => i = j
             /\ \A x : Has(r, x) <=> Has(s, x)
<1> DEFINE c == SubSeq(s, 1, p - 1) \o SubSeq(s, p + 1, Len(s))
           r == <<s[p]>> \o c
<1>1. Len(s) \in Nat /\ DOMAIN s = 1 .. Len(s) /\ s[p] \in S
  BY LenProperties, ElementOfSeq
<1>2. /\ c \in Seq(S) /\ Len(c) = Len(s) - 1
      /\ \A i \in 1 .. Len(s) - 1 : c[i] = IF i < p THEN s[i] ELSE s[i + 1]
  BY CutProperties
<1> HIDE DEF c
<1>3. /\ r \in Seq(S) /\ Len(r) = Len(s)
      /\ DOMAIN r = 1 .. Len(s)
      /\ \A i \in 1 .. Len(s) : r[i] = IF i = 1 THEN s[p] ELSE c[i - 1]
  <2>1. /\ r \in Seq(S) /\ Len(r) = Len(c) + 1 /\ DOMAIN r = 1 .. Len(c) + 1
        /\ \A i \in 1 .. Len(c) + 1 : r[i] = IF i = 1 THEN s[p] ELSE c[i - 1]
    <3>1. s[p] \in S /\ c \in Seq(S)
      BY <1>1, <1>2
    <3> QED
      BY <3>1, Pushed
  <2>2. Len(c) + 1 = Len(s)
    BY <1>1, <1>2
  <2> QED
    BY <2>1, <2>2
<1> HIDE DEF r
<1> DEFINE f == [i \in DOMAIN s |-> IF i = 1 THEN p ELSE IF i - 1 < p THEN i - 1 ELSE i]
<1>4. ASSUME NEW i \in DOMAIN s PROVE r[i] = s[f[i]]
  <2>1. CASE i = 1
    BY <1>1, <1>3, <2>1
  <2>2. CASE i # 1
    <3>1. i - 1 \in 1 .. Len(s) - 1 /\ i - 1 + 1 = i
      BY <1>1, <2>2
    <3> QED
      BY <1>1, <1>2, <1>3, <2>2, <3>1
  <2> QED
    BY <2>1, <2>2
<1>5. f \in [DOMAIN s -> DOMAIN s] /\ \A i, j \in DOMAIN s : f[i] = f[j] => i = j
  BY <1>1
<1>6. ASSUME NEW i \in DOMAIN s PROVE Has(r, s[i])
  <2> DEFINE j == IF i = p THEN 1 ELSE IF i < p THEN i + 1 ELSE i
  <2>1. j \in DOMAIN s /\ f[j] = i
    BY <1>1
  <2> QED
    BY <1>1, <1>3, <1>4, <2>1 DEF Has
<1>7. \A x : Has(r, x) <=> Has(s, x)
  <2>1. ASSUME NEW i \in DOMAIN r PROVE Has(s, r[i])
    <3>1. i \in DOMAIN s /\ f[i] \in DOMAIN s /\ r[i] = s[f[i]]
      BY <1>1, <1>3, <1>4, <1>5
    <3> QED
      BY <3>1, Zenon DEF Has
  <2>2. ASSUME NEW x, Has(r, x) PROVE Has(s, x)
    BY <2>1, <2>2 DEF Has
  <2>3. ASSUME NEW x, Has(s, x) PROVE Has(r, x)
    BY <1>6, <2>3 DEF Has
  <2> QED
    BY <2>2, <2>3
<1> QED
  BY <1>1, <1>3, <1>4, <1>5, <1>7 DEF r, c

-----------------------------------------------------------------------------
(***************************************************************************)
(* The same, of the steps that change the list.                            *)
(***************************************************************************)
\* Touch: same nodes, each as often, whether the node was in the list or not.
LEMMA TouchStep ==
  ASSUME TypeOK, NEW t \in Threads, Touch(t)
  PROVE  /\ list' \in Seq(Node) /\ Len(list') = Len(list) /\ DOMAIN list' = DOMAIN list
         /\ \E f \in [DOMAIN list -> DOMAIN list] :
              /\ \A i \in DOMAIN list : list'[i] = list[f[i]]
              /\ \A i, j \in DOMAIN list : f[i] = f[j] => i = j
         /\ \A n : InList(n)' <=> InList(n)
<1>1. list \in Seq(Node) /\ DOMAIN list = 1 .. Len(list)
  BY LenProperties DEF TypeOK, StoreTypeOK
<1>2. CASE InList(held[t])
  <2> DEFINE p == CHOOSE j \in DOMAIN list : list[j] = held[t]
  <2>1. p \in 1 .. Len(list) /\ list[p] = held[t]
    BY <1>1, <1>2 DEF InList
  <2>2. list' = <<list[p]>> \o (SubSeq(list, 1, p - 1) \o SubSeq(list, p + 1, Len(list)))
    BY <1>2, <2>1 DEF Touch, Without
  <2> HIDE DEF p
  <2>3. /\ list' \in Seq(Node) /\ Len(list') = Len(list) /\ DOMAIN list' = DOMAIN list
        /\ \E f \in [DOMAIN list -> DOMAIN list] :
             /\ \A i \in DOMAIN list : list'[i] = list[f[i]]
             /\ \A i, j \in DOMAIN list : f[i] = f[j] => i = j
        /\ \A n : Has(list', n) <=> Has(list, n)
    <3> DEFINE r == <<list[p]>> \o (SubSeq(list, 1, p - 1) \o SubSeq(list, p + 1, Len(list)))
    <3>1. /\ r \in Seq(Node) /\ Len(r) = Len(list) /\ DOMAIN r = DOMAIN list
          /\ \E f \in [DOMAIN list -> DOMAIN list] :
               /\ \A i \in DOMAIN list : r[i] = list[f[i]]
               /\ \A i, j \in DOMAIN list : f[i] = f[j] => i = j
          /\ \A n : Has(r, n) <=> Has(list, n)
      BY <1>1, <2>1, Moved
    <3>2. list' = r
      BY <2>2
    <3> HIDE DEF r
    <3> QED
      BY <3>1, <3>2
  <2> QED
    BY <2>3 DEF InList, Has
<1>3. CASE ~InList(held[t])
  <2>1. list' = list
    BY <1>3 DEF Touch
  <2> DEFINE f == [i \in DOMAIN list |-> i]
  <2>2. /\ f \in [DOMAIN list -> DOMAIN list]
        /\ \A i \in DOMAIN list : list'[i] = list[f[i]]
        /\ \A i, j \in DOMAIN list : f[i] = f[j] => i = j
    BY <2>1
  <2> HIDE DEF f
  <2>3. \E g \in [DOMAIN list -> DOMAIN list] :
          /\ \A i \in DOMAIN list : list'[i] = list[g[i]]
          /\ \A i, j \in DOMAIN list : g[i] = g[j] => i = j
    BY <2>2
  <2>4. \A n : InList(n)' <=> InList(n)
    BY <2>1 DEF InList
  <2> QED
    BY <1>1, <2>1, <2>3, <2>4
<1> QED
  BY <1>2, <1>3

\* PushFront: the node of the thread comes to the old ones.
LEMMA PushStep ==
  ASSUME TypeOK, NEW t \in Threads, node[t] # Null, PushFront(t)
  PROVE  /\ list' \in Seq(Node) /\ Len(list') = Len(list) + 1 /\ Len(list) \in Nat
         /\ DOMAIN list = 1 .. Len(list) /\ DOMAIN list' = 1 .. Len(list) + 1
         /\ \A i \in 1 .. Len(list) + 1 : list'[i] = IF i = 1 THEN node[t] ELSE list[i - 1]
         /\ \A n : InList(n)' <=> n = node[t] \/ InList(n)
<1>1. list \in Seq(Node) /\ DOMAIN list = 1 .. Len(list) /\ Len(list) \in Nat
  BY LenProperties DEF TypeOK, StoreTypeOK
<1>2. node[t] \in Node
  BY CacheAssumption DEF TypeOK, ThreadTypeOK, Null, Node
<1> DEFINE r == <<node[t]>> \o list
<1>3. /\ r \in Seq(Node) /\ Len(r) = Len(list) + 1
      /\ DOMAIN r = 1 .. Len(list) + 1
      /\ \A i \in 1 .. Len(list) + 1 : r[i] = IF i = 1 THEN node[t] ELSE list[i - 1]
      /\ \A x : Has(r, x) <=> x = node[t] \/ Has(list, x)
  BY <1>1, <1>2, Pushed
<1>4. list' = r
  BY DEF PushFront
<1> HIDE DEF r
<1>5. \A n : InList(n)' <=> n = node[t] \/ InList(n)
  BY <1>3, <1>4 DEF InList, Has
<1> QED
  BY <1>1, <1>3, <1>4, <1>5

\* Delink of the last node: the others stay where they are.
LEMMA PopStep ==
  ASSUME TypeOK, list # <<>>, list' = SubSeq(list, 1, Len(list) - 1)
  PROVE  /\ list' \in Seq(Node) /\ Len(list') = Len(list) - 1 /\ Len(list) \in Nat \ {0}
         /\ DOMAIN list = 1 .. Len(list) /\ DOMAIN list' = 1 .. Len(list) - 1
         /\ Last \in Node /\ InList(Last)
         /\ \A i \in 1 .. Len(list) - 1 : list'[i] = list[i]
         /\ \A n : InList(n)' => InList(n)
         /\ \A n : InList(n) => InList(n)' \/ n = Last
<1> DEFINE r == SubSeq(list, 1, Len(list) - 1)
<1>1. /\ r \in Seq(Node) /\ Len(r) = Len(list) - 1 /\ Len(list) \in Nat \ {0}
      /\ DOMAIN list = 1 .. Len(list) /\ DOMAIN r = 1 .. Len(list) - 1
      /\ list[Len(list)] \in Node /\ Has(list, list[Len(list)])
      /\ \A i \in 1 .. Len(list) - 1 : r[i] = list[i]
      /\ \A x : Has(r, x) => Has(list, x)
      /\ \A x : Has(list, x) => Has(r, x) \/ x = list[Len(list)]
  BY Popped DEF TypeOK, StoreTypeOK
<1>2. list' = r
  BY DEF r
<1> HIDE DEF r
<1>3. (\A n : InList(n)' => InList(n)) /\ (\A n : InList(n) => InList(n)' \/ n = Last)
  BY <1>1, <1>2 DEF InList, Has, Last
<1>4. Last \in Node /\ InList(Last)
  BY <1>1 DEF InList, Has, Last
<1> QED
  BY <1>1, <1>2, <1>3, <1>4

\* An entry is inserted or erased: that of one key in one map.
LEMMA MapUpdate ==
  ASSUME StoreTypeOK, NEW a \in Map, NEW k, NEW n \in 0 .. MaxOps
  PROVE  LET r == [map EXCEPT ![a][k] = n]
         IN  /\ r \in [Map -> [Keys -> 0 .. MaxOps]]
             /\ \A m \in Map, l \in Keys :
                  r[m][l] = IF m = a /\ l = k THEN n ELSE map[m][l]
<1> DEFINE r == [map EXCEPT ![a] = [map[a] EXCEPT ![k] = n]]
<1>1. map \in [Map -> [Keys -> 0 .. MaxOps]]
  BY DEF StoreTypeOK
<1>2. map[a] \in [Keys -> 0 .. MaxOps]
  BY <1>1
<1>3. [map[a] EXCEPT ![k] = n] \in [Keys -> 0 .. MaxOps]
  BY <1>2
<1>4. \A l \in Keys : [map[a] EXCEPT ![k] = n][l] = IF l = k THEN n ELSE map[a][l]
  BY <1>2
<1>5. /\ r \in [Map -> [Keys -> 0 .. MaxOps]]
      /\ \A m \in Map : r[m] = IF m = a THEN [map[a] EXCEPT ![k] = n] ELSE map[m]
  BY <1>1, <1>3
<1> QED
  BY <1>4, <1>5

-----------------------------------------------------------------------------
(***************************************************************************)
(* Types.                                                                  *)
(***************************************************************************)
LEMMA InitTypeOK == Init => TypeOK
  BY CacheAssumption DEF Init, TypeOK, StoreTypeOK, ThreadTypeOK, Map, Node, Null, Pcs

\* Leave resets the variables of the thread.
LEMMA LeaveTypes ==
  ASSUME ThreadTypeOK, NEW t \in Threads, Leave(t), UNCHANGED ops
  PROVE  ThreadTypeOK'
  BY CacheAssumption DEF ThreadTypeOK, Goto, Leave, Pcs, InOp, Null, Map

\* What EvictReturns leaves: the thread pushes its node, or is through.
LEMMA EvictReturnsTypes ==
  ASSUME ThreadTypeOK, NEW t \in Threads, EvictReturns(t), UNCHANGED ops
  PROVE  ThreadTypeOK'
<1>1. CASE Leave(t)
  BY <1>1, LeaveTypes
<1>2. CASE ~Leave(t)
  BY <1>2, CacheAssumption DEF EvictReturns, ThreadTypeOK, Goto, Pcs, InOp, Null
<1> QED
  BY <1>1, <1>2 DEF EvictReturns

LEMMA NextTypeOK == TypeOK /\ NodeInv /\ [Next]_vars => TypeOK'
<1> SUFFICES ASSUME TypeOK, NodeInv, [Next]_vars PROVE TypeOK'
  OBVIOUS
<1>0. CASE UNCHANGED vars
  BY <1>0 DEF vars, TypeOK, StoreTypeOK, ThreadTypeOK
<1>1. ASSUME NEW t \in Threads, NEW o \in Ops, NEW k \in Keys, Begin(t, o, k)
      PROVE  TypeOK'
  <2>1. ops + 1 \in Node /\ ops' \in 0 .. MaxOps
    BY <1>1, CacheAssumption DEF TypeOK, ThreadTypeOK, Begin, Node
  <2>2. StoreTypeOK'
    BY <1>1, <2>1 DEF TypeOK, StoreTypeOK, Begin, boundVars
  <2>3. ThreadTypeOK'
    BY <1>1, <2>1 DEF TypeOK, StoreTypeOK, ThreadTypeOK, Begin, Goto, Pcs, InOp, Node
  <2> QED
    BY <2>2, <2>3 DEF TypeOK
<1>2. ASSUME NEW t \in Threads, Step(t) \/ Clear(t) \/ SnapshotPairs(t)
      PROVE  TypeOK'
  <2>1. CASE Find(t)
    <3>1. Key(t) \in Keys /\ map[local[t]][Key(t)] \in 0 .. MaxOps
      <4>1. node[t] \in 1 .. ops
        BY <2>1, CacheAssumption
           DEF Find, NodeInv, ThreadNodes, TypeOK, ThreadTypeOK, InOp, Null
      <4> QED
        BY <4>1 DEF NodeInv, KeysKnown, Key, TypeOK, StoreTypeOK, ThreadTypeOK
    <3>2. StoreTypeOK'
      BY <2>1 DEF Find, TypeOK, StoreTypeOK, boundVars
    <3>3. CASE Leave(t)
      BY <2>1, <3>2, <3>3, LeaveTypes DEF Find, TypeOK, boundVars
    <3>4. CASE ~Leave(t)
      <4>1. ThreadTypeOK'
        BY <2>1, <3>1, <3>4 DEF Find, Goto, TypeOK, ThreadTypeOK, boundVars, Pcs, InOp
      <4> QED
        BY <3>2, <4>1 DEF TypeOK
    <3> QED
      BY <3>3, <3>4
  <2>2. CASE Touch(t)
    <3>1. StoreTypeOK'
      BY <2>2, TouchStep DEF Touch, TypeOK, StoreTypeOK, boundVars
    <3>2. ThreadTypeOK'
      BY <2>2, LeaveTypes DEF Touch, TypeOK, boundVars
    <3> QED
      BY <3>1, <3>2 DEF TypeOK
  <2>3. CASE LoadMap(t) \/ LoadSize(t) \/ EvictMap(t) \/ Count(t)
    <3>1. StoreTypeOK'
      BY <2>3 DEF LoadMap, LoadSize, EvictMap, Count, TypeOK, StoreTypeOK, boundVars
    <3>2. ThreadTypeOK'
      <4> USE DEF Goto, TypeOK, StoreTypeOK, ThreadTypeOK, boundVars, Pcs, InOp
      <4>1. CASE LoadMap(t)
        BY <4>1 DEF LoadMap
      <4>2. CASE LoadSize(t)
        BY <4>2 DEF LoadSize
      <4>3. CASE EvictMap(t)
        BY <4>3 DEF EvictMap
      <4>4. CASE Count(t)
        BY <4>4 DEF Count
      <4> QED
        BY <2>3, <4>1, <4>2, <4>3, <4>4
    <3> QED
      BY <3>1, <3>2 DEF TypeOK
  <2>4. CASE Insert(t)
    <3>0. StoreTypeOK /\ map \in [Map -> [Keys -> 0 .. MaxOps]]
      BY DEF TypeOK, StoreTypeOK
    <3>1. Key(t) \in Keys /\ map[local[t]][Key(t)] \in 0 .. MaxOps
      <4>1. node[t] \in 1 .. ops
        BY <2>4, CacheAssumption
           DEF Insert, NodeInv, ThreadNodes, TypeOK, ThreadTypeOK, InOp, Null
      <4> QED
        BY <4>1 DEF NodeInv, KeysKnown, Key, TypeOK, StoreTypeOK, ThreadTypeOK
    <3>2. StoreTypeOK'
      <4>1. map' \in [Map -> [Keys -> 0 .. MaxOps]]
        <5>1. local[t] \in Map /\ node[t] \in 0 .. MaxOps
          BY DEF TypeOK, ThreadTypeOK
        <5>2. map' = map \/ map' = [map EXCEPT ![local[t]][Key(t)] = node[t]]
          BY <2>4 DEF Insert
        <5>3. [map EXCEPT ![local[t]][Key(t)] = node[t]] \in [Map -> [Keys -> 0 .. MaxOps]]
          <6> DEFINE k == Key(t)
          <6> HIDE DEF k
          <6>1. [map EXCEPT ![local[t]][k] = node[t]] \in [Map -> [Keys -> 0 .. MaxOps]]
            BY <3>0, <5>1, MapUpdate
          <6> QED
            BY <6>1 DEF k
        <5> QED
          BY <3>0, <5>2, <5>3
      <4> QED
        BY <2>4, <4>1 DEF Insert, TypeOK, StoreTypeOK, boundVars
    <3>3. ThreadTypeOK'
      BY <2>4, <3>1 DEF Insert, Goto, TypeOK, ThreadTypeOK, boundVars, Pcs, InOp
    <3> QED
      BY <3>2, <3>3 DEF TypeOK
  <2>5. CASE PushFront(t)
    <3>1. node[t] # Null
      BY <2>5 DEF PushFront, NodeInv, ThreadNodes, InOp
    <3>2. StoreTypeOK'
      BY <2>5, <3>1, PushStep DEF PushFront, TypeOK, StoreTypeOK, boundVars
    <3>3. ThreadTypeOK'
      BY <2>5 DEF PushFront, Goto, TypeOK, ThreadTypeOK, boundVars, Pcs, InOp
    <3> QED
      BY <3>2, <3>3 DEF TypeOK
  <2>6. CASE Shrink(t)
    <3>1. StoreTypeOK'
      BY <2>6 DEF Shrink, TypeOK, StoreTypeOK, ThreadTypeOK, boundVars
    <3>2. ThreadTypeOK'
      <4>1. CASE Leave(t)
        BY <2>6, <4>1, LeaveTypes DEF Shrink, TypeOK, boundVars
      <4>2. CASE ~Leave(t)
        BY <2>6, <4>2 DEF Shrink, Goto, TypeOK, ThreadTypeOK, boundVars, Pcs, InOp
      <4> QED
        BY <4>1, <4>2
    <3> QED
      BY <3>1, <3>2 DEF TypeOK
  <2>7. CASE Delink(t)
    <3>1. CASE EvictReturns(t) /\ UNCHANGED list
      <4>1. StoreTypeOK'
        BY <2>7, <3>1 DEF Delink, TypeOK, StoreTypeOK, boundVars
      <4>2. ThreadTypeOK'
        BY <2>7, <3>1, EvictReturnsTypes DEF Delink, TypeOK, boundVars
      <4> QED
        BY <4>1, <4>2 DEF TypeOK
    <3>2. CASE ~(EvictReturns(t) /\ UNCHANGED list)
      <4>1. /\ list # <<>> /\ list' = SubSeq(list, 1, Len(list) - 1)
            /\ evicting' = [evicting EXCEPT ![t] = Last]
            /\ pc' = [pc EXCEPT ![t] = "evictMap"]
            /\ UNCHANGED <<op, node, held, local, seen, again>>
            /\ UNCHANGED <<map, cur, size, keyOf, ops, clears>>
        BY <2>7, <3>2 DEF Delink, CanEvict, Goto, boundVars
      <4>2. list' \in Seq(Node) /\ Last \in 0 .. MaxOps
        BY <4>1, PopStep, CacheAssumption DEF Node
      <4>3. StoreTypeOK'
        BY <4>1, <4>2 DEF TypeOK, StoreTypeOK
      <4>4. ThreadTypeOK'
        BY <4>1, <4>2 DEF TypeOK, ThreadTypeOK, Pcs, InOp
      <4> QED
        BY <4>3, <4>4 DEF TypeOK
    <3> QED
      BY <3>1, <3>2
  <2>8. CASE Erase(t)
    <3>0. StoreTypeOK /\ map \in [Map -> [Keys -> 0 .. MaxOps]]
      BY DEF TypeOK, StoreTypeOK
    <3>1. StoreTypeOK'
      <4>1. map' \in [Map -> [Keys -> 0 .. MaxOps]]
        <5> DEFINE k == keyOf[evicting[t]]
        <5>1. local[t] \in Map /\ 0 \in 0 .. MaxOps
          BY CacheAssumption DEF TypeOK, ThreadTypeOK
        <5>2. map' = map \/ map' = [map EXCEPT ![local[t]][k] = 0]
          BY <2>8 DEF Erase, Null
        <5> HIDE DEF k
        <5>3. [map EXCEPT ![local[t]][k] = 0] \in [Map -> [Keys -> 0 .. MaxOps]]
          BY <3>0, <5>1, MapUpdate
        <5> QED
          BY <3>0, <5>2, <5>3
      <4> QED
        BY <2>8, <4>1 DEF Erase, TypeOK, StoreTypeOK, boundVars
    <3>2. ThreadTypeOK'
      BY <2>8, EvictReturnsTypes DEF Erase, TypeOK, boundVars
    <3> QED
      BY <3>1, <3>2 DEF TypeOK
  <2>9. CASE Clear(t)
    <3>1. StoreTypeOK'
      <4>1. cur' \in Map /\ cur' = clears'
        BY <2>9, CacheAssumption DEF Clear, TypeOK, StoreTypeOK, Map
      <4>2. <<>> \in Seq(Node)
        BY EmptySeq
      <4> QED
        BY <2>9, <4>1, <4>2 DEF Clear, TypeOK, StoreTypeOK
    <3>2. ThreadTypeOK'
      BY <2>9 DEF Clear, Goto, TypeOK, ThreadTypeOK, Pcs
    <3> QED
      BY <3>1, <3>2 DEF TypeOK
  <2>10. CASE ClearSize(t) \/ SnapshotPairs(t) \/ LockList(t) \/ NextPair(t)
    <3>1. StoreTypeOK'
      BY <2>10 DEF ClearSize, SnapshotPairs, LockList, NextPair, TypeOK, StoreTypeOK,
                   boundVars
    <3>2. ThreadTypeOK'
      <4>1. CASE Leave(t)
        BY <2>10, <4>1, LeaveTypes
           DEF ClearSize, SnapshotPairs, LockList, NextPair, TypeOK, boundVars
      <4>2. CASE ~Leave(t)
        <5> USE DEF Goto, TypeOK, StoreTypeOK, ThreadTypeOK, boundVars, Pcs, InOp
        <5>1. CASE ClearSize(t)
          BY <4>2, <5>1 DEF ClearSize
        <5>2. CASE SnapshotPairs(t)
          BY <4>2, <5>2 DEF SnapshotPairs
        <5>3. CASE LockList(t)
          BY <4>2, <5>3 DEF LockList
        <5>4. CASE NextPair(t)
          BY <4>2, <5>4 DEF NextPair
        <5> QED
          BY <2>10, <5>1, <5>2, <5>3, <5>4
      <4> QED
        BY <4>1, <4>2
    <3> QED
      BY <3>1, <3>2 DEF TypeOK
  <2> QED
    BY <1>2, <2>1, <2>2, <2>3, <2>4, <2>5, <2>6, <2>7, <2>8, <2>9, <2>10 DEF Step
<1> QED
  BY <1>0, <1>1, <1>2 DEF Next

-----------------------------------------------------------------------------
(***************************************************************************)
(* Who refers to which node.                                               *)
(***************************************************************************)
\* A step of one thread leaves the local variables of the others alone.
LEMMA OthersKeep ==
  ASSUME TypeOK, NEW t \in Threads,
         \/ Step(t) \/ Clear(t) \/ SnapshotPairs(t)
         \/ \E o \in Ops, k \in Keys : Begin(t, o, k)
  PROVE  \A u \in Threads \ {t} :
           /\ pc'[u] = pc[u] /\ node'[u] = node[u] /\ held'[u] = held[u]
           /\ local'[u] = local[u] /\ seen'[u] = seen[u]
           /\ evicting'[u] = evicting[u] /\ again'[u] = again[u]
<1> USE DEF TypeOK, ThreadTypeOK, Goto, Leave
<1>1. CASE Find(t) \/ Touch(t) \/ LoadMap(t) \/ Insert(t) \/ LoadSize(t) \/ PushFront(t)
  BY <1>1 DEF Find, Touch, LoadMap, Insert, LoadSize, PushFront
<1>2. CASE Count(t) \/ Shrink(t) \/ Delink(t) \/ EvictMap(t) \/ Erase(t)
  BY <1>2 DEF Count, Shrink, Delink, EvictMap, Erase, EvictReturns
<1>3. CASE ClearSize(t) \/ LockList(t) \/ NextPair(t) \/ Clear(t) \/ SnapshotPairs(t)
  BY <1>3 DEF ClearSize, LockList, NextPair, Clear, SnapshotPairs
<1>4. CASE \E o \in Ops, k \in Keys : Begin(t, o, k)
  BY <1>4 DEF Begin
<1> QED
  BY <1>1, <1>2, <1>3, <1>4 DEF Step

\* What is left of an operation that has ended.
LEMMA LeaveLeaves ==
  ASSUME TypeOK, NEW t \in Threads, Leave(t)
  PROVE  /\ pc'[t] = "idle" /\ node'[t] = Null /\ held'[t] = Null /\ local'[t] = 0
         /\ evicting'[t] = Null /\ again'[t] = FALSE
  BY DEF TypeOK, ThreadTypeOK, Leave, Goto

\* The thread after evict: it pushes its node, or is through.
LEMMA EvictReturnsLeaves ==
  ASSUME TypeOK, NEW t \in Threads, EvictReturns(t)
  PROVE  /\ again[t] <=> Leave(t)
         /\ ~again[t] => /\ pc'[t] = "push" /\ node'[t] = node[t] /\ held'[t] = held[t]
                         /\ local'[t] = local[t] /\ seen'[t] = seen[t]
                         /\ evicting'[t] = Null /\ again'[t] = FALSE
<1>1. CASE Leave(t)
  <2>1. pc'[t] = "idle"
    BY <1>1, LeaveLeaves
  <2>2. again[t]
    BY <2>1 DEF EvictReturns, Goto, TypeOK, ThreadTypeOK
  <2> QED
    BY <1>1, <2>2
<1>2. CASE ~Leave(t)
  BY <1>2 DEF EvictReturns, Goto, TypeOK, ThreadTypeOK
<1> QED
  BY <1>1, <1>2

LEMMA InitNodeInv == Init => NodeInv
  BY CacheAssumption
     DEF Init, NodeInv, KeysKnown, ThreadNodes, OwnNode, ListNodes, MapNodes, Map, Node, Null,
         InOp, Evicts

\* The key and the entry of a thread that looks its key up.
LEMMA Lookup ==
  ASSUME TypeOK, NodeInv, NEW t \in Threads, pc[t] \in InOp
  PROVE  /\ node[t] \in 1 .. ops /\ node[t] \in Node /\ Key(t) \in Keys /\ local[t] \in Map
         /\ map[local[t]][Key(t)] \in 0 .. MaxOps /\ map[local[t]][Key(t)] <= ops
         /\ ops \in Nat
<1>1. node[t] \in 1 .. ops /\ node[t] \in Node /\ ops \in Nat /\ local[t] \in Map
  BY CacheAssumption DEF NodeInv, ThreadNodes, TypeOK, ThreadTypeOK, Null, Node
<1>2. Key(t) \in Keys
  BY <1>1 DEF NodeInv, KeysKnown, Key
<1>3. map[local[t]][Key(t)] \in 0 .. MaxOps
  BY <1>1, <1>2 DEF TypeOK, StoreTypeOK
<1>4. map[local[t]][Key(t)] <= ops
  BY <1>1, <1>2, <1>3 DEF NodeInv, MapNodes, Null
<1> QED
  BY <1>1, <1>2, <1>3, <1>4

LEMMA NextNodeInv == TypeOK /\ NodeInv /\ [Next]_vars => NodeInv'
<1> SUFFICES ASSUME TypeOK, NodeInv, [Next]_vars PROVE NodeInv'
  OBVIOUS
<1>0. CASE UNCHANGED vars
  BY <1>0 DEF vars, NodeInv, KeysKnown, ThreadNodes, OwnNode, ListNodes, MapNodes, Evicts
<1>1. ASSUME NEW t \in Threads, NEW o \in Ops, NEW k \in Keys, Begin(t, o, k)
      PROVE  NodeInv'
  <2>1. /\ ops' = ops + 1 /\ ops \in Nat /\ ops + 1 \in Node
        /\ keyOf' = [keyOf EXCEPT ![ops + 1] = k]
        /\ UNCHANGED <<map, cur, list, held, evicting, again>>
        /\ node' = [node EXCEPT ![t] = ops + 1] /\ local' = [local EXCEPT ![t] = cur]
        /\ pc' = [pc EXCEPT ![t] = "find"] /\ pc[t] = "idle"
    BY <1>1, CacheAssumption DEF TypeOK, ThreadTypeOK, Begin, Node, Goto
  <2>2. \A n \in 1 .. ops : keyOf'[n] = keyOf[n] /\ n \in Node
    BY <2>1, CacheAssumption DEF TypeOK, StoreTypeOK, Node
  <2>3. KeysKnown'
    BY <2>1, <2>2 DEF NodeInv, KeysKnown, TypeOK, StoreTypeOK
  <2>4. ThreadNodes'
    <3> SUFFICES ASSUME NEW u \in Threads PROVE ThreadNodes!(u)'
      BY DEF ThreadNodes
    <3>1. CASE u = t
      <4>0. held[t] \in Int /\ evicting[t] \in Int /\ cur \in Int
        BY DEF TypeOK, ThreadTypeOK, StoreTypeOK, Map
      <4>1. /\ held[t] <= ops + 1 /\ evicting[t] <= ops + 1
            /\ ~again[t] /\ cur <= cur
        BY <2>1, <4>0 DEF NodeInv, ThreadNodes
      <4>2. /\ pc'[t] = "find" /\ node'[t] = ops + 1 /\ local'[t] = cur
            /\ held'[t] = held[t] /\ evicting'[t] = evicting[t] /\ again'[t] = again[t]
        BY <2>1 DEF TypeOK, ThreadTypeOK
      <4> QED
        BY <2>1, <3>1, <4>1, <4>2 DEF Evicts, Null
    <3>2. CASE u # t
      BY <2>1, <3>2 DEF NodeInv, ThreadNodes, TypeOK, ThreadTypeOK, Evicts
    <3> QED
      BY <3>1, <3>2
  <2>5. OwnNode'
    BY <2>1 DEF NodeInv, OwnNode, ThreadNodes, TypeOK, ThreadTypeOK
  <2>6. ListNodes'
    <3>1. \A i \in DOMAIN list : list[i] \in Node
      BY ElementOfSeq, LenProperties DEF TypeOK, StoreTypeOK
    <3> QED
      BY <2>1, <3>1 DEF NodeInv, ListNodes, Node
  <2>7. MapNodes'
    <3> SUFFICES ASSUME NEW m \in Map, NEW l \in Keys, map[m][l] # Null
                 PROVE  map[m][l] <= ops + 1 /\ keyOf'[map[m][l]] = l /\ m <= cur
      BY <2>1 DEF MapNodes
    <3>1. map[m][l] \in 1 .. ops /\ keyOf[map[m][l]] = l /\ m <= cur
      BY <2>1 DEF NodeInv, MapNodes, TypeOK, StoreTypeOK, Null
    <3> QED
      BY <2>1, <2>2, <3>1
  <2> QED
    BY <2>3, <2>4, <2>5, <2>6, <2>7 DEF NodeInv
<1>2. ASSUME NEW t \in Threads, Step(t) \/ Clear(t) \/ SnapshotPairs(t)
      PROVE  NodeInv'
  <2> DEFINE Mine == /\ node'[t] <= ops /\ held'[t] <= ops /\ evicting'[t] <= ops
                     /\ pc'[t] \in InOp => node'[t] # Null
                     /\ Evicts(t)' => evicting'[t] # Null
                     /\ again'[t] => pc'[t] \in {"evict", "evictMap", "erase"}
                     /\ local'[t] <= cur' /\ node'[t] \in {node[t], Null}
             Store == ListNodes' /\ MapNodes'
  <2>1. UNCHANGED <<keyOf, ops>> /\ (cur' = cur \/ cur' = cur + 1) /\ cur \in Nat
    BY <1>2 DEF Step, Find, Touch, LoadMap, Insert, LoadSize, PushFront, Count, Shrink, Delink,
                EvictMap, Erase, ClearSize, LockList, NextPair, Clear, SnapshotPairs, boundVars,
                TypeOK, StoreTypeOK, Map
  <2>2. Mine /\ Store => NodeInv'
    <3> SUFFICES ASSUME Mine, Store PROVE NodeInv'
      OBVIOUS
    <3>1. KeysKnown'
      BY <2>1 DEF NodeInv, KeysKnown
    <3>2. \A u \in Threads \ {t} :
            /\ pc'[u] = pc[u] /\ node'[u] = node[u] /\ held'[u] = held[u]
            /\ local'[u] = local[u] /\ evicting'[u] = evicting[u] /\ again'[u] = again[u]
      BY <1>2, OthersKeep
    <3>3. ThreadNodes'
      <4> SUFFICES ASSUME NEW u \in Threads PROVE ThreadNodes!(u)'
        BY DEF ThreadNodes
      <4>1. CASE u = t
        BY <2>1, <4>1
      <4>2. CASE u # t
        BY <2>1, <3>2, <4>2 DEF NodeInv, ThreadNodes, Evicts, TypeOK, ThreadTypeOK, Map
      <4> QED
        BY <4>1, <4>2
    <3>4. OwnNode'
      BY <3>2 DEF NodeInv, OwnNode
    <3> QED
      BY <3>1, <3>3, <3>4 DEF NodeInv
  <2> USE DEF NodeInv, ThreadNodes, ListNodes, MapNodes, Evicts, InOp, Null
  <2>3. CASE Leave(t) /\ UNCHANGED <<map, cur>> /\ (list' = list \/ Touch(t))
    <3>1. Mine
      <4>1. 0 <= ops /\ 0 <= cur /\ UNCHANGED cur
        BY <2>1, <2>3 DEF TypeOK, ThreadTypeOK
      <4> QED
        BY <2>1, <2>3, <4>1, LeaveLeaves
    <3>2. MapNodes'
      BY <2>1, <2>3
    <3>3. ListNodes'
      BY <2>1, <2>3, TouchStep
    <3> QED
      BY <2>2, <3>1, <3>2, <3>3
  <2>4. CASE Find(t) /\ ~Leave(t)
    <3>1. map[local[t]][Key(t)] <= ops
      BY <2>4, Lookup DEF Find
    <3>2. Mine
      BY <2>1, <2>4, <3>1 DEF Find, Goto, TypeOK, ThreadTypeOK
    <3> QED
      BY <2>1, <2>2, <2>4, <3>2 DEF Find
  <2>5. CASE LoadMap(t) \/ LoadSize(t) \/ EvictMap(t) \/ Count(t)
    <3>1. Mine
      BY <2>1, <2>5 DEF LoadMap, LoadSize, EvictMap, Count, Goto, TypeOK, ThreadTypeOK,
                        StoreTypeOK
    <3> QED
      BY <2>1, <2>2, <2>5, <3>1 DEF LoadMap, LoadSize, EvictMap, Count
  <2>6. CASE Insert(t)
    <3>0. StoreTypeOK /\ pc[t] \in InOp
      BY <2>6 DEF Insert, TypeOK
    <3>1. /\ map[local[t]][Key(t)] <= ops /\ node[t] \in 1 .. ops /\ node[t] \in 0 .. MaxOps
          /\ Key(t) \in Keys /\ local[t] \in Map /\ ops \in Nat
      BY <3>0, Lookup DEF TypeOK, ThreadTypeOK
    <3>2. Mine
      BY <2>1, <2>6, <3>1 DEF Insert, Goto, TypeOK, ThreadTypeOK
    <3>3. CASE map' = map
      BY <2>1, <2>2, <2>6, <3>2, <3>3 DEF Insert
    <3>4. CASE map' # map
      <4>1. map' = [map EXCEPT ![local[t]][Key(t)] = node[t]]
        BY <2>6, <3>4 DEF Insert
      <4>2. \A m \in Map, l \in Keys :
              map'[m][l] = IF m = local[t] /\ l = Key(t) THEN node[t] ELSE map[m][l]
        BY <3>0, <3>1, <4>1, MapUpdate
      <4>3. MapNodes'
        BY <2>1, <2>6, <3>1, <4>2 DEF Insert, Key
      <4> QED
        BY <2>1, <2>2, <2>6, <3>2, <4>3 DEF Insert
    <3> QED
      BY <3>3, <3>4
  <2>7. CASE PushFront(t)
    <3>1. Mine
      BY <2>1, <2>7 DEF PushFront, Goto, TypeOK, ThreadTypeOK
    <3>2. ListNodes'
      <4>1. node[t] # Null /\ node[t] <= ops
        BY <2>7 DEF PushFront
      <4>2. /\ DOMAIN list = 1 .. Len(list) /\ DOMAIN list' = 1 .. Len(list) + 1
            /\ \A i \in 1 .. Len(list) + 1 : list'[i] = IF i = 1 THEN node[t] ELSE list[i - 1]
            /\ Len(list) \in Nat
        BY <2>7, <4>1, PushStep
      <4> QED
        BY <2>1, <4>1, <4>2
    <3> QED
      BY <2>1, <2>2, <2>7, <3>1, <3>2 DEF PushFront
  <2>8. CASE Shrink(t) /\ ~Leave(t)
    <3>1. Mine
      BY <2>1, <2>8 DEF Shrink, Goto, TypeOK, ThreadTypeOK
    <3> QED
      BY <2>1, <2>2, <2>8, <3>1 DEF Shrink
  <2>9. CASE Delink(t) /\ ~(EvictReturns(t) /\ UNCHANGED list)
    <3>1. /\ list # <<>> /\ list' = SubSeq(list, 1, Len(list) - 1)
          /\ evicting' = [evicting EXCEPT ![t] = Last]
          /\ pc' = [pc EXCEPT ![t] = "evictMap"] /\ pc[t] = "evict"
          /\ UNCHANGED <<op, node, held, local, seen, again>>
          /\ UNCHANGED <<map, cur, size, keyOf, ops, clears>>
      BY <2>9 DEF Delink, CanEvict, Goto, boundVars
    <3>2. /\ DOMAIN list = 1 .. Len(list) /\ DOMAIN list' = 1 .. Len(list) - 1
          /\ Last \in Node /\ InList(Last) /\ Len(list) \in Nat
          /\ \A i \in 1 .. Len(list) - 1 : list'[i] = list[i]
      BY <3>1, PopStep
    <3>3. ListNodes' /\ Last <= ops /\ Last # 0
      BY <2>1, <3>2 DEF InList, Node
    <3>4. Mine
      BY <2>1, <3>1, <3>3 DEF TypeOK, ThreadTypeOK
    <3> QED
      BY <2>1, <2>2, <3>1, <3>3, <3>4
  <2>10. CASE Erase(t) \/ (Delink(t) /\ EvictReturns(t) /\ UNCHANGED list)
    <3>1. UNCHANGED <<list, cur>> /\ EvictReturns(t) /\ pc[t] \in {"evict", "erase"}
      BY <2>10 DEF Erase, Delink
    <3>2. Mine
      <4>1. CASE Leave(t)
        <5>1. 0 <= ops /\ 0 <= cur
          BY <2>1 DEF TypeOK, ThreadTypeOK
        <5> QED
          BY <2>1, <3>1, <4>1, <5>1, LeaveLeaves
      <4>2. CASE ~Leave(t)
        <5>1. 0 <= ops
          BY <2>1 DEF TypeOK, ThreadTypeOK
        <5> QED
          BY <2>1, <3>1, <4>2, <5>1, EvictReturnsLeaves
      <4> QED
        BY <4>1, <4>2
    <3>3. MapNodes'
      <4>1. CASE map' = map
        BY <2>1, <3>1, <4>1
      <4>2. CASE map' # map
        <5> DEFINE k == keyOf[evicting[t]]
        <5>1. map' = [map EXCEPT ![local[t]][k] = 0]
          BY <2>10, <4>2 DEF Erase, Delink
        <5>2. StoreTypeOK /\ local[t] \in Map /\ 0 \in 0 .. MaxOps
          BY CacheAssumption DEF TypeOK, ThreadTypeOK
        <5> HIDE DEF k
        <5>3. \A m \in Map, l \in Keys : map'[m][l] \in {0, map[m][l]}
          BY <5>1, <5>2, MapUpdate
        <5> QED
          BY <2>1, <3>1, <5>3
      <4> QED
        BY <4>1, <4>2
    <3> QED
      BY <2>1, <2>2, <3>1, <3>2, <3>3
  <2>11. CASE Clear(t)
    <3>1. Mine
      BY <2>1, <2>11 DEF Clear, Goto, TypeOK, ThreadTypeOK, StoreTypeOK, Map
    <3>2. ListNodes'
      BY <2>11 DEF Clear
    <3>3. MapNodes'
      BY <2>1, <2>11 DEF Clear, Map
    <3> QED
      BY <2>2, <3>1, <3>2, <3>3
  <2>12. CASE (SnapshotPairs(t) \/ LockList(t) \/ NextPair(t)) /\ ~Leave(t)
    <3>1. Mine
      <4>1. CASE SnapshotPairs(t)
        BY <2>1, <4>1 DEF SnapshotPairs, Goto, TypeOK, ThreadTypeOK
      <4>2. CASE LockList(t)
        BY <2>1, <4>2 DEF LockList, Goto, TypeOK, ThreadTypeOK
      <4>3. CASE NextPair(t) /\ ~Leave(t)
        BY <2>1, <4>3 DEF NextPair
      <4> QED
        BY <2>12, <4>1, <4>2, <4>3
    <3> QED
      BY <2>1, <2>2, <2>12, <3>1 DEF SnapshotPairs, LockList, NextPair
  <2>13. Leave(t) => \/ UNCHANGED <<map, cur>> /\ (list' = list \/ Touch(t))
                     \/ Erase(t) \/ Delink(t)
    <3>1. Leave(t) => ~Insert(t) /\ ~PushFront(t) /\ ~Clear(t)
      <4>1. Insert(t) \/ PushFront(t) \/ Clear(t) => pc'[t] # "idle"
        BY DEF Insert, PushFront, Clear, Goto, TypeOK, ThreadTypeOK
      <4> QED
        BY <4>1, LeaveLeaves
    <3>2. \/ Insert(t) \/ PushFront(t) \/ Clear(t) \/ Erase(t) \/ Delink(t)
          \/ UNCHANGED <<map, cur>> /\ (list' = list \/ Touch(t))
      BY <1>2 DEF Step, Find, Touch, LoadMap, LoadSize, Count, Shrink,
                  EvictMap, ClearSize, LockList, NextPair, SnapshotPairs
    <3> QED
      BY <3>1, <3>2
  <2>14. Touch(t) \/ ClearSize(t) => Leave(t)
    BY DEF Touch, ClearSize
  <2> QED
    BY <1>2, <2>3, <2>4, <2>5, <2>6, <2>7, <2>8, <2>9, <2>10, <2>11, <2>12, <2>13, <2>14,
       Zenon DEF Step
<1> QED
  BY <1>0, <1>1, <1>2 DEF Next

-----------------------------------------------------------------------------
(***************************************************************************)
(* No entry is left behind.                                                *)
(***************************************************************************)
LEMMA InitEvictable == Init => EntryEvictable
  BY CacheAssumption DEF Init, EntryEvictable, Map

LEMMA NextEvictable ==
  TypeOK /\ NodeInv /\ EntryEvictable /\ [Next]_vars => EntryEvictable'
<1> SUFFICES ASSUME TypeOK, NodeInv, EntryEvictable, [Next]_vars PROVE EntryEvictable'
  OBVIOUS
<1>0. CASE UNCHANGED vars
  BY <1>0 DEF vars, EntryEvictable, InList, Pushing, Erasing
<1>1. CASE Next
  <2>1. PICK t \in Threads : \/ Step(t) \/ Clear(t) \/ SnapshotPairs(t)
                             \/ \E o \in Ops, k \in Keys : Begin(t, o, k)
    BY <1>1 DEF Next
  <2> SUFFICES ASSUME NEW k \in Keys, NEW n, n = map'[cur'][k], n # Null
               PROVE  \/ InList(n)'
                      \/ \E u \in Threads : Pushing(u, n)' \/ Erasing(u, k)'
    BY DEF EntryEvictable
  <2> DEFINE Safe == \/ InList(n)' \/ \E u \in Threads : Pushing(u, n)' \/ Erasing(u, k)'
  <2>2. CASE Clear(t)
    <3>1. cur + 1 \in Map /\ n = map[cur + 1][k] /\ cur \in Nat
      BY <2>2, CacheAssumption DEF Clear, TypeOK, StoreTypeOK, Map
    <3> QED
      BY <3>1 DEF NodeInv, MapNodes
  <2>3. CASE ~Clear(t)
    <3>1. cur' = cur /\ cur \in Map
      BY <2>1, <2>3 DEF Step, Find, Touch, LoadMap, Insert, LoadSize, PushFront, Count,
           Shrink, Delink, EvictMap, Erase, ClearSize, LockList, NextPair, SnapshotPairs, Begin,
           TypeOK, StoreTypeOK
    <3>2. StoreTypeOK /\ local[t] \in Map /\ map[cur][k] \in 0 .. MaxOps
      BY <3>1 DEF TypeOK, StoreTypeOK, ThreadTypeOK
    <3>3. CASE map[cur][k] # n
      <4>1. map' # map
        BY <3>1, <3>3
      <4>2. Insert(t) \/ Erase(t)
        BY <2>1, <2>3, <4>1 DEF Step, Find, Touch, LoadMap, LoadSize, PushFront, Count,
             Shrink, Delink, EvictMap, ClearSize, LockList, NextPair, SnapshotPairs, Begin
      <4>3. CASE Erase(t)
        <5> DEFINE l == keyOf[evicting[t]]
        <5>1. map' = [map EXCEPT ![local[t]][l] = 0] /\ 0 \in 0 .. MaxOps
          BY <4>1, <4>3, CacheAssumption DEF Erase, Null
        <5> HIDE DEF l
        <5>2. n \in {0, map[cur][k]}
          BY <3>1, <3>2, <5>1, MapUpdate
        <5> QED
          BY <3>3, <5>2 DEF Null
      <4>4. CASE Insert(t)
        <5>1. /\ map' = [map EXCEPT ![local[t]][Key(t)] = node[t]]
              /\ pc'[t] = "size" /\ node' = node /\ again' = again /\ pc[t] = "insert"
          BY <4>1, <4>4 DEF Insert, Goto, TypeOK, ThreadTypeOK
        <5>2. node[t] \in 0 .. MaxOps
          BY DEF TypeOK, ThreadTypeOK
        <5>3. n = node[t]
          BY <3>1, <3>2, <3>3, <5>1, <5>2, MapUpdate
        <5>4. ~again[t]
          BY <5>1 DEF NodeInv, ThreadNodes
        <5>5. Pushing(t, n)'
          BY <5>1, <5>3, <5>4 DEF Pushing
        <5> QED
          BY <5>5
      <4> QED
        BY <4>2, <4>3, <4>4
    <3>4. CASE map[cur][k] = n
      <4>1. n \in 1 .. ops /\ keyOf[n] = k
        BY <3>1, <3>2, <3>4 DEF NodeInv, MapNodes, Null, TypeOK, ThreadTypeOK
      <4>2. \/ InList(n) \/ \E u \in Threads : Pushing(u, n) \/ Erasing(u, k)
        BY <3>4 DEF EntryEvictable
      <4>3. CASE InList(n)
        <5>1. CASE list' = list
          BY <4>3, <5>1 DEF InList
        <5>2. CASE Touch(t)
          BY <4>3, <5>2, TouchStep
        <5>3. CASE PushFront(t)
          <6>1. node[t] # Null
            BY <5>3 DEF PushFront, NodeInv, ThreadNodes, InOp
          <6> QED
            BY <4>3, <5>3, <6>1, PushStep
        <5>4. CASE Delink(t) /\ list' # list
          <6>1. /\ list # <<>> /\ list' = SubSeq(list, 1, Len(list) - 1)
                /\ evicting'[t] = Last /\ pc'[t] = "evictMap" /\ keyOf' = keyOf
            BY <5>4 DEF Delink, CanEvict, Goto, TypeOK, ThreadTypeOK
          <6>2. CASE n = Last
            <7>1. Erasing(t, k)'
              BY <4>1, <6>1, <6>2 DEF Erasing
            <7> QED
              BY <7>1
          <6>3. CASE n # Last
            BY <4>3, <6>1, <6>3, PopStep
          <6> QED
            BY <6>2, <6>3
        <5> QED
          BY <2>1, <2>3, <5>1, <5>2, <5>3, <5>4
             DEF Step, Find, LoadMap, Insert, LoadSize, Count, Shrink, Delink, EvictMap, Erase,
                 ClearSize, LockList, NextPair, SnapshotPairs, Begin
      <4>4. ASSUME NEW u \in Threads, Pushing(u, n) \/ Erasing(u, k) PROVE Safe
        <5>1. CASE u # t
          <6>1. /\ pc'[u] = pc[u] /\ node'[u] = node[u] /\ local'[u] = local[u]
                /\ evicting'[u] = evicting[u] /\ again'[u] = again[u]
            BY <2>1, <5>1, OthersKeep
          <6>2. Erasing(u, k) => keyOf'[evicting[u]] = keyOf[evicting[u]]
            <7>1. CASE keyOf' = keyOf
              BY <7>1
            <7>2. CASE keyOf' # keyOf
              <8>1. PICK l \in Keys : keyOf' = [keyOf EXCEPT ![ops + 1] = l]
                BY <2>1, <2>3, <7>2 DEF Step, Find, Touch, LoadMap, Insert, LoadSize, PushFront,
                     Count, Shrink, Delink, EvictMap, Erase, ClearSize, LockList, NextPair,
                     SnapshotPairs, Begin
              <8>2. Erasing(u, k) => evicting[u] \in 1 .. ops /\ ops \in 0 .. MaxOps
                BY DEF Erasing, Evicts, NodeInv, ThreadNodes, TypeOK, ThreadTypeOK, Null
              <8> QED
                BY <8>1, <8>2, CacheAssumption DEF TypeOK, StoreTypeOK, Node
            <7> QED
              BY <7>1, <7>2
          <6>3. Pushing(u, n)' \/ Erasing(u, k)'
            BY <3>1, <4>4, <6>1, <6>2 DEF Pushing, Erasing
          <6> QED
            BY <6>3
        <5>2. CASE u = t /\ Pushing(u, n)
          <6>0. /\ node[t] = n /\ ~again[t]
                /\ pc[t] \in {"size", "push", "evict", "evictMap", "erase"}
            BY <5>2 DEF Pushing
          <6>1. CASE PushFront(t)
            <7>1. node[t] # Null
              BY <4>1, <6>0 DEF Null
            <7>2. InList(n)'
              BY <6>0, <6>1, <7>1, PushStep
            <7> QED
              BY <7>2
          <6>2. CASE LoadSize(t) \/ EvictMap(t)
            <7>1. /\ pc'[t] \in {"push", "evict", "erase"} /\ node' = node
                  /\ again' = again
              BY <6>2 DEF LoadSize, EvictMap, Goto, TypeOK, ThreadTypeOK
            <7>2. Pushing(t, n)'
              BY <6>0, <7>1 DEF Pushing
            <7> QED
              BY <7>2
          <6>3. CASE Erase(t) \/ Delink(t)
            <7>1. \/ EvictReturns(t)
                  \/ pc'[t] = "evictMap" /\ node'[t] = node[t] /\ again'[t] = again[t]
              BY <6>3 DEF Erase, Delink, Goto, TypeOK, ThreadTypeOK
            <7>2. /\ pc'[t] \in {"push", "evictMap"} /\ node'[t] = n /\ ~again'[t]
              <8>1. CASE EvictReturns(t)
                BY <6>0, <8>1, EvictReturnsLeaves
              <8>2. CASE ~EvictReturns(t)
                BY <6>0, <7>1, <8>2
              <8> QED
                BY <8>1, <8>2
            <7>3. Pushing(t, n)'
              BY <7>2 DEF Pushing
            <7> QED
              BY <7>3
          <6> QED
            BY <2>1, <2>3, <6>0, <6>1, <6>2, <6>3
               DEF Step, Find, Touch, LoadMap, Insert, Count, Shrink,
                 ClearSize, LockList, NextPair, SnapshotPairs, Begin
        <5>3. CASE u = t /\ Erasing(u, k)
          <6>1. CASE EvictMap(t)
            <7>1. Erasing(t, k)'
              BY <3>1, <5>3, <6>1 DEF EvictMap, Erasing, Goto, TypeOK, ThreadTypeOK
            <7> QED
              BY <7>1
          <6>2. CASE Erase(t)
            <7>1. local[t] = cur /\ keyOf[evicting[t]] = k
              BY <5>3, <6>2 DEF Erase, Erasing
            <7>2. map' = [map EXCEPT ![local[t]][k] = 0] /\ 0 \in 0 .. MaxOps
              BY <3>4, <6>2, <7>1, CacheAssumption DEF Erase, Null
            <7>3. n = 0
              BY <3>1, <3>2, <7>1, <7>2, MapUpdate
            <7> QED
              BY <7>3 DEF Null
          <6> QED
            BY <2>1, <2>3, <5>3, <6>1, <6>2
               DEF Erasing, Step, Find, Touch, LoadMap, Insert, LoadSize, PushFront, Count,
                 Shrink, Delink, ClearSize, LockList, NextPair, SnapshotPairs, Begin
        <5> QED
          BY <4>4, <5>1, <5>2, <5>3
      <4> QED
        BY <4>2, <4>3, <4>4
    <3> QED
      BY <3>3, <3>4
  <2> QED
    BY <2>2, <2>3
<1> QED
  BY <1>0, <1>1

-----------------------------------------------------------------------------
(***************************************************************************)
(* Map and list agree until clear() is used.                               *)
(***************************************************************************)
LEMMA InitAgree == Init => AgreeInv
  BY DEF Init, AgreeInv, Agree, ListEntries, ListOnce, Evicted, Inserted, NotYetInserted,
         Evicts, Inserting, Fresh, InList

\* The nodes of the list, and what a thread evicts, have a key and are not Null.
LEMMA NodesHaveKeys ==
  ASSUME TypeOK, NodeInv
  PROVE  /\ \A i \in DOMAIN list : list[i] \in 1 .. ops /\ keyOf[list[i]] \in Keys
         /\ \A t \in Threads : Evicts(t) =>
              evicting[t] \in 1 .. ops /\ keyOf[evicting[t]] \in Keys
         /\ ops \in Nat /\ \A n \in 1 .. ops : n \in Node
<1>1. \A i \in DOMAIN list : list[i] \in Node
  BY ElementOfSeq, LenProperties DEF TypeOK, StoreTypeOK
<1>2. ops \in Nat /\ \A n \in 1 .. ops : n \in Node
  BY CacheAssumption DEF TypeOK, ThreadTypeOK, Node
<1> QED
  BY <1>1, <1>2
     DEF NodeInv, KeysKnown, ListNodes, ThreadNodes, TypeOK, ThreadTypeOK, Node, Null

\* Before the first clear there is one map.
LEMMA OneMap ==
  ASSUME TypeOK, NodeInv, clears = 0
  PROVE  cur = 0 /\ 0 \in Map /\ \A t \in Threads : local[t] = 0
<1>1. cur = 0 /\ 0 \in Map
  BY CacheAssumption DEF TypeOK, StoreTypeOK, Map
<1> QED
  BY <1>1 DEF NodeInv, ThreadNodes, TypeOK, ThreadTypeOK, Map

\* A step that leaves the list and the map as they are, and by which its thread
\* neither takes nor makes a node.
Still(t) ==
  /\ UNCHANGED <<map, list, keyOf>>
  /\ Evicts(t)' => Evicts(t) /\ evicting'[t] = evicting[t]
  /\ Inserting(t)' => Inserting(t) /\ node'[t] = node[t]
  /\ Fresh(t)' => Fresh(t) /\ node'[t] = node[t]

LEMMA StillAgree ==
  ASSUME Agree, NEW t \in Threads, Still(t),
         \A u \in Threads \ {t} : /\ pc'[u] = pc[u] /\ node'[u] = node[u]
                                  /\ evicting'[u] = evicting[u] /\ again'[u] = again[u]
  PROVE  Agree'
<1> USE DEF Agree
<1>1. /\ \A u \in Threads : Evicts(u)' => Evicts(u) /\ evicting'[u] = evicting[u]
      /\ \A u \in Threads : Inserting(u)' => Inserting(u) /\ node'[u] = node[u]
      /\ \A u \in Threads : Fresh(u)' => Fresh(u) /\ node'[u] = node[u]
  BY DEF Still, Evicts, Inserting, Fresh
<1>2. UNCHANGED <<map, list, keyOf>>
  BY DEF Still
<1>3. ListEntries' /\ ListOnce'
  BY <1>2 DEF ListEntries, ListOnce
<1>4. Evicted'
  <2>1. \A u \in Threads : Evicts(u)' => ~InList(evicting[u])'
    BY <1>1, <1>2 DEF Evicted, InList
  <2> QED
    BY <1>1, <1>2, <2>1 DEF Evicted, InList
<1>5. Inserted'
  BY <1>1, <1>2 DEF Inserted, InList, Key
<1>6. NotYetInserted'
  BY <1>1, <1>2 DEF NotYetInserted, Key
<1> QED
  BY <1>3, <1>4, <1>5, <1>6

\* Which steps are of that kind.
LEMMA StillSteps ==
  ASSUME TypeOK, NodeInv, NEW t \in Threads,
         \/ Find(t) \/ LoadMap(t) \/ LoadSize(t) \/ Count(t) \/ Shrink(t) \/ EvictMap(t)
         \/ ClearSize(t) \/ SnapshotPairs(t) \/ LockList(t) \/ NextPair(t)
         \/ (Insert(t) \/ Delink(t)) /\ UNCHANGED <<map, list>>
  PROVE  Still(t)
<1> USE DEF Still, Evicts, Inserting, Fresh
<1>1. CASE Leave(t)
  <2>1. UNCHANGED <<map, list, keyOf>>
    BY DEF Find, LoadMap, Insert, LoadSize, Count, Shrink, Delink, EvictMap, ClearSize,
           SnapshotPairs, LockList, NextPair
  <2> QED
    BY <1>1, <2>1, LeaveLeaves
<1>2. CASE ~Leave(t)
  <2>1. CASE Find(t) \/ LoadMap(t)
    BY <1>2, <2>1 DEF Find, LoadMap, Goto, TypeOK, ThreadTypeOK
  <2>6. CASE Insert(t) /\ UNCHANGED map
    <3>1. pc[t] = "insert" /\ UNCHANGED <<map, list, keyOf>>
      BY <2>6 DEF Insert
    <3>2. /\ node[t] # 0 /\ node[t] \in 0 .. MaxOps /\ Key(t) \in Keys /\ local[t] \in Map
          /\ StoreTypeOK
      BY <3>1, Lookup DEF TypeOK, ThreadTypeOK, InOp
    <3>3. map[local[t]][Key(t)] # 0
      <4>1. SUFFICES ASSUME map[local[t]][Key(t)] = 0 PROVE FALSE
        OBVIOUS
      <4>2. map = [map EXCEPT ![local[t]][Key(t)] = node[t]]
        BY <2>6, <4>1 DEF Insert, Null
      <4>3. map[local[t]][Key(t)] = node[t]
        BY <3>2, <4>2, MapUpdate
      <4> QED
        BY <3>2, <4>1, <4>3
    <3>4. pc'[t] = "touch"
      BY <2>6, <3>3 DEF Insert, Goto, TypeOK, ThreadTypeOK, Null
    <3> QED
      BY <3>1, <3>4
  <2>2. CASE LoadSize(t) \/ Count(t) \/ EvictMap(t)
    <3>1. CASE LoadSize(t)
      BY <3>1 DEF LoadSize, Goto, TypeOK, ThreadTypeOK
    <3>2. CASE Count(t)
      BY <3>2 DEF Count, Goto, TypeOK, ThreadTypeOK
    <3>3. CASE EvictMap(t)
      BY <3>3 DEF EvictMap, Goto, TypeOK, ThreadTypeOK
    <3> QED
      BY <2>2, <3>1, <3>2, <3>3
  <2>3. CASE Shrink(t)
    <3>1. /\ UNCHANGED <<map, list, keyOf>>
          /\ pc' = [pc EXCEPT ![t] = "evict"] /\ again' = [again EXCEPT ![t] = TRUE]
      BY <1>2, <2>3 DEF Shrink, Goto
    <3>2. pc'[t] = "evict" /\ again'[t]
      BY <3>1 DEF TypeOK, ThreadTypeOK
    <3> QED
      BY <3>1, <3>2
  <2>4. CASE SnapshotPairs(t) \/ LockList(t) \/ NextPair(t) \/ ClearSize(t)
    BY <1>2, <2>4 DEF SnapshotPairs, LockList, NextPair, ClearSize, Goto, TypeOK, ThreadTypeOK
  <2>5. CASE Delink(t) /\ UNCHANGED list
    <3>1. ~CanEvict(t)
      <4>1. SUFFICES ASSUME CanEvict(t) PROVE FALSE
        OBVIOUS
      <4>2. list # <<>> /\ list' = SubSeq(list, 1, Len(list) - 1)
        BY <2>5, <4>1, EvictReturnsLeaves DEF Delink, CanEvict
      <4>3. Len(list') = Len(list) - 1 /\ Len(list) \in Nat
        BY <4>2, PopStep
      <4> QED
        BY <2>5, <4>3
    <3>2. EvictReturns(t) /\ pc[t] = "evict" /\ UNCHANGED <<map, list, keyOf>>
      BY <2>5, <3>1 DEF Delink
    <3> QED
      BY <1>2, <3>2, EvictReturnsLeaves
  <2> QED
    BY <2>1, <2>2, <2>3, <2>4, <2>5, <2>6
<1> QED
  BY <1>1, <1>2

LEMMA NextAgree == TypeOK /\ NodeInv /\ AgreeInv /\ [Next]_vars => AgreeInv'
<1> SUFFICES ASSUME TypeOK, NodeInv, AgreeInv, [Next]_vars, clears' = 0 PROVE Agree'
  BY DEF AgreeInv
<1>0. CASE UNCHANGED vars
  BY <1>0 DEF vars, AgreeInv, Agree, ListEntries, ListOnce, Evicted, Inserted,
              NotYetInserted, Evicts, Inserting, Fresh, InList, Key
<1>1. CASE Next
  <2>1. PICK t \in Threads : \/ Step(t) \/ Clear(t) \/ SnapshotPairs(t)
                             \/ \E o \in Ops, k \in Keys : Begin(t, o, k)
    BY <1>1 DEF Next
  <2>2. clears = 0 /\ ~Clear(t)
    BY <2>1 DEF Step, Find, Touch, LoadMap, Insert, LoadSize, PushFront, Count, Shrink, Delink,
                EvictMap, Erase, ClearSize, LockList, NextPair, Clear, SnapshotPairs, Begin,
                boundVars, TypeOK, StoreTypeOK, Map
  <2>3. Agree
    BY <2>2 DEF AgreeInv
  <2>4. cur = 0 /\ 0 \in Map /\ \A u \in Threads : local[u] = 0
    BY <2>2, OneMap
  <2>5. \A u \in Threads \ {t} :
          /\ pc'[u] = pc[u] /\ node'[u] = node[u] /\ local'[u] = local[u]
          /\ evicting'[u] = evicting[u] /\ again'[u] = again[u]
    BY <2>1, OthersKeep
  <2>6. \A u \in Threads \ {t} :
          /\ Evicts(u)' <=> Evicts(u)
          /\ Inserting(u)' <=> Inserting(u)
          /\ Fresh(u)' <=> Fresh(u)
    BY <2>5 DEF Evicts, Inserting, Fresh
  <2>7. ops \in Nat /\ \A n \in 1 .. ops : n \in Node
    BY NodesHaveKeys
  <2>8. \A i \in DOMAIN list : list[i] \in 1 .. ops /\ keyOf[list[i]] \in Keys
    BY NodesHaveKeys
  <2>9. \A u \in Threads : Evicts(u) => evicting[u] \in 1 .. ops /\ keyOf[evicting[u]] \in Keys
    BY NodesHaveKeys
  <2>10. \A u \in Threads : Inserting(u) \/ Fresh(u) => node[u] \in 1 .. ops /\ Key(u) \in Keys
    <3>1. \A u \in Threads : Inserting(u) \/ Fresh(u) => pc[u] \in InOp
      BY DEF Inserting, Fresh, InOp
    <3> QED
      BY <3>1, Lookup
  <2> USE <2>3 DEF Agree
  <2>11. CASE \E o \in Ops, k \in Keys : Begin(t, o, k)
    <3>1. PICK k \in Keys : \E o \in Ops : Begin(t, o, k)
      BY <2>11
    <3>2. /\ keyOf' = [keyOf EXCEPT ![ops + 1] = k] /\ UNCHANGED <<map, list, evicting>>
          /\ pc'[t] = "find" /\ node'[t] = ops + 1 /\ ops + 1 \in Node
      BY <2>7, <3>1, CacheAssumption DEF Begin, Goto, TypeOK, ThreadTypeOK, Node
    <3>3. (\A n \in 1 .. ops : keyOf'[n] = keyOf[n]) /\ keyOf'[ops + 1] = k
      BY <2>7, <3>2 DEF TypeOK, StoreTypeOK
    <3>4. ~Evicts(t)' /\ ~Inserting(t)'
      BY <3>2 DEF Evicts, Inserting
    <3>5. ListEntries' /\ ListOnce'
      BY <2>8, <3>2, <3>3 DEF ListEntries, ListOnce
    <3>6. Evicted'
      BY <2>5, <2>6, <2>9, <3>2, <3>3, <3>4 DEF Evicted, InList
    <3>7. Inserted'
      BY <2>5, <2>6, <2>10, <3>2, <3>3, <3>4 DEF Inserted, InList, Key
    <3>8. map[0][k] # ops + 1
      BY <2>4, <2>7 DEF NodeInv, MapNodes, Null, TypeOK, StoreTypeOK
    <3>9. NotYetInserted'
      <4> SUFFICES ASSUME NEW u \in Threads, Fresh(u)' PROVE map'[0][Key(u)'] # node'[u]
        BY DEF NotYetInserted
      <4>1. CASE u = t
        BY <3>2, <3>3, <3>8, <4>1 DEF Key
      <4>2. CASE u # t
        BY <2>5, <2>6, <2>10, <3>2, <3>3, <4>2 DEF NotYetInserted, Key
      <4> QED
        BY <4>1, <4>2
    <3> QED
      BY <3>5, <3>6, <3>7, <3>9
  <2>12. CASE \/ Find(t) \/ LoadMap(t) \/ LoadSize(t) \/ Count(t) \/ Shrink(t) \/ EvictMap(t)
              \/ ClearSize(t) \/ SnapshotPairs(t) \/ LockList(t) \/ NextPair(t)
              \/ (Insert(t) \/ Delink(t)) /\ UNCHANGED <<map, list>>
    <3>1. Still(t)
      BY <2>12, StillSteps
    <3> QED
      BY <2>5, <3>1, StillAgree, Zenon
  <2>13. CASE Touch(t)
    <3>1. /\ DOMAIN list' = DOMAIN list /\ \A n : InList(n)' <=> InList(n)
          /\ \E f \in [DOMAIN list -> DOMAIN list] :
               /\ \A i \in DOMAIN list : list'[i] = list[f[i]]
               /\ \A i, j \in DOMAIN list : f[i] = f[j] => i = j
      BY <2>13, TouchStep
    <3>2. PICK f \in [DOMAIN list -> DOMAIN list] :
            /\ \A i \in DOMAIN list : list'[i] = list[f[i]]
            /\ \A i, j \in DOMAIN list : f[i] = f[j] => i = j
      BY <3>1
    <3>3. UNCHANGED <<map, keyOf>> /\ ~Evicts(t)' /\ ~Inserting(t)' /\ ~Fresh(t)'
      BY <2>13, LeaveLeaves DEF Touch, Evicts, Inserting, Fresh
    <3>4. ListEntries'
      BY <3>1, <3>2, <3>3 DEF ListEntries
    <3>5. ListOnce'
      BY <3>1, <3>2 DEF ListOnce
    <3>6. Evicted'
      <4>1. \A u \in Threads : Evicts(u)' => ~InList(evicting[u])' /\ evicting'[u] = evicting[u]
        BY <2>5, <2>6, <3>1, <3>3, <2>13 DEF Evicted, InList
      <4> QED
        BY <2>5, <2>6, <3>3, <4>1 DEF Evicted, InList
    <3>7. Inserted'
      <4>1. \A u \in Threads : Inserting(u)' => ~InList(node[u])' /\ node'[u] = node[u]
        BY <2>5, <2>6, <3>1, <3>3, <2>13 DEF Inserted, InList
      <4> QED
        BY <2>5, <2>6, <3>3, <4>1 DEF Inserted, InList, Key
    <3>8. NotYetInserted'
      BY <2>5, <2>6, <3>3 DEF NotYetInserted, Key
    <3> QED
      BY <3>4, <3>5, <3>6, <3>7, <3>8
  <2>14. CASE Insert(t) /\ ~UNCHANGED <<map, list>>
    <3>1. /\ map' = [map EXCEPT ![local[t]][Key(t)] = node[t]] /\ UNCHANGED <<list, keyOf>>
          /\ pc[t] = "insert" /\ pc'[t] = "size" /\ node'[t] = node[t] /\ again'[t] = again[t]
          /\ map[local[t]][Key(t)] = 0
      BY <2>14 DEF Insert, Goto, TypeOK, ThreadTypeOK, Null
    <3>2. /\ node[t] \in 1 .. ops /\ Key(t) \in Keys /\ Fresh(t)
          /\ StoreTypeOK /\ node[t] \in 0 .. MaxOps
      BY <2>10, <3>1 DEF Fresh, TypeOK, ThreadTypeOK
    <3>3. \A k \in Keys : map'[0][k] = IF k = Key(t) THEN node[t] ELSE map[0][k]
      BY <2>4, <3>1, <3>2, MapUpdate
    <3>4. ~again[t]
      BY <3>1 DEF NodeInv, ThreadNodes
    <3>5. ~Evicts(t)' /\ Inserting(t)' /\ ~Fresh(t)' /\ Key(t)' = Key(t)
      BY <3>1, <3>4 DEF Evicts, Inserting, Fresh, Key
    <3>6. \A i \in DOMAIN list : keyOf[list[i]] # Key(t)
      BY <2>4, <2>8, <3>1 DEF ListEntries
    <3>7. \A u \in Threads : Evicts(u) => keyOf[evicting[u]] # Key(t)
      BY <2>4, <2>9, <3>1 DEF Evicted
    <3>8. \A u \in Threads : Inserting(u) => Key(u) # Key(t)
      BY <2>4, <2>10, <3>1 DEF Inserted
    <3>9. ListEntries' /\ ListOnce'
      BY <2>8, <3>1, <3>3, <3>6 DEF ListEntries, ListOnce
    <3>10. Evicted'
      <4>1. \A u \in Threads : Evicts(u)' => Evicts(u) /\ evicting'[u] = evicting[u]
        BY <2>5, <2>6, <3>5
      <4> QED
        BY <2>9, <3>1, <3>3, <3>7, <4>1 DEF Evicted, InList
    <3>11. \A u \in Threads : Evicts(u) => evicting[u] # node[t]
      BY <3>7 DEF Key
    <3>12. ~InList(node[t])
      BY <3>6 DEF InList, Key
    <3>13. Inserted'
      <4> SUFFICES ASSUME NEW u \in Threads, Inserting(u)'
                   PROVE  /\ map'[0][Key(u)'] = node'[u] /\ ~InList(node[u])'
                          /\ node'[u] = node[u]
                          /\ \A v \in Threads : Evicts(v)' => evicting'[v] # node'[u]
        BY DEF Inserted, InList
      <4>1. \A v \in Threads : Evicts(v)' => Evicts(v) /\ evicting'[v] = evicting[v]
        BY <2>5, <2>6, <3>5
      <4>2. CASE u = t
        BY <3>1, <3>2, <3>3, <3>5, <3>11, <3>12, <4>1, <4>2 DEF InList
      <4>3. CASE u # t
        <5>1. Inserting(u) /\ node'[u] = node[u] /\ Key(u)' = Key(u)
          BY <2>5, <2>6, <3>1, <4>3 DEF Key
        <5> QED
          BY <2>10, <3>1, <3>3, <3>8, <4>1, <5>1 DEF Inserted, InList
      <4> QED
        BY <4>2, <4>3
    <3>14. NotYetInserted'
      <4> SUFFICES ASSUME NEW u \in Threads, Fresh(u)' PROVE map'[0][Key(u)'] # node'[u]
        BY DEF NotYetInserted
      <4>1. u # t /\ Fresh(u) /\ node'[u] = node[u] /\ Key(u)' = Key(u)
        BY <2>5, <2>6, <3>1, <3>5 DEF Key
      <4>2. node[u] # node[t]
        BY <3>2, <4>1 DEF NodeInv, OwnNode, Null
      <4> QED
        BY <2>10, <3>3, <4>1, <4>2 DEF NotYetInserted
    <3> QED
      BY <3>9, <3>10, <3>13, <3>14
  <2>15. CASE PushFront(t)
    <3>1. node[t] # Null /\ pc[t] = "push"
      BY <2>15 DEF PushFront, NodeInv, ThreadNodes, InOp
    <3>2. /\ Len(list) \in Nat
          /\ DOMAIN list = 1 .. Len(list) /\ DOMAIN list' = 1 .. Len(list) + 1
          /\ \A i \in 1 .. Len(list) + 1 : list'[i] = IF i = 1 THEN node[t] ELSE list[i - 1]
          /\ \A n : InList(n)' <=> n = node[t] \/ InList(n)
      BY <2>15, <3>1, PushStep
    <3>3. UNCHANGED <<map, keyOf>> /\ pc'[t] \in {"count", "shrink"} /\ Inserting(t)
      BY <2>15 DEF PushFront, Goto, TypeOK, ThreadTypeOK, Inserting, NodeInv, ThreadNodes
    <3>4. ~Evicts(t)' /\ ~Inserting(t)' /\ ~Fresh(t)'
      BY <3>3 DEF Evicts, Inserting, Fresh
    <3>5. ListEntries'
      BY <3>2, <3>3 DEF ListEntries, Inserted, Key
    <3>6. ListOnce'
      <4>1. \A i \in DOMAIN list : list[i] # node[t]
        BY <3>3 DEF Inserted, InList
      <4> SUFFICES ASSUME NEW i \in DOMAIN list', NEW j \in DOMAIN list', list'[i] = list'[j]
                   PROVE  i = j
        BY DEF ListOnce
      <4>2. /\ i = 1 => list'[i] = node[t]
            /\ i # 1 => i - 1 \in DOMAIN list /\ list'[i] = list[i - 1]
            /\ j = 1 => list'[j] = node[t]
            /\ j # 1 => j - 1 \in DOMAIN list /\ list'[j] = list[j - 1]
        BY <3>2
      <4>3. i # 1 /\ j # 1 => i - 1 = j - 1
        BY <4>2 DEF ListOnce
      <4> QED
        BY <3>2, <4>1, <4>2, <4>3
    <3>7. Evicted'
      <4>1. \A u \in Threads : Evicts(u)' => /\ Evicts(u) /\ evicting'[u] = evicting[u]
                                             /\ ~InList(evicting[u])'
        BY <2>5, <2>6, <3>2, <3>3, <3>4 DEF Evicted, Inserted
      <4> QED
        BY <3>3, <4>1 DEF Evicted, InList
    <3>8. Inserted'
      <4>1. \A u \in Threads : Evicts(u)' => Evicts(u) /\ evicting'[u] = evicting[u]
        BY <2>5, <2>6, <3>4
      <4>2. \A u \in Threads : Inserting(u)' => /\ Inserting(u) /\ node'[u] = node[u]
                                                /\ ~InList(node[u])'
        <5> SUFFICES ASSUME NEW u \in Threads, Inserting(u)'
                     PROVE  Inserting(u) /\ node'[u] = node[u] /\ ~InList(node[u])'
          OBVIOUS
        <5>1. u # t /\ Inserting(u) /\ node'[u] = node[u]
          BY <2>5, <2>6, <3>4
        <5>2. node[u] # node[t]
          BY <3>1, <5>1 DEF NodeInv, OwnNode
        <5> QED
          BY <3>2, <5>1, <5>2 DEF Inserted
      <4> QED
        BY <3>3, <4>1, <4>2 DEF Inserted, InList, Key
    <3>9. NotYetInserted'
      BY <2>5, <2>6, <3>3, <3>4 DEF NotYetInserted, Key
    <3> QED
      BY <3>5, <3>6, <3>7, <3>8, <3>9
  <2>16. CASE Delink(t) /\ ~UNCHANGED <<map, list>>
    <3>1. /\ list # <<>> /\ list' = SubSeq(list, 1, Len(list) - 1)
          /\ evicting'[t] = Last /\ pc'[t] = "evictMap" /\ pc[t] = "evict"
          /\ UNCHANGED <<map, keyOf, node, again>>
      BY <2>16 DEF Delink, CanEvict, Goto, TypeOK, ThreadTypeOK
    <3>2. /\ Len(list) \in Nat \ {0} /\ InList(Last)
          /\ DOMAIN list = 1 .. Len(list) /\ DOMAIN list' = 1 .. Len(list) - 1
          /\ \A i \in 1 .. Len(list) - 1 : list'[i] = list[i]
          /\ \A n : InList(n)' => InList(n)
      BY <3>1, PopStep
    <3>3. ListEntries' /\ ListOnce'
      BY <3>1, <3>2 DEF ListEntries, ListOnce
    <3>4. PICK n : n = Last
      OBVIOUS
    <3>5. map[0][keyOf[n]] = n /\ InList(n) /\ evicting'[t] = n
      BY <3>1, <3>2, <3>4 DEF ListEntries, Last
    <3>6. ~InList(n)'
      <4>1. \A i \in DOMAIN list' : list'[i] # n
        BY <3>2, <3>4 DEF ListOnce, Last
      <4> QED
        BY <4>1 DEF InList
    <3>7. Evicts(t)' /\ ~Fresh(t)' /\ ~Evicts(t) /\ (Inserting(t)' => Inserting(t))
      BY <3>1 DEF Evicts, Fresh, Inserting
    <3>8. Evicted'
      <4> SUFFICES ASSUME NEW u \in Threads, Evicts(u)'
                   PROVE  /\ map'[0][keyOf'[evicting'[u]]] = evicting'[u]
                          /\ ~InList(evicting[u])'
                          /\ \A v \in Threads : Evicts(v)' /\ evicting'[v] = evicting'[u] => v = u
        BY DEF Evicted
      <4>1. \A v \in Threads \ {t} : Evicts(v)' =>
              /\ Evicts(v) /\ evicting'[v] = evicting[v] /\ evicting[v] # n
        BY <2>5, <2>6, <3>5 DEF Evicted
      <4>2. ~InList(evicting[u])'
        <5>1. CASE u = t
          BY <3>5, <3>6, <5>1 DEF InList
        <5>2. CASE u # t
          <6>1. ~InList(evicting[u]) /\ evicting'[u] = evicting[u]
            BY <4>1, <5>2 DEF Evicted
          <6>2. \A m : InList(m)' => InList(m)
            BY <3>2
          <6> QED
            BY <6>1, <6>2 DEF InList
        <5> QED
          BY <5>1, <5>2
      <4> QED
        BY <3>1, <3>5, <4>1, <4>2 DEF Evicted
    <3>9. Inserted'
      <4> SUFFICES ASSUME NEW u \in Threads, Inserting(u)'
                   PROVE  /\ map'[0][Key(u)'] = node'[u] /\ ~InList(node[u])'
                          /\ \A v \in Threads : Evicts(v)' => evicting'[v] # node'[u]
        BY DEF Inserted
      <4>1. Inserting(u) /\ node' = node
        BY <2>6, <3>1, <3>7
      <4>2. ~InList(node[u]) /\ node[u] # n
        BY <3>5, <4>1 DEF Inserted
      <4>3. ~InList(node[u])'
        BY <3>2, <4>1, <4>2 DEF InList
      <4>4. \A v \in Threads : Evicts(v)' => evicting'[v] # node'[u]
        BY <2>5, <2>6, <3>5, <4>1, <4>2 DEF Inserted
      <4> QED
        BY <3>1, <4>1, <4>3, <4>4 DEF Inserted, Key
    <3>10. NotYetInserted'
      BY <2>5, <2>6, <3>1, <3>7 DEF NotYetInserted, Key
    <3> QED
      BY <3>3, <3>8, <3>9, <3>10
  <2>17. CASE Erase(t)
    <3> DEFINE k == keyOf[evicting[t]]
    <3>1. Evicts(t) /\ map[0][k] = evicting[t] /\ k \in Keys /\ evicting[t] # 0
      BY <2>9, <2>17 DEF Erase, Evicts, Evicted
    <3>2. /\ map' = [map EXCEPT ![0][k] = 0] /\ UNCHANGED <<list, keyOf>> /\ EvictReturns(t)
          /\ StoreTypeOK /\ 0 \in 0 .. MaxOps
      BY <2>4, <2>17, <3>1, CacheAssumption DEF Erase, Null, TypeOK
    <3> HIDE DEF k
    <3>3. \A l \in Keys : map'[0][l] = IF l = k THEN 0 ELSE map[0][l]
      BY <2>4, <3>2, MapUpdate
    <3>4. ~Evicts(t)' /\ ~Fresh(t)' /\ (Inserting(t)' => Inserting(t) /\ node'[t] = node[t])
      <4>1. pc[t] = "erase"
        BY <2>17 DEF Erase
      <4>2. CASE again[t]
        BY <3>2, <4>2, EvictReturnsLeaves, LeaveLeaves DEF Evicts, Fresh, Inserting
      <4>3. CASE ~again[t]
        BY <3>2, <4>1, <4>3, EvictReturnsLeaves DEF Evicts, Fresh, Inserting
      <4> QED
        BY <4>2, <4>3
    <3>5. \A i \in DOMAIN list : keyOf[list[i]] # k
      BY <3>1 DEF ListEntries, Evicted, InList
    <3>6. \A u \in Threads \ {t} : Evicts(u) => keyOf[evicting[u]] # k
      BY <3>1 DEF Evicted
    <3>7. \A u \in Threads : Inserting(u) => Key(u) # k
      BY <3>1 DEF Inserted
    <3>8. ListEntries' /\ ListOnce'
      BY <2>8, <3>2, <3>3, <3>5 DEF ListEntries, ListOnce
    <3>9. Evicted'
      <4>1. \A u \in Threads : Evicts(u)' => u # t /\ Evicts(u) /\ evicting'[u] = evicting[u]
        BY <2>5, <2>6, <3>4
      <4> QED
        BY <2>9, <3>2, <3>3, <3>6, <4>1 DEF Evicted, InList
    <3>10. Inserted'
      <4>1. \A u \in Threads : Evicts(u)' => u # t /\ Evicts(u) /\ evicting'[u] = evicting[u]
        BY <2>5, <2>6, <3>4
      <4>2. \A u \in Threads : Inserting(u)' =>
              Inserting(u) /\ node'[u] = node[u] /\ Key(u)' = Key(u)
        BY <2>5, <2>6, <3>2, <3>4 DEF Key
      <4> QED
        BY <2>10, <3>2, <3>3, <3>7, <4>1, <4>2 DEF Inserted, InList
    <3>11. NotYetInserted'
      <4>1. \A u \in Threads : Fresh(u)' =>
              Fresh(u) /\ node'[u] = node[u] /\ Key(u)' = Key(u)
        BY <2>5, <2>6, <3>2, <3>4 DEF Key
      <4> QED
        BY <2>10, <3>3, <4>1 DEF NotYetInserted
    <3> QED
      BY <3>8, <3>9, <3>10, <3>11
  <2> QED
    BY <2>1, <2>2, <2>11, <2>12, <2>13, <2>14, <2>15, <2>16, <2>17 DEF Step
<1> QED
  BY <1>0, <1>1

-----------------------------------------------------------------------------
(***************************************************************************)
(* The size of the list and m_size.                                        *)
(***************************************************************************)
LEMMA InitCount == Init => CountInv
<1> SUFFICES ASSUME Init PROVE CountInv
  OBVIOUS
<1>1. /\ list = <<>> /\ Len(list) = 0 /\ size = 0 /\ MaxSize \in Nat
      /\ \A t \in Threads : pc[t] = "idle"
  BY CacheAssumption DEF Init
<1>2. Promised = {} /\ Owing = {} /\ Committed = {} /\ Uncounted = {}
  BY <1>1 DEF Promised, Owing, Committed, Uncounted
<1>3. Cardinality({}) = 0 /\ Cardinality(Threads) \in Nat
  BY FS_EmptySet, FS_CardinalityType, CacheAssumption
<1> QED
  BY <1>1, <1>2, <1>3 DEF CountInv, SeenInv, UnderfilledInv, GrowthInv, LimitInv, Limit

\* A thread whose own node waits for an eviction, or has got one, finds a list
\* that has another key at its end, or an empty one.
LEMMA OtherKeyLast ==
  ASSUME TypeOK, NodeInv, Agree, NEW t \in Threads, pc[t] = "evict", ~again[t], ~CanEvict(t)
  PROVE  list = <<>>
<1> SUFFICES ASSUME list # <<>> PROVE FALSE
  OBVIOUS
<1>1. keyOf[Last] = Key(t)
  BY DEF CanEvict
<1>2. Len(list) \in DOMAIN list
  BY Popped DEF TypeOK, StoreTypeOK
<1>3. map[0][keyOf[Last]] = Last /\ InList(Last)
  BY <1>2 DEF Agree, ListEntries, Last, InList
<1>4. map[0][Key(t)] = node[t] /\ ~InList(node[t])
  BY DEF Agree, Inserted, Inserting
<1> QED
  BY <1>1, <1>3, <1>4

LEMMA NextCount == TypeOK /\ NodeInv /\ AgreeInv /\ CountInv /\ [Next]_vars => CountInv'
<1> SUFFICES ASSUME TypeOK, NodeInv, AgreeInv, CountInv, [Next]_vars PROVE CountInv'
  OBVIOUS
<1>0. CASE UNCHANGED vars
  BY <1>0 DEF vars, CountInv, SeenInv, UnderfilledInv, GrowthInv, LimitInv, Limit, Promised,
              Owing, Committed, Uncounted
<1>1. CASE Next
  <2>1. PICK t \in Threads : \/ Step(t) \/ Clear(t) \/ SnapshotPairs(t)
                             \/ \E o \in Ops, k \in Keys : Begin(t, o, k)
    BY <1>1 DEF Next
  <2>2. clears \in Nat /\ (clears' = clears \/ (Clear(t) /\ clears' = clears + 1))
    BY <2>1 DEF Step, Find, Touch, LoadMap, Insert, LoadSize, PushFront, Count, Shrink, Delink,
                EvictMap, Erase, ClearSize, LockList, NextPair, Clear, SnapshotPairs, Begin,
                boundVars, TypeOK, StoreTypeOK, Map
  <2>3. \A u \in Threads \ {t} :
          pc'[u] = pc[u] /\ seen'[u] = seen[u] /\ again'[u] = again[u]
    BY <2>1, OthersKeep
  <2>4. MaxSize \in Nat /\ IsFiniteSet(Threads) /\ size \in Int /\ seen[t] \in Int
    BY CacheAssumption DEF TypeOK, StoreTypeOK, ThreadTypeOK
  <2>5. SeenInv'
    <3>1. ASSUME pc'[t] \in {"evict", "evictMap", "erase"}, ~again'[t]
          PROVE  seen'[t] >= MaxSize
      <4>1. CASE LoadSize(t)
        BY <2>4, <3>1, <4>1 DEF LoadSize, Goto, TypeOK, ThreadTypeOK
      <4>2. CASE Delink(t) \/ EvictMap(t)
        <5>1. /\ pc[t] \in {"evict", "evictMap"} /\ ~again[t] /\ seen'[t] = seen[t]
          <6>1. CASE EvictReturns(t)
            <7>1. pc'[t] \in {"idle", "push"}
              BY <6>1, EvictReturnsLeaves, LeaveLeaves
            <7> QED
              BY <3>1, <7>1
          <6>2. CASE ~EvictReturns(t)
            BY <3>1, <4>2, <6>2 DEF Delink, EvictMap
          <6> QED
            BY <6>1, <6>2
        <5> QED
          BY <5>1 DEF CountInv, SeenInv
      <4>3. CASE Erase(t)
        <5>1. pc'[t] \in {"idle", "push"}
          BY <4>3, EvictReturnsLeaves, LeaveLeaves DEF Erase
        <5> QED
          BY <3>1, <5>1
      <4>4. CASE Shrink(t)
        <5>1. CASE Leave(t)
          BY <3>1, <5>1, LeaveLeaves
        <5>2. CASE ~Leave(t)
          BY <3>1, <4>4, <5>2 DEF Shrink, TypeOK, ThreadTypeOK
        <5> QED
          BY <5>1, <5>2
      <4>5. CASE Leave(t)
        BY <3>1, <4>5, LeaveLeaves
      <4>6. CASE ~Leave(t) /\ (Find(t) \/ LoadMap(t) \/ Insert(t) \/ PushFront(t) \/ Count(t))
        BY <3>1, <4>6 DEF Find, LoadMap, Insert, PushFront, Count, Goto, TypeOK, ThreadTypeOK
      <4>7. CASE ~Leave(t) /\ (LockList(t) \/ NextPair(t) \/ Clear(t) \/ SnapshotPairs(t))
        BY <3>1, <4>7 DEF LockList, NextPair, Clear, SnapshotPairs, Goto, TypeOK, ThreadTypeOK
      <4>8. CASE \E o \in Ops, k \in Keys : Begin(t, o, k)
        BY <3>1, <4>8 DEF Begin, Goto, TypeOK, ThreadTypeOK
      <4>9. Touch(t) \/ ClearSize(t) => Leave(t)
        BY DEF Touch, ClearSize
      <4> QED
        BY <2>1, <4>1, <4>2, <4>3, <4>4, <4>5, <4>6, <4>7, <4>8, <4>9 DEF Step
    <3>2. ASSUME clears' = 0 PROVE pc'[t] # "zero"
      <4>1. CASE Leave(t)
        BY <4>1, LeaveLeaves
      <4>2. CASE EvictReturns(t)
        BY <4>2, EvictReturnsLeaves, LeaveLeaves
      <4>3. CASE ~Leave(t) /\ ~EvictReturns(t)
        <5>1. ~Clear(t)
          BY <2>2, <3>2 DEF Clear
        <5> QED
          BY <2>1, <4>3, <5>1
             DEF Step, Find, Touch, LoadMap, Insert, LoadSize, PushFront, Count, Shrink, Delink,
                 EvictMap, Erase, ClearSize, LockList, NextPair, SnapshotPairs, Begin, Goto,
                 TypeOK, ThreadTypeOK
      <4> QED
        BY <4>1, <4>2, <4>3
    <3>3. clears' = 0 => clears = 0
      BY <2>2
    <3> QED
      BY <2>3, <3>1, <3>2, <3>3 DEF CountInv, SeenInv
  <2>6. ASSUME clears' = 0 PROVE UnderfilledInv' /\ GrowthInv' /\ LimitInv'
    <3>1. clears = 0 /\ ~Clear(t) /\ Agree
      BY <2>2, <2>6 DEF AgreeInv, Clear
    <3>2. /\ Cardinality(Promised') = Cardinality(Promised)
               + (IF t \in Promised' THEN 1 ELSE 0) - (IF t \in Promised THEN 1 ELSE 0)
          /\ Cardinality(Owing') = Cardinality(Owing)
               + (IF t \in Owing' THEN 1 ELSE 0) - (IF t \in Owing THEN 1 ELSE 0)
          /\ Cardinality(Promised) \in Nat /\ Cardinality(Owing) \in Nat
          /\ Cardinality(Promised') \in Nat /\ Cardinality(Owing') \in Nat
      <4>1. /\ Promised \in SUBSET Threads /\ Promised' \in SUBSET Threads
            /\ Promised \ {t} = Promised' \ {t}
        BY <2>3 DEF Promised
      <4>2. /\ Owing \in SUBSET Threads /\ Owing' \in SUBSET Threads
            /\ Owing \ {t} = Owing' \ {t}
        BY <2>3 DEF Owing
      <4> HIDE DEF Promised, Owing
      <4> QED
        BY <2>4, <4>1, <4>2, CountOneStep
    <3>3. /\ Cardinality(Committed') = Cardinality(Committed)
               + (IF t \in Committed' THEN 1 ELSE 0) - (IF t \in Committed THEN 1 ELSE 0)
          /\ Cardinality(Uncounted') = Cardinality(Uncounted)
               + (IF t \in Uncounted' THEN 1 ELSE 0) - (IF t \in Uncounted THEN 1 ELSE 0)
          /\ Cardinality(Committed) \in Nat /\ Cardinality(Uncounted) \in Nat
          /\ Cardinality(Committed') \in Nat /\ Cardinality(Uncounted') \in Nat
          /\ Cardinality(Committed') <= Cardinality(Threads)
          /\ t \notin Uncounted => Cardinality(Uncounted) <= Cardinality(Threads) - 1
          /\ Cardinality(Threads) \in Nat
      <4>1. /\ Committed \in SUBSET Threads /\ Committed' \in SUBSET Threads
            /\ Committed \ {t} = Committed' \ {t}
        BY <2>3 DEF Committed
      <4>2. /\ Uncounted \in SUBSET Threads /\ Uncounted' \in SUBSET Threads
            /\ Uncounted \ {t} = Uncounted' \ {t}
        BY <2>3 DEF Uncounted
      <4> QED
        BY <2>4, <4>1, <4>2, CountOneStep
    <3>4. Len(list) \in Nat
      BY LenProperties DEF TypeOK, StoreTypeOK
    <3>5. Len(list) + Cardinality(Promised) >= size + Cardinality(Owing)
      BY <3>1 DEF CountInv, UnderfilledInv
    <3>6. Len(list) + Cardinality(Committed) <= Limit
      BY <3>1 DEF CountInv, LimitInv
    <3>7. size < MaxSize =>
            /\ \A u \in Threads : /\ pc[u] \notin {"evict", "evictMap", "erase"}
                                  /\ pc[u] = "push" => seen[u] < MaxSize
            /\ Len(list) + Cardinality(Committed) <= size + Cardinality(Uncounted)
      BY <3>1 DEF CountInv, GrowthInv
    <3>8. /\ Limit \in Int /\ Limit >= Cardinality(Threads) /\ Limit' = Limit
          /\ Limit >= MaxSize + Cardinality(Threads) - 1
      BY <2>4, <3>3 DEF Limit
    <3>9. ~again[t] /\ pc[t] \in {"evict", "evictMap", "erase"} => seen[t] >= MaxSize
      BY DEF CountInv, SeenInv
    \* What is left to show of a step: by how much the two sides change.
    <3> DEFINE InGrowth == size' < MaxSize =>
                 /\ size <= size'
                 /\ pc'[t] \notin {"evict", "evictMap", "erase"}
                 /\ pc'[t] = "push" => seen'[t] < MaxSize
                 /\ Len(list)' + Cardinality(Committed') <= size' + Cardinality(Uncounted')
    <3>10. ASSUME InGrowth PROVE GrowthInv'
      <4> SUFFICES ASSUME size' < MaxSize
                   PROVE  /\ \A u \in Threads :
                               /\ pc'[u] \notin {"evict", "evictMap", "erase"}
                               /\ pc'[u] = "push" => seen'[u] < MaxSize
                          /\ Len(list)' + Cardinality(Committed') <= size' + Cardinality(Uncounted')
        BY DEF GrowthInv
      <4>1. size' \in Int
        BY NextTypeOK DEF TypeOK, StoreTypeOK
      <4>2. size < MaxSize
        BY <2>4, <3>10, <4>1
      <4> QED
        BY <2>3, <3>7, <3>10, <4>2
    <3> DEFINE Paid == Len(list)' + Cardinality(Promised') >= size' + Cardinality(Owing')
               Bounded == Len(list)' + Cardinality(Committed') <= Limit
               Done == Paid /\ Bounded /\ InGrowth
    <3>11. Done => UnderfilledInv' /\ GrowthInv' /\ LimitInv'
      BY <3>8, <3>10 DEF UnderfilledInv, LimitInv
    <3> HIDE DEF Limit
    <3> DEFINE Same(R, S) == Cardinality(R) = Cardinality(S)
               OneMore(R, S) == Cardinality(R) = Cardinality(S) + 1
               OneLess(R, S) == Cardinality(R) = Cardinality(S) - 1
    <3>0. /\ Cardinality(Promised) \in Int /\ Cardinality(Owing) \in Int
          /\ Cardinality(Committed) \in Int /\ Cardinality(Uncounted) \in Int
          /\ Cardinality(Threads) \in Nat
      BY <3>2, <3>3
    <3>12. CASE LoadSize(t)
      <4>1. /\ pc[t] = "size" /\ seen'[t] = size /\ UNCHANGED <<list, size, again>>
            /\ size >= MaxSize => pc'[t] = "evict"
            /\ ~(size >= MaxSize) => pc'[t] = "push"
        BY <3>1, <3>12 DEF LoadSize, Goto, TypeOK, ThreadTypeOK
      <4>2. ~again[t] /\ ~again'[t]
        BY <4>1 DEF NodeInv, ThreadNodes
      <4>3. /\ t \notin Promised /\ t \notin Promised' /\ t \notin Owing /\ t \notin Owing'
            /\ t \notin Committed /\ t \notin Uncounted
            /\ t \in Committed' <=> size < MaxSize
            /\ t \in Uncounted' <=> size < MaxSize
        BY <2>4, <4>1, <4>2 DEF Promised, Owing, Committed, Uncounted
      <4>4. CASE size < MaxSize
        <5>1. /\ Same(Promised', Promised) /\ Same(Owing', Owing)
              /\ OneMore(Committed', Committed) /\ OneMore(Uncounted', Uncounted)
              /\ Cardinality(Uncounted) <= Cardinality(Threads) - 1
          BY <3>2, <3>3, <4>3, <4>4
        <5>2. Len(list) + Cardinality(Committed) <= size + Cardinality(Uncounted)
          BY <3>7, <4>4
        <5>3. pc'[t] = "push" /\ seen'[t] < MaxSize /\ size' = size /\ size <= size'
          BY <2>4, <4>1, <4>4
        <5>4. Paid
          BY <2>4, <3>0, <3>4, <3>5, <4>1, <5>1
        <5>5. Bounded
          BY <2>4, <3>0, <3>4, <3>8, <4>1, <4>4, <5>1, <5>2
        <5>6. Len(list)' + Cardinality(Committed') <= size' + Cardinality(Uncounted')
          BY <2>4, <3>0, <3>4, <4>1, <5>1, <5>2
        <5>7. InGrowth
          BY <5>3, <5>6
        <5> QED
          BY <3>11, <5>4, <5>5, <5>7
      <4>5. CASE size >= MaxSize
        <5>1. /\ Same(Promised', Promised) /\ Same(Owing', Owing)
              /\ Same(Committed', Committed) /\ Same(Uncounted', Uncounted)
          BY <2>4, <3>2, <3>3, <4>3, <4>5
        <5>2. Done
          BY <2>4, <3>0, <3>4, <3>5, <3>6, <3>8, <4>1, <4>5, <5>1
        <5> QED
          BY <3>11, <5>2
      <4> QED
        BY <2>4, <4>4, <4>5
    <3>13. CASE PushFront(t)
      <4>1. /\ pc[t] = "push" /\ UNCHANGED <<size, again, seen>>
            /\ pc'[t] = IF seen[t] < MaxSize THEN "count" ELSE "shrink"
        BY <3>13 DEF PushFront, Goto, TypeOK, ThreadTypeOK
      <4>2. ~again[t] /\ node[t] # Null
        BY <4>1 DEF NodeInv, ThreadNodes, InOp
      <4>3. Len(list)' = Len(list) + 1
        BY <3>13, <4>2, PushStep
      <4>4. /\ t \in Promised <=> seen[t] >= MaxSize
            /\ t \notin Promised' /\ t \notin Owing
            /\ t \in Owing' <=> seen[t] < MaxSize
            /\ t \in Committed /\ t \notin Committed'
            /\ t \in Uncounted <=> seen[t] < MaxSize
            /\ t \in Uncounted' <=> seen[t] < MaxSize
        BY <2>4, <4>1, <4>2 DEF Promised, Owing, Committed, Uncounted
      <4>5. CASE seen[t] < MaxSize
        <5>1. /\ Same(Promised', Promised) /\ OneMore(Owing', Owing)
              /\ OneLess(Committed', Committed) /\ Same(Uncounted', Uncounted)
          BY <2>4, <3>2, <3>3, <4>4, <4>5
        <5>2. pc'[t] = "count" /\ size' = size /\ size <= size'
          BY <2>4, <4>1, <4>5
        <5>3. Paid
          BY <2>4, <3>0, <3>4, <3>5, <4>1, <4>3, <5>1
        <5>4. Bounded
          BY <2>4, <3>0, <3>4, <3>6, <3>8, <4>3, <5>1
        <5>5. ASSUME size < MaxSize
              PROVE  Len(list)' + Cardinality(Committed') <= size' + Cardinality(Uncounted')
          <6>1. Len(list) + Cardinality(Committed) <= size + Cardinality(Uncounted)
            BY <3>7, <5>5
          <6> QED
            BY <2>4, <3>0, <3>4, <4>1, <4>3, <5>1, <6>1
        <5>6. InGrowth
          BY <5>2, <5>5
        <5> QED
          BY <3>11, <5>3, <5>4, <5>6
      <4>6. CASE seen[t] >= MaxSize
        <5>1. /\ OneLess(Promised', Promised) /\ Same(Owing', Owing)
              /\ OneLess(Committed', Committed) /\ Same(Uncounted', Uncounted)
          BY <2>4, <3>2, <3>3, <4>4, <4>6
        <5>2. size >= MaxSize
          BY <2>4, <3>7, <4>1, <4>6
        <5>3. Paid
          BY <2>4, <3>0, <3>4, <3>5, <4>1, <4>3, <5>1
        <5>4. Bounded
          BY <3>0, <3>4, <3>6, <3>8, <4>3, <5>1
        <5>5. InGrowth
          BY <2>4, <4>1, <5>2
        <5> QED
          BY <3>11, <5>3, <5>4, <5>5
      <4> QED
        BY <2>4, <4>5, <4>6
    <3>14. CASE Count(t)
      <4>1. pc[t] = "count" /\ pc'[t] = "shrink" /\ size' = size + 1 /\ UNCHANGED list
        BY <3>14 DEF Count, Goto, TypeOK, ThreadTypeOK
      <4>2. /\ t \notin Promised /\ t \notin Promised' /\ t \in Owing /\ t \notin Owing'
            /\ t \notin Committed /\ t \notin Committed'
            /\ t \in Uncounted /\ t \notin Uncounted'
        BY <4>1 DEF Promised, Owing, Committed, Uncounted
      <4>3. /\ Same(Promised', Promised) /\ OneLess(Owing', Owing)
            /\ Same(Committed', Committed) /\ OneLess(Uncounted', Uncounted)
        BY <3>2, <3>3, <4>2
      <4>4. Paid
        BY <2>4, <3>0, <3>4, <3>5, <4>1, <4>3
      <4>5. Bounded
        BY <3>0, <3>4, <3>6, <3>8, <4>1, <4>3
      <4>6. ASSUME size' < MaxSize
            PROVE  Len(list)' + Cardinality(Committed') <= size' + Cardinality(Uncounted')
        <5>1. size < MaxSize
          BY <2>4, <4>1, <4>6
        <5>2. Len(list) + Cardinality(Committed) <= size + Cardinality(Uncounted)
          BY <3>7, <5>1
        <5> QED
          BY <2>4, <3>0, <3>4, <4>1, <4>3, <5>2
      <4>7. size <= size'
        BY <2>4, <4>1
      <4>8. InGrowth
        BY <4>1, <4>6, <4>7
      <4> QED
        BY <3>11, <4>4, <4>5, <4>8
    <3>15. CASE Shrink(t) /\ ~Leave(t)
      <4>1. /\ pc[t] = "shrink" /\ pc'[t] = "evict" /\ again'[t] = TRUE
            /\ seen[t] > MaxSize /\ size = seen[t] /\ size' = seen[t] - 1 /\ UNCHANGED list
        BY <3>15 DEF Shrink, Goto, TypeOK, ThreadTypeOK
      <4>2. /\ t \notin Promised /\ t \notin Promised' /\ t \notin Owing /\ t \in Owing'
            /\ t \notin Committed /\ t \notin Committed'
            /\ t \notin Uncounted /\ t \notin Uncounted'
        BY <4>1 DEF Promised, Owing, Committed, Uncounted
      <4>3. /\ Same(Promised', Promised) /\ OneMore(Owing', Owing)
            /\ Same(Committed', Committed) /\ Same(Uncounted', Uncounted)
        BY <3>2, <3>3, <4>2
      <4>4. Paid
        <5>1. size' = size - 1 /\ Len(list)' = Len(list)
          BY <4>1
        <5> QED
          BY <2>4, <3>0, <3>4, <3>5, <4>3, <5>1
      <4>5. Bounded
        BY <3>0, <3>4, <3>6, <3>8, <4>1, <4>3
      <4>6. InGrowth
        BY <2>4, <4>1
      <4> QED
        BY <3>11, <4>4, <4>5, <4>6
    <3>16. CASE Delink(t) /\ CanEvict(t)
      <4>1. /\ pc[t] = "evict" /\ pc'[t] = "evictMap" /\ UNCHANGED <<size, again, seen>>
            /\ list # <<>> /\ list' = SubSeq(list, 1, Len(list) - 1)
        BY <3>16 DEF Delink, CanEvict, Goto, TypeOK, ThreadTypeOK
      <4>2. Len(list)' = Len(list) - 1
        BY <4>1, PopStep
      <4>3. /\ t \notin Promised
            /\ t \in Promised' <=> ~again[t]
            /\ t \in Owing <=> again[t]
            /\ t \notin Owing' /\ t \notin Committed
            /\ t \in Committed' <=> ~again[t]
            /\ t \notin Uncounted /\ t \notin Uncounted'
        BY <3>9, <4>1 DEF Promised, Owing, Committed, Uncounted
      <4>4. size >= MaxSize
        BY <2>4, <3>7, <4>1
      <4>5. CASE again[t]
        <5>1. /\ Same(Promised', Promised) /\ OneLess(Owing', Owing)
              /\ Same(Committed', Committed)
          BY <3>2, <3>3, <4>3, <4>5
        <5>2. Paid
          BY <2>4, <3>0, <3>4, <3>5, <4>1, <4>2, <5>1
        <5>3. Bounded
          BY <3>0, <3>4, <3>6, <3>8, <4>2, <5>1
        <5>4. InGrowth
          BY <2>4, <4>1, <4>4
        <5> QED
          BY <3>11, <5>2, <5>3, <5>4
      <4>6. CASE ~again[t]
        <5>1. /\ OneMore(Promised', Promised) /\ Same(Owing', Owing)
              /\ OneMore(Committed', Committed)
          BY <3>2, <3>3, <4>3, <4>6
        <5>2. Paid
          BY <2>4, <3>0, <3>4, <3>5, <4>1, <4>2, <5>1
        <5>3. Bounded
          BY <3>0, <3>4, <3>6, <3>8, <4>2, <5>1
        <5>4. InGrowth
          BY <2>4, <4>1, <4>4
        <5> QED
          BY <3>11, <5>2, <5>3, <5>4
      <4> QED
        BY <4>5, <4>6
    <3>17. CASE Delink(t) /\ ~CanEvict(t)
      <4>1. pc[t] = "evict" /\ EvictReturns(t) /\ UNCHANGED <<list, size>>
        BY <3>17 DEF Delink
      <4>2. size >= MaxSize
        BY <2>4, <3>7, <4>1
      <4>3. CASE again[t]
        <5>1. pc'[t] = "idle"
          BY <4>1, <4>3, EvictReturnsLeaves, LeaveLeaves
        <5>2. /\ t \notin Promised /\ t \notin Promised' /\ t \in Owing /\ t \notin Owing'
              /\ t \notin Committed /\ t \notin Committed'
              /\ t \notin Uncounted /\ t \notin Uncounted'
          BY <4>1, <4>3, <5>1 DEF Promised, Owing, Committed, Uncounted
        <5>3. Done
          BY <2>4, <3>2, <3>3, <3>4, <3>5, <3>6, <3>8, <4>1, <4>2, <5>2
        <5> QED
          BY <3>11, <5>3
      <4>4. CASE ~again[t]
        <5>1. pc'[t] = "push" /\ seen'[t] = seen[t] /\ again'[t] = FALSE
          BY <4>1, <4>4, EvictReturnsLeaves
        <5>2. Len(list) = 0
          BY <3>1, <3>17, <4>1, <4>4, OtherKeyLast, EmptySeq
        <5>3. /\ t \notin Promised /\ t \in Promised' /\ t \notin Owing /\ t \notin Owing'
              /\ t \notin Committed /\ t \in Committed'
              /\ t \notin Uncounted /\ t \notin Uncounted'
          BY <2>4, <3>9, <4>1, <4>4, <5>1 DEF Promised, Owing, Committed, Uncounted
        <5>4. Done
          BY <2>4, <3>2, <3>3, <3>4, <3>5, <3>6, <3>8, <4>1, <4>2, <5>2, <5>3
        <5> QED
          BY <3>11, <5>4
      <4> QED
        BY <4>3, <4>4
    <3>18. CASE EvictMap(t)
      <4>1. /\ pc[t] = "evictMap" /\ pc'[t] = "erase" /\ UNCHANGED <<list, size, again, seen>>
        BY <3>18 DEF EvictMap, Goto, TypeOK, ThreadTypeOK
      <4>2. /\ t \in Promised <=> t \in Promised'
            /\ t \notin Owing /\ t \notin Owing'
            /\ t \in Committed <=> t \in Committed'
            /\ t \notin Uncounted /\ t \notin Uncounted'
        BY <4>1 DEF Promised, Owing, Committed, Uncounted
      <4>3. size >= MaxSize
        BY <2>4, <3>7, <4>1
      <4>4. Done
        BY <2>4, <3>2, <3>3, <3>4, <3>5, <3>6, <3>8, <4>1, <4>2, <4>3
      <4> QED
        BY <3>11, <4>4
    <3>19. CASE Erase(t)
      <4>1. pc[t] = "erase" /\ EvictReturns(t) /\ UNCHANGED <<list, size>>
        BY <3>19 DEF Erase
      <4>2. size >= MaxSize
        BY <2>4, <3>7, <4>1
      <4>3. CASE again[t]
        <5>1. pc'[t] = "idle"
          BY <4>1, <4>3, EvictReturnsLeaves, LeaveLeaves
        <5>2. /\ t \notin Promised /\ t \notin Promised' /\ t \notin Owing /\ t \notin Owing'
              /\ t \notin Committed /\ t \notin Committed'
              /\ t \notin Uncounted /\ t \notin Uncounted'
          BY <4>1, <4>3, <5>1 DEF Promised, Owing, Committed, Uncounted
        <5>3. Done
          BY <2>4, <3>2, <3>3, <3>4, <3>5, <3>6, <3>8, <4>1, <4>2, <5>2
        <5> QED
          BY <3>11, <5>3
      <4>4. CASE ~again[t]
        <5>1. pc'[t] = "push" /\ seen'[t] = seen[t] /\ again'[t] = FALSE
          BY <4>1, <4>4, EvictReturnsLeaves
        <5>2. /\ t \in Promised /\ t \in Promised' /\ t \notin Owing /\ t \notin Owing'
              /\ t \in Committed /\ t \in Committed'
              /\ t \notin Uncounted /\ t \notin Uncounted'
          BY <2>4, <3>9, <4>1, <4>4, <5>1 DEF Promised, Owing, Committed, Uncounted
        <5>3. Done
          BY <2>4, <3>2, <3>3, <3>4, <3>5, <3>6, <3>8, <4>1, <4>2, <5>2
        <5> QED
          BY <3>11, <5>3
      <4> QED
        BY <4>3, <4>4
    <3>20. CASE /\ Len(list)' = Len(list) /\ UNCHANGED size
                /\ pc[t] \notin {"push", "count", "evict", "evictMap", "erase"}
                /\ pc'[t] \notin {"push", "count", "evict", "evictMap", "erase"}
      <4>1. /\ t \notin Promised /\ t \notin Promised' /\ t \notin Owing /\ t \notin Owing'
            /\ t \notin Committed /\ t \notin Committed'
            /\ t \notin Uncounted /\ t \notin Uncounted'
        BY <3>20 DEF Promised, Owing, Committed, Uncounted
      <4>2. Done
        BY <2>4, <3>2, <3>3, <3>4, <3>5, <3>6, <3>7, <3>8, <3>20, <4>1
      <4> QED
        BY <3>11, <4>2
    <3>21. CASE Find(t) \/ LoadMap(t) \/ Insert(t)
      <4>1. UNCHANGED <<list, size>> /\ pc[t] \in {"find", "loadMap", "insert"}
        BY <3>21 DEF Find, LoadMap, Insert
      <4>2. pc'[t] \in {"idle", "touch", "loadMap", "insert", "size"}
        BY <3>21, LeaveLeaves DEF Find, LoadMap, Insert, Goto, TypeOK, ThreadTypeOK
      <4> QED
        BY <3>20, <4>1, <4>2
    <3>22. CASE Touch(t) \/ (Shrink(t) /\ Leave(t))
      <4>1. Len(list)' = Len(list)
        BY <3>22, TouchStep DEF Shrink
      <4>2. Leave(t) /\ pc[t] \in {"touch", "shrink"}
        BY <3>22 DEF Touch, Shrink
      <4>3. pc'[t] = "idle"
        BY <4>2, LeaveLeaves
      <4>4. UNCHANGED size
        BY <3>22, <4>3 DEF Touch, Shrink, Goto, TypeOK, ThreadTypeOK
      <4> QED
        BY <3>20, <4>1, <4>2, <4>3, <4>4
    <3>23. CASE LockList(t) \/ NextPair(t) \/ SnapshotPairs(t)
      <4>1. UNCHANGED <<list, size>> /\ pc[t] \in {"idle", "lockList", "pairs"}
        BY <3>23 DEF LockList, NextPair, SnapshotPairs
      <4>2. pc'[t] \in {"idle", "lockList", "pairs"}
        BY <3>23, LeaveLeaves DEF LockList, NextPair, SnapshotPairs, Goto, TypeOK, ThreadTypeOK
      <4> QED
        BY <3>20, <4>1, <4>2
    <3>24. CASE \E o \in Ops, k \in Keys : Begin(t, o, k)
      <4>1. UNCHANGED <<list, size>> /\ pc[t] = "idle" /\ pc'[t] = "find"
        BY <3>24 DEF Begin, Goto, TypeOK, ThreadTypeOK
      <4> QED
        BY <3>20, <4>1
    <3>25. ~ClearSize(t)
      BY <3>1 DEF ClearSize, CountInv, SeenInv
    <3> QED
      BY <2>1, <3>1, <3>12, <3>13, <3>14, <3>15, <3>16, <3>17, <3>18, <3>19, <3>21, <3>22, <3>23,
         <3>24, <3>25, Zenon DEF Step
  <2> QED
    BY <2>5, <2>6 DEF CountInv, UnderfilledInv, GrowthInv, LimitInv
<1> QED
  BY <1>0, <1>1

-----------------------------------------------------------------------------
(***************************************************************************)
(* The theorems.                                                           *)
(***************************************************************************)
LEMMA InitIInv == Init => IInv
  BY InitTypeOK, InitNodeInv, InitEvictable, InitAgree, InitCount DEF IInv

LEMMA NextIInv == IInv /\ [Next]_vars => IInv'
  BY NextTypeOK, NextNodeInv, NextEvictable, NextAgree, NextCount, Zenon DEF IInv

LEMMA SpecIInv == Spec => []IInv
  BY InitIInv, NextIInv, PTL DEF Spec

\* No entry of the current map is left behind: it can be evicted, or a thread is
\* about to list it or to erase it (insert, evict and clear of lru_cache.h).
THEOREM CacheEntryEvictable == Spec => []EntryEvictable
<1>1. IInv => EntryEvictable
  BY DEF IInv
<1> QED
  BY <1>1, SpecIInv, PTL

\* Until clear() is used the list has the nodes of the map's entries, each once,
\* and an eviction finds the entry it has come to erase.
THEOREM CacheListAgrees == Spec => []ListAgrees
<1>1. IInv => ListAgrees
  <2> SUFFICES ASSUME IInv, clears = 0
               PROVE  /\ \A i \in DOMAIN list : map[cur][keyOf[list[i]]] = list[i]
                      /\ \A i, j \in DOMAIN list : list[i] = list[j] => i = j
                      /\ \A t \in Threads : pc[t] = "erase" =>
                           map[local[t]][keyOf[evicting[t]]] = evicting[t]
    BY DEF ListAgrees
  <2>1. cur = 0 /\ \A t \in Threads : local[t] = 0
    BY OneMap DEF IInv
  <2>2. Agree
    BY DEF IInv, AgreeInv
  <2> QED
    BY <2>1, <2>2 DEF Agree, ListEntries, ListOnce, Evicted, Evicts
<1> QED
  BY <1>1, SpecIInv, PTL

\* Until clear() is used the list outgrows its limit by no more than the
\* insertions of other threads (insert evicts before it adds).
THEOREM CacheSizeBounded == Spec => []SizeBounded
<1>1. IInv => SizeBounded
  <2> SUFFICES ASSUME IInv, clears = 0 PROVE Len(list) <= Limit
    BY DEF SizeBounded, Limit
  <2>1. Len(list) + Cardinality(Committed) <= Limit
    BY DEF IInv, CountInv, LimitInv
  <2>2. Len(list) \in Nat /\ Cardinality(Committed) \in Nat
    <3>1. Committed \in SUBSET Threads
      BY DEF Committed
    <3> HIDE DEF Committed
    <3>2. IsFiniteSet(Committed)
      BY <3>1, FS_Subset, CacheAssumption
    <3> QED
      BY <3>2, FS_CardinalityType, LenProperties DEF IInv, TypeOK, StoreTypeOK
  <2>3. Limit \in Int
    BY CacheAssumption, FS_CardinalityType DEF Limit
  <2> QED
    BY <2>1, <2>2, <2>3
<1> QED
  BY <1>1, SpecIInv, PTL

\* Whenever no operation is under way, and until clear() is used, the list has
\* the elements that m_size credits it with ("we could end up underfilled").
THEOREM CacheNotUnderfilled == Spec => []NotUnderfilled
<1>1. IInv => NotUnderfilled
  <2> SUFFICES ASSUME IInv, clears = 0, \A t \in Threads : pc[t] = "idle"
               PROVE  Len(list) >= size
    BY DEF NotUnderfilled
  <2>1. Promised = {} /\ Owing = {}
    BY DEF Promised, Owing
  <2>2. Len(list) + Cardinality(Promised) >= size + Cardinality(Owing)
    BY DEF IInv, CountInv, UnderfilledInv
  <2>3. Len(list) \in Nat /\ size \in Int
    BY LenProperties DEF IInv, TypeOK, StoreTypeOK
  <2> QED
    BY <2>1, <2>2, <2>3, FS_EmptySet
<1> QED
  BY <1>1, SpecIInv, PTL
=============================================================================

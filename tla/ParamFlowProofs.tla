--------------------------- MODULE ParamFlowProofs ---------------------------
(***************************************************************************)
(* For every set of rules, of calls and of parameters: the counters of     *)
(* ParamMetric against the calls that they stand for, and the limits.      *)
(***************************************************************************)
EXTENDS ParamFlow, DataFacts

Cache == Seq(CacheEntry)

\* A cache has one entry per value.
Distinct(cache) ==
  \A i, j \in 1 .. Len(cache) : cache[i].value = cache[j].value => i = j

ValidRules == {r \in AllRules : IsValidRule(r)}

ThreadCache == {c \in [size : Nat, entries : Cache] : Distinct(c.entries)}
PassCache   == {c \in Cache : Distinct(c)}

\* The parts of ParamMetric and of the rule manager.
StoreTypeOK ==
  /\ rules \in Seq(ValidRules)
  /\ parsed \in [Objects -> [Values -> Nat \cup {Unset}]]
  /\ threads \in [Indices -> ThreadCache \cup {NoCache}]
  /\ rolling \in [Keys -> PassCache \cup {NoCache}]
  /\ indexed \in [Keys -> Nat]
  /\ loads \in Nat

CallTypeOK ==
  /\ pc \in [Calls -> {"new", "init", "array", "index", "check", "onPass", "addThread",
                       "running", "done"}]
  /\ params \in [Calls -> Seq(Values)]
  /\ todo \in [Calls -> Seq(ValidRules)]
  /\ arg \in [Calls -> Nat]
  /\ gen \in [Calls -> Nat]

PastTypeOK ==
  /\ exact \subseteq Indices /\ full \subseteq Keys
  /\ passes \in [Keys -> [Values -> Nat]]
  /\ missed \in [Keys -> [Values -> Nat]]

\* The variables have their types; the caches have one entry per value.
TypeOK == StoreTypeOK /\ CallTypeOK /\ PastTypeOK

\* What a call finds that has set up the counters for the rule at hand.
CallInv ==
  \A c \in Calls :
    /\ pc[c] \in {"init", "array", "index", "check"} => todo[c] # <<>>
    /\ pc[c] \in {"array", "index", "check"} => threads[Rule(c).param_idx] # NoCache
    /\ pc[c] \in {"index", "check"} => rolling[MetricKey(Rule(c))] # NoCache
    /\ pc[c] = "check" => arg[c] >= 1

\* ThreadCountSound, and before the cache is there.
ThreadInv ==
  \A i \in Indices, v \in Values :
    /\ threads[i] # NoCache =>
         /\ Count(threads[i].entries, v) <= Cardinality(InFlight(i, v))
         /\ i \in exact => Count(threads[i].entries, v) = Cardinality(InFlight(i, v))
    /\ threads[i] = NoCache /\ i \in exact => InFlight(i, v) = {}

\* The calls that have put the array of a key into rolling_params_, and have
\* still to enter it in index_map_.
Indexing(k) == {c \in Calls : pc[c] = "index" /\ MetricKey(Rule(c)) = k}

\* One call enters an array, once.
IndexInv ==
  \A k \in Keys :
    /\ rolling[k] = NoCache => indexed[k] = 0
    /\ indexed[k] <= 1
    /\ indexed[k] = 1 => Indexing(k) = {}
    /\ \A c, d \in Indexing(k) : c = d

\* PassCountSound, and before the array is there.
PassInv ==
  \A k \in Keys, v \in Values :
    /\ rolling[k] # NoCache => Count(rolling[k], v) >= 0
    /\ rolling[k] # NoCache /\ k \notin full =>
         passes[k][v] - missed[k][v] <= Count(rolling[k], v)
    /\ rolling[k] = NoCache => passes[k][v] <= missed[k][v]

\* No more calls are inside Entry than there are threads.
EntryInv == Cardinality(InEntry) <= NumThreads

\* Where call c is in the rules of the last load: at the rule of this number.
Position(c) == Len(rules) - Len(todo[c]) + 1

\* The rules a call still has to check are the last ones of its load.
TodoInv ==
  \A c \in Calls :
    /\ pc[c] # "new" => gen[c] <= loads
    /\ pc[c] # "new" /\ gen[c] = loads =>
         /\ Len(todo[c]) <= Len(rules)
         /\ \A n \in 1 .. Len(todo[c]) : todo[c][n] = rules[Position(c) + n - 1]
         /\ pc[c] \in {"onPass", "addThread"} => todo[c] = <<>>

\* Call c has had value v at index i let through by rule number j.
LetThrough(c, j, v) ==
  /\ gen[c] = loads /\ Carries(c, rules[j].param_idx, v)
  /\ \/ pc[c] \in {"init", "array", "index", "check", "onPass", "addThread"} /\ Position(c) > j
     \/ pc[c] = "check" /\ Position(c) = j /\ arg[c] > rules[j].param_idx + 1

\* Those of them that have not been counted yet, in the window or as threads.
ToPass(j, v)  == {c \in InEntry : pc[c] # "addThread" /\ LetThrough(c, j, v)}
ToCount(j, v) == {c \in InEntry : LetThrough(c, j, v)}

\* AdmissionBounded, with the calls that will be counted.
QpsInv ==
  \A j \in 1 .. Len(rules), v \in Values :
    LET r == rules[j]
        k == MetricKey(r)
    IN r.metric_type = "kQps" =>
         /\ ToPass(j, v) # {} => Threshold(r, v) >= 1
         /\ k \notin full => passes[k][v] - missed[k][v] + Cardinality(ToPass(j, v))
                               <= Threshold(r, v) + NumThreads - 1

Admitted(i, v) == {c \in InFlight(i, v) : gen[c] = loads}

ThreadLimitInv ==
  \A j \in 1 .. Len(rules), v \in Values :
    LET r == rules[j]
    IN r.metric_type = "kThreadCount" /\ r.param_idx \in exact =>
         Cardinality(Admitted(r.param_idx, v)) + Cardinality(ToCount(j, v))
           <= Threshold(r, v) + NumThreads - 1

IInv ==
  /\ TypeOK /\ CallInv /\ ThreadInv /\ IndexInv /\ PassInv /\ EntryInv /\ TodoInv
  /\ QpsInv /\ ThreadLimitInv

-----------------------------------------------------------------------------
(***************************************************************************)
(* What the operations on a cache do to the counts.                        *)
(***************************************************************************)
\* Every set of numbers that First is applied to has a first.
LEMMA FirstProperties ==
  ASSUME NEW S \in SUBSET Nat, S # {}
  PROVE  First(S) \in S /\ \A j \in S : First(S) <= j
<1>1. \E i \in S : \A j \in S : i <= j
  BY LeastElement
<1> QED
  BY <1>1 DEF First

LEMMA CacheElements ==
  ASSUME NEW c \in Cache
  PROVE  Len(c) \in Nat /\ \A i \in 1 .. Len(c) : /\ c[i] \in CacheEntry
                                                  /\ c[i].value \in Values /\ c[i].n \in Int
<1>1. Len(c) \in Nat /\ \A i \in 1 .. Len(c) : c[i] \in CacheEntry
  BY LenProperties, ElementOfSeq DEF Cache
<1> QED
  BY <1>1 DEF CacheEntry

\* The count of a value is that of its one entry.
LEMMA CountIs ==
  ASSUME NEW c \in PassCache, NEW i \in 1 .. Len(c)
  PROVE  Has(c, c[i].value) /\ At(c, c[i].value) = i /\ Count(c, c[i].value) = c[i].n
<1>1. Has(c, c[i].value)
  BY DEF Has
<1>2. At(c, c[i].value) \in 1 .. Len(c) /\ c[At(c, c[i].value)].value = c[i].value
  BY DEF At
<1>3. At(c, c[i].value) = i
  BY <1>2 DEF PassCache, Distinct
<1> QED
  BY <1>1, <1>3 DEF Count

LEMMA CountType ==
  ASSUME NEW c \in PassCache, NEW v
  PROVE  Count(c, v) \in Int /\ (~Has(c, v) => Count(c, v) = 0)
<1>1. CASE Has(c, v)
  <2>1. PICK i \in 1 .. Len(c) : c[i].value = v
    BY <1>1 DEF Has
  <2>2. Count(c, v) = c[i].n /\ c[i].n \in Int
    BY <2>1, CountIs, CacheElements DEF PassCache
  <2> QED
    BY <1>1, <2>2
<1>2. CASE ~Has(c, v)
  BY <1>2 DEF Count
<1> QED
  BY <1>1, <1>2

\* An entry that is taken out takes its count along, and no other.
LEMMA RemovedCounts ==
  ASSUME NEW c \in PassCache, NEW p \in 1 .. Len(c)
  PROVE  /\ RemoveAt(c, p) \in PassCache
         /\ \A v : Has(RemoveAt(c, p), v) <=> Has(c, v) /\ v # c[p].value
         /\ \A v : v # c[p].value => Count(RemoveAt(c, p), v) = Count(c, v)
         /\ Count(RemoveAt(c, p), c[p].value) = 0
<1> DEFINE r == RemoveAt(c, p)
<1>1. c \in Cache /\ Len(c) \in Nat
  BY CacheElements DEF PassCache
<1>2. /\ r \in Cache /\ Len(r) = Len(c) - 1
      /\ \A i \in 1 .. Len(c) - 1 : r[i] = IF i < p THEN c[i] ELSE c[i + 1]
  BY <1>1, CutProperties DEF RemoveAt, Cache
<1> HIDE DEF r
<1> DEFINE old(i) == IF i < p THEN i ELSE i + 1
<1>3. \A i \in 1 .. Len(r) : old(i) \in 1 .. Len(c) /\ old(i) # p /\ r[i] = c[old(i)]
  BY <1>1, <1>2
<1>4. \A i \in 1 .. Len(c) : i # p => \E j \in 1 .. Len(r) : r[j] = c[i]
  <2> SUFFICES ASSUME NEW i \in 1 .. Len(c), i # p PROVE \E j \in 1 .. Len(r) : r[j] = c[i]
    OBVIOUS
  <2> DEFINE j == IF i < p THEN i ELSE i - 1
  <2>1. j \in 1 .. Len(r) /\ old(j) = i
    BY <1>1, <1>2
  <2>2. r[j] = c[i]
    BY <1>3, <2>1
  <2> QED
    BY <2>1, <2>2
<1>5. Distinct(r)
  <2> SUFFICES ASSUME NEW i \in 1 .. Len(r), NEW j \in 1 .. Len(r), r[i].value = r[j].value
               PROVE  i = j
    BY DEF Distinct
  <2>1. old(i) = old(j)
    BY <1>3 DEF PassCache, Distinct
  <2> QED
    BY <1>1, <1>2, <2>1
<1>6. r \in PassCache
  BY <1>2, <1>5 DEF PassCache
<1>7. ASSUME NEW v PROVE Has(r, v) <=> Has(c, v) /\ v # c[p].value
  <2>1. ASSUME Has(r, v) PROVE Has(c, v) /\ v # c[p].value
    <3>1. PICK i \in 1 .. Len(r) : r[i].value = v
      BY <2>1 DEF Has
    <3>2. old(i) \in 1 .. Len(c) /\ old(i) # p /\ c[old(i)].value = v
      BY <1>3, <3>1
    <3> QED
      BY <3>2 DEF Has, PassCache, Distinct
  <2>2. ASSUME Has(c, v), v # c[p].value PROVE Has(r, v)
    BY <1>4, <2>2 DEF Has
  <2> QED
    BY <2>1, <2>2
<1>8. ASSUME NEW v, v # c[p].value PROVE Count(r, v) = Count(c, v)
  <2>1. CASE Has(r, v)
    <3>1. PICK i \in 1 .. Len(r) : r[i].value = v
      BY <2>1 DEF Has
    <3>2. Count(r, v) = r[i].n
      BY <1>6, <3>1, CountIs
    <3>3. old(i) \in 1 .. Len(c) /\ r[i] = c[old(i)]
      BY <1>3
    <3>4. Count(c, v) = c[old(i)].n
      BY <3>1, <3>3, CountIs
    <3> QED
      BY <3>2, <3>3, <3>4
  <2>2. CASE ~Has(r, v)
    <3>1. ~Has(c, v)
      BY <1>7, <1>8, <2>2
    <3> QED
      BY <2>2, <3>1, <1>6, CountType
  <2> QED
    BY <2>1, <2>2
<1>9. Count(r, c[p].value) = 0
  BY <1>6, <1>7, CountType
<1> QED
  BY <1>6, <1>7, <1>8, <1>9 DEF r

\* An entry for a value that has none brings its count, and no other.
LEMMA AppendedCounts ==
  ASSUME NEW c \in PassCache, NEW e \in CacheEntry, ~Has(c, e.value)
  PROVE  /\ Append(c, e) \in PassCache
         /\ \A v : v # e.value => Count(Append(c, e), v) = Count(c, v)
         /\ Count(Append(c, e), e.value) = e.n
<1> DEFINE r == Append(c, e)
<1>1. c \in Cache /\ Len(c) \in Nat
  BY CacheElements DEF PassCache
<1>2. /\ r \in Cache /\ Len(r) = Len(c) + 1
      /\ \A i \in 1 .. Len(c) : r[i] = c[i]
      /\ r[Len(c) + 1] = e
  BY <1>1, AppendProperties DEF Cache
<1> HIDE DEF r
<1>3. Distinct(r)
  <2> SUFFICES ASSUME NEW i \in 1 .. Len(r), NEW j \in 1 .. Len(r), r[i].value = r[j].value
               PROVE  i = j
    BY DEF Distinct
  <2>1. \A k \in 1 .. Len(c) : c[k].value # e.value
    BY DEF Has
  <2>2. CASE i \in 1 .. Len(c) /\ j \in 1 .. Len(c)
    BY <1>2, <2>2 DEF PassCache, Distinct
  <2>3. CASE i = Len(c) + 1 \/ j = Len(c) + 1
    BY <1>1, <1>2, <2>1, <2>3
  <2> QED
    BY <1>1, <1>2, <2>2, <2>3
<1>4. r \in PassCache
  BY <1>2, <1>3 DEF PassCache
<1>5. Count(r, e.value) = e.n
  <2>1. Len(c) + 1 \in 1 .. Len(r)
    BY <1>1, <1>2
  <2> QED
    BY <1>2, <1>4, <2>1, CountIs
<1>6. ASSUME NEW v, v # e.value PROVE Count(r, v) = Count(c, v)
  <2>1. CASE Has(c, v)
    <3>1. PICK i \in 1 .. Len(c) : c[i].value = v
      BY <2>1 DEF Has
    <3>2. i \in 1 .. Len(r) /\ r[i] = c[i]
      BY <1>1, <1>2
    <3>3. Count(c, v) = c[i].n
      BY <3>1, CountIs
    <3>4. Count(r, v) = r[i].n
      BY <1>4, <3>1, <3>2, CountIs
    <3> QED
      BY <3>2, <3>3, <3>4
  <2>2. CASE ~Has(c, v)
    <3>1. ~Has(r, v)
      <4>1. ASSUME NEW i \in 1 .. Len(r) PROVE r[i].value # v
        BY <1>1, <1>2, <1>6, <2>2 DEF Has
      <4> QED
        BY <4>1 DEF Has
    <3> QED
      BY <1>4, <2>2, <3>1, CountType
  <2> QED
    BY <2>1, <2>2
<1> QED
  BY <1>4, <1>5, <1>6 DEF r

\* A value that is looked up, or counted again, moves to the end.
LEMMA MovedCounts ==
  ASSUME NEW c \in PassCache, NEW v, Has(c, v), NEW n \in Int
  PROVE  LET r == Append(RemoveAt(c, At(c, v)), [value |-> v, n |-> n])
         IN  /\ r \in PassCache
             /\ \A w : w # v => Count(r, w) = Count(c, w)
             /\ Count(r, v) = n
<1> DEFINE p == At(c, v)
           e == [value |-> v, n |-> n]
<1>1. p \in 1 .. Len(c) /\ c[p].value = v
  BY DEF Has, At
<1>2. v \in Values
  BY <1>1, CacheElements DEF PassCache
<1>3. e \in CacheEntry /\ e.value = v /\ e.n = n
  BY <1>2 DEF CacheEntry
<1> HIDE DEF p, e
<1>4. RemoveAt(c, p) \in PassCache /\ ~Has(RemoveAt(c, p), v)
      /\ \A w : w # v => Count(RemoveAt(c, p), w) = Count(c, w)
  BY <1>1, RemovedCounts
<1>5. /\ Append(RemoveAt(c, p), e) \in PassCache
      /\ \A w : w # e.value => Count(Append(RemoveAt(c, p), e), w) = Count(RemoveAt(c, p), w)
      /\ Count(Append(RemoveAt(c, p), e), e.value) = e.n
  BY <1>3, <1>4, AppendedCounts
<1> QED
  BY <1>3, <1>4, <1>5 DEF p, e

\* find() changes no count.
LEMMA FindCounts ==
  ASSUME NEW c \in PassCache, NEW v
  PROVE  Find(c, v) \in PassCache /\ \A w : Count(Find(c, v), w) = Count(c, w)
<1>1. CASE Has(c, v)
  <2> DEFINE p == At(c, v)
  <2>1. p \in 1 .. Len(c) /\ c[p].value = v
    BY <1>1 DEF Has, At
  <2>2. c[p] \in CacheEntry /\ c[p].n \in Int
    BY <2>1, CacheElements DEF PassCache
  <2>3. c[p] = [value |-> v, n |-> c[p].n]
    BY <2>1, <2>2 DEF CacheEntry
  <2>4. Count(c, v) = c[p].n
    BY <2>1, CountIs
  <2>5. Find(c, v) = Append(RemoveAt(c, At(c, v)), [value |-> v, n |-> c[p].n])
    BY <1>1, <2>3 DEF Find
  <2> HIDE DEF p
  <2> QED
    BY <1>1, <2>2, <2>4, <2>5, MovedCounts
<1>2. CASE ~Has(c, v)
  BY <1>2 DEF Find
<1> QED
  BY <1>1, <1>2

\* A shard has room for one entry at least.
LEMMA ShardHasRoom ==
  ASSUME NEW size \in Nat, NEW i
  PROVE  ShardSize(size, i) \in Nat \ {0}
<1>1. NumShards \in Nat \ {0}
  BY ParamFlowAssumption
<1>2. size \div NumShards \in Nat /\ size % NumShards \in Nat
  BY <1>1
<1> QED
  BY <1>2 DEF ShardSize

\* What is evicted is an entry of another value.
LEMMA EvictsOther ==
  ASSUME NEW c \in PassCache, NEW size \in Nat, NEW v, Evicts(c, size, v)
  PROVE  Oldest(c, v) \in 1 .. Len(c) /\ c[Oldest(c, v)].value # v /\ ~Has(c, v)
<1>1. SameShard(c, v) # {}
  <2>1. Cardinality(SameShard(c, v)) >= 1
    <3>1. Cardinality(SameShard(c, v)) >= ShardSize(size, ShardOf[v])
      BY DEF Evicts
    <3>2. IsFiniteSet(SameShard(c, v))
      <4>1. SameShard(c, v) \in SUBSET (1 .. Len(c))
        BY DEF SameShard
      <4>2. Len(c) \in Int
        BY CacheElements DEF PassCache
      <4>3. IsFiniteSet(1 .. Len(c))
        BY <4>2, FS_Interval
      <4> QED
        BY <4>1, <4>3, FS_Subset
    <3> QED
      BY <3>1, <3>2, ShardHasRoom, FS_CardinalityType
  <2> QED
    BY <2>1, FS_EmptySet
<1>2. SameShard(c, v) \in SUBSET Nat
  BY DEF SameShard
<1>3. Oldest(c, v) \in SameShard(c, v)
  BY <1>1, <1>2, FirstProperties DEF Oldest
<1> QED
  BY <1>3 DEF SameShard, Evicts

\* increase() changes the count of its value; of the others one is forgotten if
\* the shard is full.
LEMMA IncreaseCounts ==
  ASSUME NEW c \in PassCache, NEW size \in Nat, NEW v \in Values, NEW n \in Int
  PROVE  LET r == Increase(c, size, v, n)
         IN  /\ r \in PassCache
             /\ Count(r, v) = Count(c, v) + n
             /\ ~Evicts(c, size, v) => \A w : w # v => Count(r, w) = Count(c, w)
             /\ Evicts(c, size, v) => \A w : w # v =>
                  Count(r, w) = IF w = c[Oldest(c, v)].value THEN 0 ELSE Count(c, w)
             /\ Evicts(c, size, v) => LET o == c[Oldest(c, v)]
                                      IN Count(c, o.value) = o.n
<1> DEFINE r == Increase(c, size, v, n)
           e == [value |-> v, n |-> n]
<1>0. Count(c, v) \in Int /\ (~Has(c, v) => Count(c, v) = 0)
  BY CountType
<1>1. e \in CacheEntry /\ e.value = v /\ e.n = n
  BY DEF CacheEntry
<1>2. CASE Has(c, v)
  <2>1. r = Append(RemoveAt(c, At(c, v)), [value |-> v, n |-> Count(c, v) + n])
    BY <1>2 DEF Increase
  <2>2. ~Evicts(c, size, v)
    BY <1>2 DEF Evicts
  <2> HIDE DEF r
  <2>3. Count(c, v) + n \in Int
    BY <1>0
  <2>4. r \in PassCache /\ (\A w : w # v => Count(r, w) = Count(c, w))
        /\ Count(r, v) = Count(c, v) + n
    BY <1>2, <2>1, <2>3, MovedCounts
  <2> QED
    BY <2>2, <2>4 DEF r
<1>3. CASE ~Has(c, v) /\ ~Evicts(c, size, v)
  <2>1. r = Append(c, e)
    BY <1>3 DEF Increase
  <2> HIDE DEF r, e
  <2>2. r \in PassCache /\ (\A w : w # v => Count(r, w) = Count(c, w)) /\ Count(r, v) = n
    BY <1>1, <1>3, <2>1, AppendedCounts
  <2>3. Count(r, v) = Count(c, v) + n
    BY <1>0, <1>3, <2>2
  <2> QED
    BY <1>3, <2>2, <2>3 DEF r
<1>4. CASE ~Has(c, v) /\ Evicts(c, size, v)
  <2> DEFINE p == Oldest(c, v)
             k == RemoveAt(c, p)
  <2>1. r = Append(k, e)
    BY <1>4 DEF Increase
  <2>2. p \in 1 .. Len(c) /\ c[p].value # v
    BY <1>4, EvictsOther
  <2> HIDE DEF r, e, p
  <2>3. /\ k \in PassCache /\ ~Has(k, v)
        /\ \A w : w # c[p].value => Count(k, w) = Count(c, w)
        /\ Count(k, c[p].value) = 0
    BY <1>4, <2>2, RemovedCounts
  <2>4. Count(c, c[p].value) = c[p].n
    BY <2>2, CountIs
  <2> HIDE DEF k
  <2>5. r \in PassCache /\ (\A w : w # v => Count(r, w) = Count(k, w)) /\ Count(r, v) = n
    BY <1>1, <2>1, <2>3, AppendedCounts
  <2>6. Count(r, v) = Count(c, v) + n
    BY <1>0, <1>4, <2>5
  <2> QED
    BY <1>4, <2>3, <2>4, <2>5, <2>6 DEF r, p
<1> QED
  BY <1>2, <1>3, <1>4

-----------------------------------------------------------------------------
(***************************************************************************)
(* The rules.                                                              *)
(***************************************************************************)
LEMMA RuleFacts ==
  ASSUME NEW r \in ValidRules
  PROVE  /\ r.param_idx \in Indices /\ r.param_idx \in Nat /\ r.object \in Objects
         /\ r.threshold \in Nat /\ r.metric_type \in {"kQps", "kThreadCount"}
         /\ MetricKey(r) \in Keys /\ MetricKey(r)[1] = r.param_idx /\ KeySize(r) \in Nat
         /\ \A i \in 1 .. Len(r.items) : r.items[i].threshold \in Nat
<1>1. r \in AllRules /\ IsValidRule(r)
  BY DEF ValidRules
<1>2. /\ r.metric_type \in {"kQps", "kThreadCount"}
      /\ r.threshold \in Int /\ r.param_idx \in Int /\ r.cache_size \in Nat \cup {Unset}
      /\ r.items \in Seq([value : Values, threshold : Int])
  BY <1>1, ParamFlowAssumption
<1>3. \A i \in 1 .. Len(r.items) : r.items[i] \in [value : Values, threshold : Int]
  BY <1>2, ElementOfSeq
<1>4. r.threshold \in Nat /\ r.param_idx \in Nat
      /\ \A i \in 1 .. Len(r.items) : r.items[i].threshold \in Nat
  BY <1>1, <1>2, <1>3 DEF IsValidRule
<1>5. r.param_idx \in Indices /\ MetricKey(r) \in Keys /\ r.object \in Objects
  BY <1>1 DEF Indices, Keys, Objects
<1>6. MetricKey(r)[1] = r.param_idx /\ KeySize(r) \in Nat
  BY <1>2 DEF MetricKey, KeySize
<1> QED
  BY <1>2, <1>4, <1>5, <1>6

LEMMA KeyFacts ==
  ASSUME NEW k \in Keys
  PROVE  k[1] \in Indices /\ k[1] \in Nat /\ k[2] \in Nat
<1>1. PICK r \in ValidRules : k = MetricKey(r)
  BY DEF Keys, ValidRules
<1>2. k[2] = KeySize(r)
  BY <1>1 DEF MetricKey
<1> QED
  BY <1>1, <1>2, RuleFacts

LEMMA IndexFacts ==
  ASSUME NEW i \in Indices PROVE i \in Nat
<1>1. PICK r \in ValidRules : i = r.param_idx
  BY DEF Indices, ValidRules
<1> QED
  BY <1>1, RuleFacts

LEMMA ListElements ==
  ASSUME NEW list \in RuleLists
  PROVE  Len(list) \in Nat /\ \A i \in 1 .. Len(list) : list[i] \in AllRules
BY ParamFlowAssumption, LenProperties, ElementOfSeq

\* What is left of a list by the manager are valid rules.
LEMMA AggregatedType ==
  ASSUME NEW list \in RuleLists
  PROVE  Aggregated(list) \in Seq(ValidRules)
<1> DEFINE N == Len(list)
           S == Seq(ValidRules)
           round(n, s) == IF IsValidRule(list[n]) THEN Append(s, list[n]) ELSE s
           Made(g) == g = [n \in 0 .. N |-> IF n = 0 THEN <<>>
                                            ELSE IF IsValidRule(list[n])
                                                 THEN Append(g[n - 1], list[n])
                                            ELSE g[n - 1]]
           upTo == CHOOSE g : Made(g)
<1>1. N \in Nat /\ <<>> \in S
  BY ListElements
<1>2. ASSUME NEW n \in 1 .. N, NEW s \in S PROVE round(n, s) \in S
  <2>1. IsValidRule(list[n]) => list[n] \in ValidRules
    BY ListElements DEF ValidRules
  <2> QED
    BY <2>1, AppendProperties
<1>3. \E g : Made(g)
  <2> DEFINE step == [n \in 1 .. N |-> [s \in S |-> round(n, s)]]
  <2>1. step \in [1 .. N -> [S -> S]]
    BY <1>2
  <2>2. PICK f : Rounds(f, S, N, <<>>, step)
    <3> HIDE DEF step, N, S
    <3> QED
      BY <1>1, <2>1, Recursion
  <2>3. \A n \in 1 .. N : step[n][f[n - 1]] = round(n, f[n - 1])
    <3> SUFFICES ASSUME NEW n \in 1 .. N PROVE step[n][f[n - 1]] = round(n, f[n - 1])
      OBVIOUS
    <3>1. n - 1 \in 0 .. N
      BY <1>1
    <3>2. f[n - 1] \in S
      BY <2>2, <3>1 DEF Rounds
    <3> HIDE DEF round, S
    <3> QED
      BY <3>2
  <2>4. Made(f)
    <3>1. f = [n \in 0 .. N |-> f[n]]
      BY <2>2 DEF Rounds
    <3>2. ASSUME NEW n \in 0 .. N
          PROVE  f[n] = IF n = 0 THEN <<>>
                        ELSE IF IsValidRule(list[n]) THEN Append(f[n - 1], list[n])
                        ELSE f[n - 1]
      <4>1. f[n] = IF n = 0 THEN <<>> ELSE step[n][f[n - 1]]
        <5>1. n = 0 \/ n \in 1 .. N
          BY <1>1
        <5> HIDE DEF step, S, N
        <5> QED
          BY <2>2, <5>1 DEF Rounds
      <4>2. n # 0 => n \in 1 .. N
        BY <1>1
      <4> HIDE DEF step
      <4> QED
        BY <2>3, <4>1, <4>2
    <3> QED
      BY <3>1, <3>2
  <2> QED
    BY <2>4
<1>4. Made(upTo)
  <2> HIDE DEF Made
  <2> QED
    BY <1>3
<1>5. Aggregated(list) = upTo[N]
  BY DEF Aggregated
<1> HIDE DEF upTo
<1> DEFINE T == {n \in 0 .. N : upTo[n] \notin S}
<1>6. T = {}
  <2> SUFFICES ASSUME T # {} PROVE FALSE
    OBVIOUS
  <2>1. PICK m \in T : \A k \in T : m <= k
    <3>1. T \in SUBSET Nat
      OBVIOUS
    <3> HIDE DEF T
    <3> QED
      BY <3>1, LeastElement
  <2>2. m \in 0 .. N /\ upTo[m] \notin S
    BY <2>1
  <2>3. m # 0
    BY <1>1, <1>4, <2>2
  <2>4. m - 1 \in 0 .. N /\ m \in 1 .. N /\ ~(m <= m - 1)
    BY <1>1, <2>2, <2>3
  <2>5. m - 1 \notin T
    <3> HIDE DEF T
    <3> QED
      BY <2>1, <2>4
  <2>6. upTo[m - 1] \in S
    BY <2>4, <2>5
  <2>7. upTo[m] = round(m, upTo[m - 1])
    BY <1>4, <2>2, <2>3
  <2> HIDE DEF round, S
  <2> QED
    BY <1>2, <2>2, <2>4, <2>6, <2>7
<1>7. N \in 0 .. N
  BY <1>1
<1> QED
  BY <1>5, <1>6, <1>7

\* An exception item has a threshold that a valid rule gives it.
LEMMA FilledType ==
  ASSUME NEW list \in RuleLists, NEW o \in Objects, NEW v \in Values,
         parsed \in [Objects -> [Values -> Nat \cup {Unset}]]
  PROVE  Filled(list, o, v) \in Nat \cup {Unset}
<1> DEFINE items(i) == {j \in 1 .. Len(list[i].items) : list[i].items[j].value = v}
           filling  == {i \in 1 .. Len(list) : /\ list[i].object = o /\ IsValidRule(list[i])
                                               /\ items(i) # {}}
           i1 == First(filling)
           j1 == First(items(i1))
<1>1. parsed[o][v] \in Nat \cup {Unset}
  OBVIOUS
<1>2. CASE parsed[o][v] # Unset \/ filling = {}
  BY <1>1, <1>2, Zenon DEF Filled
<1>3. CASE ~(parsed[o][v] # Unset \/ filling = {})
  <2>1. Filled(list, o, v) = list[i1].items[j1].threshold
    BY <1>3, Zenon DEF Filled
  <2>2. i1 \in filling
    <3>1. filling \in SUBSET Nat
      OBVIOUS
    <3> HIDE DEF filling
    <3> QED
      BY <1>3, <3>1, FirstProperties
  <2>3. i1 \in 1 .. Len(list) /\ IsValidRule(list[i1]) /\ items(i1) # {}
    BY <2>2
  <2> HIDE DEF i1, filling
  <2>4. j1 \in items(i1)
    <3>1. items(i1) \in SUBSET Nat
      OBVIOUS
    <3> HIDE DEF items
    <3> QED
      BY <2>3, <3>1, FirstProperties
  <2>5. j1 \in 1 .. Len(list[i1].items)
    BY <2>4
  <2>6. list[i1] \in ValidRules
    BY <2>3, ListElements DEF ValidRules
  <2> HIDE DEF j1
  <2> QED
    BY <2>1, <2>5, <2>6, RuleFacts
<1> QED
  BY <1>2, <1>3

-----------------------------------------------------------------------------
(***************************************************************************)
(* What the steps of a call do to the caches of ParamMetric.               *)
(***************************************************************************)
LEMMA CacheTypes ==
  /\ <<>> \in PassCache /\ \A v : Count(<<>>, v) = 0
  /\ NoCache \notin PassCache /\ NoCache \notin ThreadCache
  /\ \A t \in ThreadCache : t.entries \in PassCache /\ t.size \in Nat
  /\ \A s \in Nat, e \in PassCache : /\ [size |-> s, entries |-> e] \in ThreadCache
                                     /\ [size |-> s, entries |-> e].entries = e
<1>1. <<>> \in Cache /\ Len(<<>>) = 0
  BY EmptySeq DEF Cache
<1>2. <<>> \in PassCache /\ \A v : ~Has(<<>>, v)
  BY <1>1 DEF PassCache, Distinct, Has
<1>3. NoCache \notin PassCache /\ NoCache \notin ThreadCache
  BY ParamFlowAssumption DEF PassCache, ThreadCache, Cache
<1> QED
  BY <1>2, <1>3, CountType DEF ThreadCache, PassCache

\* The counts of all caches stay as they are.
RollingKept ==
  /\ rolling' \in [Keys -> PassCache \cup {NoCache}]
  /\ \A k \in Keys : /\ rolling'[k] = NoCache <=> rolling[k] = NoCache
                     /\ rolling[k] # NoCache =>
                          \A v : Count(rolling'[k], v) = Count(rolling[k], v)

ThreadsKept ==
  /\ threads' \in [Indices -> ThreadCache \cup {NoCache}]
  /\ \A i \in Indices : /\ threads'[i] = NoCache <=> threads[i] = NoCache
                        /\ threads[i] # NoCache => \A v :
                             Count(threads'[i].entries, v) = Count(threads[i].entries, v)

\* The look-up of a count moves an entry and changes no count.
LEMMA LookUpCounts ==
  ASSUME StoreTypeOK, NEW r \in ValidRules, NEW v, LookUp(r, v),
         rolling[MetricKey(r)] # NoCache, threads[r.param_idx] # NoCache
  PROVE  RollingKept /\ ThreadsKept
<1> DEFINE k == MetricKey(r)
           i == r.param_idx
<1>1. k \in Keys /\ i \in Indices
  BY RuleFacts
<1>2. /\ rolling \in [Keys -> PassCache \cup {NoCache}]
      /\ threads \in [Indices -> ThreadCache \cup {NoCache}]
  BY DEF StoreTypeOK
<1>3. CASE r.metric_type = "kQps"
  <2>1. rolling' = [rolling EXCEPT ![k] = Find(rolling[k], v)] /\ threads' = threads
    BY <1>1, <1>2, <1>3 DEF LookUp
  <2> HIDE DEF k, i
  <2>2. rolling[k] \in PassCache
    BY <1>1, <1>2 DEF k
  <2>3. Find(rolling[k], v) \in PassCache /\ \A w : Count(Find(rolling[k], v), w) = Count(rolling[k], w)
    BY <2>2, FindCounts
  <2>4. /\ rolling'[k] = Find(rolling[k], v) /\ rolling' \in [Keys -> PassCache \cup {NoCache}]
        /\ \A q \in Keys : q # k => rolling'[q] = rolling[q]
    BY <1>1, <1>2, <2>1, <2>3
  <2>5. RollingKept
    BY <2>2, <2>3, <2>4, CacheTypes DEF RollingKept
  <2>6. ThreadsKept
    BY <1>2, <2>1 DEF ThreadsKept
  <2> QED
    BY <2>5, <2>6
<1>4. CASE r.metric_type # "kQps"
  <2> HIDE DEF k, i
  <2>1. rolling' = rolling
        /\ threads' = [threads EXCEPT ![i] = [threads[i] EXCEPT !.entries = Find(threads[i].entries, v)]]
    BY <1>1, <1>2, <1>4 DEF LookUp, i
  <2>2. threads[i] \in ThreadCache
    BY <1>1, <1>2 DEF i
  <2> DEFINE e == threads[i].entries
  <2>3. e \in PassCache /\ threads[i].size \in Nat
    BY <2>2, CacheTypes
  <2>4. Find(e, v) \in PassCache /\ \A w : Count(Find(e, v), w) = Count(e, w)
    BY <2>3, FindCounts
  <2> DEFINE t == [threads[i] EXCEPT !.entries = Find(threads[i].entries, v)]
  <2>5. t = [size |-> threads[i].size, entries |-> Find(e, v)]
    BY <2>2 DEF ThreadCache
  <2>6. t \in ThreadCache /\ t.entries = Find(e, v)
    <3> HIDE DEF t, e
    <3> QED
      BY <2>3, <2>4, <2>5, CacheTypes
  <2> HIDE DEF t
  <2>7. /\ threads'[i] = t /\ threads' \in [Indices -> ThreadCache \cup {NoCache}]
        /\ \A q \in Indices : q # i => threads'[q] = threads[q]
    BY <1>1, <1>2, <2>1, <2>6 DEF t
  <2>8. ThreadsKept
    BY <2>2, <2>4, <2>6, <2>7, CacheTypes DEF ThreadsKept
  <2>9. RollingKept
    BY <1>2, <2>1 DEF RollingKept
  <2> QED
    BY <2>8, <2>9
<1> QED
  BY <1>3, <1>4

\* A call has one value at an index, or none.
LEMMA CarriesOne ==
  ASSUME NEW c \in Calls, NEW i, NEW v \in Values, Carries(c, i, v)
  PROVE  /\ (CHOOSE w \in Values : Carries(c, i, w)) = v
         /\ Carried(c, i) = {v}
         /\ \A w : Carries(c, i, w) => w = v
<1>1. \A w : Carries(c, i, w) => w = v
  BY DEF Carries
<1> QED
  BY <1>1 DEF Carried

\* AddPass counts in the arrays that index_map_ has.
Hit(c) == {k \in Keys : indexed[k] > 0 /\ Carried(c, k[1]) # {}}

LEMMA AddPassCounts ==
  ASSUME StoreTypeOK, PastTypeOK, NEW c \in Calls, AddPass(c),
         \A k \in Keys : indexed[k] > 0 => rolling[k] # NoCache
  PROVE  /\ rolling' \in [Keys -> PassCache \cup {NoCache}]
         /\ full' \subseteq Keys /\ full \subseteq full'
         /\ \A k \in Keys, v \in Values :
              /\ rolling'[k] = NoCache <=> rolling[k] = NoCache
              /\ k \notin Hit(c) => rolling'[k] = rolling[k]
              /\ k \in Hit(c) =>
                   \/ Count(rolling'[k], v) = Count(rolling[k], v)
                                              + (IF Carries(c, k[1], v) THEN indexed[k] ELSE 0)
                   \/ Count(rolling'[k], v) = 0 /\ k \in full'
<1> DEFINE ofKey(k) == CHOOSE v \in Values : Carries(c, k[1], v)
<1>1. /\ rolling' = [k \in Keys |-> IF k \in Hit(c)
                        THEN Increase(rolling[k], k[2], ofKey(k), indexed[k]) ELSE rolling[k]]
      /\ full' = full \cup {k \in Hit(c) : Evicts(rolling[k], k[2], ofKey(k))}
  BY DEF AddPass, Hit
<1>2. /\ rolling \in [Keys -> PassCache \cup {NoCache}] /\ indexed \in [Keys -> Nat]
      /\ full \subseteq Keys
  BY DEF StoreTypeOK, PastTypeOK
<1>3. full' \subseteq Keys /\ full \subseteq full'
  BY <1>1, <1>2 DEF Hit
<1>4. ASSUME NEW k \in Keys
      PROVE  /\ rolling'[k] \in PassCache \cup {NoCache}
             /\ rolling'[k] = NoCache <=> rolling[k] = NoCache
             /\ k \notin Hit(c) => rolling'[k] = rolling[k]
             /\ k \in Hit(c) => \A v \in Values :
                  \/ Count(rolling'[k], v) = Count(rolling[k], v)
                                             + (IF Carries(c, k[1], v) THEN indexed[k] ELSE 0)
                  \/ Count(rolling'[k], v) = 0 /\ k \in full'
  <2>1. CASE k \notin Hit(c)
    BY <1>1, <1>2, <2>1
  <2>2. CASE k \in Hit(c)
    <3>1. PICK w \in Values : Carries(c, k[1], w)
      BY <2>2 DEF Hit, Carried
    <3>2. ofKey(k) = w /\ \A v : Carries(c, k[1], v) => v = w
      BY <3>1, CarriesOne
    <3> HIDE DEF ofKey
    <3>3. rolling[k] \in PassCache /\ indexed[k] \in Int /\ k[2] \in Nat
      BY <1>2, <2>2, KeyFacts DEF Hit
    <3> DEFINE r == Increase(rolling[k], k[2], w, indexed[k])
               e == Evicts(rolling[k], k[2], w)
               o == rolling[k][Oldest(rolling[k], w)]
    <3>4. rolling'[k] = r /\ (e => k \in full')
      BY <1>1, <2>2, <3>2
    <3>5. /\ r \in PassCache /\ Count(r, w) = Count(rolling[k], w) + indexed[k]
          /\ ~e => \A v : v # w => Count(r, v) = Count(rolling[k], v)
          /\ e => \A v : v # w =>
               Count(r, v) = IF v = o.value THEN 0 ELSE Count(rolling[k], v)
      BY <3>3, IncreaseCounts
    <3> HIDE DEF r, e, o
    <3>6. ASSUME NEW v \in Values
          PROVE  \/ Count(r, v) = Count(rolling[k], v)
                                  + (IF Carries(c, k[1], v) THEN indexed[k] ELSE 0)
                 \/ Count(r, v) = 0 /\ k \in full'
      <4>0. Count(rolling[k], v) \in Int
        BY <3>3, CountType
      <4>1. CASE v = w
        BY <3>1, <3>5, <4>1
      <4>2. CASE v # w
        BY <3>2, <3>4, <3>5, <4>0, <4>2
      <4> QED
        BY <4>1, <4>2
    <3> QED
      BY <2>2, <3>3, <3>4, <3>5, <3>6, CacheTypes
  <2> QED
    BY <2>1, <2>2
<1>5. rolling' \in [Keys -> PassCache \cup {NoCache}]
  BY <1>1, <1>4
<1> QED
  BY <1>3, <1>4, <1>5

\* The thread counts of the values of a call change by n, unless a count is lost.
LEMMA AdjustCounts ==
  ASSUME StoreTypeOK, NEW c \in Calls, NEW n \in Int, Adjust(c, n)
  PROVE  /\ threads' \in [Indices -> ThreadCache \cup {NoCache}]
         /\ \A i \in Indices :
              /\ threads'[i] = NoCache <=> threads[i] = NoCache
              /\ threads[i] # NoCache => \A v \in Values :
                   \/ Count(threads'[i].entries, v) = Count(threads[i].entries, v)
                                                      + (IF Carries(c, i, v) THEN n ELSE 0)
                   \/ Count(threads'[i].entries, v) = 0 /\ Loses(c, i) /\ ~Carries(c, i, v)
<1> DEFINE ofIdx(i) == CHOOSE v \in Values : Carries(c, i, v)
           hit == {i \in Indices : threads[i] # NoCache /\ Carried(c, i) # {}}
           new(i) == [threads[i] EXCEPT !.entries =
                        Increase(threads[i].entries, threads[i].size, ofIdx(i), n)]
<1>1. threads' = [i \in Indices |-> IF i \in hit THEN new(i) ELSE threads[i]]
  BY Zenon DEF Adjust
<1>2. threads \in [Indices -> ThreadCache \cup {NoCache}]
  BY DEF StoreTypeOK
<1>3. ASSUME NEW i \in Indices
      PROVE  /\ threads'[i] \in ThreadCache \cup {NoCache}
             /\ threads'[i] = NoCache <=> threads[i] = NoCache
             /\ threads[i] # NoCache => \A v \in Values :
                  \/ Count(threads'[i].entries, v) = Count(threads[i].entries, v)
                                                     + (IF Carries(c, i, v) THEN n ELSE 0)
                  \/ Count(threads'[i].entries, v) = 0 /\ Loses(c, i) /\ ~Carries(c, i, v)
  <2>1. CASE i \notin hit
    <3>1. threads'[i] = threads[i]
      <4> HIDE DEF hit, new
      <4> QED
        BY <1>1, <2>1
    <3>2. threads[i] # NoCache => \A v \in Values : ~Carries(c, i, v)
      BY <2>1 DEF Carried
    <3>3. threads[i] # NoCache => \A v : Count(threads[i].entries, v) \in Int
      BY <1>2, CacheTypes, CountType
    <3> HIDE DEF hit, new
    <3> QED
      BY <1>2, <3>1, <3>2, <3>3
  <2>2. CASE i \in hit
    <3>0. threads[i] # NoCache /\ Carried(c, i) # {}
      BY <2>2
    <3>1. PICK w \in Values : Carries(c, i, w)
      BY <3>0 DEF Carried
    <3>2. ofIdx(i) = w /\ Carried(c, i) = {w} /\ \A v : Carries(c, i, v) => v = w
      BY <3>1, CarriesOne
    <3> DEFINE t == threads[i]
               c0 == t.entries
               r == Increase(c0, t.size, w, n)
               e == Evicts(c0, t.size, w)
               o == c0[Oldest(c0, w)]
    <3>3. t \in ThreadCache /\ c0 \in PassCache /\ t.size \in Nat
      BY <1>2, <3>0, CacheTypes
    <3>4. new(i) = [size |-> t.size, entries |-> r]
      <4> HIDE DEF ofIdx
      <4>1. new(i) = [t EXCEPT !.entries = r]
        BY <3>2
      <4> HIDE DEF r, new
      <4> QED
        BY <3>3, <4>1 DEF ThreadCache
    <3>5. threads'[i] = new(i)
      <4> HIDE DEF hit, new
      <4> QED
        BY <1>1, <2>2
    <3>6. /\ r \in PassCache /\ Count(r, w) = Count(c0, w) + n
          /\ ~e => \A v : v # w => Count(r, v) = Count(c0, v)
          /\ e => \A v : v # w => Count(r, v) = IF v = o.value THEN 0 ELSE Count(c0, v)
          /\ e => Count(c0, o.value) = o.n
      BY <3>3, IncreaseCounts
    <3>7. e /\ o.n # 0 => Loses(c, i)
      BY <3>0, <3>2 DEF Loses
    <3> HIDE DEF new, r, e, o, ofIdx, hit
    <3>8. threads'[i] \in ThreadCache /\ threads'[i].entries = r
      BY <3>3, <3>4, <3>5, <3>6, CacheTypes
    <3> HIDE DEF c0
    <3>9. ASSUME NEW v \in Values
          PROVE  \/ Count(r, v) = Count(c0, v) + (IF Carries(c, i, v) THEN n ELSE 0)
                 \/ Count(r, v) = 0 /\ Loses(c, i) /\ ~Carries(c, i, v)
      <4>0. Count(c0, v) \in Int
        BY <3>3, CountType
      <4>1. CASE v = w
        BY <3>1, <3>6, <4>1
      <4>2. CASE v # w
        <5>1. ~Carries(c, i, v)
          BY <3>2, <4>2
        <5>2. Count(r, v) = Count(c0, v) \/ (e /\ Count(r, v) = 0 /\ v = o.value)
          BY <3>6, <4>2
        <5>3. CASE Count(r, v) = Count(c0, v)
          BY <4>0, <5>1, <5>3
        <5>4. CASE e /\ Count(r, v) = 0 /\ v = o.value
          <6>1. Count(c0, v) = o.n
            BY <3>6, <5>4
          <6> QED
            BY <3>7, <4>0, <5>1, <5>4, <6>1
        <5> QED
          BY <5>2, <5>3, <5>4
      <4> QED
        BY <4>1, <4>2
    <3> QED
      BY <3>0, <3>8, <3>9, CacheTypes DEF c0
  <2> QED
    BY <2>1, <2>2
<1>4. threads' \in [Indices -> ThreadCache \cup {NoCache}]
  <2> HIDE DEF hit, new
  <2> QED
    BY <1>1, <1>3
<1> QED
  BY <1>3, <1>4

-----------------------------------------------------------------------------
(***************************************************************************)
(* Init, and what steps leave alone.                                       *)
(***************************************************************************)
\* The rule at hand, and the rules behind it.
LEMMA TodoFacts ==
  ASSUME CallTypeOK, NEW c \in Calls, todo[c] # <<>>
  PROVE  /\ Rule(c) \in ValidRules /\ Rule(c) = todo[c][1]
         /\ Len(todo[c]) \in Nat \ {0}
         /\ Tail(todo[c]) \in Seq(ValidRules) /\ Len(Tail(todo[c])) = Len(todo[c]) - 1
         /\ \A n \in 1 .. Len(todo[c]) - 1 : Tail(todo[c])[n] = todo[c][n + 1]
<1>1. todo[c] \in Seq(ValidRules)
  BY DEF CallTypeOK
<1>2. Rule(c) \in ValidRules /\ Tail(todo[c]) \in Seq(ValidRules) /\ Rule(c) = todo[c][1]
  BY <1>1, HeadTailProperties DEF Rule
<1>3. /\ Len(Tail(todo[c])) = Len(todo[c]) - 1
      /\ \A n \in 1 .. Len(Tail(todo[c])) : Tail(todo[c])[n] = todo[c][n + 1]
  BY <1>1, HeadTailProperties
<1>4. Len(todo[c]) \in Nat /\ Len(todo[c]) # 0
  BY <1>1, LenProperties, EmptySeq
<1> QED
  BY <1>2, <1>3, <1>4

\* A call's step concerns no other call, and no rule.
LEMMA OthersKeep ==
  ASSUME TypeOK, NEW c \in Calls, CallStep(c)
  PROVE  /\ rules' = rules /\ parsed' = parsed /\ loads' = loads
         /\ \A d \in Calls : d # c => /\ pc'[d] = pc[d] /\ params'[d] = params[d]
                                      /\ todo'[d] = todo[d] /\ arg'[d] = arg[d]
                                      /\ gen'[d] = gen[d]
BY DEF CallStep, Entry, InitThreadCount, InitRolling, InitIndex, Check, NextRule,
  BlockedElsewhere, AddPass, AddThreadCount, Exit, Goto, StartCheck, shared, call, bounds,
  past, TypeOK, CallTypeOK

\* There are no more calls than there are in all.
LEMMA CallSets ==
  ASSUME NEW S \in SUBSET Calls
  PROVE  IsFiniteSet(S) /\ Cardinality(S) \in Nat /\ (Cardinality(S) = 0 <=> S = {})
<1>1. IsFiniteSet(S)
  BY ParamFlowAssumption, FS_Subset
<1> QED
  BY <1>1, FS_CardinalityType, FS_EmptySet

LEMMA SmallerSets ==
  ASSUME NEW S \in SUBSET Calls, NEW R \in SUBSET S
  PROVE  Cardinality(R) <= Cardinality(S)
<1>1. IsFiniteSet(S)
  BY CallSets
<1> QED
  BY <1>1, FS_Subset

\* A set of calls before and after a step of call x.
LEMMA CallCount ==
  ASSUME NEW x \in Calls, NEW S \in SUBSET Calls, NEW R \in SUBSET Calls, S \ {x} = R \ {x}
  PROVE  /\ Cardinality(S) \in Nat /\ Cardinality(R) \in Nat
         /\ Cardinality(R) = Cardinality(S) + (IF x \in R THEN 1 ELSE 0)
                                            - (IF x \in S THEN 1 ELSE 0)
<1>1. IsFiniteSet(Calls)
  BY ParamFlowAssumption
<1> QED
  BY <1>1, CountOneStep

LEMMA NumThreadsType == NumThreads \in Nat \ {0}
BY ParamFlowAssumption

LEMMA InitIInv == Init => IInv
<1> SUFFICES ASSUME Init PROVE IInv
  OBVIOUS
<1> USE DEF Init
<1>1. StoreTypeOK
  BY EmptySeq DEF StoreTypeOK, Zero
<1>2. CallTypeOK
  BY EmptySeq DEF CallTypeOK
<1>3. PastTypeOK
  BY DEF PastTypeOK, Zero
<1>4. CallInv
  BY DEF CallInv
<1>5. ThreadInv
  BY DEF ThreadInv, InFlight
<1>6. IndexInv
  BY DEF IndexInv, Indexing
<1>7. PassInv
  BY DEF PassInv, Zero
<1>8. EntryInv
  <2>1. InEntry = {}
    BY DEF InEntry
  <2> QED
    BY <2>1, CallSets, NumThreadsType DEF EntryInv
<1>9. TodoInv
  BY DEF TodoInv
<1>10. QpsInv /\ ThreadLimitInv
  <2>1. Len(rules) = 0
    BY EmptySeq
  <2> QED
    BY <2>1 DEF QpsInv, ThreadLimitInv
<1> QED
  BY <1>1, <1>2, <1>3, <1>4, <1>5, <1>6, <1>7, <1>8, <1>9, <1>10 DEF IInv, TypeOK

LEMMA CallStepTypeOK ==
  ASSUME IInv, NEW c \in Calls, CallStep(c)
  PROVE  TypeOK'
<1>0. TypeOK /\ StoreTypeOK /\ CallTypeOK /\ PastTypeOK /\ CallInv
  BY DEF IInv, TypeOK
<1>1. CASE \E p \in Params : Entry(c, p)
  <2>1. \A p \in Params : p \in Seq(Values)
    BY ParamFlowAssumption
  <2> QED
    BY <1>0, <1>1, <2>1
    DEF TypeOK, StoreTypeOK, CallTypeOK, PastTypeOK, Entry, Goto, shared, bounds, past
<1>2. CASE InitThreadCount(c)
  <2>1. Rule(c) \in ValidRules
    BY <1>0, <1>2, TodoFacts DEF CallInv, InitThreadCount
  <2>2. <<>> \in PassCache /\ KeySize(Rule(c)) \in Nat
    BY <2>1, RuleFacts, CacheTypes
  <2>3. [size |-> KeySize(Rule(c)), entries |-> <<>>] \in ThreadCache
    BY <2>2, CacheTypes
  <2>4. StoreTypeOK'
    BY <1>0, <1>2, <2>3 DEF StoreTypeOK, InitThreadCount, bounds
  <2> QED
    BY <1>0, <1>2, <2>4 DEF TypeOK, CallTypeOK, PastTypeOK, InitThreadCount, Goto, past
<1>3. CASE InitRolling(c)
  <2>1. StoreTypeOK'
    BY <1>0, <1>3, CacheTypes DEF StoreTypeOK, InitRolling, bounds
  <2>2. CallTypeOK'
    <3>1. /\ pc' = [pc EXCEPT ![c] = "index"] \/ pc' = [pc EXCEPT ![c] = "check"]
          /\ arg' = arg \/ arg' = [arg EXCEPT ![c] = 1]
          /\ params' = params /\ todo' = todo /\ gen' = gen
      BY <1>3 DEF InitRolling, Goto, StartCheck
    <3>2. arg' \in [Calls -> Nat]
      <4>1. arg \in [Calls -> Nat] /\ [arg EXCEPT ![c] = 1] \in [Calls -> Nat]
        BY <1>0 DEF CallTypeOK
      <4>2. arg' = arg \/ arg' = [arg EXCEPT ![c] = 1]
        BY <3>1
      <4> QED
        BY <4>1, <4>2, Zenon
    <3> QED
      BY <1>0, <3>1, <3>2 DEF CallTypeOK
  <2> QED
    BY <1>0, <1>3, <2>1, <2>2 DEF TypeOK, PastTypeOK, InitRolling, past
<1>4. CASE InitIndex(c)
  <2>1. StoreTypeOK'
    <3>1. Rule(c) \in ValidRules
      BY <1>0, <1>4, TodoFacts DEF CallInv, InitIndex
    <3>2. MetricKey(Rule(c)) \in Keys
      BY <3>1, RuleFacts
    <3> QED
      BY <1>0, <1>4, <3>2 DEF StoreTypeOK, InitIndex, bounds
  <2>2. CallTypeOK'
    BY <1>0, <1>4 DEF CallTypeOK, InitIndex, Goto, StartCheck
  <2> QED
    BY <1>0, <1>4, <2>1, <2>2 DEF TypeOK, PastTypeOK, InitIndex, past
<1>5. CASE Check(c)
  <2>1. LookUp(Rule(c), params[c][arg[c]])
    BY <1>5 DEF Check
  <2>2. pc[c] = "check" /\ todo[c] # <<>>
    BY <1>0, <1>5 DEF CallInv, Check
  <2>3. Rule(c) \in ValidRules
    BY <1>0, <2>2, TodoFacts
  <2>4. rolling[MetricKey(Rule(c))] # NoCache /\ threads[Rule(c).param_idx] # NoCache
    BY <1>0, <2>2 DEF CallInv
  <2>5. RollingKept /\ ThreadsKept
    BY <1>0, <2>1, <2>3, <2>4, LookUpCounts
  <2>6. StoreTypeOK'
    BY <1>0, <1>5, <2>5 DEF StoreTypeOK, Check, RollingKept, ThreadsKept, bounds
  <2>7. CallTypeOK'
    <3>1. /\ pc' = pc \/ pc' = [pc EXCEPT ![c] = "done"]
          /\ arg' = arg \/ arg' = [arg EXCEPT ![c] = arg[c] + 1]
          /\ params' = params /\ todo' = todo /\ gen' = gen
      BY <1>0, <1>5 DEF Check, Goto, CallTypeOK
    <3> QED
      BY <1>0, <3>1 DEF CallTypeOK
  <2> QED
    BY <1>0, <1>5, <2>6, <2>7 DEF TypeOK, PastTypeOK, Check, past
<1>6. CASE NextRule(c)
  <2>1. pc[c] = "check" /\ todo[c] # <<>>
    BY <1>0, <1>6 DEF CallInv, NextRule
  <2>2. Tail(todo[c]) \in Seq(ValidRules)
    BY <1>0, <2>1, TodoFacts
  <2>3. CallTypeOK'
    BY <1>0, <1>6, <2>2 DEF CallTypeOK, NextRule, Goto
  <2> QED
    BY <1>0, <1>6, <2>3 DEF TypeOK, StoreTypeOK, PastTypeOK, NextRule, shared, bounds, past
<1>7. CASE BlockedElsewhere(c)
  BY <1>0, <1>7 DEF TypeOK, StoreTypeOK, CallTypeOK, PastTypeOK, BlockedElsewhere, Goto,
    shared, bounds, past
<1>8. CASE AddPass(c)
  <2>1. \A k \in Keys : indexed[k] > 0 => rolling[k] # NoCache
    BY <1>0 DEF IInv, IndexInv
  <2>2. rolling' \in [Keys -> PassCache \cup {NoCache}] /\ full' \subseteq Keys
    BY <1>0, <1>8, <2>1, AddPassCounts
  <2>3. StoreTypeOK'
    BY <1>0, <1>8, <2>2 DEF StoreTypeOK, AddPass, bounds
  <2>4. CallTypeOK'
    BY <1>0, <1>8 DEF CallTypeOK, AddPass, Goto
  <2>5. passes' \in [Keys -> [Values -> Nat]]
    <3>1. passes' = [k \in Keys |-> [v \in Values |-> passes[k][v] +
                       IF Carries(c, k[1], v) /\ gen[c] = loads THEN 1 ELSE 0]]
      BY <1>8 DEF AddPass
    <3>2. \A k \in Keys, v \in Values : passes[k][v] \in Nat
      BY <1>0 DEF PastTypeOK
    <3> QED
      BY <3>1, <3>2
  <2>6. missed' \in [Keys -> [Values -> Nat]]
    <3>1. missed' = [k \in Keys |-> [v \in Values |-> missed[k][v] +
                       IF Carries(c, k[1], v) /\ gen[c] = loads /\ k \notin Hit(c)
                       THEN 1 ELSE 0]]
      BY <1>8 DEF AddPass, Hit
    <3>2. \A k \in Keys, v \in Values : missed[k][v] \in Nat
      BY <1>0 DEF PastTypeOK
    <3> QED
      BY <3>1, <3>2
  <2>7. PastTypeOK'
    BY <1>0, <1>8, <2>2, <2>5, <2>6 DEF PastTypeOK, AddPass
  <2> QED
    BY <2>3, <2>4, <2>7 DEF TypeOK
<1>9. CASE AddThreadCount(c)
  <2>1. threads' \in [Indices -> ThreadCache \cup {NoCache}]
    BY <1>0, <1>9, AdjustCounts DEF AddThreadCount
  <2>2. StoreTypeOK' /\ CallTypeOK'
    BY <1>0, <1>9, <2>1 DEF StoreTypeOK, CallTypeOK, AddThreadCount, Goto, bounds
  <2>3. PastTypeOK'
    BY <1>0, <1>9 DEF PastTypeOK, AddThreadCount
  <2> QED
    BY <2>2, <2>3 DEF TypeOK
<1>10. CASE Exit(c)
  <2>1. threads' \in [Indices -> ThreadCache \cup {NoCache}]
    BY <1>0, <1>10, AdjustCounts DEF Exit, DecreaseThreadCount
  <2>2. StoreTypeOK' /\ CallTypeOK'
    BY <1>0, <1>10, <2>1 DEF StoreTypeOK, CallTypeOK, Exit, Goto, bounds
  <2>3. PastTypeOK'
    BY <1>0, <1>10 DEF PastTypeOK, Exit
  <2> QED
    BY <2>2, <2>3 DEF TypeOK
<1> QED
  BY <1>1, <1>2, <1>3, <1>4, <1>5, <1>6, <1>7, <1>8, <1>9, <1>10 DEF CallStep

-----------------------------------------------------------------------------
(***************************************************************************)
(* The steps that are no call's: new rules, and the end of a window.       *)
(***************************************************************************)
\* The limit for a value, and the calls let through, have their types.
LEMMA LimitTypes ==
  ASSUME StoreTypeOK, NEW j \in 1 .. Len(rules), NEW v \in Values
  PROVE  /\ rules[j] \in ValidRules /\ Len(rules) \in Nat
         /\ Threshold(rules[j], v) \in Nat
         /\ MetricKey(rules[j]) \in Keys /\ rules[j].param_idx \in Indices
         /\ ToPass(j, v) \in SUBSET Calls /\ ToCount(j, v) \in SUBSET Calls
         /\ ToPass(j, v) \in SUBSET InEntry /\ ToCount(j, v) \in SUBSET InEntry
         /\ Admitted(rules[j].param_idx, v) \in SUBSET Calls
<1>1. rules[j] \in ValidRules /\ Len(rules) \in Nat
  BY ElementOfSeq, LenProperties DEF StoreTypeOK
<1>2. Threshold(rules[j], v) \in Nat
  <2>1. rules[j].object \in Objects /\ rules[j].threshold \in Nat
    BY <1>1, RuleFacts
  <2>2. parsed[rules[j].object][v] \in Nat \cup {Unset}
    BY <2>1 DEF StoreTypeOK
  <2> QED
    BY <2>1, <2>2 DEF Threshold
<1> QED
  BY <1>1, <1>2, RuleFacts DEF ToPass, ToCount, InEntry, Admitted, InFlight

LEMMA LoadRulesStep ==
  ASSUME IInv, NEW list \in RuleLists, LoadRules(list)
  PROVE  IInv'
<1>0. TypeOK /\ StoreTypeOK /\ CallTypeOK /\ PastTypeOK
  BY DEF IInv, TypeOK
<1>1. /\ rules' = Aggregated(list) /\ loads' = loads + 1
      /\ parsed' = [o \in Objects |-> [v \in Values |-> Filled(list, o, v)]]
      /\ passes' = Zero /\ missed' = Zero
      /\ threads' = threads /\ rolling' = rolling /\ indexed' = indexed
      /\ pc' = pc /\ params' = params /\ todo' = todo /\ arg' = arg /\ gen' = gen
      /\ exact' = exact /\ full' = full
  BY DEF LoadRules, call
<1>2. StoreTypeOK'
  <2>1. rules' \in Seq(ValidRules)
    BY <1>1, AggregatedType
  <2>2. parsed' \in [Objects -> [Values -> Nat \cup {Unset}]]
    BY <1>0, <1>1, FilledType DEF StoreTypeOK
  <2>3. loads' \in Nat
    BY <1>0, <1>1 DEF StoreTypeOK
  <2> QED
    BY <1>0, <1>1, <2>1, <2>2, <2>3 DEF StoreTypeOK
<1>3. TypeOK'
  <2>1. CallTypeOK'
    BY <1>0, <1>1 DEF CallTypeOK
  <2>2. PastTypeOK'
    BY <1>0, <1>1 DEF PastTypeOK, Zero
  <2> QED
    BY <1>2, <2>1, <2>2 DEF TypeOK
<1>4. \A c \in Calls : Rule(c)' = Rule(c)
  BY <1>1 DEF Rule
<1>5. CallInv'
  <2>1. CallInv
    BY DEF IInv
  <2> QED
    BY <1>1, <1>4, <2>1 DEF CallInv
<1>6. ThreadInv'
  <2>1. ThreadInv
    BY DEF IInv
  <2>2. \A i, v : InFlight(i, v)' = InFlight(i, v)
    BY <1>1 DEF InFlight, Carries
  <2> QED
    BY <1>1, <2>1, <2>2 DEF ThreadInv
<1>7. IndexInv'
  <2>1. IndexInv
    BY DEF IInv
  <2>2. \A k : Indexing(k)' = Indexing(k)
    BY <1>1, <1>4 DEF Indexing
  <2> QED
    BY <1>1, <2>1, <2>2 DEF IndexInv
<1>8. PassInv'
  <2>1. PassInv
    BY DEF IInv
  <2>2. \A k \in Keys, v \in Values : passes'[k][v] = 0 /\ missed'[k][v] = 0
    BY <1>1 DEF Zero
  <2> QED
    BY <1>1, <2>1, <2>2 DEF PassInv
<1>9. EntryInv'
  <2>1. InEntry' = InEntry
    BY <1>1 DEF InEntry
  <2> QED
    BY <2>1 DEF IInv, EntryInv
<1>10. \A c \in Calls : pc[c] # "new" => gen[c] <= loads /\ gen[c] # loads'
  <2>1. \A c \in Calls : pc[c] # "new" => gen[c] <= loads
    BY DEF IInv, TodoInv
  <2>2. loads \in Nat /\ \A c \in Calls : gen[c] \in Nat
    BY <1>0 DEF StoreTypeOK, CallTypeOK
  <2> QED
    BY <1>1, <2>1, <2>2
<1>11. TodoInv'
  <2>1. \A c \in Calls : pc[c] # "new" => gen[c] <= loads'
    <3>1. loads \in Nat /\ \A c \in Calls : gen[c] \in Nat
      BY <1>0 DEF StoreTypeOK, CallTypeOK
    <3> QED
      BY <1>1, <1>10, <3>1
  <2> QED
    BY <1>1, <1>10, <2>1 DEF TodoInv
<1>12. ASSUME NEW j \in 1 .. Len(rules'), NEW v \in Values
       PROVE  /\ ToPass(j, v)' = {} /\ ToCount(j, v)' = {}
              /\ Admitted(rules[j].param_idx, v)' = {}
  <2>1. \A c \in Calls : pc'[c] # "new" => gen'[c] # loads'
    BY <1>1, <1>10
  <2>2. ToPass(j, v)' = {} /\ ToCount(j, v)' = {}
    BY <2>1 DEF ToPass, ToCount, LetThrough, InEntry
  <2>3. Admitted(rules[j].param_idx, v)' = {}
    BY <2>1 DEF Admitted, InFlight
  <2> QED
    BY <2>2, <2>3
<1>13. Cardinality({}) = 0
  BY FS_EmptySet
<1>16. ASSUME NEW j \in 1 .. Len(rules'), NEW v \in Values
       PROVE  MetricKey(rules'[j]) \in Keys /\ (Threshold(rules[j], v))' \in Nat
  <2>1. rules'[j] \in ValidRules
    BY <1>2, ElementOfSeq DEF StoreTypeOK
  <2>2. /\ MetricKey(rules'[j]) \in Keys
        /\ rules'[j].object \in Objects /\ rules'[j].threshold \in Nat
    BY <2>1, RuleFacts
  <2>3. parsed'[rules'[j].object][v] \in Nat \cup {Unset}
    BY <1>2, <2>2 DEF StoreTypeOK
  <2> QED
    BY <2>2, <2>3 DEF Threshold
<1>14. QpsInv'
  <2> SUFFICES ASSUME NEW j \in 1 .. Len(rules'), NEW v \in Values
               PROVE  /\ ToPass(j, v)' # {} => (Threshold(rules[j], v) >= 1)'
                      /\ (passes[MetricKey(rules[j])][v] - missed[MetricKey(rules[j])][v]
                            + Cardinality(ToPass(j, v))
                              <= Threshold(rules[j], v) + NumThreads - 1)'
    BY DEF QpsInv
  <2>1. MetricKey(rules'[j]) \in Keys /\ (Threshold(rules[j], v))' \in Nat
    BY <1>16
  <2>2. passes'[MetricKey(rules'[j])][v] = 0 /\ missed'[MetricKey(rules'[j])][v] = 0
    BY <1>1, <2>1 DEF Zero
  <2>3. ToPass(j, v)' = {}
    BY <1>12
  <2>4. (passes[MetricKey(rules[j])][v] - missed[MetricKey(rules[j])][v]
           + Cardinality(ToPass(j, v)))' = 0
    BY <1>13, <2>2, <2>3
  <2>5. (0 <= Threshold(rules[j], v) + NumThreads - 1)'
    BY <2>1, NumThreadsType
  <2> QED
    BY <2>3, <2>4, <2>5
<1>15. ThreadLimitInv'
  <2> SUFFICES ASSUME NEW j \in 1 .. Len(rules'), NEW v \in Values
               PROVE  (Cardinality(Admitted(rules[j].param_idx, v)) + Cardinality(ToCount(j, v))
                         <= Threshold(rules[j], v) + NumThreads - 1)'
    BY DEF ThreadLimitInv
  <2>1. (Threshold(rules[j], v))' \in Nat
    BY <1>16
  <2>2. ToCount(j, v)' = {} /\ Admitted(rules[j].param_idx, v)' = {}
    BY <1>12
  <2>3. (Cardinality(Admitted(rules[j].param_idx, v)) + Cardinality(ToCount(j, v)))' = 0
    BY <1>13, <2>2
  <2> QED
    BY <2>1, <2>3, NumThreadsType
<1> QED
  BY <1>3, <1>5, <1>6, <1>7, <1>8, <1>9, <1>11, <1>14, <1>15 DEF IInv

LEMMA ExpireStep ==
  ASSUME IInv, Expire
  PROVE  IInv'
<1>0. TypeOK /\ StoreTypeOK /\ CallTypeOK /\ PastTypeOK
  BY DEF IInv, TypeOK
<1>1. /\ rolling' = [k \in Keys |-> IF rolling[k] = NoCache THEN NoCache ELSE <<>>]
      /\ full' = {} /\ passes' = Zero /\ missed' = Zero
      /\ rules' = rules /\ loads' = loads /\ parsed' = parsed
      /\ threads' = threads /\ indexed' = indexed
      /\ pc' = pc /\ params' = params /\ todo' = todo /\ arg' = arg /\ gen' = gen
      /\ exact' = exact
  BY DEF Expire, call
<1>2. /\ rolling' \in [Keys -> PassCache \cup {NoCache}]
      /\ \A k \in Keys : /\ rolling'[k] = NoCache <=> rolling[k] = NoCache
                         /\ rolling[k] # NoCache => \A v : Count(rolling'[k], v) = 0
  BY <1>1, CacheTypes
<1>3. TypeOK'
  <2>1. StoreTypeOK'
    BY <1>0, <1>1, <1>2 DEF StoreTypeOK
  <2>2. CallTypeOK'
    BY <1>0, <1>1 DEF CallTypeOK
  <2>3. PastTypeOK'
    BY <1>0, <1>1 DEF PastTypeOK, Zero
  <2> QED
    BY <2>1, <2>2, <2>3 DEF TypeOK
<1>4. \A c \in Calls : Rule(c)' = Rule(c)
  BY <1>1 DEF Rule
<1>5. CallInv'
  <2> SUFFICES ASSUME NEW c \in Calls
               PROVE  /\ pc[c] \in {"init", "array", "index", "check"} => todo[c] # <<>>
                      /\ pc[c] \in {"array", "index", "check"} =>
                           threads[Rule(c).param_idx] # NoCache
                      /\ pc[c] \in {"index", "check"} => rolling'[MetricKey(Rule(c))] # NoCache
                      /\ pc[c] = "check" => arg[c] >= 1
    BY <1>1, <1>4 DEF CallInv
  <2>1. /\ pc[c] \in {"init", "array", "index", "check"} => todo[c] # <<>>
        /\ pc[c] \in {"array", "index", "check"} => threads[Rule(c).param_idx] # NoCache
        /\ pc[c] \in {"index", "check"} => rolling[MetricKey(Rule(c))] # NoCache
        /\ pc[c] = "check" => arg[c] >= 1
    BY DEF IInv, CallInv
  <2>2. pc[c] \in {"index", "check"} => MetricKey(Rule(c)) \in Keys
    BY <1>0, <2>1, TodoFacts, RuleFacts
  <2> QED
    BY <1>2, <2>1, <2>2
<1>6. ThreadInv'
  <2>1. ThreadInv
    BY DEF IInv
  <2>2. \A i, v : InFlight(i, v)' = InFlight(i, v)
    BY <1>1 DEF InFlight, Carries
  <2> QED
    BY <1>1, <2>1, <2>2 DEF ThreadInv
<1>7. IndexInv'
  <2>1. IndexInv
    BY DEF IInv
  <2>2. \A k : Indexing(k)' = Indexing(k)
    BY <1>1, <1>4 DEF Indexing
  <2> QED
    BY <1>1, <1>2, <2>1, <2>2 DEF IndexInv
<1>8. PassInv'
  <2>1. \A k \in Keys, v \in Values : passes'[k][v] = 0 /\ missed'[k][v] = 0
    BY <1>1 DEF Zero
  <2> QED
    BY <1>2, <2>1 DEF PassInv
<1>9. EntryInv'
  <2>1. InEntry' = InEntry
    BY <1>1 DEF InEntry
  <2> QED
    BY <2>1 DEF IInv, EntryInv
<1>10. TodoInv'
  <2>1. TodoInv
    BY DEF IInv
  <2> QED
    BY <1>1, <2>1 DEF TodoInv, Position
<1>11. ASSUME NEW j \in 1 .. Len(rules), NEW v \in Values
       PROVE  /\ ToPass(j, v)' = ToPass(j, v) /\ ToCount(j, v)' = ToCount(j, v)
              /\ Admitted(rules[j].param_idx, v)' = Admitted(rules[j].param_idx, v)
              /\ Threshold(rules[j], v)' = Threshold(rules[j], v)
  BY <1>1 DEF ToPass, ToCount, LetThrough, InEntry, Admitted, InFlight, Carries, Position,
    Threshold
<1>12. QpsInv'
  <2> SUFFICES ASSUME NEW j \in 1 .. Len(rules), NEW v \in Values, rules[j].metric_type = "kQps"
               PROVE  /\ ToPass(j, v) # {} => Threshold(rules[j], v) >= 1
                      /\ passes'[MetricKey(rules[j])][v] - missed'[MetricKey(rules[j])][v]
                           + Cardinality(ToPass(j, v)) <= Threshold(rules[j], v) + NumThreads - 1
    BY <1>1, <1>11 DEF QpsInv
  <2>1. /\ MetricKey(rules[j]) \in Keys /\ Threshold(rules[j], v) \in Nat
        /\ ToPass(j, v) \in SUBSET Calls /\ ToPass(j, v) \in SUBSET InEntry
    BY <1>0, LimitTypes
  <2>2. passes'[MetricKey(rules[j])][v] = 0 /\ missed'[MetricKey(rules[j])][v] = 0
    BY <1>1, <2>1 DEF Zero
  <2>3. ToPass(j, v) # {} => Threshold(rules[j], v) >= 1
    BY DEF IInv, QpsInv
  <2>4. Cardinality(ToPass(j, v)) <= Cardinality(InEntry) /\ Cardinality(InEntry) <= NumThreads
    BY <2>1, SmallerSets DEF IInv, EntryInv, InEntry
  <2>5. /\ Cardinality(ToPass(j, v)) \in Nat /\ Cardinality(InEntry) \in Nat
        /\ ToPass(j, v) = {} => Cardinality(ToPass(j, v)) = 0
    BY <2>1, CallSets DEF InEntry
  <2>6. Cardinality(ToPass(j, v)) <= Threshold(rules[j], v) + NumThreads - 1
    BY <2>1, <2>3, <2>4, <2>5, NumThreadsType
  <2> QED
    BY <2>1, <2>2, <2>3, <2>5, <2>6, NumThreadsType
<1>13. ThreadLimitInv'
  <2>1. ThreadLimitInv
    BY DEF IInv
  <2> QED
    BY <1>1, <1>11, <2>1 DEF ThreadLimitInv
<1> QED
  BY <1>3, <1>5, <1>6, <1>7, <1>8, <1>9, <1>10, <1>12, <1>13 DEF IInv

-----------------------------------------------------------------------------
(***************************************************************************)
(* The steps of a call and the parts of the invariant, one by one.         *)
(***************************************************************************)
\* A call that is setting up or checking has a valid rule at hand.
LEMMA RuleAtHand ==
  ASSUME CallTypeOK, CallInv, NEW c \in Calls, pc[c] \in {"init", "array", "index", "check"}
  PROVE  /\ todo[c] # <<>> /\ Rule(c) \in ValidRules
         /\ MetricKey(Rule(c)) \in Keys /\ Rule(c).param_idx \in Indices
<1>1. todo[c] # <<>>
  BY DEF CallInv
<1> QED
  BY <1>1, TodoFacts, RuleFacts

\* What Check does to the caches.
LEMMA CheckCounts ==
  ASSUME TypeOK, CallInv, NEW c \in Calls, Check(c)
  PROVE  RollingKept /\ ThreadsKept
<1>0. StoreTypeOK /\ CallTypeOK
  BY DEF TypeOK
<1>1. LookUp(Rule(c), params[c][arg[c]]) /\ pc[c] = "check"
  BY DEF Check
<1>2. Rule(c) \in ValidRules
  BY <1>0, <1>1, RuleAtHand
<1>3. rolling[MetricKey(Rule(c))] # NoCache /\ threads[Rule(c).param_idx] # NoCache
  BY <1>1 DEF CallInv
<1> QED
  BY <1>0, <1>1, <1>2, <1>3, LookUpCounts

\* Which steps touch which caches.
LEMMA CachesTouched ==
  ASSUME TypeOK, NEW c \in Calls, CallStep(c)
  PROVE  /\ rolling' = rolling \/ InitRolling(c) \/ Check(c) \/ AddPass(c)
         /\ threads' = threads \/ InitThreadCount(c) \/ Check(c) \/ AddThreadCount(c) \/ Exit(c)
         /\ indexed' = indexed \/ InitIndex(c)
         /\ (full' = full /\ passes' = passes /\ missed' = missed) \/ AddPass(c)
         /\ exact' = exact \/ AddThreadCount(c) \/ Exit(c)
BY DEF CallStep, Entry, InitThreadCount, InitRolling, InitIndex, NextRule,
  BlockedElsewhere, AddPass, AddThreadCount, Exit, shared, past, Check

\* A cache that is there stays.
LEMMA CachesStay ==
  ASSUME IInv, NEW c \in Calls, CallStep(c)
  PROVE  /\ \A k \in Keys : rolling[k] # NoCache => rolling'[k] # NoCache
         /\ \A i \in Indices : threads[i] # NoCache => threads'[i] # NoCache
<1>0. TypeOK /\ StoreTypeOK /\ CallTypeOK /\ PastTypeOK /\ CallInv /\ IndexInv
  BY DEF IInv, TypeOK
<1>1. rolling' = rolling \/ InitRolling(c) \/ Check(c) \/ AddPass(c)
  BY <1>0, CachesTouched
<1>2. threads' = threads \/ InitThreadCount(c) \/ Check(c) \/ AddThreadCount(c) \/ Exit(c)
  BY <1>0, CachesTouched
<1>3. \A k \in Keys : rolling[k] # NoCache => rolling'[k] # NoCache
  <2>1. CASE InitRolling(c)
    BY <1>0, <2>1 DEF InitRolling, StoreTypeOK
  <2>2. CASE Check(c)
    BY <1>0, <2>2, CheckCounts DEF RollingKept
  <2>3. CASE AddPass(c)
    <3>1. \A k \in Keys : indexed[k] > 0 => rolling[k] # NoCache
      BY <1>0 DEF IndexInv
    <3>2. CASE Values = {}
      <4>1. \A k \in Keys : Carried(c, k[1]) = {}
        BY <3>2 DEF Carried
      <4> QED
        BY <2>3, <4>1 DEF AddPass
    <3>3. CASE Values # {}
      BY <1>0, <2>3, <3>1, <3>3, AddPassCounts
    <3> QED
      BY <3>2, <3>3
  <2> QED
    BY <1>1, <2>1, <2>2, <2>3
<1>4. \A i \in Indices : threads[i] # NoCache => threads'[i] # NoCache
  <2>1. CASE InitThreadCount(c)
    BY <1>0, <2>1 DEF InitThreadCount, StoreTypeOK
  <2>2. CASE Check(c)
    BY <1>0, <2>2, CheckCounts DEF ThreadsKept
  <2>3. CASE AddThreadCount(c)
    BY <1>0, <2>3, AdjustCounts DEF AddThreadCount
  <2>4. CASE Exit(c)
    BY <1>0, <2>4, AdjustCounts DEF Exit, DecreaseThreadCount
  <2> QED
    BY <1>2, <2>1, <2>2, <2>3, <2>4
<1> QED
  BY <1>3, <1>4

LEMMA CallStepCallInv ==
  ASSUME IInv, NEW c \in Calls, CallStep(c)
  PROVE  CallInv'
<1>0. TypeOK /\ StoreTypeOK /\ CallTypeOK /\ CallInv
  BY DEF IInv, TypeOK
<1> SUFFICES ASSUME NEW d \in Calls
             PROVE  /\ pc'[d] \in {"init", "array", "index", "check"} => todo'[d] # <<>>
                    /\ pc'[d] \in {"array", "index", "check"} =>
                         threads'[Rule(d)'.param_idx] # NoCache
                    /\ pc'[d] \in {"index", "check"} => rolling'[MetricKey(Rule(d)')] # NoCache
                    /\ pc'[d] = "check" => arg'[d] >= 1
  BY DEF CallInv
<1>1. /\ \A k \in Keys : rolling[k] # NoCache => rolling'[k] # NoCache
      /\ \A i \in Indices : threads[i] # NoCache => threads'[i] # NoCache
  BY CachesStay
<1>2. /\ pc[d] \in {"init", "array", "index", "check"} => todo[d] # <<>>
      /\ pc[d] \in {"array", "index", "check"} => threads[Rule(d).param_idx] # NoCache
      /\ pc[d] \in {"index", "check"} => rolling[MetricKey(Rule(d))] # NoCache
      /\ pc[d] = "check" => arg[d] >= 1
  BY <1>0 DEF CallInv
<1>3. pc[d] \in {"init", "array", "index", "check"} =>
        MetricKey(Rule(d)) \in Keys /\ Rule(d).param_idx \in Indices
  BY <1>0, RuleAtHand
<1>4. CASE pc'[d] = pc[d] /\ todo'[d] = todo[d] /\ (pc[d] = "check" => arg'[d] >= 1)
  <2>1. Rule(d)' = Rule(d)
    BY <1>4 DEF Rule
  <2> QED
    BY <1>1, <1>2, <1>3, <1>4, <2>1
<1>5. CASE d # c
  BY <1>0, <1>2, <1>4, <1>5, OthersKeep
<1>6. CASE d = c
  <2>1. CASE \E p \in Params : Entry(c, p)
    <3>1. /\ pc'[c] = IF rules = <<>> THEN "onPass" ELSE "init"
          /\ todo'[c] = rules
      BY <1>0, <2>1 DEF Entry, Goto, CallTypeOK
    <3> QED
      BY <1>6, <3>1
  <2>2. CASE InitThreadCount(c)
    <3>1. pc'[c] = "array" /\ todo' = todo
      BY <1>0, <2>2 DEF InitThreadCount, Goto, CallTypeOK
    <3>2. pc[c] = "init" /\ Rule(c)' = Rule(c)
      BY <2>2, <3>1 DEF InitThreadCount, Rule
    <3>3. threads'[Rule(c).param_idx] # NoCache
      <4>1. Rule(c) \in ValidRules /\ Rule(c).param_idx \in Indices
        BY <1>0, <3>2, RuleAtHand
      <4>2. [size |-> KeySize(Rule(c)), entries |-> <<>>] \in ThreadCache
        BY <4>1, RuleFacts, CacheTypes
      <4> QED
        BY <1>0, <2>2, <4>1, <4>2, CacheTypes DEF InitThreadCount, StoreTypeOK
    <3> QED
      BY <1>2, <1>6, <3>1, <3>2, <3>3
  <2>3. CASE InitRolling(c)
    <3>1. /\ pc'[c] = "index" \/ (pc'[c] = "check" /\ arg'[c] = 1)
          /\ todo' = todo
      BY <1>0, <2>3 DEF InitRolling, Goto, StartCheck, CallTypeOK
    <3>2. pc[c] = "array" /\ Rule(c)' = Rule(c)
      BY <2>3, <3>1 DEF InitRolling, Rule
    <3>3. rolling'[MetricKey(Rule(c))] # NoCache
      BY <1>0, <1>3, <1>6, <2>3, <3>2, CacheTypes DEF InitRolling, StoreTypeOK
    <3> QED
      BY <1>1, <1>2, <1>3, <1>6, <3>1, <3>2, <3>3
  <2>4. CASE InitIndex(c)
    <3>1. pc'[c] = "check" /\ arg'[c] = 1 /\ todo' = todo
      BY <1>0, <2>4 DEF InitIndex, Goto, StartCheck, CallTypeOK
    <3>2. pc[c] = "index" /\ Rule(c)' = Rule(c)
      BY <2>4, <3>1 DEF InitIndex, Rule
    <3> QED
      BY <1>1, <1>2, <1>3, <1>6, <3>1, <3>2
  <2>5. CASE Check(c)
    <3>1. pc[c] = "check" /\ todo' = todo
      BY <2>5 DEF Check
    <3>2. \/ pc' = pc /\ arg'[c] = arg[c] + 1
          \/ pc'[c] = "done"
      BY <1>0, <2>5 DEF Check, Goto, CallTypeOK
    <3>3. CASE pc'[c] = "done"
      BY <1>6, <3>3
    <3>4. CASE pc' = pc /\ arg'[c] = arg[c] + 1
      <4>1. arg[c] >= 1 /\ arg[c] \in Nat
        BY <1>0, <1>2, <1>6, <3>1 DEF CallTypeOK
      <4> QED
        BY <1>4, <1>6, <3>1, <3>4, <4>1
    <3> QED
      BY <3>2, <3>3, <3>4
  <2>6. CASE NextRule(c)
    <3>1. /\ pc'[c] = IF Tail(todo[c]) = <<>> THEN "onPass" ELSE "init"
          /\ todo'[c] = Tail(todo[c])
      BY <1>0, <2>6 DEF NextRule, Goto, CallTypeOK
    <3> QED
      BY <1>6, <3>1
  <2>7. CASE BlockedElsewhere(c) \/ AddPass(c) \/ AddThreadCount(c) \/ Exit(c)
    <3>1. pc'[c] \in {"done", "addThread", "running"}
      BY <1>0, <2>7 DEF BlockedElsewhere, AddPass, AddThreadCount, Exit, Goto, CallTypeOK
    <3> QED
      BY <1>6, <3>1
  <2> QED
    BY <2>1, <2>2, <2>3, <2>4, <2>5, <2>6, <2>7 DEF CallStep
<1> QED
  BY <1>5, <1>6

\* Going in is what the number of threads limits.
LEMMA CallStepEntryInv ==
  ASSUME IInv, NEW c \in Calls, CallStep(c)
  PROVE  EntryInv'
<1>0. TypeOK /\ CallTypeOK /\ Cardinality(InEntry) <= NumThreads
  BY DEF IInv, TypeOK, EntryInv
<1>1. InEntry \in SUBSET Calls /\ InEntry' \in SUBSET Calls
  BY DEF InEntry
<1>2. \A d \in Calls : d # c => pc'[d] = pc[d]
  BY <1>0, OthersKeep
<1>3. InEntry \ {c} = InEntry' \ {c}
  BY <1>2 DEF InEntry
<1>4. PICK S \in SUBSET Calls : S = InEntry'
  BY <1>1
<1>5. /\ Cardinality(InEntry) \in Nat /\ Cardinality(S) \in Nat
      /\ Cardinality(S) = Cardinality(InEntry) + (IF c \in S THEN 1 ELSE 0)
                                               - (IF c \in InEntry THEN 1 ELSE 0)
  BY <1>1, <1>3, <1>4, CallCount
<1>6. Cardinality(S) <= NumThreads
  <2>1. CASE \E p \in Params : Entry(c, p)
    <3>1. Cardinality(InEntry) < NumThreads
      BY <2>1 DEF Entry
    <3> QED
      BY <1>5, <3>1, NumThreadsType
  <2>2. CASE ~ \E p \in Params : Entry(c, p)
    <3>1. c \in InEntry \/ pc[c] = "running"
      BY <2>2 DEF CallStep, InEntry, InitThreadCount, InitRolling, InitIndex, Check,
        NextRule, BlockedElsewhere, AddPass, AddThreadCount, Exit
    <3>2. CASE c \in InEntry
      BY <1>0, <1>5, <3>2, NumThreadsType
    <3>3. CASE pc[c] = "running"
      <4>1. Exit(c)
        BY <2>2, <3>3 DEF CallStep, InitThreadCount, InitRolling, InitIndex, Check,
          NextRule, BlockedElsewhere, AddPass, AddThreadCount, Exit
      <4>2. pc'[c] = "done"
        BY <1>0, <4>1 DEF Exit, Goto, CallTypeOK
      <4>3. c \notin S
        BY <1>4, <4>2 DEF InEntry
      <4> QED
        BY <1>0, <1>5, <4>3, NumThreadsType
    <3> QED
      BY <3>1, <3>2, <3>3
  <2> QED
    BY <2>1, <2>2
<1> QED
  BY <1>4, <1>6 DEF EntryInv

\* Who puts an array into rolling_params_ is the only one to enter it.
LEMMA CallStepIndexInv ==
  ASSUME IInv, NEW c \in Calls, CallStep(c)
  PROVE  IndexInv'
<1>0. TypeOK /\ StoreTypeOK /\ CallTypeOK /\ CallInv /\ IndexInv
  BY DEF IInv, TypeOK
<1> SUFFICES ASSUME NEW k \in Keys
             PROVE  /\ rolling'[k] = NoCache => indexed'[k] = 0
                    /\ indexed'[k] <= 1
                    /\ indexed'[k] = 1 => Indexing(k)' = {}
                    /\ \A d, e \in Indexing(k)' : d = e
  BY DEF IndexInv
<1>1. /\ rolling[k] = NoCache => indexed[k] = 0
      /\ indexed[k] <= 1
      /\ indexed[k] = 1 => Indexing(k) = {}
      /\ \A d, e \in Indexing(k) : d = e
  BY <1>0 DEF IndexInv
<1>2. rolling'[k] = NoCache => rolling[k] = NoCache
  BY CachesStay
<1>3. \A d \in Calls : d # c => (d \in Indexing(k)' <=> d \in Indexing(k))
  BY <1>0, OthersKeep DEF Indexing, Rule
<1>4. Indexing(k)' \subseteq Calls /\ Indexing(k) \subseteq Calls
  BY DEF Indexing
<1>5. CASE InitRolling(c) /\ Inserts(c) /\ MetricKey(Rule(c)) = k
  <2>1. rolling[k] = NoCache /\ indexed' = indexed
    BY <1>5 DEF Inserts, InitRolling
  <2>2. Indexing(k) = {}
    BY <1>0, <2>1 DEF Indexing, CallInv
  <2>3. Indexing(k)' \subseteq {c}
    BY <1>3, <1>4, <2>2
  <2> QED
    BY <1>1, <2>1, <2>3
<1>6. CASE InitIndex(c) /\ MetricKey(Rule(c)) = k
  <2>1. c \in Indexing(k)
    BY <1>6 DEF InitIndex, Indexing
  <2>2. indexed[k] = 0
    BY <1>0, <1>1, <2>1 DEF StoreTypeOK
  <2>3. indexed'[k] = 1
    BY <1>0, <1>6, <2>2 DEF InitIndex, StoreTypeOK
  <2>4. pc'[c] = "check"
    BY <1>0, <1>6 DEF InitIndex, StartCheck, Goto, CallTypeOK
  <2>5. c \notin Indexing(k)'
    BY <2>4 DEF Indexing
  <2>6. Indexing(k)' = {}
    BY <1>1, <1>3, <1>4, <2>1, <2>5
  <2>7. rolling[k] # NoCache
    BY <1>0, <1>6 DEF CallInv, InitIndex
  <2> QED
    BY <1>2, <2>3, <2>6, <2>7
<1>7. CASE ~(InitRolling(c) /\ Inserts(c) /\ MetricKey(Rule(c)) = k)
           /\ ~(InitIndex(c) /\ MetricKey(Rule(c)) = k)
  <2>1. indexed'[k] = indexed[k]
    <3>1. CASE InitIndex(c)
      BY <1>0, <1>7, <3>1 DEF InitIndex, StoreTypeOK
    <3>2. CASE indexed' = indexed
      BY <3>2
    <3> QED
      BY <1>0, <3>1, <3>2, CachesTouched
  <2>2. c \notin Indexing(k)'
    <3> SUFFICES ASSUME pc'[c] = "index", MetricKey(Rule(c)') = k PROVE FALSE
      BY DEF Indexing
    <3>1. CASE InitRolling(c)
      <4>1. Inserts(c)
        BY <1>0, <3>1 DEF InitRolling, StartCheck, Goto, CallTypeOK
      <4>2. Rule(c)' = Rule(c)
        BY <3>1 DEF InitRolling, Rule
      <4> QED
        BY <1>7, <3>1, <4>1, <4>2
    <3>2. CASE ~InitRolling(c)
      <4>1. pc'[c] # "index"
        <5>1. Check(c) => pc[c] = "check" /\ pc'[c] \in {pc[c], "done"}
          BY <1>0 DEF Check, Goto, CallTypeOK
        <5>2. (\E p \in Params : Entry(c, p)) => pc'[c] # "index"
          BY <1>0 DEF Entry, Goto, CallTypeOK
        <5>3. \/ InitThreadCount(c) \/ InitIndex(c) \/ NextRule(c) \/ BlockedElsewhere(c)
              \/ AddPass(c) \/ AddThreadCount(c) \/ Exit(c)
              => pc'[c] # "index"
          BY <1>0 DEF InitThreadCount, InitIndex, NextRule, BlockedElsewhere, AddPass,
            AddThreadCount, Exit, Goto, StartCheck, CallTypeOK
        <5> QED
          BY <3>2, <5>1, <5>2, <5>3 DEF CallStep
      <4> QED
        BY <4>1
    <3> QED
      BY <3>1, <3>2
  <2>3. Indexing(k)' \subseteq Indexing(k)
    BY <1>3, <1>4, <2>2
  <2> QED
    BY <1>1, <1>2, <2>1, <2>3
<1> QED
  BY <1>5, <1>6, <1>7

\* The calls under way change by the one that starts or ends.
LEMMA InFlightStep ==
  ASSUME TypeOK, NEW c \in Calls, CallStep(c), NEW i \in Indices, NEW v \in Values
  PROVE  /\ InFlight(i, v) \in SUBSET Calls /\ InFlight(i, v)' \in SUBSET Calls
         /\ InFlight(i, v) \ {c} = InFlight(i, v)' \ {c}
         /\ c \in InFlight(i, v)' <=> AddThreadCount(c) /\ Carries(c, i, v)
         /\ c \in InFlight(i, v) <=> Exit(c) /\ Carries(c, i, v)
<1>0. CallTypeOK
  BY DEF TypeOK
<1>1. \A d \in Calls : d # c => pc'[d] = pc[d] /\ params'[d] = params[d]
  BY OthersKeep
<1>2. InFlight(i, v) \ {c} = InFlight(i, v)' \ {c}
  BY <1>1 DEF InFlight, Carries
<1>3. c \in InFlight(i, v) <=> Exit(c) /\ Carries(c, i, v)
  <2>1. pc[c] = "running" => Exit(c)
    BY DEF CallStep, Entry, InitThreadCount, InitRolling, InitIndex, Check, NextRule,
      BlockedElsewhere, AddPass, AddThreadCount
  <2>2. Exit(c) => pc[c] = "running"
    BY DEF Exit
  <2> QED
    BY <2>1, <2>2 DEF InFlight
<1>4. AddThreadCount(c) => pc'[c] = "running" /\ params' = params
  BY <1>0 DEF AddThreadCount, Goto, CallTypeOK
<1>5. pc'[c] = "running" => AddThreadCount(c)
  <2>1. Check(c) => pc[c] = "check" /\ pc'[c] \in {pc[c], "done"}
    BY <1>0 DEF Check, Goto, CallTypeOK
  <2>2. (\E p \in Params : Entry(c, p)) => pc'[c] # "running"
    BY <1>0 DEF Entry, Goto, CallTypeOK
  <2>3. InitRolling(c) => pc'[c] # "running"
    BY <1>0 DEF InitRolling, StartCheck, Goto, CallTypeOK
  <2>4. \/ InitThreadCount(c) \/ InitIndex(c) \/ NextRule(c) \/ BlockedElsewhere(c)
        \/ AddPass(c) \/ Exit(c)
        => pc'[c] # "running"
    BY <1>0 DEF InitThreadCount, InitIndex, NextRule, BlockedElsewhere, AddPass,
      Exit, Goto, StartCheck, CallTypeOK
  <2> QED
    BY <2>1, <2>2, <2>3, <2>4 DEF CallStep
<1>6. c \in InFlight(i, v)' <=> AddThreadCount(c) /\ Carries(c, i, v)
  BY <1>4, <1>5 DEF InFlight, Carries
<1> QED
  BY <1>2, <1>3, <1>6 DEF InFlight

\* The thread counts follow the calls under way.
LEMMA CallStepThreadInv ==
  ASSUME IInv, NEW c \in Calls, CallStep(c)
  PROVE  ThreadInv'
<1>0. TypeOK /\ StoreTypeOK /\ CallTypeOK /\ CallInv /\ ThreadInv
  BY DEF IInv, TypeOK
<1> SUFFICES ASSUME NEW i \in Indices, NEW v \in Values
             PROVE  /\ threads'[i] # NoCache =>
                         /\ Count(threads'[i].entries, v) <= Cardinality(InFlight(i, v)')
                         /\ i \in exact' =>
                              Count(threads'[i].entries, v) = Cardinality(InFlight(i, v)')
                    /\ threads'[i] = NoCache /\ i \in exact' => InFlight(i, v)' = {}
  BY DEF ThreadInv
<1>1. PICK S \in SUBSET Calls : S = InFlight(i, v)
  BY DEF InFlight
<1>2. PICK R \in SUBSET Calls : R = InFlight(i, v)'
  BY <1>0, InFlightStep
<1>3. /\ threads[i] # NoCache => /\ Count(threads[i].entries, v) <= Cardinality(S)
                                 /\ i \in exact => Count(threads[i].entries, v) = Cardinality(S)
      /\ threads[i] = NoCache /\ i \in exact => S = {}
  BY <1>0, <1>1 DEF ThreadInv
<1>4. /\ S \ {c} = R \ {c}
      /\ c \in R <=> AddThreadCount(c) /\ Carries(c, i, v)
      /\ c \in S <=> Exit(c) /\ Carries(c, i, v)
  BY <1>0, <1>1, <1>2, InFlightStep
<1>5. /\ Cardinality(S) \in Nat /\ Cardinality(R) \in Nat
      /\ Cardinality(R) = Cardinality(S) + (IF c \in R THEN 1 ELSE 0)
                                         - (IF c \in S THEN 1 ELSE 0)
  BY <1>4, CallCount
<1>6. threads[i] # NoCache => Count(threads[i].entries, v) \in Int
  BY <1>0, CacheTypes, CountType DEF StoreTypeOK
<1>7. ASSUME ~AddThreadCount(c), ~Exit(c)
      PROVE  S = R /\ exact' = exact
  BY <1>0, <1>4, <1>7, CachesTouched
<1>8. CASE AddThreadCount(c)
  <2>1. /\ Adjust(c, 1) /\ pc[c] = "addThread"
        /\ exact' = {q \in exact : ~Loses(c, q) /\ (threads[q] = NoCache => Carried(c, q) = {})}
    BY <1>8 DEF AddThreadCount
  <2>2. /\ threads'[i] = NoCache <=> threads[i] = NoCache
        /\ threads[i] # NoCache =>
             \/ Count(threads'[i].entries, v) = Count(threads[i].entries, v)
                                                + (IF Carries(c, i, v) THEN 1 ELSE 0)
             \/ Count(threads'[i].entries, v) = 0 /\ Loses(c, i) /\ ~Carries(c, i, v)
    BY <1>0, <2>1, AdjustCounts
  <2>3. c \notin S /\ (c \in R <=> Carries(c, i, v))
    <3>1. ~Exit(c)
      BY <2>1 DEF Exit
    <3> QED
      BY <1>4, <1>8, <3>1
  <2>4. Cardinality(R) = Cardinality(S) + (IF Carries(c, i, v) THEN 1 ELSE 0)
    BY <1>5, <2>3
  <2>5. CASE threads[i] = NoCache
    <3>1. i \in exact' => Carried(c, i) = {} /\ i \in exact
      BY <2>1, <2>5
    <3>2. i \in exact' => R = {}
      BY <1>3, <1>4, <2>3, <2>5, <3>1 DEF Carried
    <3> QED
      BY <1>2, <2>2, <2>5, <3>2
  <2>6. CASE threads[i] # NoCache
    <3>1. i \in exact' => i \in exact /\ ~Loses(c, i)
      BY <2>1
    <3>2. Count(threads'[i].entries, v) <= Cardinality(R)
      BY <1>3, <1>5, <1>6, <2>2, <2>4, <2>6
    <3>3. i \in exact' => Count(threads'[i].entries, v) = Cardinality(R)
      BY <1>3, <1>5, <1>6, <2>2, <2>4, <2>6, <3>1
    <3> QED
      BY <1>2, <2>2, <2>6, <3>2, <3>3
  <2> QED
    BY <2>5, <2>6
<1>9. CASE Exit(c)
  <2>1. /\ Adjust(c, -1) /\ pc[c] = "running"
        /\ exact' = {q \in exact : ~Loses(c, q)}
    BY <1>9 DEF Exit, DecreaseThreadCount
  <2>2. /\ threads'[i] = NoCache <=> threads[i] = NoCache
        /\ threads[i] # NoCache =>
             \/ Count(threads'[i].entries, v) = Count(threads[i].entries, v)
                                                + (IF Carries(c, i, v) THEN -1 ELSE 0)
             \/ Count(threads'[i].entries, v) = 0 /\ Loses(c, i) /\ ~Carries(c, i, v)
    BY <1>0, <2>1, AdjustCounts
  <2>3. c \notin R /\ (c \in S <=> Carries(c, i, v))
    <3>1. ~AddThreadCount(c)
      BY <2>1 DEF AddThreadCount
    <3> QED
      BY <1>4, <1>9, <3>1
  <2>4. Cardinality(R) = Cardinality(S) - (IF Carries(c, i, v) THEN 1 ELSE 0)
    BY <1>5, <2>3
  <2>5. CASE threads[i] = NoCache
    <3>1. i \in exact' => R = {}
      BY <1>3, <1>4, <2>1, <2>3, <2>5
    <3> QED
      BY <1>2, <2>2, <2>5, <3>1
  <2>6. CASE threads[i] # NoCache
    <3>1. i \in exact' => i \in exact /\ ~Loses(c, i)
      BY <2>1
    <3>2. Count(threads'[i].entries, v) <= Cardinality(R)
      BY <1>3, <1>5, <1>6, <2>2, <2>4, <2>6
    <3>3. i \in exact' => Count(threads'[i].entries, v) = Cardinality(R)
      BY <1>3, <1>5, <1>6, <2>2, <2>4, <2>6, <3>1
    <3> QED
      BY <1>2, <2>2, <2>6, <3>2, <3>3
  <2> QED
    BY <2>5, <2>6
<1>10. CASE InitThreadCount(c)
  <2>1. pc[c] = "init"
    BY <1>10 DEF InitThreadCount
  <2>2. S = R /\ exact' = exact
    <3>1. ~AddThreadCount(c) /\ ~Exit(c)
      BY <2>1 DEF AddThreadCount, Exit
    <3> QED
      BY <1>7, <3>1
  <2>3. Rule(c).param_idx \in Indices
    BY <1>0, <2>1, RuleAtHand
  <2>4. CASE threads'[i] = threads[i]
    BY <1>2, <1>3, <2>2, <2>4
  <2>5. CASE threads'[i] # threads[i]
    <3>1. /\ threads[i] = NoCache
          /\ threads'[i] = [size |-> KeySize(Rule(c)), entries |-> <<>>]
      BY <1>0, <1>10, <2>3, <2>5 DEF InitThreadCount, StoreTypeOK
    <3>2. threads'[i].entries = <<>>
      BY <3>1
    <3>3. Count(threads'[i].entries, v) = 0
      BY <3>2, CacheTypes
    <3>4. i \in exact => Cardinality(R) = 0
      BY <1>3, <2>2, <3>1, FS_EmptySet
    <3>5. threads'[i] # NoCache
      BY <2>5, <3>1
    <3> QED
      BY <1>2, <1>5, <2>2, <3>3, <3>4, <3>5
  <2> QED
    BY <2>4, <2>5
<1>11. CASE Check(c)
  <2>1. S = R /\ exact' = exact
    <3>1. ~AddThreadCount(c) /\ ~Exit(c)
      BY <1>11 DEF AddThreadCount, Exit, Check
    <3> QED
      BY <1>7, <3>1
  <2>2. /\ threads'[i] = NoCache <=> threads[i] = NoCache
        /\ threads[i] # NoCache =>
             Count(threads'[i].entries, v) = Count(threads[i].entries, v)
    BY <1>0, <1>11, CheckCounts DEF ThreadsKept
  <2> QED
    BY <1>2, <1>3, <2>1, <2>2
<1>12. CASE threads' = threads /\ ~AddThreadCount(c) /\ ~Exit(c)
  BY <1>2, <1>3, <1>7, <1>12
<1> QED
  BY <1>0, <1>8, <1>9, <1>10, <1>11, <1>12, CachesTouched

\* AddPass, for one key and value: what is added to the count and to the history.
LEMMA AddPassStep ==
  ASSUME IInv, NEW c \in Calls, AddPass(c), NEW k \in Keys, NEW v \in Values
  PROVE  /\ rolling'[k] = NoCache <=> rolling[k] = NoCache
         /\ rolling[k] = NoCache => k \notin Hit(c)
         /\ k \notin full' => k \notin full
         /\ k \notin Hit(c) => rolling'[k] = rolling[k]
         /\ k \in Hit(c) =>
              \/ Count(rolling'[k], v) = Count(rolling[k], v)
                                         + (IF Carries(c, k[1], v) THEN 1 ELSE 0)
              \/ Count(rolling'[k], v) = 0 /\ k \in full'
         /\ passes'[k][v] = passes[k][v] + (IF Carries(c, k[1], v) /\ gen[c] = loads
                                            THEN 1 ELSE 0)
         /\ missed'[k][v] = missed[k][v] + (IF Carries(c, k[1], v) /\ gen[c] = loads
                                                /\ k \notin Hit(c)
                                            THEN 1 ELSE 0)
         /\ passes[k][v] \in Nat /\ missed[k][v] \in Nat
<1>0. TypeOK /\ StoreTypeOK /\ PastTypeOK /\ IndexInv
  BY DEF IInv, TypeOK
<1>1. \A q \in Keys : /\ indexed[q] > 0 => rolling[q] # NoCache
                      /\ indexed[q] \in Nat /\ indexed[q] <= 1
  BY <1>0 DEF IndexInv, StoreTypeOK
<1>2. /\ full \subseteq full'
      /\ rolling'[k] = NoCache <=> rolling[k] = NoCache
      /\ k \notin Hit(c) => rolling'[k] = rolling[k]
      /\ k \in Hit(c) =>
           \/ Count(rolling'[k], v) = Count(rolling[k], v)
                                      + (IF Carries(c, k[1], v) THEN indexed[k] ELSE 0)
           \/ Count(rolling'[k], v) = 0 /\ k \in full'
  BY <1>0, <1>1, AddPassCounts
<1>3. k \in Hit(c) => indexed[k] = 1 /\ rolling[k] # NoCache
  <2>1. k \in Hit(c) => indexed[k] > 0
    BY DEF Hit
  <2> QED
    BY <1>1, <2>1
<1>4. passes'[k][v] = passes[k][v] + (IF Carries(c, k[1], v) /\ gen[c] = loads THEN 1 ELSE 0)
  BY DEF AddPass
<1>5. missed'[k][v] = missed[k][v] + (IF Carries(c, k[1], v) /\ gen[c] = loads
                                          /\ k \notin Hit(c) THEN 1 ELSE 0)
  BY DEF AddPass, Hit
<1>6. passes[k][v] \in Nat /\ missed[k][v] \in Nat
  BY <1>0 DEF PastTypeOK
<1> QED
  BY <1>2, <1>3, <1>4, <1>5, <1>6

\* The PASS counts follow the passes.
LEMMA CallStepPassInv ==
  ASSUME IInv, NEW c \in Calls, CallStep(c)
  PROVE  PassInv'
<1>0. TypeOK /\ StoreTypeOK /\ PastTypeOK /\ CallInv /\ PassInv
  BY DEF IInv, TypeOK
<1> SUFFICES ASSUME NEW k \in Keys, NEW v \in Values
             PROVE  /\ rolling'[k] # NoCache => Count(rolling'[k], v) >= 0
                    /\ rolling'[k] # NoCache /\ k \notin full' =>
                         passes'[k][v] - missed'[k][v] <= Count(rolling'[k], v)
                    /\ rolling'[k] = NoCache => passes'[k][v] <= missed'[k][v]
  BY DEF PassInv
<1>1. /\ rolling[k] # NoCache => Count(rolling[k], v) >= 0
      /\ rolling[k] # NoCache /\ k \notin full =>
           passes[k][v] - missed[k][v] <= Count(rolling[k], v)
      /\ rolling[k] = NoCache => passes[k][v] <= missed[k][v]
  BY <1>0 DEF PassInv
<1>2. /\ rolling[k] # NoCache => Count(rolling[k], v) \in Int
      /\ passes[k][v] \in Nat /\ missed[k][v] \in Nat
  BY <1>0, CountType DEF StoreTypeOK, PastTypeOK
<1>3. CASE AddPass(c)
  <2>1. /\ rolling'[k] = NoCache <=> rolling[k] = NoCache
        /\ rolling[k] = NoCache => k \notin Hit(c)
        /\ k \notin full' => k \notin full
        /\ k \notin Hit(c) => rolling'[k] = rolling[k]
        /\ k \in Hit(c) =>
             \/ Count(rolling'[k], v) = Count(rolling[k], v)
                                        + (IF Carries(c, k[1], v) THEN 1 ELSE 0)
             \/ Count(rolling'[k], v) = 0 /\ k \in full'
        /\ passes'[k][v] = passes[k][v] + (IF Carries(c, k[1], v) /\ gen[c] = loads
                                           THEN 1 ELSE 0)
        /\ missed'[k][v] = missed[k][v] + (IF Carries(c, k[1], v) /\ gen[c] = loads
                                               /\ k \notin Hit(c)
                                           THEN 1 ELSE 0)
    BY <1>3, AddPassStep
  <2>2. CASE k \in Hit(c)
    <3>1. missed'[k][v] = missed[k][v] /\ rolling[k] # NoCache
      BY <1>2, <2>1, <2>2
    <3>2. \/ passes'[k][v] = passes[k][v] + 1 /\ Carries(c, k[1], v)
          \/ passes'[k][v] = passes[k][v]
      BY <1>2, <2>1
    <3>3. \/ Count(rolling'[k], v) = Count(rolling[k], v)
                                     + (IF Carries(c, k[1], v) THEN 1 ELSE 0)
          \/ Count(rolling'[k], v) = 0 /\ k \in full'
      BY <2>1, <2>2
    <3>4. Count(rolling'[k], v) >= 0
      BY <1>1, <1>2, <3>1, <3>3
    <3>5. k \notin full' => passes'[k][v] - missed'[k][v] <= Count(rolling'[k], v)
      BY <1>1, <1>2, <2>1, <3>1, <3>2, <3>3
    <3> QED
      BY <2>1, <3>1, <3>4, <3>5
  <2>3. CASE k \notin Hit(c)
    <3>1. rolling'[k] = rolling[k]
      BY <2>1, <2>3
    <3>2. \/ passes'[k][v] = passes[k][v] /\ missed'[k][v] = missed[k][v]
          \/ passes'[k][v] = passes[k][v] + 1 /\ missed'[k][v] = missed[k][v] + 1
      BY <1>2, <2>1, <2>3
    <3> QED
      BY <1>1, <1>2, <2>1, <3>1, <3>2
  <2> QED
    BY <2>2, <2>3
<1>4. ASSUME ~AddPass(c)
      PROVE  full' = full /\ passes' = passes /\ missed' = missed
  BY <1>0, <1>4, CachesTouched
<1>5. CASE InitRolling(c)
  <2>1. ~AddPass(c)
    BY <1>5 DEF InitRolling, AddPass
  <2>2. rolling'[k] = rolling[k] \/ (rolling[k] = NoCache /\ rolling'[k] = <<>>)
    BY <1>0, <1>5 DEF InitRolling, StoreTypeOK
  <2>3. CASE rolling'[k] = rolling[k]
    BY <1>1, <1>4, <2>1, <2>3
  <2>4. CASE rolling[k] = NoCache /\ rolling'[k] = <<>>
    <3>1. rolling'[k] # NoCache /\ Count(rolling'[k], v) = 0
      BY <2>4, CacheTypes
    <3> QED
      BY <1>1, <1>2, <1>4, <2>1, <2>4, <3>1
  <2> QED
    BY <2>2, <2>3, <2>4
<1>6. CASE Check(c)
  <2>1. ~AddPass(c)
    BY <1>6 DEF Check, AddPass
  <2>2. /\ rolling'[k] = NoCache <=> rolling[k] = NoCache
        /\ rolling[k] # NoCache => Count(rolling'[k], v) = Count(rolling[k], v)
    BY <1>0, <1>6, CheckCounts DEF RollingKept
  <2> QED
    BY <1>1, <1>4, <2>1, <2>2
<1>7. CASE rolling' = rolling /\ ~AddPass(c)
  BY <1>1, <1>4, <1>7
<1> QED
  BY <1>0, <1>3, <1>5, <1>6, <1>7, CachesTouched

\* A call goes through the rules that it has fetched.
LEMMA CallStepTodoInv ==
  ASSUME IInv, NEW c \in Calls, CallStep(c)
  PROVE  TodoInv'
<1>0. TypeOK /\ StoreTypeOK /\ CallTypeOK /\ CallInv /\ TodoInv
  BY DEF IInv, TypeOK
<1> SUFFICES ASSUME NEW d \in Calls
             PROVE  /\ pc'[d] # "new" => gen'[d] <= loads'
                    /\ pc'[d] # "new" /\ gen'[d] = loads' =>
                         /\ Len(todo'[d]) <= Len(rules')
                         /\ \A n \in 1 .. Len(todo'[d]) :
                              todo'[d][n] = rules'[Len(rules') - Len(todo'[d]) + 1 + n - 1]
                         /\ pc'[d] \in {"onPass", "addThread"} => todo'[d] = <<>>
  BY DEF TodoInv, Position
<1>1. /\ pc[d] # "new" => gen[d] <= loads
      /\ pc[d] # "new" /\ gen[d] = loads =>
           /\ Len(todo[d]) <= Len(rules)
           /\ \A n \in 1 .. Len(todo[d]) :
                todo[d][n] = rules[Len(rules) - Len(todo[d]) + 1 + n - 1]
           /\ pc[d] \in {"onPass", "addThread"} => todo[d] = <<>>
  BY <1>0 DEF TodoInv, Position
<1>2. rules' = rules /\ loads' = loads /\ loads \in Nat /\ Len(rules) \in Nat
  BY <1>0, OthersKeep, LenProperties DEF StoreTypeOK
<1>3. CASE /\ todo'[d] = todo[d] /\ gen'[d] = gen[d] /\ pc[d] # "new"
           /\ pc'[d] \in {"onPass", "addThread"} => pc[d] \in {"onPass", "addThread"}
  BY <1>1, <1>2, <1>3
<1>4. CASE d # c
  BY <1>0, <1>1, <1>2, <1>4, OthersKeep
<1>5. CASE d = c
  <2>1. CASE \E p \in Params : Entry(c, p)
    <3>1. /\ pc'[c] = IF rules = <<>> THEN "onPass" ELSE "init"
          /\ todo'[c] = rules /\ gen'[c] = loads
      BY <1>0, <2>1 DEF Entry, Goto, CallTypeOK
    <3>2. Len(rules) - Len(rules) = 0
      BY <1>2
    <3>3. \A n \in 1 .. Len(rules) : rules[n] = rules[Len(rules) - Len(rules) + 1 + n - 1]
      BY <1>2
    <3> QED
      BY <1>2, <1>5, <3>1, <3>3
  <2>2. CASE NextRule(c)
    <3>1. /\ pc'[c] = IF Tail(todo[c]) = <<>> THEN "onPass" ELSE "init"
          /\ todo'[c] = Tail(todo[c]) /\ gen' = gen /\ pc[c] = "check"
      BY <1>0, <2>2 DEF NextRule, Goto, CallTypeOK
    <3>2. todo[c] # <<>>
      BY <1>0, <3>1 DEF CallInv
    <3> DEFINE t == todo[c]
               u == Tail(todo[c])
    <3>3. /\ Len(t) \in Nat \ {0} /\ Len(u) = Len(t) - 1
          /\ \A n \in 1 .. Len(t) - 1 : u[n] = t[n + 1]
      BY <1>0, <3>2, TodoFacts
    <3>4. gen[c] <= loads
      BY <1>1, <1>5, <3>1
    <3>5. ASSUME gen[c] = loads
          PROVE  /\ Len(u) <= Len(rules)
                 /\ \A n \in 1 .. Len(u) : u[n] = rules[Len(rules) - Len(u) + 1 + n - 1]
      <4>1. /\ Len(t) <= Len(rules)
            /\ \A n \in 1 .. Len(t) : t[n] = rules[Len(rules) - Len(t) + 1 + n - 1]
        BY <1>1, <1>5, <3>1, <3>5
      <4> HIDE DEF t, u
      <4>2. ASSUME NEW n \in 1 .. Len(u)
            PROVE  u[n] = rules[Len(rules) - Len(u) + 1 + n - 1]
        <5>1. u[n] = t[n + 1] /\ n + 1 \in 1 .. Len(t)
          BY <3>3
        <5>2. Len(rules) - Len(t) + 1 + (n + 1) - 1 = Len(rules) - Len(u) + 1 + n - 1
          BY <1>2, <3>3
        <5>3. t[n + 1] = rules[Len(rules) - Len(t) + 1 + (n + 1) - 1]
          BY <4>1, <5>1
        <5> QED
          BY <5>1, <5>2, <5>3
      <4> QED
        BY <1>2, <3>3, <4>1, <4>2
    <3> HIDE DEF t
    <3> QED
      BY <1>2, <1>5, <3>1, <3>4, <3>5
  <2>3. CASE InitThreadCount(c) \/ InitIndex(c) \/ BlockedElsewhere(c)
             \/ AddPass(c) \/ AddThreadCount(c) \/ Exit(c)
    <3>1. /\ todo' = todo /\ gen' = gen /\ pc[c] # "new"
          /\ pc'[c] \in {"onPass", "addThread"} => pc[c] \in {"onPass", "addThread"}
      BY <1>0, <2>3 DEF InitThreadCount, InitIndex, BlockedElsewhere, AddPass,
        AddThreadCount, Exit, Goto, StartCheck, CallTypeOK
    <3> QED
      BY <1>3, <1>5, <3>1
  <2>4. CASE InitRolling(c)
    <3>1. /\ todo' = todo /\ gen' = gen /\ pc[c] # "new"
          /\ pc'[c] \notin {"onPass", "addThread"}
      BY <1>0, <2>4 DEF InitRolling, Goto, StartCheck, CallTypeOK
    <3> QED
      BY <1>3, <1>5, <3>1
  <2>5. CASE Check(c)
    <3>1. /\ todo' = todo /\ gen' = gen /\ pc[c] # "new"
          /\ pc'[c] \notin {"onPass", "addThread"}
      BY <1>0, <2>5 DEF Check, Goto, CallTypeOK
    <3> QED
      BY <1>3, <1>5, <3>1
  <2> QED
    BY <2>1, <2>2, <2>3, <2>4, <2>5 DEF CallStep
<1> QED
  BY <1>4, <1>5

-----------------------------------------------------------------------------
(***************************************************************************)
(* The limits.                                                             *)
(***************************************************************************)
\* Only Check lets a value through, and it has held it against the rule.
LEMMA NewlyThrough ==
  ASSUME IInv, NEW c \in Calls, CallStep(c), NEW j \in 1 .. Len(rules), NEW v \in Values,
         LetThrough(c, j, v)', ~LetThrough(c, j, v)
  PROVE  /\ Check(c) /\ Rule(c) = rules[j] /\ PassSingleValueCheck(rules[j], v)
<1>0. TypeOK /\ StoreTypeOK /\ CallTypeOK /\ CallInv /\ TodoInv
  BY DEF IInv, TypeOK
<1> DEFINE i == rules[j].param_idx
           active == {"init", "array", "index", "check", "onPass", "addThread"}
<1>1. /\ rules' = rules /\ loads' = loads /\ Len(rules) \in Nat /\ Len(todo[c]) \in Nat
      /\ i \in Nat /\ arg[c] \in Nat
  BY <1>0, OthersKeep, LenProperties, LimitTypes, IndexFacts DEF StoreTypeOK, CallTypeOK
<1>2. /\ gen'[c] = loads /\ Carries(c, i, v)'
      /\ \/ pc'[c] \in active /\ Position(c)' > j
         \/ pc'[c] = "check" /\ Position(c)' = j /\ arg'[c] > i + 1
  BY <1>1 DEF LetThrough
<1>3. ~ /\ gen[c] = loads /\ Carries(c, i, v)
        /\ \/ pc[c] \in active /\ Position(c) > j
           \/ pc[c] = "check" /\ Position(c) = j /\ arg[c] > i + 1
  BY DEF LetThrough
<1> HIDE DEF i
<1>4. ASSUME todo' = todo, params' = params, gen' = gen
      PROVE  /\ Position(c)' = Position(c) /\ gen[c] = loads /\ Carries(c, i, v)
  BY <1>1, <1>2, <1>4 DEF Position, Carries, i
<1>5. ASSUME todo' = todo, params' = params, gen' = gen, pc[c] \in active,
             pc'[c] = "check" => arg'[c] = 1
      PROVE  FALSE
  BY <1>1, <1>2, <1>3, <1>4, <1>5
<1>6. ~ \E p \in Params : Entry(c, p)
  <2> SUFFICES ASSUME \E p \in Params : Entry(c, p) PROVE FALSE
    OBVIOUS
  <2>1. todo'[c] = rules /\ pc'[c] # "check"
    BY <1>0 DEF Entry, Goto, CallTypeOK
  <2>2. Position(c)' = 1
    BY <1>1, <2>1 DEF Position
  <2> QED
    BY <1>2, <2>1, <2>2
<1>7. ~(InitThreadCount(c) \/ BlockedElsewhere(c) \/ AddPass(c))
  <2> SUFFICES ASSUME InitThreadCount(c) \/ BlockedElsewhere(c) \/ AddPass(c) PROVE FALSE
    OBVIOUS
  <2>1. /\ todo' = todo /\ params' = params /\ gen' = gen /\ pc[c] \in active
        /\ pc'[c] # "check"
    BY <1>0 DEF InitThreadCount, BlockedElsewhere, AddPass, Goto, CallTypeOK
  <2> QED
    BY <1>5, <2>1
<1>8. ~(InitRolling(c) \/ InitIndex(c))
  <2> SUFFICES ASSUME InitRolling(c) \/ InitIndex(c) PROVE FALSE
    OBVIOUS
  <2>1. /\ todo' = todo /\ params' = params /\ gen' = gen /\ pc[c] \in active
        /\ pc'[c] = "check" => arg'[c] = 1
    BY <1>0 DEF InitRolling, InitIndex, StartCheck, Goto, CallTypeOK
  <2> QED
    BY <1>5, <2>1
<1>9. ~(AddThreadCount(c) \/ Exit(c))
  <2> SUFFICES ASSUME AddThreadCount(c) \/ Exit(c) PROVE FALSE
    OBVIOUS
  <2>1. pc'[c] \in {"running", "done"}
    BY <1>0 DEF AddThreadCount, Exit, Goto, CallTypeOK
  <2> QED
    BY <1>2, <2>1
<1>10. ~NextRule(c)
  <2> SUFFICES ASSUME NextRule(c) PROVE FALSE
    OBVIOUS
  <2>1. /\ pc'[c] # "check" /\ pc[c] = "check" /\ arg[c] > Len(params[c])
        /\ todo'[c] = Tail(todo[c]) /\ params' = params /\ gen' = gen
    BY <1>0 DEF NextRule, Goto, CallTypeOK
  <2>2. todo[c] # <<>>
    BY <1>0, <2>1 DEF CallInv
  <2>3. Position(c)' = Position(c) + 1 /\ Position(c) \in Int
    <3>1. Len(Tail(todo[c])) = Len(todo[c]) - 1
      BY <1>0, <2>2, TodoFacts
    <3>2. Len(todo'[c]) = Len(todo[c]) - 1
      BY <2>1, <3>1
    <3> QED
      BY <1>1, <3>2 DEF Position
  <2>4. gen[c] = loads /\ Carries(c, i, v)
    BY <1>1, <1>2, <2>1 DEF Carries, i
  <2>5. Position(c) > j \/ Position(c) = j
    BY <1>2, <2>1, <2>3
  <2>6. arg[c] > i + 1
    <3>1. i + 1 <= Len(params[c]) /\ Len(params[c]) \in Nat
      BY <1>0, <2>4, LenProperties DEF Carries, CallTypeOK
    <3> QED
      BY <1>1, <2>1, <3>1
  <2> QED
    BY <1>3, <2>1, <2>4, <2>5, <2>6
<1>11. Check(c)
  BY <1>6, <1>7, <1>8, <1>9, <1>10 DEF CallStep
<1>12. /\ todo' = todo /\ params' = params /\ gen' = gen /\ pc[c] = "check"
       /\ \/ pc'[c] = "done"
          \/ /\ pc' = pc /\ arg'[c] = arg[c] + 1
             /\ PassSingleValueCheck(Rule(c), params[c][arg[c]])
  BY <1>0, <1>11 DEF Check, Goto, CallTypeOK
<1>13. /\ pc' = pc /\ arg'[c] = arg[c] + 1
       /\ PassSingleValueCheck(Rule(c), params[c][arg[c]])
  BY <1>2, <1>12
<1>14. Position(c) = j /\ arg[c] = i + 1 /\ gen[c] = loads /\ Carries(c, i, v)
  <2>1. gen[c] = loads /\ Carries(c, i, v) /\ Position(c)' = Position(c)
    BY <1>4, <1>12
  <2>2. Position(c) = j /\ ~(arg[c] > i + 1) /\ arg'[c] > i + 1
    BY <1>2, <1>3, <1>12, <2>1
  <2> QED
    BY <1>1, <1>13, <2>1, <2>2
<1>15. Rule(c) = rules[j]
  <2>1. todo[c] # <<>>
    BY <1>0, <1>12 DEF CallInv
  <2>2. Rule(c) = todo[c][1] /\ 1 \in 1 .. Len(todo[c])
    BY <1>0, <2>1, TodoFacts
  <2>3. todo[c][1] = rules[Position(c) + 1 - 1]
    BY <1>0, <1>12, <1>14, <2>2 DEF TodoInv
  <2>4. j + 1 - 1 = j
    OBVIOUS
  <2> QED
    BY <1>14, <2>2, <2>3, <2>4
<1>16. params[c][arg[c]] = v
  BY <1>14 DEF Carries
<1> QED
  BY <1>11, <1>13, <1>15, <1>16

\* The other calls stay let through; who is let through is inside Entry.
LEMMA ThroughStep ==
  ASSUME IInv, NEW c \in Calls, CallStep(c), NEW j \in 1 .. Len(rules), NEW v \in Values
  PROVE  /\ ToPass(j, v)' \in SUBSET Calls /\ ToCount(j, v)' \in SUBSET Calls
         /\ ToPass(j, v)' \in SUBSET (InEntry') /\ ToCount(j, v)' \in SUBSET (InEntry')
         /\ ToPass(j, v) \ {c} = ToPass(j, v)' \ {c}
         /\ ToCount(j, v) \ {c} = ToCount(j, v)' \ {c}
         /\ c \in ToPass(j, v)' /\ c \notin ToPass(j, v) =>
              Check(c) /\ Rule(c) = rules[j] /\ PassSingleValueCheck(rules[j], v)
         /\ c \in ToCount(j, v)' /\ c \notin ToCount(j, v) =>
              Check(c) /\ Rule(c) = rules[j] /\ PassSingleValueCheck(rules[j], v)
<1>0. TypeOK /\ StoreTypeOK /\ CallTypeOK
  BY DEF IInv, TypeOK
<1>1. /\ rules' = rules /\ loads' = loads
      /\ \A d \in Calls : d # c => /\ pc'[d] = pc[d] /\ params'[d] = params[d]
                                   /\ todo'[d] = todo[d] /\ arg'[d] = arg[d]
                                   /\ gen'[d] = gen[d]
  BY <1>0, OthersKeep
<1>2. \A d \in Calls : d # c => /\ LetThrough(d, j, v)' <=> LetThrough(d, j, v)
                                /\ d \in InEntry' <=> d \in InEntry
  BY <1>1 DEF LetThrough, Carries, Position, InEntry
<1>3. \A d \in Calls : LetThrough(d, j, v) => d \in InEntry
  BY DEF LetThrough, InEntry
<1>4. pc[c] = "addThread" => ~LetThrough(c, j, v)'
  <2> SUFFICES ASSUME pc[c] = "addThread" PROVE ~LetThrough(c, j, v)'
    OBVIOUS
  <2>1. AddThreadCount(c)
    BY DEF CallStep, Entry, InitThreadCount, InitRolling, InitIndex, Check, NextRule,
      BlockedElsewhere, AddPass, Exit
  <2>2. pc'[c] = "running"
    BY <1>0, <2>1 DEF AddThreadCount, Goto, CallTypeOK
  <2> QED
    BY <2>2 DEF LetThrough
<1>5. ToPass(j, v) \ {c} = ToPass(j, v)' \ {c}
  BY <1>1, <1>2 DEF ToPass, InEntry
<1>6. ToCount(j, v) \ {c} = ToCount(j, v)' \ {c}
  BY <1>1, <1>2 DEF ToCount, InEntry
<1>7. c \in ToPass(j, v)' /\ c \notin ToPass(j, v) => LetThrough(c, j, v)' /\ ~LetThrough(c, j, v)
  BY <1>3, <1>4 DEF ToPass
<1>8. c \in ToCount(j, v)' /\ c \notin ToCount(j, v) => LetThrough(c, j, v)' /\ ~LetThrough(c, j, v)
  BY <1>3 DEF ToCount
<1>9. /\ ToPass(j, v)' \in SUBSET Calls /\ ToCount(j, v)' \in SUBSET Calls
      /\ ToPass(j, v)' \in SUBSET (InEntry') /\ ToCount(j, v)' \in SUBSET (InEntry')
  BY DEF ToPass, ToCount, InEntry
<1> QED
  BY <1>5, <1>6, <1>7, <1>8, <1>9, NewlyThrough

\* A call that goes through the slots behind has been let through by all rules.
LEMMA PassedAll ==
  ASSUME IInv, NEW c \in Calls, NEW j \in 1 .. Len(rules), NEW v \in Values,
         pc[c] \in {"onPass", "addThread"},
         gen[c] = loads, Carries(c, rules[j].param_idx, v)
  PROVE  c \in ToCount(j, v) /\ (pc[c] = "onPass" => c \in ToPass(j, v))
<1>1. StoreTypeOK /\ TodoInv
  BY DEF IInv, TypeOK
<1>2. todo[c] = <<>>
  BY <1>1 DEF TodoInv
<1>3. Len(rules) \in Nat /\ Len(todo[c]) = 0
  BY <1>1, <1>2, LenProperties, EmptySeq DEF StoreTypeOK
<1>4. Position(c) > j
  BY <1>3 DEF Position
<1>5. LetThrough(c, j, v) /\ c \in InEntry
  BY <1>4 DEF LetThrough, InEntry
<1> QED
  BY <1>5 DEF ToPass, ToCount

\* The check leaves room for the other threads only.
LEMMA CallStepQpsInv ==
  ASSUME IInv, NEW c \in Calls, CallStep(c)
  PROVE  QpsInv'
<1>0. TypeOK /\ StoreTypeOK /\ CallTypeOK /\ PastTypeOK /\ CallInv /\ PassInv
  BY DEF IInv, TypeOK
<1>1. rules' = rules /\ parsed' = parsed
  BY <1>0, OthersKeep
<1> SUFFICES ASSUME NEW j \in 1 .. Len(rules), NEW v \in Values, rules[j].metric_type = "kQps"
             PROVE  /\ ToPass(j, v)' # {} => Threshold(rules[j], v) >= 1
                    /\ MetricKey(rules[j]) \notin full' =>
                         passes'[MetricKey(rules[j])][v] - missed'[MetricKey(rules[j])][v]
                           + Cardinality(ToPass(j, v)')
                         <= Threshold(rules[j], v) + NumThreads - 1
  BY <1>1 DEF QpsInv, Threshold
<1> DEFINE r == rules[j]
           k == MetricKey(r)
           t == Threshold(r, v)
<1>2. /\ k \in Keys /\ t \in Nat /\ r \in ValidRules /\ k[1] = r.param_idx
      /\ ToPass(j, v) \in SUBSET Calls
  BY <1>0, LimitTypes, RuleFacts
<1>3. PICK S \in SUBSET Calls : S = ToPass(j, v)
  BY <1>2
<1>4. PICK R \in SUBSET Calls : R = ToPass(j, v)'
  BY ThroughStep
<1>5. /\ S \ {c} = R \ {c} /\ R \in SUBSET (InEntry')
      /\ c \in R /\ c \notin S => Check(c) /\ Rule(c) = r /\ PassSingleValueCheck(r, v)
  BY <1>3, <1>4, ThroughStep
<1>6. /\ Cardinality(S) \in Nat /\ Cardinality(R) \in Nat
      /\ Cardinality(R) = Cardinality(S) + (IF c \in R THEN 1 ELSE 0)
                                         - (IF c \in S THEN 1 ELSE 0)
  BY <1>5, CallCount
<1>7. /\ S # {} => t >= 1
      /\ k \notin full => passes[k][v] - missed[k][v] + Cardinality(S) <= t + NumThreads - 1
  BY <1>3 DEF IInv, QpsInv
<1>8. passes[k][v] \in Nat /\ missed[k][v] \in Nat
  BY <1>0, <1>2 DEF PastTypeOK
<1> HIDE DEF k, t
<1>20. t \in Nat /\ NumThreads \in Nat \ {0} /\ t + NumThreads - 1 \in Int
  BY <1>2, NumThreadsType
<1> SUFFICES /\ R # {} => t >= 1
             /\ k \notin full' =>
                  passes'[k][v] - missed'[k][v] + Cardinality(R) <= t + NumThreads - 1
  BY <1>4 DEF k, t
<1>9. CASE c \in R /\ c \notin S
  <2>1. Check(c) /\ Rule(c) = r /\ PassSingleValueCheck(r, v)
    BY <1>5, <1>9
  <2>2. full' = full /\ passes' = passes /\ missed' = missed
    BY <2>1 DEF Check, past
  <2>3. rolling[k] # NoCache
    BY <1>0, <2>1 DEF CallInv, Check, k
  <2>4. Count(rolling[k], v) + 1 <= t
    BY <2>1 DEF PassSingleValueCheck, CurCount, k, t
  <2>5. /\ Count(rolling[k], v) >= 0
        /\ k \notin full => passes[k][v] - missed[k][v] <= Count(rolling[k], v)
    BY <1>0, <1>2, <2>3 DEF PassInv
  <2>6. Count(rolling[k], v) \in Int
    BY <1>0, <1>2, <2>3, CountType DEF StoreTypeOK
  <2>7. Cardinality(R) <= NumThreads
    <3>1. EntryInv'
      BY CallStepEntryInv
    <3>2. PICK E \in SUBSET Calls : E = InEntry'
      BY DEF InEntry
    <3>3. Cardinality(E) <= NumThreads /\ Cardinality(R) <= Cardinality(E)
      BY <1>5, <3>1, <3>2, SmallerSets DEF EntryInv
    <3>4. Cardinality(E) \in Nat
      BY CallSets
    <3> QED
      BY <1>6, <3>3, <3>4, NumThreadsType
  <2>8. t >= 1
    BY <1>2, <2>4, <2>5, <2>6 DEF t
  <2>9. ASSUME k \notin full
        PROVE  passes[k][v] - missed[k][v] + Cardinality(R) <= t + NumThreads - 1
    <3>1. passes[k][v] - missed[k][v] <= t - 1
      BY <1>8, <1>20, <2>4, <2>5, <2>6, <2>9
    <3>2. /\ passes[k][v] - missed[k][v] \in Int /\ Cardinality(R) \in Int
          /\ t \in Int /\ NumThreads \in Int
      BY <1>6, <1>8, <1>20
    <3> QED
      BY <2>7, <3>1, <3>2, SumHasRoom
  <2> QED
    BY <2>2, <2>8, <2>9
<1>10. CASE ~(c \in R /\ c \notin S)
  <2>1. R \subseteq S
    BY <1>5, <1>10
  <2>2. R # {} => t >= 1
    BY <1>7, <2>1
  <2>3. CASE ~AddPass(c)
    <3>1. full' = full /\ passes' = passes /\ missed' = missed
      BY <1>0, <2>3, CachesTouched
    <3>2. Cardinality(R) <= Cardinality(S)
      BY <1>6, <1>10
    <3>3. ASSUME k \notin full
          PROVE  passes[k][v] - missed[k][v] + Cardinality(R) <= t + NumThreads - 1
      <4>1. passes[k][v] - missed[k][v] + Cardinality(S) <= t + NumThreads - 1
        BY <1>7, <3>3
      <4>2. /\ passes[k][v] - missed[k][v] \in Int
            /\ passes[k][v] - missed[k][v] <= passes[k][v] - missed[k][v] + 0
            /\ Cardinality(R) \in Int /\ Cardinality(S) \in Int
            /\ Cardinality(R) <= Cardinality(S) - 0
        BY <1>6, <1>8, <3>2
      <4> QED
        BY <1>20, <4>1, <4>2, SumKeepsLimit
    <3> QED
      BY <2>2, <3>1, <3>3
  <2>4. CASE AddPass(c)
    <3>1. /\ k \notin full' => k \notin full
          /\ passes'[k][v] = passes[k][v] + (IF Carries(c, k[1], v) /\ gen[c] = loads
                                             THEN 1 ELSE 0)
          /\ missed'[k][v] = missed[k][v] + (IF Carries(c, k[1], v) /\ gen[c] = loads
                                                 /\ k \notin Hit(c)
                                             THEN 1 ELSE 0)
      BY <1>2, <2>4, AddPassStep DEF k
    <3>2. c \notin R
      <4>1. pc'[c] = "addThread"
        BY <1>0, <2>4 DEF AddPass, Goto, CallTypeOK
      <4> QED
        BY <1>4, <4>1 DEF ToPass
    <3>3. Carries(c, k[1], v) /\ gen[c] = loads => c \in S
      <4>1. pc[c] = "onPass"
        BY <2>4 DEF AddPass
      <4> QED
        BY <1>2, <1>3, <4>1, PassedAll DEF k
    <3>4. missed'[k][v] \in Nat /\ passes'[k][v] \in Nat /\ missed'[k][v] >= missed[k][v]
      BY <1>8, <3>1
    <3>7. k \notin full' => passes[k][v] - missed[k][v] + Cardinality(S) <= t + NumThreads - 1
      BY <1>7, <3>1
    <3> SUFFICES ASSUME k \notin full'
                 PROVE  passes'[k][v] - missed'[k][v] + Cardinality(R) <= t + NumThreads - 1
      BY <2>2
    <3>8. passes[k][v] - missed[k][v] + Cardinality(S) <= t + NumThreads - 1
      BY <3>7
    <3>5. CASE c \in S
      <4>1. Cardinality(R) = Cardinality(S) - 1
        BY <1>6, <3>2, <3>5
      <4>2. passes'[k][v] <= passes[k][v] + 1
        BY <1>8, <3>1
      <4> QED
        <5>1. /\ passes[k][v] - missed[k][v] \in Int /\ passes'[k][v] - missed'[k][v] \in Int
              /\ passes'[k][v] - missed'[k][v] <= passes[k][v] - missed[k][v] + 1
          <6>1. PICK p \in Nat, q \in Nat, m \in Nat, n \in Nat :
                  /\ p = passes[k][v] /\ q = passes'[k][v]
                  /\ m = missed[k][v] /\ n = missed'[k][v]
            BY <1>8, <3>4
          <6>2. q <= p + 1 /\ n >= m
            BY <3>4, <4>2, <6>1
          <6>3. q - n <= p - m + 1 /\ p - m \in Int /\ q - n \in Int
            BY <6>2
          <6>4. p - m = passes[k][v] - missed[k][v] /\ q - n = passes'[k][v] - missed'[k][v]
            BY <6>1, Zenon
          <6> QED
            BY <6>3, <6>4, Zenon
        <5>2. /\ Cardinality(R) \in Int /\ Cardinality(S) \in Int
              /\ Cardinality(R) <= Cardinality(S) - 1
          BY <1>6, <4>1
        <5> QED
          BY <1>20, <3>8, <5>1, <5>2, SumKeepsLimit
    <3>6. CASE c \notin S
      <4>1. Cardinality(R) = Cardinality(S)
        BY <1>6, <3>2, <3>6
      <4>2. passes'[k][v] = passes[k][v]
        BY <1>8, <3>1, <3>3, <3>6
      <4> QED
        <5>1. /\ passes[k][v] - missed[k][v] \in Int /\ passes'[k][v] - missed'[k][v] \in Int
              /\ passes'[k][v] - missed'[k][v] <= passes[k][v] - missed[k][v] + 0
          BY <1>8, <3>4, <4>2
        <5>2. /\ Cardinality(R) \in Int /\ Cardinality(S) \in Int
              /\ Cardinality(R) <= Cardinality(S) - 0
          BY <1>6, <4>1
        <5> QED
          BY <1>20, <3>8, <5>1, <5>2, SumKeepsLimit
    <3> QED
      BY <3>5, <3>6
  <2> QED
    BY <2>3, <2>4
<1> QED
  BY <1>9, <1>10

LEMMA CallStepThreadLimitInv ==
  ASSUME IInv, NEW c \in Calls, CallStep(c)
  PROVE  ThreadLimitInv'
<1>0. TypeOK /\ StoreTypeOK /\ CallTypeOK /\ PastTypeOK /\ CallInv /\ ThreadInv
  BY DEF IInv, TypeOK
<1>1. rules' = rules /\ parsed' = parsed
  BY <1>0, OthersKeep
<1> SUFFICES ASSUME NEW j \in 1 .. Len(rules), NEW v \in Values,
                    rules[j].metric_type = "kThreadCount", rules[j].param_idx \in exact'
             PROVE  Cardinality(Admitted(rules[j].param_idx, v)')
                      + Cardinality(ToCount(j, v)')
                    <= Threshold(rules[j], v) + NumThreads - 1
  BY <1>1 DEF ThreadLimitInv, Threshold, Admitted, InFlight, Carries
<1> DEFINE r == rules[j]
           i == r.param_idx
           t == Threshold(r, v)
<1>2. /\ i \in Indices /\ t \in Nat /\ r \in ValidRules
      /\ ToCount(j, v) \in SUBSET Calls
  BY <1>0, LimitTypes
<1>3. i \in exact
  <2>1. exact' \subseteq exact
    BY <1>0, CachesTouched DEF AddThreadCount, Exit
  <2> QED
    BY <2>1
<1>4. PICK S \in SUBSET Calls : S = ToCount(j, v)
  BY <1>2
<1>5. PICK R \in SUBSET Calls : R = ToCount(j, v)'
  BY ThroughStep
<1>6. /\ S \ {c} = R \ {c} /\ R \in SUBSET (InEntry')
      /\ c \in R /\ c \notin S => Check(c) /\ Rule(c) = r /\ PassSingleValueCheck(r, v)
  BY <1>4, <1>5, ThroughStep
<1>7. PICK A \in SUBSET Calls : A = Admitted(i, v)
  BY DEF Admitted, InFlight
<1>8. PICK B \in SUBSET Calls : B = Admitted(i, v)'
  BY DEF Admitted, InFlight
<1>9. /\ A \ {c} = B \ {c}
      /\ c \in B => AddThreadCount(c) /\ Carries(c, i, v) /\ gen'[c] = loads'
      /\ A \subseteq InFlight(i, v)
  <2>1. \A d \in Calls : d # c => gen'[d] = gen[d]
    BY <1>0, OthersKeep
  <2>2. loads' = loads
    BY <1>0, OthersKeep
  <2>3. PICK q \in Indices : q = i
    BY <1>2
  <2>4. /\ InFlight(q, v) \ {c} = InFlight(q, v)' \ {c}
        /\ c \in InFlight(q, v)' => AddThreadCount(c) /\ Carries(c, q, v)
        /\ InFlight(q, v)' \in SUBSET Calls /\ InFlight(q, v) \in SUBSET Calls
    BY <1>0, InFlightStep
  <2>5. B = {d \in InFlight(q, v)' : gen'[d] = loads'}
    BY <1>1, <1>8, <2>3 DEF Admitted, InFlight, Carries
  <2>6. A = {d \in InFlight(q, v) : gen[d] = loads}
    BY <1>7, <2>3 DEF Admitted
  <2>7. InFlight(q, v) = InFlight(i, v)
    BY <2>3
  <2> HIDE DEF i
  <2> QED
    BY <2>1, <2>2, <2>3, <2>4, <2>5, <2>6, <2>7
<1>10. /\ Cardinality(S) \in Nat /\ Cardinality(R) \in Nat
       /\ Cardinality(R) = Cardinality(S) + (IF c \in R THEN 1 ELSE 0)
                                          - (IF c \in S THEN 1 ELSE 0)
  BY <1>6, CallCount
<1>11. /\ Cardinality(A) \in Nat /\ Cardinality(B) \in Nat
       /\ Cardinality(B) = Cardinality(A) + (IF c \in B THEN 1 ELSE 0)
                                          - (IF c \in A THEN 1 ELSE 0)
  BY <1>9, CallCount
<1>12. Cardinality(A) + Cardinality(S) <= t + NumThreads - 1
  BY <1>3, <1>4, <1>7 DEF IInv, ThreadLimitInv
<1> HIDE DEF t
<1>20. t \in Nat /\ NumThreads \in Nat \ {0} /\ t + NumThreads - 1 \in Int
  BY <1>2, NumThreadsType
<1> SUFFICES Cardinality(B) + Cardinality(R) <= t + NumThreads - 1
  BY <1>1, <1>5, <1>8 DEF t
<1>13. CASE c \in R /\ c \notin S
  <2>1. Check(c) /\ Rule(c) = r /\ PassSingleValueCheck(r, v)
    BY <1>6, <1>13
  <2>2. threads[i] # NoCache /\ ~AddThreadCount(c)
    BY <1>0, <2>1 DEF CallInv, Check, AddThreadCount
  <2>3. Count(threads[i].entries, v) + 1 <= t
    BY <2>1 DEF PassSingleValueCheck, CurCount, t
  <2>4. PICK F \in SUBSET Calls : F = InFlight(i, v)
    BY DEF InFlight
  <2>5. Count(threads[i].entries, v) = Cardinality(F)
    BY <1>0, <1>2, <1>3, <2>2, <2>4 DEF ThreadInv
  <2>6. Cardinality(A) <= Cardinality(F) /\ Cardinality(F) \in Nat
    BY <1>9, <2>4, SmallerSets, CallSets
  <2>7. Cardinality(B) <= Cardinality(A)
    BY <1>9, <1>11, <2>2
  <2>8. Cardinality(R) <= NumThreads
    <3>1. EntryInv'
      BY CallStepEntryInv
    <3>2. PICK E \in SUBSET Calls : E = InEntry'
      BY DEF InEntry
    <3>3. Cardinality(E) <= NumThreads /\ Cardinality(R) <= Cardinality(E)
      BY <1>6, <3>1, <3>2, SmallerSets DEF EntryInv
    <3>4. Cardinality(E) \in Nat
      BY CallSets
    <3> QED
      BY <1>10, <3>3, <3>4, NumThreadsType
  <2>9. Cardinality(B) + 1 <= t
    BY <1>20, <1>11, <2>3, <2>5, <2>6, <2>7
  <2> QED
    <3>1. /\ Cardinality(B) <= t - 1 /\ Cardinality(B) \in Int /\ Cardinality(R) \in Int
          /\ t \in Int /\ NumThreads \in Int
      BY <1>20, <1>10, <1>11, <2>9
    <3> QED
      BY <2>8, <3>1, SumHasRoom
<1>14. CASE ~(c \in R /\ c \notin S)
  <2>1. Cardinality(R) <= Cardinality(S)
    BY <1>10, <1>14
  <2>2. CASE c \in B
    <3>1. AddThreadCount(c) /\ Carries(c, i, v) /\ gen'[c] = loads'
      BY <1>9, <2>2
    <3>2. gen[c] = loads /\ pc[c] = "addThread" /\ pc'[c] = "running"
      BY <1>0, <3>1 DEF AddThreadCount, Goto, CallTypeOK, bounds
    <3>3. c \in S
      BY <1>4, <3>1, <3>2, PassedAll
    <3>4. c \notin R
      BY <1>5, <3>2 DEF ToCount, InEntry
    <3>5. Cardinality(R) = Cardinality(S) - 1
      BY <1>10, <3>3, <3>4
    <3>6. Cardinality(B) <= Cardinality(A) + 1
      BY <1>11
    <3> QED
      <4>1. /\ Cardinality(A) \in Int /\ Cardinality(B) \in Int
            /\ Cardinality(R) \in Int /\ Cardinality(S) \in Int
            /\ Cardinality(R) <= Cardinality(S) - 1
        BY <1>10, <1>11, <3>5
      <4> QED
        BY <1>12, <1>20, <3>6, <4>1, SumKeepsLimit
  <2>3. CASE c \notin B
    <3>1. Cardinality(B) <= Cardinality(A)
      BY <1>11, <2>3
    <3> QED
      <4>1. /\ Cardinality(A) \in Int /\ Cardinality(B) \in Int
            /\ Cardinality(R) \in Int /\ Cardinality(S) \in Int
            /\ Cardinality(B) <= Cardinality(A) + 0 /\ Cardinality(R) <= Cardinality(S) - 0
        BY <1>10, <1>11, <2>1, <3>1
      <4> QED
        BY <1>12, <1>20, <4>1, SumKeepsLimit
  <2> QED
    BY <2>2, <2>3
<1> QED
  BY <1>13, <1>14

-----------------------------------------------------------------------------
\* All of it is invariant.
LEMMA Invariance == Spec => []IInv
<1>1. Init => IInv
  BY InitIInv
<1>2. IInv /\ [Next]_vars => IInv'
  <2> SUFFICES ASSUME IInv, [Next]_vars PROVE IInv'
    OBVIOUS
  <2>1. CASE \E list \in RuleLists : LoadRules(list)
    BY <2>1, LoadRulesStep
  <2>2. CASE Expire
    BY <2>2, ExpireStep
  <2>3. ASSUME NEW c \in Calls, CallStep(c) PROVE IInv'
    BY <2>3, CallStepTypeOK, CallStepCallInv, CallStepThreadInv, CallStepIndexInv,
      CallStepPassInv, CallStepEntryInv, CallStepTodoInv, CallStepQpsInv,
      CallStepThreadLimitInv DEF IInv
  <2>4. CASE UNCHANGED vars
    <3>1. TypeOK' /\ CallInv'
      BY <2>4 DEF vars, IInv, TypeOK, StoreTypeOK, CallTypeOK, PastTypeOK, CallInv, Rule
    <3>2. ThreadInv'
      BY <2>4 DEF vars, IInv, ThreadInv, InFlight, Carries
    <3>7. IndexInv' /\ PassInv'
      BY <2>4 DEF vars, IInv, IndexInv, Indexing, Rule, PassInv
    <3>3. EntryInv' /\ TodoInv'
      BY <2>4 DEF vars, IInv, EntryInv, InEntry, TodoInv, Position
    <3>4. /\ rules' = rules /\ passes' = passes /\ missed' = missed /\ full' = full
          /\ exact' = exact
      BY <2>4 DEF vars
    <3>5. ASSUME NEW j \in 1 .. Len(rules), NEW v \in Values
          PROVE  /\ ToPass(j, v)' = ToPass(j, v) /\ ToCount(j, v)' = ToCount(j, v)
                 /\ Admitted(rules[j].param_idx, v)' = Admitted(rules[j].param_idx, v)
                 /\ Threshold(rules[j], v)' = Threshold(rules[j], v)
      BY <2>4 DEF vars, ToPass, ToCount, LetThrough, InEntry, Admitted, InFlight, Carries,
        Position, Threshold
    <3>6. QpsInv' /\ ThreadLimitInv'
      <4>1. QpsInv /\ ThreadLimitInv
        BY DEF IInv
      <4>2. QpsInv'
        BY <3>4, <3>5, <4>1 DEF QpsInv
      <4>3. ThreadLimitInv'
        BY <3>4, <3>5, <4>1 DEF ThreadLimitInv
      <4> QED
        BY <4>2, <4>3
    <3> QED
      BY <3>1, <3>2, <3>3, <3>6, <3>7 DEF IInv
  <2> QED
    BY <2>1, <2>2, <2>3, <2>4 DEF Next
<1> QED
  BY <1>1, <1>2, PTL DEF Spec

\* The thread count of a parameter value is never above the number of calls
\* under way with it (ParamMetric::AddThreadCount, DecreaseThreadCount), and is
\* that number as long as no count has been lost.
THEOREM ThreadCountsFollowCalls == Spec => []ThreadCountSound
<1>1. IInv => ThreadCountSound
  BY DEF IInv, ThreadInv, ThreadCountSound
<1> QED
  BY <1>1, Invariance, PTL

\* One thread enters an array in index_map_ (initializeForRule), so no pass is
\* counted twice; and none is lost but by an eviction or before that entry.
THEOREM PassCountsFollowPasses == Spec => []PassCountSound
<1>1. IInv => PassCountSound
  BY DEF IInv, IndexInv, PassInv, PassCountSound
<1> QED
  BY <1>1, Invariance, PTL

\* However the checks and the counts of the calls interleave, the limit for a
\* parameter value (ParamFlowChecker::PassSingleValueCheck) is exceeded at most
\* by the calls that other threads have inside Entry, where no count is lost.
THEOREM ParamLimitHolds == Spec => []AdmissionBounded
<1>1. ASSUME IInv PROVE AdmissionBounded
  <2> SUFFICES ASSUME NEW r \in Range(rules), NEW v \in Values
               PROVE  IF r.metric_type = "kQps"
                      THEN MetricKey(r) \notin full =>
                             passes[MetricKey(r)][v]
                               <= Threshold(r, v) + NumThreads - 1 + missed[MetricKey(r)][v]
                      ELSE r.param_idx \in exact =>
                             Cardinality({c \in InFlight(r.param_idx, v) : gen[c] = loads})
                               <= Threshold(r, v) + NumThreads - 1
    BY DEF AdmissionBounded
  <2>1. TypeOK /\ StoreTypeOK /\ PastTypeOK
    BY <1>1 DEF IInv, TypeOK
  <2>2. PICK j \in 1 .. Len(rules) : rules[j] = r
    <3>1. rules \in Seq(ValidRules)
      BY <2>1 DEF StoreTypeOK
    <3> QED
      BY <3>1, RangeEquality DEF Range
  <2>3. /\ r \in ValidRules /\ Threshold(r, v) \in Nat /\ MetricKey(r) \in Keys
        /\ ToPass(j, v) \in SUBSET Calls /\ ToCount(j, v) \in SUBSET Calls
        /\ Admitted(r.param_idx, v) \in SUBSET Calls
    BY <2>1, <2>2, LimitTypes
  <2>4. /\ Cardinality(ToPass(j, v)) \in Nat /\ Cardinality(ToCount(j, v)) \in Nat
        /\ Cardinality(Admitted(r.param_idx, v)) \in Nat
    BY <2>3, CallSets
  <2>5. CASE r.metric_type = "kQps"
    <3>1. MetricKey(r) \notin full =>
            passes[MetricKey(r)][v] - missed[MetricKey(r)][v] + Cardinality(ToPass(j, v))
              <= Threshold(r, v) + NumThreads - 1
      BY <1>1, <2>2, <2>5 DEF IInv, QpsInv
    <3>2. passes[MetricKey(r)][v] \in Nat /\ missed[MetricKey(r)][v] \in Nat
      BY <2>1, <2>3 DEF PastTypeOK
    <3> QED
      BY <2>3, <2>4, <2>5, <3>1, <3>2, NumThreadsType
  <2>6. CASE r.metric_type # "kQps"
    <3>1. r.metric_type = "kThreadCount"
      BY <2>3, <2>6, RuleFacts
    <3>2. r.param_idx \in exact =>
            Cardinality(Admitted(r.param_idx, v)) + Cardinality(ToCount(j, v))
              <= Threshold(r, v) + NumThreads - 1
      BY <1>1, <2>2, <3>1 DEF IInv, ThreadLimitInv
    <3>3. r.param_idx \in exact =>
            Cardinality(Admitted(r.param_idx, v)) <= Threshold(r, v) + NumThreads - 1
      BY <2>3, <2>4, <3>2, NumThreadsType
    <3> QED
      BY <2>6, <3>3 DEF Admitted
  <2> QED
    BY <2>5, <2>6
<1> QED
  BY <1>1, Invariance, PTL
=============================================================================

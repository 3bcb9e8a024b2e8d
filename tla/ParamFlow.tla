----------------------------- MODULE ParamFlow -----------------------------
(***************************************************************************)
(* Flow control by parameter value, for the calls to one resource: the     *)
(* rules of ParamFlowRuleManager, the counters of ParamMetric that         *)
(* ParamFlowSlot sets up on the way and checks against, and what           *)
(* StatisticSlot adds to them when a call passes and exits.                *)
(*                                                                         *)
(* Calls run concurrently; the steps below are those between which another *)
(* call can be seen.  One operation on a ScalableCache is atomic here: the *)
(* module LruCache has its inside.  Every call acquires a count of 1.  The *)
(* BLOCK counters, which no check reads, are left out.                     *)
(***************************************************************************)
EXTENDS Integers, Sequences, FiniteSets, SequencesExt

CONSTANTS
  Calls,          \* the calls
  NumThreads,     \* how many of them can be inside Entry at a time
  Params,         \* the parameter lists calls are made with
  NumShards,      \* shards of a ScalableCache
  ShardOf,        \* the shard of every parameter value, 0 .. NumShards - 1
  RuleLists,      \* what ParamFlowRuleManager::LoadRules is called with
  Unset,          \* a cache_size, or a threshold for a value, never set
  NoCache,        \* a cache that has not been created
  MaxLoads, MaxExpiries     \* bounds

Values  == DOMAIN ShardOf
AllRules == UNION {Range(l) : l \in RuleLists}

\* The caches of a rule live in metric_key_, whose cache_size_ has no
\* initialiser of its own: it is 0 until set_cache_size is called.
KeySize(r) == IF r.cache_size = Unset THEN 0 ELSE r.cache_size
MetricKey(r) == <<r.param_idx, KeySize(r)>>

IsValidRule(r) ==
  /\ r.threshold >= 0 /\ r.param_idx >= 0
  /\ r.cache_size = Unset \/ r.cache_size > 0
  /\ \A i \in 1 .. Len(r.items) : r.items[i].threshold >= 0

Indices == {r.param_idx : r \in {q \in AllRules : IsValidRule(q)}}
Keys    == {MetricKey(r) : r \in {q \in AllRules : IsValidRule(q)}}
Objects == {r.object : r \in AllRules}

CacheEntry == [value : Values, n : Int]

ASSUME ParamFlowAssumption ==
  /\ IsFiniteSet(Calls) /\ NumThreads \in Nat \ {0} /\ NumShards \in Nat \ {0}
  /\ ShardOf \in [Values -> 0 .. NumShards - 1]
  /\ Params \subseteq Seq(Values)
  /\ \A r \in AllRules :
       /\ r.metric_type \in {"kQps", "kThreadCount"}
       /\ r.threshold \in Int /\ r.param_idx \in Int
       /\ r.cache_size \in Nat \cup {Unset}
       /\ r.items \in Seq([value : Values, threshold : Int])
  /\ RuleLists \subseteq Seq(AllRules)
  /\ Unset \notin Int /\ NoCache \notin Seq(CacheEntry)
  /\ NoCache \notin [size : Nat, entries : Seq(CacheEntry)]
  /\ MaxLoads \in Nat /\ MaxExpiries \in Nat

VARIABLES
  lastValue,    \* last_value_ of the rule property
  rules,        \* rule_map_ of the resource
  parsed,       \* parsed_hot_items_, shared by all copies of a rule object:
                \* the threshold of its own that a value has, or Unset
  threads,      \* thread_count_map_: a cache per parameter index
  rolling,      \* rolling_params_: the PASS cache of the present window, per key
  indexed,      \* index_map_: how often the array of a key is entered in it
  pc, params,   \* where a call is, and its parameters
  todo, arg,    \* the rules it still has to check, the next parameter
  loads, expiries,          \* bounded counters
  \* -- history, read by the properties only
  gen,          \* the load whose rules the call has fetched
  exact,        \* the indices whose cache has lost no count
  full,         \* the keys whose cache has evicted in this window
  passes,       \* the passes in this window, by key, value and load
  missed        \* of them, those not counted because index_map_ was late

shared == <<lastValue, rules, parsed, threads, rolling, indexed>>
call   == <<pc, params, todo, arg, gen>>
bounds == <<loads, expiries>>
past   == <<exact, full, passes, missed>>
vars   == <<lastValue, rules, parsed, threads, rolling, indexed, pc, params, todo, arg,
            gen, loads, expiries, exact, full, passes, missed>>

-----------------------------------------------------------------------------
(***************************************************************************)
(* A ScalableCache: its entries [value, n] in LRU order, oldest first.     *)
(***************************************************************************)
\* The shard of index 0 gets the remainder; a shard of size 0 still holds the
\* entry just inserted.
ShardSize(size, i) ==
  LET s == size \div NumShards + (IF i = 0 THEN size % NumShards ELSE 0)
  IN IF s = 0 THEN 1 ELSE s

Has(cache, v) == \E i \in 1 .. Len(cache) : cache[i].value = v
At(cache, v)  == CHOOSE i \in 1 .. Len(cache) : cache[i].value = v
Count(cache, v) == IF Has(cache, v) THEN cache[At(cache, v)].n ELSE 0

First(S) == CHOOSE i \in S : \A j \in S : i <= j

\* The entries of v's shard, all of them but v's own.
SameShard(cache, v) ==
  {i \in 1 .. Len(cache) : /\ ShardOf[cache[i].value] = ShardOf[v]
                           /\ cache[i].value # v}

\* find makes the entry the most recently used one of its shard.
Find(cache, v) ==
  IF Has(cache, v)
  THEN Append(RemoveAt(cache, At(cache, v)), cache[At(cache, v)])
  ELSE cache

\* Does the insertion of v into a cache of this size evict, and what?
Evicts(cache, size, v) ==
  ~Has(cache, v) /\ Cardinality(SameShard(cache, v)) >= ShardSize(size, ShardOf[v])
Oldest(cache, v) == First(SameShard(cache, v))

Increase(cache, size, v, n) ==
  LET kept == IF Evicts(cache, size, v) THEN RemoveAt(cache, Oldest(cache, v))
              ELSE cache
  IN IF Has(cache, v)
     THEN Append(RemoveAt(cache, At(cache, v)),
                 [value |-> v, n |-> Count(cache, v) + n])
     ELSE Append(kept, [value |-> v, n |-> n])

-----------------------------------------------------------------------------
Zero == [k \in Keys |-> [v \in Values |-> 0]]

Init ==
  /\ lastValue = <<>> /\ rules = <<>>
  /\ parsed = [o \in Objects |-> [v \in Values |-> Unset]]
  /\ threads = [i \in Indices |-> NoCache]
  /\ rolling = [k \in Keys |-> NoCache]
  /\ indexed = [k \in Keys |-> 0]
  /\ pc = [c \in Calls |-> "new"]
  /\ params = [c \in Calls |-> <<>>]
  /\ todo = [c \in Calls |-> <<>>]
  /\ arg = [c \in Calls |-> 0]
  /\ gen = [c \in Calls |-> 0]
  /\ loads = 0 /\ expiries = 0
  /\ exact = Indices /\ full = {} /\ passes = Zero /\ missed = Zero

Goto(c, label) == pc' = [pc EXCEPT ![c] = label]

\* AggregatedHotParamRules: the valid rules of a list, one after the other.
Aggregated(list) ==
  LET upTo[n \in 0 .. Len(list)] ==
        IF n = 0 THEN <<>>
        ELSE IF IsValidRule(list[n]) THEN Append(upTo[n - 1], list[n])
        ELSE upTo[n - 1]
  IN upTo[Len(list)]

\* FillExceptionFlowItems, of the valid rules that share object o: an item that
\* is there for a value stays, and of several new ones the first is inserted.
Filled(list, o, v) ==
  LET items(i) == {j \in 1 .. Len(list[i].items) : list[i].items[j].value = v}
      filling  == {i \in 1 .. Len(list) : /\ list[i].object = o /\ IsValidRule(list[i])
                                          /\ items(i) # {}}
  IN IF parsed[o][v] # Unset \/ filling = {} THEN parsed[o][v]
     ELSE list[First(filling)].items[First(items(First(filling)))].threshold

\* UpdateValue: the property keeps the list, the manager what is valid in it.
LoadRules(list) ==
  /\ loads < MaxLoads /\ list # lastValue
  /\ lastValue' = list
  /\ rules' = Aggregated(list)
  /\ parsed' = [o \in Objects |-> [v \in Values |-> Filled(list, o, v)]]
  /\ loads' = loads + 1
  /\ passes' = Zero /\ missed' = Zero
  /\ UNCHANGED <<threads, rolling, indexed, call, expiries, exact, full>>

\* The window has passed: the bucket is reset before it is used again.
Expire ==
  /\ expiries < MaxExpiries
  /\ expiries' = expiries + 1
  /\ rolling' = [k \in Keys |-> IF rolling[k] = NoCache THEN NoCache ELSE <<>>]
  /\ full' = {} /\ passes' = Zero /\ missed' = Zero
  /\ UNCHANGED <<lastValue, rules, parsed, threads, indexed, call, loads, exact>>

-----------------------------------------------------------------------------
(***************************************************************************)
(* ParamFlowSlot::Entry.                                                   *)
(***************************************************************************)
InEntry == {c \in Calls : pc[c] \in
             {"init", "array", "index", "check", "onPass", "addThread"}}

\* GetRuleMap and GetRuleOfResource.
Entry(c, p) ==
  /\ pc[c] = "new" /\ Cardinality(InEntry) < NumThreads
  /\ params' = [params EXCEPT ![c] = p]
  /\ todo' = [todo EXCEPT ![c] = rules]
  /\ gen' = [gen EXCEPT ![c] = loads]
  /\ Goto(c, IF rules = <<>> THEN "onPass" ELSE "init")
  /\ UNCHANGED <<shared, arg, bounds, past>>

Rule(c) == Head(todo[c])

\* initializeForRule: the thread count cache of the index, unless it is there.
InitThreadCount(c) ==
  LET i == Rule(c).param_idx
  IN
  /\ pc[c] = "init"
  /\ threads' = [threads EXCEPT ![i] =
       IF @ = NoCache THEN [size |-> KeySize(Rule(c)), entries |-> <<>>] ELSE @]
  /\ Goto(c, "array")
  /\ UNCHANGED <<lastValue, rules, parsed, rolling, indexed, params, todo, arg, gen,
                 bounds, past>>

\* Mutant: whoever comes enters the array in index_map_.
IndexAnyway(c) == TRUE

\* Is this the call whose insertion into rolling_params_ succeeds?
Inserts(c) == rolling[MetricKey(Rule(c))] = NoCache

StartCheck(c) ==
  /\ Goto(c, "check") /\ arg' = [arg EXCEPT ![c] = 1]

InitRolling(c) ==
  /\ pc[c] = "array"
  /\ rolling' = [rolling EXCEPT ![MetricKey(Rule(c))] =
                   IF @ = NoCache THEN <<>> ELSE @]
  /\ IF Inserts(c) THEN Goto(c, "index") /\ UNCHANGED arg ELSE StartCheck(c)
  /\ UNCHANGED <<lastValue, rules, parsed, threads, indexed, params, todo, gen,
                 bounds, past>>

\* The "dangerous interval" is over.
InitIndex(c) ==
  /\ pc[c] = "index"
  /\ indexed' = [indexed EXCEPT ![MetricKey(Rule(c))] = @ + 1]
  /\ StartCheck(c)
  /\ UNCHANGED <<lastValue, rules, parsed, threads, rolling, params, todo, gen,
                 bounds, past>>

\* The threshold for a value: that of its item, if it has one.
Threshold(r, v) ==
  IF parsed[r.object][v] = Unset THEN r.threshold ELSE parsed[r.object][v]

CurCount(r, v) ==
  IF r.metric_type = "kQps" THEN Count(rolling[MetricKey(r)], v)
                            ELSE Count(threads[r.param_idx].entries, v)

\* Mutant: one call more.
PassesAtLimit(r, v) == CurCount(r, v) <= Threshold(r, v)

PassSingleValueCheck(r, v) == CurCount(r, v) + 1 <= Threshold(r, v)

\* The look-up of the count makes the value the most recently used one.
LookUp(r, v) ==
  IF r.metric_type = "kQps"
  THEN /\ rolling' = [rolling EXCEPT ![MetricKey(r)] = Find(@, v)]
       /\ UNCHANGED threads
  ELSE /\ threads' = [threads EXCEPT ![r.param_idx].entries = Find(@, v)]
       /\ UNCHANGED rolling

\* PassLocalCheck, one parameter at a time: each of them is held against the
\* rule, whatever its position.
Check(c) ==
  LET v == params[c][arg[c]]
  IN
  /\ pc[c] = "check" /\ arg[c] <= Len(params[c])
  /\ LookUp(Rule(c), v)
  /\ IF PassSingleValueCheck(Rule(c), v)
     THEN arg' = [arg EXCEPT ![c] = @ + 1] /\ UNCHANGED pc
     ELSE Goto(c, "done") /\ UNCHANGED arg
  /\ UNCHANGED <<lastValue, rules, parsed, indexed, params, todo, gen, bounds, past>>

\* The rule is passed; on to the next, or to the slots behind.
NextRule(c) ==
  /\ pc[c] = "check" /\ arg[c] > Len(params[c])
  /\ todo' = [todo EXCEPT ![c] = Tail(@)]
  /\ arg' = [arg EXCEPT ![c] = 0]
  /\ Goto(c, IF Tail(todo[c]) = <<>> THEN "onPass" ELSE "init")
  /\ UNCHANGED <<shared, params, gen, bounds, past>>

\* Another slot blocks the call: nothing is counted, now or at its exit.
BlockedElsewhere(c) ==
  /\ pc[c] = "onPass"
  /\ Goto(c, "done")
  /\ UNCHANGED <<shared, params, todo, arg, gen, bounds, past>>

-----------------------------------------------------------------------------
(***************************************************************************)
(* StatisticSlot::OnPass and Exit.                                         *)
(***************************************************************************)
\* The value call c has at index i, if it has one.
Carries(c, i, v) == i + 1 \in 1 .. Len(params[c]) /\ params[c][i + 1] = v
Carried(c, i) == {v \in Values : Carries(c, i, v)}

\* AddPass: the arrays entered for the index of each parameter.
AddPass(c) ==
  LET hit == {k \in Keys : indexed[k] > 0 /\ Carried(c, k[1]) # {}}
      ofKey(k) == CHOOSE v \in Values : Carries(c, k[1], v)
  IN
  /\ pc[c] = "onPass"
  /\ rolling' = [k \in Keys |-> IF k \in hit
        THEN Increase(rolling[k], k[2], ofKey(k), indexed[k]) ELSE rolling[k]]
  /\ full' = full \cup {k \in hit : Evicts(rolling[k], k[2], ofKey(k))}
  /\ passes' = [k \in Keys |-> [v \in Values |-> passes[k][v] +
        IF Carries(c, k[1], v) /\ gen[c] = loads THEN 1 ELSE 0]]
  /\ missed' = [k \in Keys |-> [v \in Values |-> missed[k][v] +
        IF Carries(c, k[1], v) /\ gen[c] = loads /\ k \notin hit THEN 1 ELSE 0]]
  /\ Goto(c, "addThread")
  /\ UNCHANGED <<lastValue, rules, parsed, threads, indexed, params, todo, arg, gen,
                 bounds, exact>>

\* increase(param, n) in the thread count caches there are.
Adjust(c, n) ==
  LET hit == {i \in Indices : threads[i] # NoCache /\ Carried(c, i) # {}}
      ofIdx(i) == CHOOSE v \in Values : Carries(c, i, v)
  IN threads' = [i \in Indices |-> IF i \in hit
       THEN [threads[i] EXCEPT !.entries =
               Increase(@, threads[i].size, ofIdx(i), n)]
       ELSE threads[i]]

\* Does the cache of index i lose the count of another value to c's?
Loses(c, i) ==
  \E v \in Carried(c, i) : threads[i] # NoCache
     /\ Evicts(threads[i].entries, threads[i].size, v)
     /\ threads[i].entries[Oldest(threads[i].entries, v)].n # 0

AddThreadCount(c) ==
  /\ pc[c] = "addThread"
  /\ Adjust(c, 1)
  /\ exact' = {i \in exact : ~Loses(c, i) /\ (threads[i] = NoCache => Carried(c, i) = {})}
  /\ Goto(c, "running")
  /\ UNCHANGED <<lastValue, rules, parsed, rolling, indexed, params, todo, arg, gen,
                 bounds, full, passes, missed>>

\* Mutant: nothing is taken back.
NoDecrease(c) ==
  threads' = threads

DecreaseThreadCount(c) == Adjust(c, -1)

Exit(c) ==
  /\ pc[c] = "running"
  /\ DecreaseThreadCount(c)
  /\ exact' = {i \in exact : ~Loses(c, i)}
  /\ Goto(c, "done")
  /\ UNCHANGED <<lastValue, rules, parsed, rolling, indexed, params, todo, arg, gen,
                 bounds, full, passes, missed>>

-----------------------------------------------------------------------------
CallStep(c) ==
  \/ \E p \in Params : Entry(c, p)
  \/ InitThreadCount(c) \/ InitRolling(c) \/ InitIndex(c)
  \/ Check(c) \/ NextRule(c) \/ BlockedElsewhere(c)
  \/ AddPass(c) \/ AddThreadCount(c) \/ Exit(c)

Next ==
  \/ \E list \in RuleLists : LoadRules(list)
  \/ Expire
  \/ \E c \in Calls : CallStep(c)

Spec == Init /\ [][Next]_vars

-----------------------------------------------------------------------------
(***************************************************************************)
(* Properties.                                                             *)
(***************************************************************************)
\* The calls under way with value v at index i, counted or not.
InFlight(i, v) == {c \in Calls : pc[c] = "running" /\ Carries(c, i, v)}

\* However entries are evicted and whenever the cache comes into being, the
\* thread count of a value is never above the number of calls under way with
\* it: no call is blocked for calls that have ended.  It is that number as
\* long as no count has been lost and no call has passed before the cache.
ThreadCountSound ==
  \A i \in Indices : threads[i] # NoCache => \A v \in Values :
     /\ Count(threads[i].entries, v) <= Cardinality(InFlight(i, v))
     /\ i \in exact =>
          Count(threads[i].entries, v) = Cardinality(InFlight(i, v))

\* A pass is not counted twice in an array, however many calls race to set
\* it up, and none is lost without an eviction once index_map_ has the array.
PassCountSound ==
  \A k \in Keys : rolling[k] # NoCache =>
     /\ indexed[k] <= 1
     /\ \A v \in Values : k \notin full =>
          passes[k][v] - missed[k][v] <= Count(rolling[k], v)

\* The limit for a parameter value is exceeded at most by the calls that
\* other threads have between check and count, by the passes that were made
\* in the dangerous interval, and where the cache has forgotten the value.
AdmissionBounded ==
  \A r \in Range(rules) : \A v \in Values :
    LET limit == Threshold(r, v) + NumThreads - 1
        k == MetricKey(r)
    IN IF r.metric_type = "kQps"
       THEN k \notin full => passes[k][v] <= limit + missed[k][v]
       ELSE r.param_idx \in exact =>
              Cardinality({c \in InFlight(r.param_idx, v) : gen[c] = loads}) <= limit
=============================================================================

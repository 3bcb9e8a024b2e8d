---------------------------- MODULE SystemGuard ----------------------------
(***************************************************************************)
(* System protection: SystemRuleManager, fed through a                     *)
(* DynamicSentinelProperty, and SystemSlot, which holds inbound calls      *)
(* against the rules and the readings of the machine.  Outbound calls pass *)
(* untouched and are left out.  The statistics of the entry node other     *)
(* than its threads and passes, and the values SystemStatusListener has    *)
(* stored, are readings that change at any time (StatusListener says which *)
(* ones it can store).                                                     *)
(***************************************************************************)
EXTENDS Integers, Sequences

CONSTANTS
  Callers,      \* the threads that make inbound calls
  Loaders,      \* the threads that load rules
  Lists,        \* the rule lists they load
  Properties, FirstProperty,   \* the properties the manager registers with
  Readings,     \* what the node and the machine may show
  One,          \* the unit of CPU thresholds: 1.0
  NoRules,      \* no list
  MaxLoads, MaxPass            \* bounds

Metrics == {"kSystemLoad", "kRt", "kConcurrency", "kQps", "kCpuUsage"}

ASSUME GuardAssumption ==
  /\ FirstProperty \in Properties /\ One \in Nat
  /\ Lists \subseteq Seq([metric : Metrics, threshold : Int])
  /\ Readings \subseteq [rt : Nat, maxQps : Nat, minRt : Nat, load : Int,
                         cpu : Int \X Nat]
  /\ MaxLoads \in Nat /\ MaxPass \in Nat

VARIABLES
  value,        \* last_value_ of each property
  listening,    \* the properties the manager's listener is attached to
  cur,          \* cur_property_
  mutex,        \* is property_mtx_ held?
  ruleMap,      \* rule_map_: the threshold of each metric that has a rule
  lpc, prop, arg,              \* each loader: where it is, on which property, with what
  sent,         \* the list of the last LoadRules that was accepted
  overlapped,   \* have two loaders ever been at work at the same time?
  loads,        \* bounded counter
  pc, snap, todo,              \* each caller: where it is, the map it holds, the
                               \* metrics it has still to check
  threads, pass,               \* CurThreadNum and PassQps of the entry node
  reading       \* the other readings

loadVars == <<value, listening, cur, mutex, ruleMap, lpc, prop, arg, sent, overlapped,
              loads>>
callVars == <<pc, snap, todo, threads, pass>>
vars == <<value, listening, cur, mutex, ruleMap, lpc, prop, arg, sent, overlapped,
          loads, pc, snap, todo, threads, pass, reading>>

NoMap == [m \in {} |-> 0]

Init ==
  /\ value = [p \in Properties |-> <<>>]
  /\ listening = {FirstProperty} /\ cur = FirstProperty /\ mutex = FALSE
  /\ ruleMap = NoMap
  /\ lpc = [l \in Loaders |-> "idle"]
  /\ prop = [l \in Loaders |-> FirstProperty]
  /\ arg = [l \in Loaders |-> NoRules]
  /\ sent = <<>> /\ overlapped = FALSE /\ loads = 0
  /\ pc = [c \in Callers |-> "idle"]
  /\ snap = [c \in Callers |-> NoMap]
  /\ todo = [c \in Callers |-> {}]
  /\ threads = 0 /\ pass = 0
  /\ reading \in Readings

-----------------------------------------------------------------------------
(***************************************************************************)
(* Rules.                                                                  *)
(***************************************************************************)
IsValidRule(r) ==
  /\ r.threshold >= 0
  /\ r.metric = "kCpuUsage" => r.threshold <= One

\* Mutant: the last rule of a metric wins.
SetRule(map, r) ==
  [m \in DOMAIN map \union {r.metric} |-> IF m = r.metric THEN r.threshold ELSE map[m]]

\* One round of the loop over the list.
AddRule(map, r) ==
  IF r.metric \notin DOMAIN map
    THEN [m \in DOMAIN map \union {r.metric} |->
            IF m = r.metric THEN r.threshold ELSE map[m]]
    ELSE IF r.threshold < map[r.metric] THEN [map EXCEPT ![r.metric] = r.threshold]
                                        ELSE map

\* The map ConfigUpdate builds from a list, rule by rule.
MapOf(list) ==
  LET built[n \in 0 .. Len(list)] ==
        IF n = 0 THEN NoMap
        ELSE IF IsValidRule(list[n]) THEN AddRule(built[n - 1], list[n])
        ELSE built[n - 1]
  IN built[Len(list)]

Busy == {l \in Loaders : lpc[l] # "idle"}

Loader(l, from, to) == lpc[l] = from /\ lpc' = [lpc EXCEPT ![l] = to]

\* A loader that comes while another is at work.
Overlap == overlapped' = (overlapped \/ Busy # {})

\* LoadRules: cur_property_ is read without the lock, and an equal value is
\* refused.
LoadRules(l) ==
  /\ loads < MaxLoads /\ loads' = loads + 1
  /\ lpc[l] = "idle"
  /\ \E list \in Lists :
       IF value[cur] = list
         THEN UNCHANGED <<lpc, prop, arg, overlapped>>
         ELSE /\ Loader(l, "idle", "store")
              /\ prop' = [prop EXCEPT ![l] = cur]
              /\ arg' = [arg EXCEPT ![l] = list]
              /\ Overlap
  /\ UNCHANGED <<value, listening, cur, mutex, ruleMap, sent, callVars, reading>>

\* UpdateValue remembers the value ...
StoreValue(l) ==
  /\ Loader(l, "store", "notify")
  /\ value' = [value EXCEPT ![prop[l]] = arg[l]]
  /\ UNCHANGED <<listening, cur, mutex, ruleMap, prop, arg, sent, overlapped, loads,
                 callVars, reading>>

\* Mutant: the listeners are given the value the property had before.
StaleNotice(l) == ruleMap' = MapOf(sent)

\* ... and tells the listeners; ConfigUpdate builds a map and swaps it in.
ConfigUpdate(l) ==
  ruleMap' = IF prop[l] \in listening THEN MapOf(arg[l]) ELSE ruleMap

UpdateValue(l) ==
  /\ Loader(l, "notify", "idle")
  /\ ConfigUpdate(l)
  /\ sent' = arg[l]
  /\ prop' = [prop EXCEPT ![l] = FirstProperty] /\ arg' = [arg EXCEPT ![l] = NoRules]
  /\ UNCHANGED <<value, listening, cur, mutex, overlapped, loads, callVars, reading>>

\* RegisterToProperty, under property_mtx_: the listener leaves the property of
\* now, ...
RegisterToProperty(l) ==
  /\ Loader(l, "idle", "swap") /\ ~mutex
  /\ loads < MaxLoads /\ loads' = loads + 1
  /\ mutex' = TRUE
  /\ listening' = listening \ {cur}
  /\ \E p \in Properties : prop' = [prop EXCEPT ![l] = p]
  /\ Overlap
  /\ UNCHANGED <<value, cur, ruleMap, arg, sent, callVars, reading>>

\* ... the new one takes its place ...
SwapProperty(l) ==
  /\ Loader(l, "swap", "listen")
  /\ cur' = prop[l]
  /\ UNCHANGED <<value, listening, mutex, ruleMap, prop, arg, sent, overlapped, loads,
                 callVars, reading>>

\* ... and gets the listener; its value is not passed on.
AddListener(l) ==
  /\ Loader(l, "listen", "idle")
  /\ listening' = listening \union {cur}
  /\ mutex' = FALSE
  /\ prop' = [prop EXCEPT ![l] = FirstProperty]
  /\ UNCHANGED <<value, cur, ruleMap, arg, sent, overlapped, loads, callVars, reading>>

-----------------------------------------------------------------------------
(***************************************************************************)
(* Calls.                                                                  *)
(***************************************************************************)
\* SystemSlot::Entry takes the map of now.
Entry(c) ==
  /\ pc[c] = "idle"
  /\ pc' = [pc EXCEPT ![c] = "check"]
  /\ snap' = [snap EXCEPT ![c] = ruleMap]
  /\ todo' = [todo EXCEPT ![c] = DOMAIN ruleMap]
  /\ UNCHANGED <<loadVars, threads, pass, reading>>

\* Mutant: calls are turned away at the capacity, the first one included.
AtCapacity(n) == n * 1000 >= reading.maxQps * reading.minRt

\* ~CheckBbr: more calls than the machine completes, and more than one.
AboveCapacity(n) == n > 1 /\ n * 1000 > reading.maxQps * reading.minRt

\* The case of CheckSystem for metric m, for one token.  A CPU usage is a
\* quotient; that of no time, 0/0, is above no threshold.
Blocks(m, threshold) ==
  CASE m = "kQps"         -> pass + 1 > threshold
    [] m = "kConcurrency" -> threads + 1 > threshold
    [] m = "kRt"          -> reading.rt > threshold
    [] m = "kSystemLoad"  -> reading.load > threshold /\ AboveCapacity(threads)
    [] m = "kCpuUsage"    -> /\ reading.cpu[1] * One > threshold * reading.cpu[2]
                             /\ AboveCapacity(threads)

\* CheckSystem goes over the map in no particular order.
CheckSystem(c) ==
  /\ pc[c] = "check"
  /\ \E m \in todo[c] :
       IF Blocks(m, snap[c][m])
         THEN /\ pc' = [pc EXCEPT ![c] = "idle"]
              /\ snap' = [snap EXCEPT ![c] = NoMap]
              /\ todo' = [todo EXCEPT ![c] = {}]
         ELSE /\ todo' = [todo EXCEPT ![c] = @ \ {m}]
              /\ UNCHANGED <<pc, snap>>
  /\ UNCHANGED <<loadVars, threads, pass, reading>>

\* StatisticSlot::Entry counts the call on the entry node.
OnPass(c) ==
  /\ pc[c] = "check" /\ todo[c] = {} /\ pass < MaxPass
  /\ pc' = [pc EXCEPT ![c] = "inside"]
  /\ snap' = [snap EXCEPT ![c] = NoMap]
  /\ threads' = threads + 1 /\ pass' = pass + 1
  /\ UNCHANGED <<loadVars, todo, reading>>

\* StatisticSlot::Exit.
Exit(c) ==
  /\ pc[c] = "inside"
  /\ pc' = [pc EXCEPT ![c] = "idle"]
  /\ threads' = threads - 1
  /\ UNCHANGED <<loadVars, snap, todo, pass, reading>>

\* The second's window has passed.
Expire ==
  /\ pass > 0 /\ pass' = 0
  /\ UNCHANGED <<loadVars, pc, snap, todo, threads, reading>>

\* The readings change.
Read ==
  /\ reading' \in Readings
  /\ UNCHANGED <<loadVars, callVars>>

-----------------------------------------------------------------------------
CallStep(c) == CheckSystem(c) \/ OnPass(c) \/ Exit(c)

LoaderStep(l) ==
  StoreValue(l) \/ UpdateValue(l) \/ SwapProperty(l) \/ AddListener(l)

Next ==
  \/ \E l \in Loaders : LoadRules(l) \/ RegisterToProperty(l) \/ LoaderStep(l)
  \/ \E c \in Callers : Entry(c) \/ CallStep(c)
  \/ Expire \/ Read

Spec == Init /\ [][Next]_vars

\* Calls come, go on and end, time passes, and loaders do not stop half-way.
FairSpec ==
  /\ Spec
  /\ \A c \in Callers : WF_vars(CallStep(c)) /\ WF_vars(Entry(c))
  /\ \A l \in Loaders : WF_vars(LoaderStep(l))
  /\ WF_vars(Expire)

-----------------------------------------------------------------------------
(***************************************************************************)
(* Properties.                                                             *)
(***************************************************************************)
\* The valid rules of a list on a metric, and the map of the strictest.
Valid(list, m) ==
  {list[i].threshold : i \in {j \in DOMAIN list : /\ list[j].metric = m
                                                  /\ IsValidRule(list[j])}}

IsStrictest(map, list) ==
  /\ DOMAIN map = {m \in Metrics : Valid(list, m) # {}}
  /\ \A m \in DOMAIN map : /\ map[m] \in Valid(list, m)
                           /\ \A t \in Valid(list, m) : map[m] <= t

\* "This ensure that `values` are updated atomically.  Only the most strict rule
\* of each type are loaded" (system_rule_manager.cc:56): however loads, changes
\* of property and calls interleave, the rules in force, and those any call is
\* being held against, are the strictest valid rules of one list, never a
\* mixture of two.
RulesWhole ==
  \A map \in {ruleMap} \union {snap[c] : c \in Callers} :
    \E list \in Lists \union {<<>>} : IsStrictest(map, list)

\* The list of the last LoadRules that was accepted is in force once no loader
\* is at work, through every change of property - provided no two loaders were
\* ever at work together: UpdateValue compares, stores and notifies without a
\* lock, and LoadRules reads cur_property_ without property_mtx_.
LoadedInForce ==
  Busy = {} /\ ~overlapped => IsStrictest(ruleMap, sent)

\* Guarding by load and CPU usage alone never closes the door for good: however
\* overloaded the machine stays, and whatever was completed before, calls go on
\* being let in (CheckBbr admits while at most one call is inside).
NeverShutOut ==
  <>[](DOMAIN ruleMap \subseteq {"kSystemLoad", "kCpuUsage"})
    => []<>(\E c \in Callers : pc[c] = "inside")
=============================================================================

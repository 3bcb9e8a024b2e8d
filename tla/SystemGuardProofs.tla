-------------------------- MODULE SystemGuardProofs --------------------------
(***************************************************************************)
(* For every set of callers, of loaders and of rule lists: the rules in    *)
(* force are the strictest of one list, and of the list accepted last.     *)
(***************************************************************************)
EXTENDS SystemGuard, DataFacts

Rules == [metric : Metrics, threshold : Int]

\* What rule_map_ can be.
Maps == UNION {[D -> Int] : D \in SUBSET Metrics}

AllLists == Lists \union {<<>>}

\* The valid rules on m among the first n of a list, and the map of the
\* strictest of these.
ValidTo(list, n, m) ==
  {list[i].threshold : i \in {j \in 1 .. n : list[j].metric = m /\ IsValidRule(list[j])}}

StrictestTo(map, list, n) ==
  /\ map \in Maps
  /\ DOMAIN map = {m \in Metrics : ValidTo(list, n, m) # {}}
  /\ \A m \in DOMAIN map : /\ map[m] \in ValidTo(list, n, m)
                           /\ \A t \in ValidTo(list, n, m) : map[m] <= t

TypeOK ==
  /\ lpc \in [Loaders -> {"idle", "store", "notify", "swap", "listen"}]
  /\ prop \in [Loaders -> Properties] /\ cur \in Properties
  /\ arg \in [Loaders -> Lists \cup {NoRules}]
  /\ \A l \in Loaders : lpc[l] \in {"store", "notify"} => arg[l] \in Lists
  /\ sent \in AllLists
  /\ overlapped \in BOOLEAN
  /\ pc \in [Callers -> {"idle", "check", "inside"}]
  /\ DOMAIN snap = Callers

\* As long as loaders have come one at a time, the property that one of them
\* gives its list to has the listener.
OneAtATime ==
  ~overlapped =>
    /\ \A l, k \in Busy : l = k
    /\ (\A l \in Loaders : lpc[l] \notin {"swap", "listen"}) => cur \in listening
    /\ \A l \in Loaders : lpc[l] \in {"store", "notify"} => prop[l] = cur

\* LoadedInForce, also while a loader is at work.
InForce == ~overlapped => IsStrictest(ruleMap, sent)

IInv == TypeOK /\ RulesWhole /\ OneAtATime /\ InForce

-----------------------------------------------------------------------------
(***************************************************************************)
(* The map that ConfigUpdate builds.                                       *)
(***************************************************************************)
LEMMA ListFacts ==
  ASSUME NEW list \in AllLists
  PROVE  /\ list \in Seq(Rules) /\ Len(list) \in Nat /\ DOMAIN list = 1 .. Len(list)
         /\ \A i \in 1 .. Len(list) : /\ list[i] \in Rules /\ list[i].metric \in Metrics
                                      /\ list[i].threshold \in Int
<1>1. list \in Seq(Rules)
  BY GuardAssumption, EmptySeq DEF AllLists, Rules
<1>2. Len(list) \in Nat /\ \A i \in 1 .. Len(list) : list[i] \in Rules
  BY <1>1, LenProperties, ElementOfSeq
<1> QED
  BY <1>1, <1>2, LenProperties DEF Rules

\* AddRule sets the threshold of one metric.
LEMMA AddRuleMap ==
  ASSUME NEW map \in Maps, NEW r \in Rules
  PROVE  LET new == AddRule(map, r)
         IN  /\ new \in Maps /\ DOMAIN new = DOMAIN map \cup {r.metric}
             /\ \A m \in DOMAIN map : m # r.metric => new[m] = map[m]
             /\ r.metric \notin DOMAIN map => new[r.metric] = r.threshold
             /\ r.metric \in DOMAIN map =>
                  new[r.metric] = IF r.threshold < map[r.metric] THEN r.threshold
                                                                 ELSE map[r.metric]
<1>1. PICK D \in SUBSET Metrics : map \in [D -> Int]
  BY DEF Maps
<1>2. r.metric \in Metrics /\ r.threshold \in Int
  BY DEF Rules
<1>3. D \cup {r.metric} \in SUBSET Metrics
  BY <1>2
<1>4. CASE r.metric \notin D
  <2>1. AddRule(map, r) = [m \in D \cup {r.metric} |->
                             IF m = r.metric THEN r.threshold ELSE map[m]]
    BY <1>1, <1>4 DEF AddRule
  <2>2. AddRule(map, r) \in [D \cup {r.metric} -> Int]
    BY <1>1, <1>2, <2>1
  <2> QED
    BY <1>1, <1>3, <1>4, <2>1, <2>2 DEF Maps
<1>5. CASE r.metric \in D
  <2>1. AddRule(map, r) = IF r.threshold < map[r.metric]
                          THEN [map EXCEPT ![r.metric] = r.threshold] ELSE map
    BY <1>1, <1>5 DEF AddRule
  <2>2. AddRule(map, r) \in [D -> Int]
    BY <1>1, <1>2, <2>1
  <2>3. AddRule(map, r) \in Maps /\ DOMAIN AddRule(map, r) = D
    BY <2>2 DEF Maps
  <2>4. /\ \A m \in D : m # r.metric => AddRule(map, r)[m] = map[m]
        /\ AddRule(map, r)[r.metric] = IF r.threshold < map[r.metric] THEN r.threshold
                                                                      ELSE map[r.metric]
    BY <1>1, <1>5, <2>1
  <2> QED
    BY <1>1, <1>5, <2>3, <2>4
<1> QED
  BY <1>4, <1>5

\* One round of the loop.
Round(list, n, map) == IF IsValidRule(list[n]) THEN AddRule(map, list[n]) ELSE map

LEMMA ValidToNext ==
  ASSUME NEW list \in AllLists, NEW n \in 1 .. Len(list), NEW m
  PROVE  ValidTo(list, n, m) =
           ValidTo(list, n - 1, m) \cup
             (IF list[n].metric = m /\ IsValidRule(list[n]) THEN {list[n].threshold} ELSE {})
<1>1. 1 .. n = (1 .. n - 1) \cup {n}
  BY ListFacts
<1> QED
  BY <1>1 DEF ValidTo

LEMMA RoundKeepsStrictest ==
  ASSUME NEW list \in AllLists, NEW n \in 1 .. Len(list), NEW map,
         StrictestTo(map, list, n - 1)
  PROVE  StrictestTo(Round(list, n, map), list, n)
<1> DEFINE r == list[n]
<1>1. r \in Rules /\ r.metric \in Metrics /\ r.threshold \in Int
  BY ListFacts
<1>2. /\ map \in Maps
      /\ DOMAIN map = {m \in Metrics : ValidTo(list, n - 1, m) # {}}
      /\ \A m \in DOMAIN map : /\ map[m] \in ValidTo(list, n - 1, m)
                               /\ \A t \in ValidTo(list, n - 1, m) : map[m] <= t
  BY DEF StrictestTo
<1>3. \A m : ValidTo(list, n, m) =
         ValidTo(list, n - 1, m) \cup
           (IF r.metric = m /\ IsValidRule(r) THEN {r.threshold} ELSE {})
  BY ValidToNext
<1> HIDE DEF r
<1>4. CASE ~IsValidRule(r)
  <2>1. Round(list, n, map) = map
    BY <1>4 DEF Round, r
  <2>2. \A m : ValidTo(list, n, m) = ValidTo(list, n - 1, m)
    BY <1>3, <1>4
  <2> QED
    BY <1>2, <2>1, <2>2 DEF StrictestTo
<1>5. CASE IsValidRule(r)
  <2> DEFINE new == AddRule(map, r)
  <2>1. Round(list, n, map) = new
    BY <1>5 DEF Round, r
  <2>2. /\ new \in Maps /\ DOMAIN new = DOMAIN map \cup {r.metric}
        /\ \A m \in DOMAIN map : m # r.metric => new[m] = map[m]
        /\ r.metric \notin DOMAIN map => new[r.metric] = r.threshold
        /\ r.metric \in DOMAIN map =>
             new[r.metric] = IF r.threshold < map[r.metric] THEN r.threshold
                                                            ELSE map[r.metric]
    BY <1>1, <1>2, AddRuleMap
  <2> HIDE DEF new
  <2>3. /\ ValidTo(list, n, r.metric) = ValidTo(list, n - 1, r.metric) \cup {r.threshold}
        /\ \A m : m # r.metric => ValidTo(list, n, m) = ValidTo(list, n - 1, m)
    BY <1>3, <1>5
  <2>4. DOMAIN new = {m \in Metrics : ValidTo(list, n, m) # {}}
    BY <1>1, <1>2, <2>2, <2>3
  <2>5. \A m : \A t \in ValidTo(list, n - 1, m) : t \in Int
    BY ListFacts DEF ValidTo
  <2>6. ASSUME NEW m \in DOMAIN new
        PROVE  new[m] \in ValidTo(list, n, m) /\ \A t \in ValidTo(list, n, m) : new[m] <= t
    <3>1. CASE m # r.metric
      BY <1>2, <2>2, <2>3, <3>1
    <3>2. CASE m = r.metric /\ m \notin DOMAIN map
      <4>1. ValidTo(list, n, m) = {r.threshold}
        BY <1>1, <1>2, <2>3, <3>2
      <4> QED
        BY <1>1, <2>2, <3>2, <4>1
    <3>3. CASE m = r.metric /\ m \in DOMAIN map
      <4>1. /\ map[m] \in ValidTo(list, n - 1, m)
            /\ \A t \in ValidTo(list, n - 1, m) : t \in Int /\ map[m] <= t
        BY <1>2, <2>5, <3>3
      <4>2. new[m] = IF r.threshold < map[m] THEN r.threshold ELSE map[m]
        BY <2>2, <3>3
      <4>3. ValidTo(list, n, m) = ValidTo(list, n - 1, m) \cup {r.threshold}
        BY <2>3, <3>3
      <4>4. map[m] \in Int
        BY <2>5, <4>1
      <4>5. new[m] \in ValidTo(list, n, m)
        BY <4>1, <4>2, <4>3
      <4>6. new[m] <= map[m] /\ new[m] <= r.threshold /\ new[m] \in Int
        BY <1>1, <4>2, <4>4
      <4>7. \A t \in ValidTo(list, n, m) : new[m] <= t
        BY <1>1, <4>1, <4>3, <4>4, <4>6
      <4> QED
        BY <4>5, <4>7
    <3> QED
      BY <3>1, <3>2, <3>3
  <2> QED
    BY <2>1, <2>2, <2>4, <2>6 DEF StrictestTo
<1> QED
  BY <1>4, <1>5

LEMMA NoMapStrictest ==
  ASSUME NEW list PROVE NoMap \in Maps /\ StrictestTo(NoMap, list, 0)
<1>1. NoMap \in [{} -> Int] /\ DOMAIN NoMap = {}
  BY DEF NoMap
<1>2. NoMap \in Maps
  BY <1>1 DEF Maps
<1>3. \A m : ValidTo(list, 0, m) = {}
  BY DEF ValidTo
<1> QED
  BY <1>1, <1>2, <1>3 DEF StrictestTo

\* "Only the most strict rule of each type are loaded."
LEMMA MapOfStrictest ==
  ASSUME NEW list \in AllLists
  PROVE  IsStrictest(MapOf(list), list)
<1> DEFINE N == Len(list)
           Made(g) == g = [n \in 0 .. N |-> IF n = 0 THEN NoMap
                                            ELSE IF IsValidRule(list[n])
                                                 THEN AddRule(g[n - 1], list[n])
                                            ELSE g[n - 1]]
           built == CHOOSE g : Made(g)
<1>1. N \in Nat /\ NoMap \in Maps
  BY ListFacts, NoMapStrictest
<1>2. ASSUME NEW n \in 1 .. N, NEW map \in Maps PROVE Round(list, n, map) \in Maps
  BY ListFacts, AddRuleMap DEF Round
<1>3. \E g : Made(g)
  <2> DEFINE step == [n \in 1 .. N |-> [s \in Maps |-> Round(list, n, s)]]
  <2>1. step \in [1 .. N -> [Maps -> Maps]]
    BY <1>2
  <2>2. PICK f : Rounds(f, Maps, N, NoMap, step)
    <3> HIDE DEF step, N
    <3> QED
      BY <1>1, <2>1, Recursion
  <2>3. ASSUME NEW n \in 1 .. N PROVE f[n] = Round(list, n, f[n - 1])
    <3>1. n - 1 \in 0 .. N
      BY <1>1
    <3>2. f[n - 1] \in Maps /\ f[n] = step[n][f[n - 1]]
      BY <2>2, <3>1 DEF Rounds
    <3> QED
      BY <3>2
  <2> HIDE DEF step
  <2>4. f = [n \in 0 .. N |-> f[n]] /\ f[0] = NoMap
    BY <2>2 DEF Rounds
  <2>5. ASSUME NEW n \in 0 .. N
        PROVE  f[n] = IF n = 0 THEN NoMap
                      ELSE IF IsValidRule(list[n]) THEN AddRule(f[n - 1], list[n])
                      ELSE f[n - 1]
    <3>1. n = 0 \/ n \in 1 .. N
      BY <1>1
    <3>2. CASE n = 0
      BY <2>4, <3>2
    <3>3. CASE n # 0
      BY <2>3, <3>1, <3>3 DEF Round
    <3> QED
      BY <3>2, <3>3
  <2>6. Made(f)
    BY <2>4, <2>5
  <2> QED
    BY <2>6
<1>4. Made(built)
  <2> HIDE DEF Made
  <2> QED
    BY <1>3
<1>5. MapOf(list) = built[N]
  BY DEF MapOf
<1> HIDE DEF built
<1> DEFINE T == {n \in 0 .. N : ~StrictestTo(built[n], list, n)}
<1>6. T = {}
  <2> SUFFICES ASSUME T # {} PROVE FALSE
    OBVIOUS
  <2>1. PICK m \in T : \A k \in T : m <= k
    <3>1. T \in SUBSET Nat
      OBVIOUS
    <3> HIDE DEF T
    <3> QED
      BY <3>1, LeastElement
  <2>2. m \in 0 .. N /\ ~StrictestTo(built[m], list, m)
    BY <2>1
  <2>3. m # 0
    <3>1. built[0] = NoMap
      BY <1>1, <1>4
    <3> QED
      BY <2>2, <3>1, NoMapStrictest
  <2>4. m - 1 \in 0 .. N /\ m \in 1 .. N /\ ~(m <= m - 1)
    BY <1>1, <2>2, <2>3
  <2>5. m - 1 \notin T
    <3> HIDE DEF T
    <3> QED
      BY <2>1, <2>4
  <2>6. StrictestTo(built[m - 1], list, m - 1)
    BY <2>4, <2>5
  <2>7. built[m] = Round(list, m, built[m - 1])
    BY <1>4, <2>2, <2>3 DEF Round
  <2> QED
    BY <2>2, <2>4, <2>6, <2>7, RoundKeepsStrictest
<1>7. StrictestTo(built[N], list, N)
  <2>1. N \in 0 .. N
    BY <1>1
  <2> QED
    BY <1>6, <2>1
<1>8. \A m : ValidTo(list, N, m) = Valid(list, m)
  BY ListFacts DEF ValidTo, Valid
<1> QED
  BY <1>5, <1>7, <1>8 DEF StrictestTo, IsStrictest

LEMMA NoMapIsStrictest == IsStrictest(NoMap, <<>>)
<1>1. DOMAIN NoMap = {}
  BY DEF NoMap
<1>2. \A m : Valid(<<>>, m) = {}
  BY EmptySeq DEF Valid
<1> QED
  BY <1>1, <1>2 DEF IsStrictest

-----------------------------------------------------------------------------
(***************************************************************************)
(* The invariant.                                                          *)
(***************************************************************************)
LEMMA InitIInv == Init => IInv
<1> SUFFICES ASSUME Init PROVE IInv
  OBVIOUS
<1>1. ruleMap = NoMap /\ sent = <<>> /\ \A c \in Callers : snap[c] = NoMap
  BY DEF Init
<1>2. TypeOK
  BY GuardAssumption DEF Init, TypeOK, AllLists
<1>3. RulesWhole
  BY <1>1, NoMapIsStrictest DEF RulesWhole
<1>4. OneAtATime
  BY DEF Init, OneAtATime, Busy
<1>5. InForce
  BY <1>1, NoMapIsStrictest DEF InForce
<1> QED
  BY <1>2, <1>3, <1>4, <1>5 DEF IInv

\* What calls, time and the machine do leaves the rules alone.
LEMMA RulesLeft ==
  ASSUME IInv, UNCHANGED loadVars, TypeOK',
         \A c \in Callers : snap'[c] \in {snap[c], ruleMap, NoMap}
  PROVE  IInv'
<1>1. RulesWhole'
  <2> SUFFICES ASSUME NEW map \in {ruleMap'} \cup {snap'[c] : c \in Callers}
               PROVE  \E list \in Lists \cup {<<>>} : IsStrictest(map, list)
    BY DEF RulesWhole
  <2>1. map \in {ruleMap} \cup {snap[c] : c \in Callers} \/ map = NoMap
    BY DEF loadVars
  <2> QED
    BY <2>1, NoMapIsStrictest DEF IInv, RulesWhole
<1>2. OneAtATime' /\ InForce'
  BY DEF IInv, OneAtATime, InForce, loadVars, Busy
<1> QED
  BY <1>1, <1>2 DEF IInv

LEMMA CallsKeep ==
  ASSUME IInv, (\E c \in Callers : Entry(c) \/ CallStep(c)) \/ Expire \/ Read
  PROVE  IInv'
<1>0. TypeOK
  BY DEF IInv
<1>1. CASE \E c \in Callers : Entry(c)
  BY <1>0, <1>1, RulesLeft DEF Entry, TypeOK, loadVars
<1>2. CASE \E c \in Callers : CheckSystem(c)
  BY <1>0, <1>2, RulesLeft DEF CheckSystem, TypeOK, loadVars
<1>3. CASE \E c \in Callers : OnPass(c)
  BY <1>0, <1>3, RulesLeft DEF OnPass, TypeOK, loadVars
<1>4. CASE \E c \in Callers : Exit(c)
  BY <1>0, <1>4, RulesLeft DEF Exit, TypeOK, loadVars
<1>5. CASE Expire \/ Read
  BY <1>0, <1>5, RulesLeft DEF Expire, Read, TypeOK, loadVars, callVars
<1> QED
  BY <1>1, <1>2, <1>3, <1>4, <1>5 DEF CallStep

LEMMA LoadersKeep ==
  ASSUME IInv, NEW l \in Loaders, LoadRules(l) \/ RegisterToProperty(l) \/ LoaderStep(l)
  PROVE  IInv'
<1>0. TypeOK /\ OneAtATime /\ InForce /\ RulesWhole
  BY DEF IInv
<1>1. ASSUME ruleMap' = ruleMap, snap' = snap PROVE RulesWhole'
  BY <1>0, <1>1 DEF RulesWhole
<1>2. CASE LoadRules(l)
  <2>1. ruleMap' = ruleMap /\ snap' = snap /\ sent' = sent /\ cur' = cur
        /\ listening' = listening /\ lpc[l] = "idle"
    BY <1>2 DEF LoadRules, callVars
  <2>2. CASE UNCHANGED <<lpc, prop, arg, overlapped>>
    <3>1. TypeOK'
      BY <1>0, <1>2, <2>1, <2>2 DEF TypeOK, LoadRules, callVars
    <3>2. OneAtATime' /\ InForce'
      BY <1>0, <2>1, <2>2 DEF OneAtATime, InForce, Busy
    <3> QED
      BY <1>1, <2>1, <3>1, <3>2 DEF IInv
  <2>3. CASE ~UNCHANGED <<lpc, prop, arg, overlapped>>
    <3>1. PICK list \in Lists :
            /\ lpc' = [lpc EXCEPT ![l] = "store"] /\ prop' = [prop EXCEPT ![l] = cur]
            /\ arg' = [arg EXCEPT ![l] = list] /\ overlapped' = (overlapped \/ Busy # {})
      BY <1>2, <2>3 DEF LoadRules, Loader, Overlap
    <3>2. cur \in Properties
      BY DEF IInv, TypeOK
    <3>3. TypeOK'
      BY <1>0, <1>2, <2>1, <3>1, <3>2 DEF TypeOK, LoadRules, callVars
    <3>4. OneAtATime'
      <4> SUFFICES ASSUME ~overlapped, Busy = {} PROVE OneAtATime'
        BY <3>1 DEF OneAtATime
      <4>1. \A k \in Loaders : lpc[k] = "idle"
        BY DEF Busy
      <4>2. \A k \in Loaders : lpc'[k] = IF k = l THEN "store" ELSE "idle"
        BY <1>0, <3>1, <4>1 DEF TypeOK
      <4>3. cur \in listening
        BY <1>0, <4>1 DEF OneAtATime
      <4>4. prop'[l] = cur
        BY <1>0, <3>1 DEF TypeOK
      <4> QED
        BY <2>1, <4>2, <4>3, <4>4 DEF OneAtATime, Busy
    <3>5. InForce'
      BY <1>0, <2>1, <3>1 DEF InForce
    <3> QED
      BY <1>1, <2>1, <3>3, <3>4, <3>5 DEF IInv
  <2> QED
    BY <2>2, <2>3
<1>3. CASE RegisterToProperty(l)
  <2>1. /\ ruleMap' = ruleMap /\ snap' = snap /\ sent' = sent /\ cur' = cur /\ arg' = arg
        /\ pc' = pc /\ lpc[l] = "idle" /\ lpc' = [lpc EXCEPT ![l] = "swap"]
        /\ overlapped' = (overlapped \/ Busy # {})
        /\ \E p \in Properties : prop' = [prop EXCEPT ![l] = p]
    BY <1>3 DEF RegisterToProperty, Loader, Overlap, callVars
  <2>2. TypeOK'
    BY <1>0, <2>1 DEF TypeOK
  <2>3. OneAtATime'
    <3> SUFFICES ASSUME ~overlapped, Busy = {} PROVE OneAtATime'
      BY <2>1 DEF OneAtATime
    <3>1. \A k \in Loaders : lpc'[k] = IF k = l THEN "swap" ELSE "idle"
      BY <1>0, <2>1 DEF TypeOK, Busy
    <3> QED
      BY <3>1 DEF OneAtATime, Busy
  <2>4. InForce'
    BY <1>0, <2>1 DEF InForce
  <2> QED
    BY <1>1, <2>1, <2>2, <2>3, <2>4 DEF IInv
<1>4. CASE StoreValue(l)
  <2>1. /\ ruleMap' = ruleMap /\ snap' = snap /\ sent' = sent /\ cur' = cur /\ arg' = arg
        /\ prop' = prop /\ overlapped' = overlapped /\ listening' = listening /\ pc' = pc
        /\ lpc[l] = "store" /\ lpc' = [lpc EXCEPT ![l] = "notify"]
    BY <1>4 DEF StoreValue, Loader, callVars
  <2>2. TypeOK' /\ InForce'
    BY <1>0, <2>1 DEF TypeOK, InForce
  <2>3. OneAtATime'
    BY <1>0, <2>1 DEF OneAtATime, Busy, TypeOK
  <2> QED
    BY <1>1, <2>1, <2>2, <2>3 DEF IInv
<1>5. CASE UpdateValue(l)
  <2>1. /\ snap' = snap /\ sent' = arg[l] /\ cur' = cur /\ listening' = listening
        /\ arg' = [arg EXCEPT ![l] = NoRules] /\ prop' = [prop EXCEPT ![l] = FirstProperty]
        /\ overlapped' = overlapped /\ pc' = pc
        /\ lpc[l] = "notify" /\ lpc' = [lpc EXCEPT ![l] = "idle"]
        /\ ruleMap' = IF prop[l] \in listening THEN MapOf(arg[l]) ELSE ruleMap
    BY <1>5 DEF UpdateValue, Loader, callVars, ConfigUpdate
  <2>2. arg[l] \in Lists
    BY <1>0, <2>1 DEF TypeOK
  <2>3. IsStrictest(MapOf(arg[l]), arg[l])
    BY <2>2, MapOfStrictest DEF AllLists
  <2>4. TypeOK'
    BY <1>0, <2>1, <2>2, GuardAssumption DEF TypeOK, AllLists
  <2>5. RulesWhole'
    <3> SUFFICES ASSUME NEW map \in {ruleMap'} \cup {snap[c] : c \in Callers}
                 PROVE  \E list \in Lists \cup {<<>>} : IsStrictest(map, list)
      BY <2>1 DEF RulesWhole
    <3>1. map \in {ruleMap} \cup {snap[c] : c \in Callers} \/ map = MapOf(arg[l])
      BY <2>1
    <3> QED
      BY <1>0, <2>2, <2>3, <3>1 DEF RulesWhole
  <2>6. ASSUME ~overlapped PROVE prop[l] \in listening
    <3>1. prop[l] = cur /\ \A k \in Loaders : k # l => lpc[k] = "idle"
      BY <1>0, <2>1, <2>6 DEF OneAtATime, Busy
    <3> QED
      BY <1>0, <2>1, <2>6, <3>1 DEF OneAtATime
  <2>7. InForce'
    BY <2>1, <2>3, <2>6 DEF InForce
  <2>8. OneAtATime'
    <3> SUFFICES ASSUME ~overlapped PROVE OneAtATime'
      BY <2>1 DEF OneAtATime
    <3>1. \A k \in Loaders : lpc'[k] = "idle"
      BY <1>0, <2>1 DEF OneAtATime, Busy, TypeOK
    <3>2. cur \in listening
      BY <1>0, <2>1, <2>6 DEF OneAtATime
    <3> QED
      BY <2>1, <3>1, <3>2 DEF OneAtATime, Busy
  <2> QED
    BY <2>4, <2>5, <2>7, <2>8 DEF IInv
<1>6. CASE SwapProperty(l)
  <2>1. /\ ruleMap' = ruleMap /\ snap' = snap /\ sent' = sent /\ arg' = arg
        /\ prop' = prop /\ overlapped' = overlapped /\ pc' = pc /\ cur' = prop[l]
        /\ lpc[l] = "swap" /\ lpc' = [lpc EXCEPT ![l] = "listen"]
    BY <1>6 DEF SwapProperty, Loader, callVars
  <2>2. TypeOK' /\ InForce'
    BY <1>0, <2>1 DEF TypeOK, InForce
  <2>3. OneAtATime'
    <3> SUFFICES ASSUME ~overlapped PROVE OneAtATime'
      BY <2>1 DEF OneAtATime
    <3>1. \A k \in Loaders : lpc'[k] = IF k = l THEN "listen" ELSE "idle"
      BY <1>0, <2>1 DEF OneAtATime, Busy, TypeOK
    <3> QED
      BY <3>1 DEF OneAtATime, Busy
  <2> QED
    BY <1>1, <2>1, <2>2, <2>3 DEF IInv
<1>7. CASE AddListener(l)
  <2>1. /\ ruleMap' = ruleMap /\ snap' = snap /\ sent' = sent /\ arg' = arg /\ cur' = cur
        /\ prop' = [prop EXCEPT ![l] = FirstProperty] /\ overlapped' = overlapped /\ pc' = pc
        /\ listening' = listening \union {cur}
        /\ lpc[l] = "listen" /\ lpc' = [lpc EXCEPT ![l] = "idle"]
    BY <1>7 DEF AddListener, Loader, callVars
  <2>2. TypeOK' /\ InForce'
    BY <1>0, <2>1, GuardAssumption DEF TypeOK, InForce
  <2>3. OneAtATime'
    <3> SUFFICES ASSUME ~overlapped PROVE OneAtATime'
      BY <2>1 DEF OneAtATime
    <3>1. \A k \in Loaders : lpc'[k] = "idle"
      BY <1>0, <2>1 DEF OneAtATime, Busy, TypeOK
    <3> QED
      BY <2>1, <3>1 DEF OneAtATime, Busy
  <2> QED
    BY <1>1, <2>1, <2>2, <2>3 DEF IInv
<1> QED
  BY <1>2, <1>3, <1>4, <1>5, <1>6, <1>7 DEF LoaderStep

LEMMA Invariance == Spec => []IInv
<1>1. Init => IInv
  BY InitIInv
<1>2. IInv /\ [Next]_vars => IInv'
  <2> SUFFICES ASSUME IInv, [Next]_vars PROVE IInv'
    OBVIOUS
  <2>1. CASE Next
    BY <2>1, CallsKeep, LoadersKeep DEF Next
  <2>2. CASE UNCHANGED vars
    BY <2>2 DEF vars, IInv, TypeOK, RulesWhole, OneAtATime, InForce, Busy
  <2> QED
    BY <2>1, <2>2
<1> QED
  BY <1>1, <1>2, PTL DEF Spec

\* "This ensure that `values` are updated atomically.  Only the most strict rule
\* of each type are loaded" (SystemPropertyListener::ConfigUpdate): the rules in
\* force and those any call is held against come from one list.
THEOREM RulesStayWhole == Spec => []RulesWhole
<1>1. IInv => RulesWhole
  BY DEF IInv
<1> QED
  BY <1>1, Invariance, PTL

\* As long as loaders come one at a time, the rules in force are those of the
\* list that LoadRules accepted last, through every RegisterToProperty.
THEOREM LoadedRulesInForce == Spec => []LoadedInForce
<1>1. IInv => LoadedInForce
  BY DEF IInv, InForce, LoadedInForce
<1> QED
  BY <1>1, Invariance, PTL
=============================================================================

----------------------------- MODULE EntryChain -----------------------------
(***************************************************************************)
(* The life of guarded calls on one resource: SphU::Entry walks the slot   *)
(* chain (ResourceNodeBuilderSlot, the rule checkers, StatisticSlot), the  *)
(* call runs, EntryResult::Exit walks it again.  Flow rules are replaced   *)
(* and Sentinel is switched on and off in between.                         *)
(*                                                                         *)
(* The nodes that the slots count in are shared and unlocked: the flow     *)
(* check reads a counter that StatisticSlot increases many steps later,    *)
(* and a flow rule is looked up three times (its vector, the other tags,   *)
(* its controller), each time under a lock of its own.  A step is one such *)
(* access.  The resource node exists from the first call on; a call        *)
(* acquires one token.  What the other checkers (system, parameters,       *)
(* breakers) decide is left open.                                          *)
(***************************************************************************)
EXTENDS Integers, FiniteSets

CONSTANTS Calls,        \* the guarded calls
          NumThreads,   \* how many threads are inside SphU::Entry at a time
          Tags,         \* tags of the contexts
          NoTag,        \* the empty tag
          NoNode,       \* nullptr
          NoRule,       \* no rule at hand
          EntryTypes,   \* subset of {"IN", "OUT"}
          RuleLists,    \* what FlowRuleManager::LoadRules is called with
          MaxTagSize,   \* Constants::kMaxTagSize
          MaxLoads,     \* bound: calls of LoadRules
          MaxSwitches,  \* bound: uses of the switch command
          MaxExpiries   \* bound: times at which passes leave the window

\* A flow rule of the resource with relation strategy kDirect.  The
\* limit_origin "" is the empty one.
FlowRule == [limit_origin : {"", "default", "other"} \cup Tags,
             metric_type : {"kQps", "kThreadCount"}, count : Int]

ASSUME ChainAssumption ==
  /\ IsFiniteSet(Calls)
  /\ NumThreads \in Nat \ {0}
  /\ NoTag \notin Tags /\ NoNode \notin Calls /\ NoRule \notin FlowRule
  /\ (Tags \cup {NoTag}) \cap {"", "default", "other"} = {}
  /\ EntryTypes \subseteq {"IN", "OUT"}
  /\ RuleLists \subseteq SUBSET FlowRule
  /\ MaxTagSize \in Nat /\ MaxLoads \in Nat /\ MaxSwitches \in Nat /\ MaxExpiries \in Nat

VARIABLES
  activated,   \* GlobalStatus::activated
  lastValue,   \* last_value_ of the rule property
  rules,       \* rule_map_ of the resource; also the keys of
               \* traffic_controller_map_, which changes along with it
  tagMap,      \* tag_node_map_: the node of each tag, named after the call
               \* that created it
  resNum, entryNum, tagNum,  \* cur_thread_num_ of the resource node, of the
                             \* entry node and of every tag node
  resPass, tagPass,          \* passes in the sliding window of the nodes
  pc,          \* what the call does next
  type, tag,   \* entry type and context tag of the call
  curNode,     \* whether cur_node_ has been set
  tagNode,     \* tag_node_ of its context
  exited, blockError,        \* exited_, and whether block_error_ is set
  todo, rule,  \* the flow rules still to check and the one at hand
  loads, switches, expiries, \* bounded events so far
  \* -- history, read by the properties only
  stale,       \* the calls in Entry since whose fetch of the rules, or
               \* before it, rules have been loaded
  slackNum, slackPass        \* what may be left over from before the last load

statVars  == <<resNum, entryNum, tagNum, resPass, tagPass>>
callVars  == <<type, tag, curNode, tagNode, exited, blockError, todo, rule>>
boundVars == <<loads, switches, expiries>>
slackVars == <<slackNum, slackPass>>
vars == <<activated, lastValue, rules, tagMap, resNum, entryNum, tagNum, resPass,
          tagPass, pc, type, tag, curNode, tagNode, exited, blockError, todo, rule,
          loads, switches, expiries, stale, slackNum, slackPass>>

CheckPcs == {"select", "controller", "doCheck"}
EntryPcs == {"getTagNode", "newTagNode", "getRules", "others", "incNode", "passNode",
             "incEntry", "incTag", "passTag"} \cup CheckPcs

\* The calls inside SphU::Entry; those of them that the thread number of the
\* resource node does not count yet; and those that its passes do not.
InEntry   == {c \in Calls : pc[c] \in EntryPcs}
Uncounted == {c \in InEntry : pc[c] \notin {"passNode", "incEntry", "incTag", "passTag"}}
Unpassed  == {c \in InEntry : pc[c] \notin {"incEntry", "incTag", "passTag"}}

-----------------------------------------------------------------------------
Init ==
  /\ activated = TRUE
  /\ lastValue = {} /\ rules = {}
  /\ tagMap = [g \in Tags |-> NoNode]
  /\ resNum = 0 /\ entryNum = 0 /\ tagNum = [n \in Calls |-> 0]
  /\ resPass = 0 /\ tagPass = [n \in Calls |-> 0]
  /\ pc = [c \in Calls |-> "new"]
  /\ type = [c \in Calls |-> "OUT"]
  /\ tag = [c \in Calls |-> NoTag]
  /\ curNode = [c \in Calls |-> FALSE]
  /\ tagNode = [c \in Calls |-> NoNode]
  /\ exited = [c \in Calls |-> FALSE]
  /\ blockError = [c \in Calls |-> FALSE]
  /\ todo = [c \in Calls |-> {}]
  /\ rule = [c \in Calls |-> NoRule]
  /\ loads = 0 /\ switches = 0 /\ expiries = 0
  /\ stale = {}
  /\ slackNum = 0 /\ slackPass = 0

Goto(c, label) == pc' = [pc EXCEPT ![c] = label]

-----------------------------------------------------------------------------
(***************************************************************************)
(* The surroundings: the switch command, the rule manager, the clock.      *)
(***************************************************************************)
SetSwitchStatus(on) ==
  /\ switches < MaxSwitches
  /\ switches' = switches + 1
  /\ activated' = on
  /\ UNCHANGED <<lastValue, rules, tagMap, statVars, pc, callVars, loads, expiries,
                 stale, slackVars>>

IsValidRule(r) == r.count >= 0

\* ConfigUpdate gives a rule without limit_origin the default one.
Normalized(r) == IF r.limit_origin = "" THEN [r EXCEPT !.limit_origin = "default"] ELSE r

\* FlowRule::operator== takes an empty limit_origin for the default one.
SameRules(a, b) == {Normalized(r) : r \in a} = {Normalized(r) : r \in b}

\* UpdateValue drops the list that it had last; ConfigUpdate swaps the rule
\* map and the controller map under update_mtx_.
LoadRules(list) ==
  /\ loads < MaxLoads
  /\ loads' = loads + 1
  /\ \/ SameRules(list, lastValue) /\ UNCHANGED <<lastValue, rules, stale, slackVars>>
     \/ /\ ~SameRules(list, lastValue)
        /\ lastValue' = list
        /\ rules' = {Normalized(r) : r \in {s \in list : IsValidRule(s)}}
        /\ stale' = Unpassed
        /\ slackNum' = resNum + Cardinality(Uncounted)
        /\ slackPass' = resPass + Cardinality(Unpassed)
  /\ UNCHANGED <<activated, tagMap, statVars, pc, callVars, switches, expiries>>

\* Time passes: some of the passes leave the sliding window (LeapArray) of
\* one of the nodes.
Expire ==
  /\ expiries < MaxExpiries
  /\ expiries' = expiries + 1
  /\ \/ resPass' \in 0 .. resPass - 1 /\ UNCHANGED tagPass
     \/ /\ \E n \in Calls : \E k \in 0 .. tagPass[n] - 1 :
             tagPass' = [tagPass EXCEPT ![n] = k]
        /\ UNCHANGED resPass
  /\ UNCHANGED <<activated, lastValue, rules, tagMap, resNum, entryNum, tagNum, pc,
                 callVars, loads, switches, stale, slackVars>>

-----------------------------------------------------------------------------
(***************************************************************************)
(* SphU::Entry and ResourceNodeBuilderSlot::Entry.                         *)
(***************************************************************************)
Entry(c, ty, g) ==
  /\ pc[c] = "new"
  /\ Cardinality(InEntry) < NumThreads
  /\ type' = [type EXCEPT ![c] = ty]
  /\ tag' = [tag EXCEPT ![c] = g]
  /\ \/ /\ ~activated
        /\ exited' = [exited EXCEPT ![c] = TRUE]
        /\ Goto(c, "running")
        /\ UNCHANGED curNode
     \/ /\ activated
        /\ curNode' = [curNode EXCEPT ![c] = TRUE]
        /\ Goto(c, IF g = NoTag THEN "getRules" ELSE "getTagNode")
        /\ UNCHANGED exited
  /\ UNCHANGED <<activated, lastValue, rules, tagMap, statVars, tagNode, blockError,
                 todo, rule, boundVars, stale, slackVars>>

GetTagNode(c) ==
  /\ pc[c] = "getTagNode"
  /\ \/ /\ tagMap[tag[c]] # NoNode
        /\ tagNode' = [tagNode EXCEPT ![c] = tagMap[tag[c]]]
        /\ Goto(c, "getRules")
     \/ tagMap[tag[c]] = NoNode /\ Goto(c, "newTagNode") /\ UNCHANGED tagNode
  /\ UNCHANGED <<activated, lastValue, rules, tagMap, statVars, type, tag, curNode,
                 exited, blockError, todo, rule, boundVars, stale, slackVars>>

TagMapSize == Cardinality({g \in Tags : tagMap[g] # NoNode})

\* GetOrCreateTagNode under the write lock.  It does not look the tag up
\* again: insert() leaves an existing node in the map, and the new one goes
\* to this call alone.
NewTagNode(c) ==
  /\ pc[c] = "newTagNode"
  /\ \/ /\ TagMapSize > MaxTagSize
        /\ UNCHANGED <<tagNode, tagMap>>
     \/ /\ TagMapSize <= MaxTagSize
        /\ tagNode' = [tagNode EXCEPT ![c] = c]
        /\ tagMap' = [tagMap EXCEPT ![tag[c]] = IF @ = NoNode THEN c ELSE @]
  /\ Goto(c, "getRules")
  /\ UNCHANGED <<activated, lastValue, rules, statVars, type, tag, curNode, exited,
                 blockError, todo, rule, boundVars, stale, slackVars>>

-----------------------------------------------------------------------------
(***************************************************************************)
(* FlowSlot::Entry and FlowRuleChecker.                                    *)
(***************************************************************************)
GetRulesForResource(c) ==
  /\ pc[c] = "getRules"
  /\ todo' = [todo EXCEPT ![c] = rules]
  /\ stale' = stale \ {c}
  /\ Goto(c, "select")
  /\ UNCHANGED <<activated, lastValue, rules, tagMap, statVars, type, tag, curNode,
                 tagNode, exited, blockError, rule, boundVars, slackVars>>

IsTagNotInFlowRuleList(g) == g # NoTag /\ \A r \in rules : r.limit_origin # g

\* The node that rule r makes call c look at: "node", "tag" or none.
SelectNode(c, r) ==
  IF tag[c] = r.limit_origin \/ (r.limit_origin = "other" /\ IsTagNotInFlowRuleList(tag[c]))
    THEN IF tagNode[c] = NoNode THEN "none" ELSE "tag"
    ELSE IF r.limit_origin = "default" THEN "node" ELSE "none"

\* The next rule, in the order of the unordered set that ConfigUpdate built.
SelectNodeFor(c, r) ==
  /\ pc[c] = "select"
  /\ r \in todo[c]
  /\ todo' = [todo EXCEPT ![c] = @ \ {r}]
  /\ \/ SelectNode(c, r) = "none" /\ UNCHANGED <<pc, rule>>
     \/ /\ SelectNode(c, r) # "none"
        /\ rule' = [rule EXCEPT ![c] = r]
        /\ Goto(c, "controller")
  /\ UNCHANGED <<activated, lastValue, rules, tagMap, statVars, type, tag, curNode,
                 tagNode, exited, blockError, boundVars, stale, slackVars>>

\* The loop over the rules is over.
FlowOk(c) ==
  /\ pc[c] = "select"
  /\ todo[c] = {}
  /\ Goto(c, "others")
  /\ UNCHANGED <<activated, lastValue, rules, tagMap, statVars, callVars, boundVars,
                 stale, slackVars>>

\* A rule that has been replaced in the meantime has no controller, and
\* then lets the call pass.
GetTrafficControllerFor(c) ==
  /\ pc[c] = "controller"
  /\ \/ rule[c] \in rules /\ Goto(c, "doCheck") /\ UNCHANGED rule
     \/ /\ rule[c] \notin rules
        /\ rule' = [rule EXCEPT ![c] = NoRule]
        /\ Goto(c, "select")
  /\ UNCHANGED <<activated, lastValue, rules, tagMap, statVars, type, tag, curNode,
                 tagNode, exited, blockError, todo, boundVars, stale, slackVars>>

\* What the checker of rule r reads.  A default rule looks at the resource
\* node, every other rule that is checked at the tag node.
CurPass(c, r) ==
  IF r.limit_origin = "default"
    THEN IF r.metric_type = "kThreadCount" THEN resNum ELSE resPass
    ELSE IF r.metric_type = "kThreadCount" THEN tagNum[tagNode[c]] ELSE tagPass[tagNode[c]]

\* StatisticSlot::OnBlock marks the entry; then SphU::Entry walks Exit.
Block(c) ==
  /\ blockError' = [blockError EXCEPT ![c] = TRUE]
  /\ stale' = stale \ {c}
  /\ Goto(c, "statExit")

\* Mutant: the acquired token is not added to what has passed.
DoCheckWithoutToken(c) ==
  /\ pc[c] = "doCheck"
  /\ rule' = [rule EXCEPT ![c] = NoRule]
  /\ \/ CurPass(c, rule[c]) > rule[c].count /\ Block(c)
     \/ CurPass(c, rule[c]) <= rule[c].count /\ Goto(c, "select") /\ UNCHANGED <<blockError, stale>>
  /\ UNCHANGED <<activated, lastValue, rules, tagMap, statVars, type, tag, curNode,
                 tagNode, exited, todo, boundVars, slackVars>>

DoCheck(c) ==
  /\ pc[c] = "doCheck"
  /\ rule' = [rule EXCEPT ![c] = NoRule]
  /\ \/ CurPass(c, rule[c]) + 1 > rule[c].count /\ Block(c)
     \/ CurPass(c, rule[c]) + 1 <= rule[c].count /\ Goto(c, "select") /\ UNCHANGED <<blockError, stale>>
  /\ UNCHANGED <<activated, lastValue, rules, tagMap, statVars, type, tag, curNode,
                 tagNode, exited, todo, boundVars, slackVars>>

\* The checkers that are not modelled here.  SystemSlot runs before FlowSlot in
\* the code, the others after it; a checker that blocks leaves nothing behind
\* in the nodes, so all their verdicts are taken here.
OtherCheckers(c) ==
  /\ pc[c] = "others"
  /\ \/ Goto(c, "incNode") /\ UNCHANGED <<blockError, stale>>
     \/ Block(c)
  /\ UNCHANGED <<activated, lastValue, rules, tagMap, statVars, type, tag, curNode,
                 tagNode, exited, todo, rule, boundVars, slackVars>>

-----------------------------------------------------------------------------
(***************************************************************************)
(* StatisticSlot::OnPass: the resource node, the entry node for inbound    *)
(* calls, the tag node; the thread number first and then the pass.         *)
(***************************************************************************)
IncreaseThreadNum(c) ==
  /\ pc[c] = "incNode"
  /\ resNum' = resNum + 1
  /\ Goto(c, "passNode")
  /\ UNCHANGED <<activated, lastValue, rules, tagMap, entryNum, tagNum, resPass, tagPass,
                 callVars, boundVars, stale, slackVars>>

AddPassRequest(c) ==
  /\ pc[c] = "passNode"
  /\ resPass' = resPass + 1
  /\ stale' = stale \ {c}
  /\ Goto(c, "incEntry")
  /\ UNCHANGED <<activated, lastValue, rules, tagMap, resNum, entryNum, tagNum, tagPass,
                 callVars, boundVars, slackVars>>

\* Mutant: RecordPassFor does not look whether there is a tag node.
RecordAnyTagNode(c) ==
  /\ pc[c] = "incEntry"
  /\ entryNum' = IF type[c] = "IN" THEN entryNum + 1 ELSE entryNum
  /\ Goto(c, "incTag")
  /\ UNCHANGED <<activated, lastValue, rules, tagMap, resNum, tagNum, resPass, tagPass,
                 callVars, boundVars, stale, slackVars>>

RecordEntryNode(c) ==
  /\ pc[c] = "incEntry"
  /\ entryNum' = IF type[c] = "IN" THEN entryNum + 1 ELSE entryNum
  /\ Goto(c, IF tagNode[c] = NoNode THEN "running" ELSE "incTag")
  /\ UNCHANGED <<activated, lastValue, rules, tagMap, resNum, tagNum, resPass, tagPass,
                 callVars, boundVars, stale, slackVars>>

IncreaseTagThreadNum(c) ==
  /\ pc[c] = "incTag"
  /\ tagNum' = [tagNum EXCEPT ![tagNode[c]] = @ + 1]
  /\ Goto(c, "passTag")
  /\ UNCHANGED <<activated, lastValue, rules, tagMap, resNum, entryNum, resPass, tagPass,
                 callVars, boundVars, stale, slackVars>>

AddTagPassRequest(c) ==
  /\ pc[c] = "passTag"
  /\ tagPass' = [tagPass EXCEPT ![tagNode[c]] = @ + 1]
  /\ Goto(c, "running")
  /\ UNCHANGED <<activated, lastValue, rules, tagMap, resNum, entryNum, tagNum, resPass,
                 callVars, boundVars, stale, slackVars>>

-----------------------------------------------------------------------------
(***************************************************************************)
(* EntryResult::Exit and StatisticSlot::Exit.                              *)
(***************************************************************************)
\* The entry is destroyed.
Leave(c) ==
  /\ Goto(c, "done")
  /\ type' = [type EXCEPT ![c] = "OUT"]
  /\ tag' = [tag EXCEPT ![c] = NoTag]
  /\ curNode' = [curNode EXCEPT ![c] = FALSE]
  /\ tagNode' = [tagNode EXCEPT ![c] = NoNode]
  /\ exited' = [exited EXCEPT ![c] = FALSE]
  /\ blockError' = [blockError EXCEPT ![c] = FALSE]
  /\ UNCHANGED <<todo, rule>>

\* Exit() on an entry that has exited returns false; the caller then drops it.
Exit(c) ==
  /\ pc[c] = "running"
  /\ \/ exited[c] /\ Leave(c)
     \/ ~exited[c] /\ Goto(c, "statExit") /\ UNCHANGED callVars
  /\ UNCHANGED <<activated, lastValue, rules, tagMap, statVars, boundVars, stale, slackVars>>

\* Mutant: blocked calls are completed like the others.
StatisticExitAll(c) ==
  /\ pc[c] = "statExit"
  /\ curNode[c]
  /\ Goto(c, "decNode")
  /\ UNCHANGED <<activated, lastValue, rules, tagMap, statVars, callVars, boundVars,
                 stale, slackVars>>

StatisticExit(c) ==
  /\ pc[c] = "statExit"
  /\ \/ curNode[c] /\ ~blockError[c] /\ Goto(c, "decNode") /\ UNCHANGED callVars
     \/ ~(curNode[c] /\ ~blockError[c]) /\ Leave(c)
  /\ UNCHANGED <<activated, lastValue, rules, tagMap, statVars, boundVars, stale, slackVars>>

\* RecordCompleteFor on the three nodes, in the order of Exit.
DecreaseThreadNum(c) ==
  /\ pc[c] = "decNode"
  /\ resNum' = resNum - 1
  /\ Goto(c, IF tagNode[c] = NoNode THEN "decEntry" ELSE "decTag")
  /\ UNCHANGED <<activated, lastValue, rules, tagMap, entryNum, tagNum, resPass, tagPass,
                 callVars, boundVars, stale, slackVars>>

DecreaseTagThreadNum(c) ==
  /\ pc[c] = "decTag"
  /\ tagNum' = [tagNum EXCEPT ![tagNode[c]] = @ - 1]
  /\ Goto(c, "decEntry")
  /\ UNCHANGED <<activated, lastValue, rules, tagMap, resNum, entryNum, resPass, tagPass,
                 callVars, boundVars, stale, slackVars>>

\* ... and EntryResult::Exit marks the entry, which the caller still holds.
CompleteEntryNode(c) ==
  /\ pc[c] = "decEntry"
  /\ entryNum' = IF type[c] = "IN" THEN entryNum - 1 ELSE entryNum
  /\ exited' = [exited EXCEPT ![c] = TRUE]
  /\ Goto(c, "running")
  /\ UNCHANGED <<activated, lastValue, rules, tagMap, resNum, tagNum, resPass, tagPass,
                 type, tag, curNode, tagNode, blockError, todo, rule, boundVars,
                 stale, slackVars>>

-----------------------------------------------------------------------------
CheckStep(c) ==
  \/ GetTagNode(c) \/ NewTagNode(c) \/ GetRulesForResource(c)
  \/ (\E r \in todo[c] : SelectNodeFor(c, r)) \/ FlowOk(c)
  \/ GetTrafficControllerFor(c) \/ DoCheck(c) \/ OtherCheckers(c)

StatStep(c) ==
  \/ IncreaseThreadNum(c) \/ AddPassRequest(c) \/ RecordEntryNode(c)
  \/ IncreaseTagThreadNum(c) \/ AddTagPassRequest(c)
  \/ Exit(c) \/ StatisticExit(c)
  \/ DecreaseThreadNum(c) \/ DecreaseTagThreadNum(c) \/ CompleteEntryNode(c)

Next ==
  \/ \E on \in BOOLEAN : SetSwitchStatus(on)
  \/ \E list \in RuleLists : LoadRules(list)
  \/ Expire
  \/ \E c \in Calls : \/ \E ty \in EntryTypes, g \in Tags \cup {NoTag} : Entry(c, ty, g)
                      \/ CheckStep(c) \/ StatStep(c)

Spec == Init /\ [][Next]_vars

-----------------------------------------------------------------------------
(***************************************************************************)
(* Properties.                                                             *)
(***************************************************************************)
\* What a rule in force looks like.
ValidRules == {r \in FlowRule : r.count >= 0 /\ r.limit_origin # ""}

StatTypeOK ==
  /\ resNum \in Int /\ entryNum \in Int /\ resPass \in Nat
  /\ tagNum \in [Calls -> Int] /\ tagPass \in [Calls -> Nat]
  /\ tagMap \in [Tags -> Calls \cup {NoNode}]

SwitchTypeOK == activated \in BOOLEAN

ManagerTypeOK ==
  /\ rules \subseteq ValidRules
  /\ loads \in Nat /\ switches \in Nat /\ expiries \in Nat
  /\ slackNum \in Int /\ slackPass \in Int

CallTypeOK ==
  /\ pc \in [Calls -> EntryPcs \cup {"new", "running", "statExit", "decNode", "decTag",
                                     "decEntry", "done"}]
  /\ type \in [Calls -> {"IN", "OUT"}]
  /\ tag \in [Calls -> Tags \cup {NoTag}]
  /\ curNode \in [Calls -> BOOLEAN]
  /\ tagNode \in [Calls -> Calls \cup {NoNode}]
  /\ exited \in [Calls -> BOOLEAN]
  /\ blockError \in [Calls -> BOOLEAN]
  /\ todo \in [Calls -> SUBSET ValidRules]
  /\ rule \in [Calls -> FlowRule \cup {NoRule}]
  /\ stale \subseteq Calls

\* Where a call is about to use a rule or a tag node, it has one.
UseOK ==
  \A c \in Calls :
    /\ pc[c] \in {"controller", "doCheck"} =>
         /\ rule[c] \in FlowRule
         /\ rule[c].limit_origin # "default" => tagNode[c] # NoNode
    /\ pc[c] \in {"incTag", "passTag", "decTag"} => tagNode[c] # NoNode
    /\ pc[c] \in {"getTagNode", "newTagNode"} => tag[c] # NoTag

\* Every variable has its type; no nullptr is dereferenced.
TypeOK == SwitchTypeOK /\ StatTypeOK /\ ManagerTypeOK /\ CallTypeOK /\ UseOK

\* cur_thread_num_ never goes below zero (it is unsigned and would wrap) and
\* is back at zero when no call is left, on every node, the ones that only
\* one call has included: whatever is blocked, switched off or reloaded
\* while calls are under way, Exit takes back what OnPass has counted.
ThreadNumSound ==
  /\ resNum >= 0 /\ entryNum >= 0 /\ \A n \in Calls : tagNum[n] >= 0
  /\ (\A c \in Calls : pc[c] \in {"new", "done"} \/ exited[c]) =>
       resNum = 0 /\ entryNum = 0 /\ \A n \in Calls : tagNum[n] = 0

Larger(m, n) == IF m >= n THEN m ELSE n

\* A flow rule for all callers is overrun by at most the calls that other
\* threads have between the check and the count: concurrency stays below
\* count + NumThreads for a thread rule, the passes in the window for a QPS
\* rule.  Only calls that were under way when the rules were last loaded may
\* have slipped by unchecked (GetTrafficControllerFor finds no controller).
AdmissionBounded ==
  \A r \in rules : r.limit_origin = "default" =>
    IF r.metric_type = "kThreadCount"
      THEN resNum <= Larger(slackNum, r.count + NumThreads - 1)
      ELSE resPass <= Larger(slackPass, r.count + NumThreads - 1)
=============================================================================

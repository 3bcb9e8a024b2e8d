-------------------------- MODULE EntryChainProofs --------------------------
(***************************************************************************)
(* For any number of calls, threads, tags and rules: the types of          *)
(* EntryChain, that the thread numbers are balanced, and that flow rules   *)
(* are overrun by no more than the threads in flight.                      *)
(***************************************************************************)
EXTENDS EntryChain, FiniteSetTheorems, TLAPS

Step(c) == CheckStep(c) \/ StatStep(c)

-----------------------------------------------------------------------------
(***************************************************************************)
(* Types.                                                                  *)
(***************************************************************************)
\* Before the first call everything is empty and has its type.
LEMMA InitTypeOK == Init => TypeOK
BY DEF Init, TypeOK, SwitchTypeOK, StatTypeOK, ManagerTypeOK, CallTypeOK, UseOK

\* ConfigUpdate leaves only valid rules, each with a limit_origin.
LEMMA LoadedRulesValid ==
  ASSUME NEW list \in RuleLists
  PROVE  {Normalized(r) : r \in {s \in list : IsValidRule(s)}} \subseteq ValidRules
<1> SUFFICES ASSUME NEW r \in list, IsValidRule(r)
             PROVE  Normalized(r) \in ValidRules
  OBVIOUS
<1>1. r \in FlowRule
  BY ChainAssumption
<1>2. CASE r.limit_origin = ""
  BY <1>1, <1>2 DEF Normalized, ValidRules, FlowRule, IsValidRule
<1>3. CASE r.limit_origin # ""
  BY <1>1, <1>3 DEF Normalized, ValidRules, IsValidRule
<1> QED
  BY <1>2, <1>3

\* A set of calls has a number of elements.
LEMMA CallsCount ==
  ASSUME NEW S, S \subseteq Calls
  PROVE  IsFiniteSet(S) /\ Cardinality(S) \in Nat
BY FS_Subset, FS_CardinalityType, ChainAssumption

\* No step of a call breaks the type of a statistic.
LEMMA StepStatTypeOK ==
  ASSUME TypeOK, NEW c \in Calls, Step(c)
  PROVE  StatTypeOK'
<1>1. StatTypeOK /\ tagNode[c] \in Calls \cup {NoNode} /\ tag[c] \in Tags \cup {NoTag}
  BY DEF TypeOK, CallTypeOK
<1>2. pc[c] \in {"incTag", "passTag", "decTag"} => tagNode[c] \in Calls
  BY <1>1 DEF TypeOK, UseOK
<1>3. pc[c] \in {"getTagNode", "newTagNode"} => tag[c] \in Tags
  BY <1>1 DEF TypeOK, UseOK
<1> USE <1>1 DEF StatTypeOK, statVars
<1>4. CASE GetTagNode(c) \/ GetRulesForResource(c) \/ FlowOk(c) \/ GetTrafficControllerFor(c)
  BY <1>4 DEF GetTagNode, GetRulesForResource, FlowOk, GetTrafficControllerFor
<1>5. CASE NewTagNode(c)
  BY <1>3, <1>5 DEF NewTagNode
<1>6. CASE DoCheck(c) \/ OtherCheckers(c) \/ \E r \in todo[c] : SelectNodeFor(c, r)
  BY <1>6 DEF DoCheck, OtherCheckers, SelectNodeFor
<1>7. CASE IncreaseThreadNum(c) \/ AddPassRequest(c) \/ RecordEntryNode(c)
  BY <1>7 DEF IncreaseThreadNum, AddPassRequest, RecordEntryNode
<1>8. CASE IncreaseTagThreadNum(c) \/ AddTagPassRequest(c) \/ DecreaseTagThreadNum(c)
  BY <1>2, <1>8 DEF IncreaseTagThreadNum, AddTagPassRequest, DecreaseTagThreadNum
<1>9. CASE Exit(c) \/ StatisticExit(c)
  BY <1>9 DEF Exit, StatisticExit
<1>10. CASE DecreaseThreadNum(c) \/ CompleteEntryNode(c)
  BY <1>10 DEF DecreaseThreadNum, CompleteEntryNode
<1> QED
  BY <1>4, <1>5, <1>6, <1>7, <1>8, <1>9, <1>10 DEF Step, CheckStep, StatStep

\* What no step of a call touches.
LEMMA StepFrame ==
  ASSUME NEW c \in Calls, Step(c)
  PROVE  UNCHANGED <<activated, lastValue, rules, loads, switches, expiries,
                     slackNum, slackPass>>
<1> USE DEF boundVars, slackVars
<1>1. CASE CheckStep(c)
  BY <1>1 DEF CheckStep, GetTagNode, NewTagNode, GetRulesForResource, SelectNodeFor,
              FlowOk, GetTrafficControllerFor, DoCheck, OtherCheckers
<1>2. CASE StatStep(c)
  BY <1>2 DEF StatStep, IncreaseThreadNum, AddPassRequest, RecordEntryNode,
              IncreaseTagThreadNum, AddTagPassRequest, Exit, StatisticExit,
              DecreaseThreadNum, DecreaseTagThreadNum, CompleteEntryNode
<1> QED
  BY <1>1, <1>2 DEF Step

\* No step of a call breaks the type of a variable of the calls.
LEMMA StepCallTypeOK ==
  ASSUME TypeOK, NEW c \in Calls, Step(c)
  PROVE  CallTypeOK'
<1>1. CallTypeOK /\ rules \subseteq ValidRules
  BY DEF TypeOK, ManagerTypeOK
<1> USE <1>1 DEF CallTypeOK, callVars, Goto, EntryPcs, CheckPcs
<1>2. CASE GetTagNode(c)
  <2>1. tagMap[tag[c]] \in Calls \cup {NoNode}
    BY <1>2 DEF TypeOK, StatTypeOK, UseOK, GetTagNode
  <2> QED
    BY <1>2, <2>1 DEF GetTagNode
<1>3. CASE NewTagNode(c)
  <2>1. tagNode' = tagNode \/ tagNode' = [tagNode EXCEPT ![c] = c]
    BY <1>3 DEF NewTagNode
  <2>2. tagNode' \in [Calls -> Calls \cup {NoNode}]
    BY <2>1
  <2> QED
    BY <1>3, <2>2 DEF NewTagNode
<1>13. CASE FlowOk(c)
  BY <1>13 DEF FlowOk
<1>12. CASE GetRulesForResource(c)
  BY <1>12 DEF GetRulesForResource
<1>4. ASSUME NEW r \in todo[c], SelectNodeFor(c, r) PROVE CallTypeOK'
  <2>1. r \in FlowRule
    BY DEF ValidRules
  <2>2. rule' \in [Calls -> FlowRule \cup {NoRule}]
    BY <1>4, <2>1 DEF SelectNodeFor
  <2>3. pc' \in [Calls -> EntryPcs \cup {"new", "running", "statExit", "decNode", "decTag",
                                         "decEntry", "done"}]
    BY <1>4 DEF SelectNodeFor
  <2> QED
    BY <1>4, <2>2, <2>3 DEF SelectNodeFor
<1>5. CASE GetTrafficControllerFor(c)
  BY <1>5 DEF GetTrafficControllerFor
<1>6. CASE DoCheck(c) \/ OtherCheckers(c)
  BY <1>6 DEF DoCheck, OtherCheckers, Block
<1>7. CASE IncreaseThreadNum(c) \/ AddPassRequest(c) \/ RecordEntryNode(c)
  BY <1>7 DEF IncreaseThreadNum, AddPassRequest, RecordEntryNode
<1>8. CASE IncreaseTagThreadNum(c) \/ AddTagPassRequest(c) \/ DecreaseTagThreadNum(c)
  BY <1>8 DEF IncreaseTagThreadNum, AddTagPassRequest, DecreaseTagThreadNum
<1>9. CASE Exit(c)
  BY <1>9 DEF Exit, Leave
<1>10. CASE StatisticExit(c)
  BY <1>10 DEF StatisticExit, Leave
<1>11. CASE DecreaseThreadNum(c) \/ CompleteEntryNode(c)
  BY <1>11 DEF DecreaseThreadNum, CompleteEntryNode
<1> QED
  BY <1>2, <1>3, <1>4, <1>5, <1>6, <1>7, <1>8, <1>9, <1>10, <1>11,
     <1>12, <1>13 DEF Step, CheckStep, StatStep

\* A step of call c leaves the other calls alone.
LEMMA StepOthers ==
  ASSUME TypeOK, NEW c \in Calls, Step(c), NEW d \in Calls, d # c
  PROVE  /\ pc'[d] = pc[d] /\ type'[d] = type[d] /\ tag'[d] = tag[d]
         /\ curNode'[d] = curNode[d] /\ tagNode'[d] = tagNode[d]
         /\ exited'[d] = exited[d] /\ blockError'[d] = blockError[d]
         /\ todo'[d] = todo[d] /\ rule'[d] = rule[d] /\ (d \in stale' <=> d \in stale)
<1> USE DEF TypeOK, CallTypeOK, callVars, Goto
<1>1. CASE GetTagNode(c) \/ NewTagNode(c) \/ GetRulesForResource(c) \/ FlowOk(c)
  BY <1>1 DEF GetTagNode, NewTagNode, GetRulesForResource, FlowOk
<1>2. CASE \/ \E r \in todo[c] : SelectNodeFor(c, r)
           \/ GetTrafficControllerFor(c) \/ DoCheck(c) \/ OtherCheckers(c)
  BY <1>2 DEF SelectNodeFor, GetTrafficControllerFor, DoCheck, OtherCheckers, Block
<1>3. CASE IncreaseThreadNum(c) \/ AddPassRequest(c) \/ RecordEntryNode(c)
  BY <1>3 DEF IncreaseThreadNum, AddPassRequest, RecordEntryNode
<1>4. CASE IncreaseTagThreadNum(c) \/ AddTagPassRequest(c) \/ DecreaseTagThreadNum(c)
  BY <1>4 DEF IncreaseTagThreadNum, AddTagPassRequest, DecreaseTagThreadNum
<1>5. CASE Exit(c) \/ StatisticExit(c)
  BY <1>5 DEF Exit, StatisticExit, Leave
<1>6. CASE DecreaseThreadNum(c) \/ CompleteEntryNode(c)
  BY <1>6 DEF DecreaseThreadNum, CompleteEntryNode
<1> QED
  BY <1>1, <1>2, <1>3, <1>4, <1>5, <1>6 DEF Step, CheckStep, StatStep

UseOKFor(c) ==
  /\ pc[c] \in {"controller", "doCheck"} =>
       /\ rule[c] \in FlowRule
       /\ rule[c].limit_origin # "default" => tagNode[c] # NoNode
  /\ pc[c] \in {"incTag", "passTag", "decTag"} => tagNode[c] # NoNode
  /\ pc[c] \in {"getTagNode", "newTagNode"} => tag[c] # NoTag

\* A call comes to use only the rules and tag nodes that it has.
LEMMA StepUseOK ==
  ASSUME TypeOK, NEW c \in Calls, Step(c)
  PROVE  UseOK'
<1>1. ASSUME NEW d \in Calls, d # c PROVE UseOKFor(d)'
  BY <1>1, StepOthers DEF UseOKFor, TypeOK, UseOK
<1>2. UseOKFor(c)'
  <2>1. UseOKFor(c)
    BY DEF UseOKFor, TypeOK, UseOK
  <2> USE <2>1 DEF UseOKFor, TypeOK, CallTypeOK, callVars, Goto
  <2>2. CASE GetTagNode(c) \/ NewTagNode(c) \/ GetRulesForResource(c) \/ FlowOk(c)
    BY <2>2 DEF GetTagNode, NewTagNode, GetRulesForResource, FlowOk
  <2>3. ASSUME NEW r \in todo[c], SelectNodeFor(c, r) PROVE UseOKFor(c)'
    <3>1. r \in FlowRule
      BY DEF ValidRules
    <3>2. SelectNode(c, r) # "none" /\ r.limit_origin # "default" => tagNode[c] # NoNode
      BY DEF SelectNode
    <3>3. /\ pc'[c] = "select" \/ (pc'[c] = "controller" /\ rule'[c] = r /\ SelectNode(c, r) # "none")
          /\ tagNode' = tagNode
      BY <2>3 DEF SelectNodeFor
    <3> QED
      BY <3>1, <3>2, <3>3
  <2>4. CASE GetTrafficControllerFor(c)
    BY <2>4 DEF GetTrafficControllerFor
  <2>5. CASE DoCheck(c) \/ OtherCheckers(c)
    BY <2>5 DEF DoCheck, OtherCheckers, Block
  <2>6. CASE IncreaseThreadNum(c) \/ AddPassRequest(c) \/ RecordEntryNode(c)
    BY <2>6 DEF IncreaseThreadNum, AddPassRequest, RecordEntryNode
  <2>7. CASE IncreaseTagThreadNum(c) \/ AddTagPassRequest(c) \/ DecreaseTagThreadNum(c)
    BY <2>7 DEF IncreaseTagThreadNum, AddTagPassRequest, DecreaseTagThreadNum
  <2>8. CASE Exit(c) \/ StatisticExit(c)
    BY <2>8 DEF Exit, StatisticExit, Leave
  <2>9. CASE DecreaseThreadNum(c) \/ CompleteEntryNode(c)
    BY <2>9 DEF DecreaseThreadNum, CompleteEntryNode
  <2> QED
    BY <2>2, <2>3, <2>4, <2>5, <2>6, <2>7, <2>8, <2>9 DEF Step, CheckStep, StatStep
<1> QED
  BY <1>1, <1>2 DEF UseOK, UseOKFor

\* Types are inductive.
LEMMA NextTypeOK == TypeOK /\ [Next]_vars => TypeOK'
<1> SUFFICES ASSUME TypeOK, [Next]_vars PROVE TypeOK'
  OBVIOUS
<1>1. CASE UNCHANGED vars
  BY <1>1 DEF vars, TypeOK, SwitchTypeOK, StatTypeOK, ManagerTypeOK, CallTypeOK, UseOK
<1>2. ASSUME NEW on \in BOOLEAN, SetSwitchStatus(on) PROVE TypeOK'
  <2>1. StatTypeOK' /\ CallTypeOK' /\ UseOK'
    BY <1>2 DEF SetSwitchStatus, statVars, callVars, TypeOK, StatTypeOK, CallTypeOK, UseOK
  <2>2. SwitchTypeOK'
    BY <1>2 DEF SetSwitchStatus, SwitchTypeOK
  <2>3. switches' \in Nat /\ UNCHANGED <<rules, loads, expiries, slackNum, slackPass>>
    BY <1>2 DEF SetSwitchStatus, slackVars, TypeOK, ManagerTypeOK
  <2> QED
    BY <2>1, <2>2, <2>3 DEF TypeOK, ManagerTypeOK
<1>3. ASSUME NEW list \in RuleLists, LoadRules(list) PROVE TypeOK'
  <2>1. StatTypeOK' /\ UseOK'
    BY <1>3 DEF LoadRules, statVars, callVars, TypeOK, StatTypeOK, UseOK
  <2>2. stale' \subseteq Calls
    BY <1>3 DEF LoadRules, Unpassed, InEntry, TypeOK, CallTypeOK
  <2>3. CallTypeOK'
    BY <1>3, <2>2 DEF LoadRules, callVars, TypeOK, CallTypeOK
  <2>4. rules' \subseteq ValidRules
    BY <1>3, LoadedRulesValid DEF LoadRules, TypeOK, ManagerTypeOK
  <2>5. slackNum' \in Int /\ slackPass' \in Int
    <3>1. Cardinality(Uncounted) \in Nat /\ Cardinality(Unpassed) \in Nat
      BY CallsCount DEF Uncounted, Unpassed, InEntry
    <3>2. resNum \in Int /\ resPass \in Int /\ slackNum \in Int /\ slackPass \in Int
      BY DEF TypeOK, ManagerTypeOK, StatTypeOK
    <3>3. \/ slackNum' = slackNum /\ slackPass' = slackPass
          \/ /\ slackNum' = resNum + Cardinality(Uncounted)
             /\ slackPass' = resPass + Cardinality(Unpassed)
      BY <1>3 DEF LoadRules, slackVars
    <3> QED
      BY <3>1, <3>2, <3>3
  <2>6. loads' = loads + 1 /\ UNCHANGED <<switches, expiries>>
    BY <1>3 DEF LoadRules
  <2>7. ManagerTypeOK'
    BY <2>4, <2>5, <2>6 DEF TypeOK, ManagerTypeOK
  <2>8. SwitchTypeOK'
    BY <1>3 DEF LoadRules, TypeOK, SwitchTypeOK
  <2> QED
    BY <2>1, <2>3, <2>7, <2>8 DEF TypeOK
<1>4. CASE Expire
  <2>1. StatTypeOK' /\ UseOK'
    BY <1>4 DEF Expire, callVars, TypeOK, StatTypeOK, UseOK
  <2>2. CallTypeOK' /\ ManagerTypeOK'
    BY <1>4 DEF Expire, callVars, slackVars, TypeOK, CallTypeOK, ManagerTypeOK
  <2>3. SwitchTypeOK'
    BY <1>4 DEF Expire, TypeOK, SwitchTypeOK
  <2> QED
    BY <2>1, <2>2, <2>3 DEF TypeOK
<1>5. ASSUME NEW c \in Calls, NEW ty \in EntryTypes, NEW g \in Tags \cup {NoTag}, Entry(c, ty, g)
      PROVE  TypeOK'
  <2>1. StatTypeOK' /\ ManagerTypeOK'
    BY <1>5 DEF Entry, statVars, boundVars, slackVars, TypeOK, StatTypeOK, ManagerTypeOK
  <2>2. ty \in {"IN", "OUT"}
    BY ChainAssumption
  <2>3. CallTypeOK'
    BY <1>5, <2>2 DEF Entry, Goto, TypeOK, CallTypeOK, EntryPcs
  <2>4. UseOK'
    BY <1>5 DEF Entry, Goto, TypeOK, CallTypeOK, UseOK
  <2>5. SwitchTypeOK'
    BY <1>5 DEF Entry, TypeOK, SwitchTypeOK
  <2> QED
    BY <2>1, <2>3, <2>4, <2>5 DEF TypeOK
<1>6. ASSUME NEW c \in Calls, Step(c) PROVE TypeOK'
  <2>1. ManagerTypeOK'
    BY <1>6, StepFrame DEF TypeOK, ManagerTypeOK
  <2>2. SwitchTypeOK'
    BY <1>6, StepFrame DEF TypeOK, SwitchTypeOK
  <2> QED
    BY <1>6, <2>1, <2>2, StepStatTypeOK, StepCallTypeOK, StepUseOK DEF TypeOK
<1> QED
  BY <1>1, <1>2, <1>3, <1>4, <1>5, <1>6 DEF Next, Step

\* Every reachable state is well typed; in particular no slot uses a tag node
\* or a flow rule that the call does not have (RecordPassFor, PassLocalCheck).
THEOREM TypeCorrect == Spec => []TypeOK
BY InitTypeOK, NextTypeOK, PTL DEF Spec
-----------------------------------------------------------------------------
(***************************************************************************)
(* The thread numbers.  Each of them is the number of calls that, judging  *)
(* by where they are, have been counted and not yet taken back.            *)
(***************************************************************************)
Inside(c) ==
  \/ pc[c] = "running" /\ ~exited[c]
  \/ pc[c] = "statExit" /\ ~blockError[c]
  \/ pc[c] = "decNode"

InNode(c)      == Inside(c) \/ pc[c] \in {"passNode", "incEntry", "incTag", "passTag"}
InEntryNode(c) == /\ type[c] = "IN"
                  /\ Inside(c) \/ pc[c] \in {"incTag", "passTag", "decTag", "decEntry"}
InTagNode(c, n) == tagNode[c] = n /\ (Inside(c) \/ pc[c] \in {"passTag", "decTag"})

FlagsOK(c) ==
  /\ blockError[c] => pc[c] = "statExit"
  /\ exited[c] => pc[c] = "running"
  /\ pc[c] \in {"new", "done"} \/ exited[c] \/ curNode[c]

FlagInv == \A c \in Calls : FlagsOK(c)

NodeHolders  == {c \in Calls : InNode(c)}
EntryHolders == {c \in Calls : InEntryNode(c)}
TagHolders(n) == {c \in Calls : InTagNode(c, n)}

CountInv ==
  /\ resNum = Cardinality(NodeHolders)
  /\ entryNum = Cardinality(EntryHolders)
  /\ \A n \in Calls : tagNum[n] = Cardinality(TagHolders(n))

BalanceInv == TypeOK /\ FlagInv /\ CountInv

\* A counter k of the calls that are in, and a call that comes in or goes out.
Moves(in, in2, k, k2) ==
  \/ (in <=> in2) /\ k2 = k
  \/ ~in /\ in2 /\ k2 = k + 1
  \/ in /\ ~in2 /\ k2 = k - 1

\* If only c comes in or goes out, the counter stays the number of elements.
LEMMA MovesCount ==
  ASSUME NEW S, NEW T, IsFiniteSet(S), NEW c, NEW k, NEW k2,
         k = Cardinality(S), \A d : d # c => (d \in T <=> d \in S),
         Moves(c \in S, c \in T, k, k2)
  PROVE  k2 = Cardinality(T)
<1>1. CASE (c \in S <=> c \in T) /\ k2 = k
  <2>1. T = S
    BY <1>1
  <2> QED
    BY <1>1, <2>1
<1>2. CASE c \notin S /\ c \in T /\ k2 = k + 1
  <2>1. T = S \cup {c}
    BY <1>2
  <2> QED
    BY <1>2, <2>1, FS_AddElement
<1>3. CASE c \in S /\ c \notin T /\ k2 = k - 1
  <2>1. T = S \ {c}
    BY <1>3
  <2> QED
    BY <1>3, <2>1, FS_RemoveElement
<1> QED
  BY <1>1, <1>2, <1>3 DEF Moves

\* block_error_, exited_ and cur_node_ tell where a call can be.
LEMMA StepFlags ==
  ASSUME TypeOK, FlagInv, NEW c \in Calls, Step(c)
  PROVE  FlagInv'
<1>1. ASSUME NEW d \in Calls, d # c PROVE FlagsOK(d)'
  BY <1>1, StepOthers DEF FlagsOK, FlagInv
<1>2. FlagsOK(c)'
  <2> USE DEF FlagsOK, FlagInv, TypeOK, CallTypeOK, callVars, Goto
  <2>1. CASE GetTagNode(c) \/ NewTagNode(c) \/ GetRulesForResource(c) \/ FlowOk(c)
    BY <2>1 DEF GetTagNode, NewTagNode, GetRulesForResource, FlowOk
  <2>2. CASE (\E r \in todo[c] : SelectNodeFor(c, r)) \/ GetTrafficControllerFor(c)
    BY <2>2 DEF SelectNodeFor, GetTrafficControllerFor
  <2>3. CASE DoCheck(c) \/ OtherCheckers(c)
    BY <2>3 DEF DoCheck, OtherCheckers, Block
  <2>4. CASE IncreaseThreadNum(c) \/ AddPassRequest(c) \/ RecordEntryNode(c)
    BY <2>4 DEF IncreaseThreadNum, AddPassRequest, RecordEntryNode
  <2>5. CASE IncreaseTagThreadNum(c) \/ AddTagPassRequest(c) \/ DecreaseTagThreadNum(c)
    BY <2>5 DEF IncreaseTagThreadNum, AddTagPassRequest, DecreaseTagThreadNum
  <2>6. CASE Exit(c) \/ StatisticExit(c)
    BY <2>6 DEF Exit, StatisticExit, Leave
  <2>7. CASE DecreaseThreadNum(c) \/ CompleteEntryNode(c)
    BY <2>7 DEF DecreaseThreadNum, CompleteEntryNode
  <2> QED
    BY <2>1, <2>2, <2>3, <2>4, <2>5, <2>6, <2>7 DEF Step, CheckStep, StatStep
<1> QED
  BY <1>1, <1>2 DEF FlagInv

\* A step of a call counts the call, or takes it back, exactly where the call
\* comes to be, or ceases to be, counted.
LEMMA StepMoves ==
  ASSUME TypeOK, FlagInv, NEW c \in Calls, Step(c)
  PROVE  /\ Moves(InNode(c), InNode(c)', resNum, resNum')
         /\ Moves(InEntryNode(c), InEntryNode(c)', entryNum, entryNum')
         /\ \A n \in Calls : Moves(InTagNode(c, n), InTagNode(c, n)', tagNum[n], tagNum'[n])
<1>1. /\ CallTypeOK /\ StatTypeOK /\ FlagsOK(c)
      /\ pc[c] \in {"incTag", "passTag", "decTag"} => tagNode[c] # NoNode
  BY DEF TypeOK, UseOK, FlagInv
<1>2. NoNode \notin Calls
  BY ChainAssumption
<1> USE <1>1 DEF Moves, InNode, InEntryNode, InTagNode, Inside, FlagsOK,
                 CallTypeOK, StatTypeOK, statVars, callVars, Goto
<1>3. CASE GetTagNode(c) \/ NewTagNode(c) \/ GetRulesForResource(c) \/ FlowOk(c)
  BY <1>3 DEF GetTagNode, NewTagNode, GetRulesForResource, FlowOk
<1>4. CASE (\E r \in todo[c] : SelectNodeFor(c, r)) \/ GetTrafficControllerFor(c)
  BY <1>4 DEF SelectNodeFor, GetTrafficControllerFor
<1>5. CASE DoCheck(c) \/ OtherCheckers(c)
  BY <1>5 DEF DoCheck, OtherCheckers, Block
<1>6. CASE IncreaseThreadNum(c) \/ AddPassRequest(c)
  BY <1>6 DEF IncreaseThreadNum, AddPassRequest
<1>7. CASE RecordEntryNode(c)
  BY <1>2, <1>7 DEF RecordEntryNode
<1>8. CASE IncreaseTagThreadNum(c)
  BY <1>8 DEF IncreaseTagThreadNum
<1>9. CASE AddTagPassRequest(c)
  BY <1>9 DEF AddTagPassRequest
<1>10. CASE DecreaseTagThreadNum(c)
  BY <1>10 DEF DecreaseTagThreadNum
<1>11. CASE Exit(c)
  BY <1>11 DEF Exit, Leave
<1>12. CASE StatisticExit(c)
  BY <1>12 DEF StatisticExit, Leave
<1>13. CASE DecreaseThreadNum(c)
  BY <1>2, <1>13 DEF DecreaseThreadNum
<1>14. CASE CompleteEntryNode(c)
  BY <1>14 DEF CompleteEntryNode
<1> QED
  BY <1>3, <1>4, <1>5, <1>6, <1>7, <1>8, <1>9, <1>10, <1>11, <1>12, <1>13, <1>14
     DEF Step, CheckStep, StatStep
\* Before the first call nothing is counted.
LEMMA InitBalance == Init => FlagInv /\ CountInv
<1> SUFFICES ASSUME Init PROVE FlagInv /\ CountInv
  OBVIOUS
<1>1. FlagInv
  BY DEF Init, FlagInv, FlagsOK
<1>2. /\ NodeHolders = {} /\ EntryHolders = {}
      /\ \A n \in Calls : TagHolders(n) = {}
  BY DEF Init, NodeHolders, EntryHolders, TagHolders, InNode, InEntryNode, InTagNode, Inside
<1>3. CountInv
  BY <1>2, FS_EmptySet DEF Init, CountInv
<1> QED
  BY <1>1, <1>3

\* A step that moves no call and no counter.
LEMMA StillBalance ==
  ASSUME FlagInv, CountInv,
         UNCHANGED <<resNum, entryNum, tagNum, pc, type, curNode, tagNode, exited, blockError>>
  PROVE  FlagInv' /\ CountInv'
<1>1. FlagInv'
  BY DEF FlagInv, FlagsOK
<1>2. /\ NodeHolders' = NodeHolders /\ EntryHolders' = EntryHolders
      /\ \A n \in Calls : TagHolders(n)' = TagHolders(n)
  BY DEF NodeHolders, EntryHolders, TagHolders, InNode, InEntryNode, InTagNode, Inside
<1> QED
  BY <1>1, <1>2 DEF CountInv

\* A step of one call keeps the counters right.
LEMMA StepCount ==
  ASSUME BalanceInv, NEW c \in Calls, Step(c)
  PROVE  CountInv'
<1>1. TypeOK /\ FlagInv /\ CountInv
  BY DEF BalanceInv
<1>2. ASSUME NEW d \in Calls, d # c
      PROVE  /\ InNode(d)' <=> InNode(d)
             /\ InEntryNode(d)' <=> InEntryNode(d)
             /\ \A n \in Calls : InTagNode(d, n)' <=> InTagNode(d, n)
  BY <1>1, <1>2, StepOthers DEF InNode, InEntryNode, InTagNode, Inside
<1>3. /\ Moves(InNode(c), InNode(c)', resNum, resNum')
      /\ Moves(InEntryNode(c), InEntryNode(c)', entryNum, entryNum')
      /\ \A n \in Calls : Moves(InTagNode(c, n), InTagNode(c, n)', tagNum[n], tagNum'[n])
  BY <1>1, StepMoves
<1>4. resNum' = Cardinality(NodeHolders')
  <2>1. IsFiniteSet(NodeHolders) /\ resNum = Cardinality(NodeHolders)
    BY <1>1, CallsCount DEF NodeHolders, CountInv
  <2>2. \A d : d # c => (d \in NodeHolders' <=> d \in NodeHolders)
    BY <1>2 DEF NodeHolders
  <2>3. Moves(c \in NodeHolders, c \in NodeHolders', resNum, resNum')
    BY <1>3 DEF NodeHolders, Moves
  <2> QED
    BY <2>1, <2>2, <2>3, MovesCount
<1>5. entryNum' = Cardinality(EntryHolders')
  <2>1. IsFiniteSet(EntryHolders) /\ entryNum = Cardinality(EntryHolders)
    BY <1>1, CallsCount DEF EntryHolders, CountInv
  <2>2. \A d : d # c => (d \in EntryHolders' <=> d \in EntryHolders)
    BY <1>2 DEF EntryHolders
  <2>3. Moves(c \in EntryHolders, c \in EntryHolders', entryNum, entryNum')
    BY <1>3 DEF EntryHolders, Moves
  <2> QED
    BY <2>1, <2>2, <2>3, MovesCount
<1>6. ASSUME NEW n \in Calls PROVE tagNum'[n] = Cardinality(TagHolders(n)')
  <2>1. IsFiniteSet(TagHolders(n)) /\ tagNum[n] = Cardinality(TagHolders(n))
    BY <1>1, CallsCount DEF TagHolders, CountInv
  <2>2. \A d : d # c => (d \in TagHolders(n)' <=> d \in TagHolders(n))
    BY <1>2 DEF TagHolders
  <2>3. Moves(c \in TagHolders(n), c \in TagHolders(n)', tagNum[n], tagNum'[n])
    BY <1>3 DEF TagHolders, Moves
  <2> QED
    BY <2>1, <2>2, <2>3, MovesCount
<1> QED
  BY <1>4, <1>5, <1>6 DEF CountInv

\* A call that begins is not counted yet.
LEMMA EntryBalance ==
  ASSUME BalanceInv, NEW c \in Calls, NEW ty \in EntryTypes, NEW g \in Tags \cup {NoTag},
         Entry(c, ty, g)
  PROVE  FlagInv' /\ CountInv'
<1>1. TypeOK /\ FlagInv /\ CountInv
  BY DEF BalanceInv
<1>2. FlagInv'
  BY <1>1 DEF Entry, Goto, FlagInv, FlagsOK, TypeOK, CallTypeOK
<1>3. UNCHANGED <<resNum, entryNum, tagNum>>
  BY DEF Entry, statVars
<1>4. ASSUME NEW d \in Calls
      PROVE  /\ InNode(d)' <=> InNode(d)
             /\ InEntryNode(d)' <=> InEntryNode(d)
             /\ \A n \in Calls : InTagNode(d, n)' <=> InTagNode(d, n)
  BY <1>1 DEF Entry, Goto, InNode, InEntryNode, InTagNode, Inside, TypeOK, CallTypeOK
<1>5. /\ NodeHolders' = NodeHolders /\ EntryHolders' = EntryHolders
      /\ \A n \in Calls : TagHolders(n)' = TagHolders(n)
  BY <1>4 DEF NodeHolders, EntryHolders, TagHolders
<1> QED
  BY <1>1, <1>2, <1>3, <1>5 DEF CountInv

\* The balance is inductive.
LEMMA NextBalance == BalanceInv /\ [Next]_vars => BalanceInv'
<1> SUFFICES ASSUME BalanceInv, [Next]_vars PROVE BalanceInv'
  OBVIOUS
<1>1. TypeOK /\ FlagInv /\ CountInv
  BY DEF BalanceInv
<1>2. TypeOK'
  BY <1>1, NextTypeOK
<1> DEFINE Still == UNCHANGED <<resNum, entryNum, tagNum, pc, type, curNode, tagNode,
                                exited, blockError>>
<1>3. ASSUME UNCHANGED vars PROVE FlagInv' /\ CountInv'
  <2>1. Still
    BY <1>3 DEF vars
  <2> QED
    BY <1>1, <2>1, StillBalance
<1>4. ASSUME NEW on \in BOOLEAN, SetSwitchStatus(on) PROVE FlagInv' /\ CountInv'
  <2>1. Still
    BY <1>4 DEF SetSwitchStatus, statVars, callVars
  <2> QED
    BY <1>1, <2>1, StillBalance
<1>5. ASSUME NEW l \in RuleLists, LoadRules(l) PROVE FlagInv' /\ CountInv'
  <2>1. Still
    BY <1>5 DEF LoadRules, statVars, callVars
  <2> QED
    BY <1>1, <2>1, StillBalance
<1>6. ASSUME Expire PROVE FlagInv' /\ CountInv'
  <2>1. Still
    BY <1>6 DEF Expire, callVars
  <2> QED
    BY <1>1, <2>1, StillBalance
<1>7. ASSUME NEW c \in Calls, NEW ty \in EntryTypes, NEW g \in Tags \cup {NoTag}, Entry(c, ty, g)
      PROVE  FlagInv' /\ CountInv'
  BY <1>7, EntryBalance
<1>8. ASSUME NEW c \in Calls, Step(c) PROVE FlagInv' /\ CountInv'
  BY <1>1, <1>8, StepFlags, StepCount
<1>9. FlagInv' /\ CountInv'
  BY <1>3, <1>4, <1>5, <1>6, <1>7, <1>8 DEF Next, Step
<1> QED
  BY <1>2, <1>9 DEF BalanceInv

\* A number of calls is never negative, and zero when no call is counted.
LEMMA BalanceSound == BalanceInv => ThreadNumSound
<1> SUFFICES ASSUME BalanceInv PROVE ThreadNumSound
  OBVIOUS
<1>1. /\ Cardinality(NodeHolders) \in Nat /\ Cardinality(EntryHolders) \in Nat
      /\ \A n \in Calls : Cardinality(TagHolders(n)) \in Nat
  BY CallsCount DEF NodeHolders, EntryHolders, TagHolders
<1>2. resNum >= 0 /\ entryNum >= 0 /\ \A n \in Calls : tagNum[n] >= 0
  BY <1>1 DEF BalanceInv, CountInv
<1>3. ASSUME \A c \in Calls : pc[c] \in {"new", "done"} \/ exited[c]
      PROVE  resNum = 0 /\ entryNum = 0 /\ \A n \in Calls : tagNum[n] = 0
  <2>1. \A c \in Calls : pc[c] \in {"new", "done"} \/ (pc[c] = "running" /\ exited[c])
    BY <1>3 DEF BalanceInv, FlagInv, FlagsOK
  <2>2. /\ NodeHolders = {} /\ EntryHolders = {}
        /\ \A n \in Calls : TagHolders(n) = {}
    BY <2>1 DEF NodeHolders, EntryHolders, TagHolders, InNode, InEntryNode, InTagNode, Inside
  <2> QED
    BY <2>2, FS_EmptySet DEF BalanceInv, CountInv
<1> QED
  BY <1>2, <1>3 DEF ThreadNumSound

\* For any number of calls and tags, however they interleave with reloads and
\* the switch: StatisticSlot::Exit takes back exactly what OnPass has counted,
\* on every node, so cur_thread_num_ does not wrap and returns to zero.
THEOREM ThreadNumsAreSound == Spec => []ThreadNumSound
<1>1. Init => BalanceInv
  BY InitTypeOK, InitBalance DEF BalanceInv
<1> QED
  BY <1>1, NextBalance, BalanceSound, PTL DEF Spec
-----------------------------------------------------------------------------
(***************************************************************************)
(* Admission.  A bound on the counter alone is not inductive: the calls    *)
(* that have passed the check of rule r and are not counted yet have to be *)
(* added.  When such a check succeeds there are at most NumThreads of      *)
(* them, the new one included, and the counter is below the limit.         *)
(***************************************************************************)
Passed(c, r) ==
  \/ pc[c] \in {"others", "incNode", "passNode"}
  \/ pc[c] = "select" /\ r \notin todo[c]
  \/ pc[c] \in {"controller", "doCheck"} /\ r \notin todo[c] /\ r # rule[c]

AdmittedNum(r)  == {c \in Uncounted : c \in stale \/ Passed(c, r)}
AdmittedPass(r) == {c \in Unpassed : c \in stale \/ Passed(c, r)}

Limit(r, slack) == Larger(slack, r.count + NumThreads - 1)

NumInv ==
  \A r \in rules : r.limit_origin = "default" /\ r.metric_type = "kThreadCount" =>
    resNum + Cardinality(AdmittedNum(r)) <= Limit(r, slackNum)

PassInv ==
  \A r \in rules : r.limit_origin = "default" /\ r.metric_type = "kQps" =>
    resPass + Cardinality(AdmittedPass(r)) <= Limit(r, slackPass)

StaleInv == stale \subseteq Unpassed
ThreadsInv == Cardinality(InEntry) <= NumThreads

AdmissionInv == TypeOK /\ StaleInv /\ ThreadsInv /\ NumInv /\ PassInv

\* Arithmetic on the number of threads.
LEMMA NumThreadsInt == NumThreads \in Nat /\ NumThreads \in Int
<1>1. NumThreads \in Nat
  BY ChainAssumption
<1> QED
  BY <1>1

\* The limit of a rule is a number, and no less than the slack.
LEMMA LimitInt ==
  ASSUME NEW r \in ValidRules, NEW slack \in Int
  PROVE  Limit(r, slack) \in Int /\ slack <= Limit(r, slack)
<1>1. r.count \in Int
  BY DEF ValidRules, FlowRule
<1>2. r.count + NumThreads - 1 \in Int
  BY <1>1, NumThreadsInt
<1> QED
  BY <1>2 DEF Limit, Larger

\* Counter k, and one call that may join or leave those still to be counted:
\* it does not join; or it is counted; or it joins below the limit.
Admits(in, in2, k, k2, count) ==
  \/ (in2 => in) /\ k2 <= k
  \/ in /\ ~in2 /\ k2 = k + 1
  \/ k2 = k /\ k + 1 <= count

\* Admitting one call keeps the sum of counted and uncounted within the limit.
LEMMA AdmitsCount ==
  ASSUME NEW U, IsFiniteSet(U), Cardinality(U) <= NumThreads,
         NEW S, IsFiniteSet(S), NEW T \in SUBSET U, NEW c,
         \A d : d # c => (d \in T <=> d \in S),
         NEW k \in Int, NEW k2 \in Int, NEW count \in Int, NEW slack \in Int,
         Admits(c \in S, c \in T, k, k2, count),
         k + Cardinality(S) <= Larger(slack, count + NumThreads - 1)
  PROVE  k2 + Cardinality(T) <= Larger(slack, count + NumThreads - 1)
<1>1. /\ IsFiniteSet(T) /\ Cardinality(T) \in Nat /\ Cardinality(S) \in Nat
      /\ Cardinality(U) \in Nat /\ Cardinality(T) <= Cardinality(U) /\ NumThreads \in Nat
  BY FS_Subset, FS_CardinalityType, NumThreadsInt
<1>2. CASE (c \in T => c \in S) /\ k2 <= k
  <2>1. T \subseteq S
    BY <1>2
  <2>2. Cardinality(T) <= Cardinality(S)
    BY <2>1, FS_Subset
  <2> QED
    BY <1>1, <1>2, <2>2 DEF Larger
<1>3. CASE c \in S /\ c \notin T /\ k2 = k + 1
  <2>1. T = S \ {c}
    BY <1>3
  <2>2. Cardinality(T) = Cardinality(S) - 1
    BY <1>3, <2>1, FS_RemoveElement
  <2> QED
    BY <1>1, <1>3, <2>2
<1>4. CASE k2 = k /\ k + 1 <= count
  BY <1>1, <1>4 DEF Larger
<1> QED
  BY <1>2, <1>3, <1>4 DEF Admits

\* A step of a call does one of the three, for each of the two counters and
\* every rule for all callers.
LEMMA StepAdmits ==
  ASSUME TypeOK, StaleInv, NEW c \in Calls, Step(c),
         NEW r \in rules, r.limit_origin = "default"
  PROVE  /\ r.metric_type = "kThreadCount" =>
              Admits(c \in AdmittedNum(r), c \in AdmittedNum(r)', resNum, resNum', r.count)
         /\ r.metric_type = "kQps" =>
              Admits(c \in AdmittedPass(r), c \in AdmittedPass(r)', resPass, resPass', r.count)
<1>1. /\ CallTypeOK /\ resNum \in Int /\ resPass \in Int
      /\ c \in stale => pc[c] \in EntryPcs \ {"incEntry", "incTag", "passTag"}
  BY DEF TypeOK, StatTypeOK, StaleInv, Unpassed, InEntry
<1> USE <1>1 DEF Admits, AdmittedNum, AdmittedPass, Uncounted, Unpassed, InEntry, EntryPcs,
                 CheckPcs, Passed, CallTypeOK, statVars, callVars, Goto
<1>3. CASE GetTagNode(c) \/ NewTagNode(c)
  BY <1>3 DEF GetTagNode, NewTagNode
<1>4. CASE GetRulesForResource(c) \/ FlowOk(c)
  BY <1>4 DEF GetRulesForResource, FlowOk
<1>5. ASSUME NEW q \in todo[c], SelectNodeFor(c, q)
      PROVE  /\ Admits(c \in AdmittedNum(r), c \in AdmittedNum(r)', resNum, resNum', r.count)
             /\ Admits(c \in AdmittedPass(r), c \in AdmittedPass(r)', resPass, resPass', r.count)
  <2>1. q = r => SelectNode(c, q) = "node"
    BY ChainAssumption DEF SelectNode
  <2>2. /\ pc[c] = "select" /\ todo'[c] = todo[c] \ {q}
        /\ \/ pc'[c] = "select" /\ q # r
           \/ pc'[c] = "controller" /\ rule'[c] = q
        /\ resNum' = resNum /\ resPass' = resPass /\ stale' = stale
    BY <1>5, <2>1 DEF SelectNodeFor
  <2> QED
    BY <2>2
<1>6. CASE GetTrafficControllerFor(c)
  BY <1>6 DEF GetTrafficControllerFor
<1>7. CASE DoCheck(c)
  <2>1. CASE pc'[c] = "statExit"
    BY <1>7, <2>1 DEF DoCheck, Block
  <2>2. CASE pc'[c] = "select" /\ rule[c] # r
    BY <1>7, <2>2 DEF DoCheck, Block
  <2>3. CASE pc'[c] = "select" /\ rule[c] = r
    <3>1. CurPass(c, r) + 1 <= r.count /\ resNum' = resNum /\ resPass' = resPass
      BY <1>7, <2>3 DEF DoCheck, Block
    <3> QED
      BY <3>1 DEF CurPass
  <2> QED
    BY <1>7, <2>1, <2>2, <2>3 DEF DoCheck, Block
<1>8. CASE OtherCheckers(c)
  BY <1>8 DEF OtherCheckers, Block
<1>9. CASE IncreaseThreadNum(c) \/ AddPassRequest(c)
  BY <1>9 DEF IncreaseThreadNum, AddPassRequest
<1>10. CASE RecordEntryNode(c) \/ IncreaseTagThreadNum(c) \/ AddTagPassRequest(c)
  BY <1>10 DEF RecordEntryNode, IncreaseTagThreadNum, AddTagPassRequest
<1>11. CASE Exit(c) \/ StatisticExit(c)
  BY <1>11 DEF Exit, StatisticExit, Leave
<1>12. CASE DecreaseThreadNum(c) \/ DecreaseTagThreadNum(c) \/ CompleteEntryNode(c)
  BY <1>12 DEF DecreaseThreadNum, DecreaseTagThreadNum, CompleteEntryNode
<1> QED
  BY <1>3, <1>4, <1>5, <1>6, <1>7, <1>8, <1>9, <1>10, <1>11, <1>12
     DEF Step, CheckStep, StatStep
\* No step of a call takes it into Entry, and a step that ends the admission of
\* a call also ends its staleness.
LEMMA StepInside ==
  ASSUME TypeOK, StaleInv, NEW c \in Calls, Step(c)
  PROVE  (c \in InEntry' => c \in InEntry) /\ (c \in stale' => c \in Unpassed')
<1>1. CallTypeOK /\ (c \in stale => c \in Unpassed)
  BY DEF TypeOK, StaleInv
<1> USE <1>1 DEF InEntry, Unpassed, EntryPcs, CheckPcs, CallTypeOK, callVars, Goto
<1>2. CASE GetTagNode(c) \/ NewTagNode(c) \/ GetRulesForResource(c) \/ FlowOk(c)
  BY <1>2 DEF GetTagNode, NewTagNode, GetRulesForResource, FlowOk
<1>3. CASE (\E r \in todo[c] : SelectNodeFor(c, r)) \/ GetTrafficControllerFor(c)
  BY <1>3 DEF SelectNodeFor, GetTrafficControllerFor
<1>4. CASE DoCheck(c) \/ OtherCheckers(c)
  BY <1>4 DEF DoCheck, OtherCheckers, Block
<1>5. CASE IncreaseThreadNum(c) \/ AddPassRequest(c) \/ RecordEntryNode(c)
  BY <1>5 DEF IncreaseThreadNum, AddPassRequest, RecordEntryNode
<1>6. CASE IncreaseTagThreadNum(c) \/ AddTagPassRequest(c) \/ DecreaseTagThreadNum(c)
  BY <1>6 DEF IncreaseTagThreadNum, AddTagPassRequest, DecreaseTagThreadNum
<1>7. CASE Exit(c) \/ StatisticExit(c)
  BY <1>7 DEF Exit, StatisticExit, Leave
<1>8. CASE DecreaseThreadNum(c) \/ CompleteEntryNode(c)
  BY <1>8 DEF DecreaseThreadNum, CompleteEntryNode
<1> QED
  BY <1>2, <1>3, <1>4, <1>5, <1>6, <1>7, <1>8 DEF Step, CheckStep, StatStep

\* A step of a call keeps the admission invariant.
LEMMA StepAdmission ==
  ASSUME AdmissionInv, NEW c \in Calls, Step(c)
  PROVE  StaleInv' /\ ThreadsInv' /\ NumInv' /\ PassInv'
<1>1. TypeOK /\ StaleInv /\ ThreadsInv /\ NumInv /\ PassInv
  BY DEF AdmissionInv
<1>2. TypeOK'
  BY <1>1, NextTypeOK DEF Next, Step
<1>3. UNCHANGED <<rules, slackNum, slackPass>>
  BY StepFrame
<1>4. \A d \in Calls : d # c =>
        /\ pc'[d] = pc[d] /\ todo'[d] = todo[d] /\ rule'[d] = rule[d]
        /\ d \in stale' <=> d \in stale
  BY <1>1, StepOthers
<1>5. StaleInv'
  <2>1. \A d \in stale' : d # c => d \in Unpassed'
    BY <1>1, <1>2, <1>4 DEF StaleInv, Unpassed, InEntry, TypeOK, CallTypeOK
  <2> QED
    BY <1>1, <2>1, StepInside DEF StaleInv
<1>6. ThreadsInv'
  <2>1. InEntry' \subseteq InEntry
    BY <1>1, <1>4, StepInside DEF InEntry
  <2>2. IsFiniteSet(InEntry) /\ Cardinality(InEntry) \in Nat
    BY CallsCount DEF InEntry
  <2>3. Cardinality(InEntry') \in Nat /\ Cardinality(InEntry') <= Cardinality(InEntry)
    BY <2>1, <2>2, FS_Subset, FS_CardinalityType
  <2>4. NumThreads \in Int
    BY NumThreadsInt
  <2>5. Cardinality(InEntry) <= NumThreads
    BY <1>1 DEF ThreadsInv
  <2>6. Cardinality(InEntry') <= NumThreads
    BY <2>2, <2>3, <2>4, <2>5
  <2> QED
    BY <2>6 DEF ThreadsInv
<1>7. /\ IsFiniteSet(InEntry') /\ Cardinality(InEntry') <= NumThreads
      /\ resNum \in Int /\ resNum' \in Int /\ resPass \in Int /\ resPass' \in Int
      /\ slackNum \in Int /\ slackPass \in Int
  <2>1. InEntry' \subseteq Calls
    BY DEF InEntry
  <2> QED
    BY <1>1, <1>2, <1>6, <2>1, CallsCount DEF ThreadsInv, TypeOK, StatTypeOK, ManagerTypeOK
<1>8. ASSUME NEW r \in rules, r.limit_origin = "default", r.metric_type = "kThreadCount"
      PROVE  resNum' + Cardinality(AdmittedNum(r)') <= Limit(r, slackNum)
  <2>1. /\ resNum + Cardinality(AdmittedNum(r)) <= Limit(r, slackNum)
        /\ IsFiniteSet(AdmittedNum(r))
    BY <1>1, <1>8, CallsCount DEF NumInv, AdmittedNum, Uncounted, InEntry
  <2>2. r.count \in Int
    BY <1>1 DEF TypeOK, ManagerTypeOK, ValidRules, FlowRule
  <2>3. AdmittedNum(r)' \in SUBSET (InEntry')
    BY DEF AdmittedNum, Uncounted
  <2>4. \A d : d # c => (d \in AdmittedNum(r)' <=> d \in AdmittedNum(r))
    BY <1>4 DEF AdmittedNum, Uncounted, InEntry, Passed
  <2>5. Admits(c \in AdmittedNum(r), c \in AdmittedNum(r)', resNum, resNum', r.count)
    BY <1>1, <1>8, StepAdmits
  <2> QED
    BY <1>7, <2>1, <2>2, <2>3, <2>4, <2>5, AdmitsCount DEF Limit
<1>9. ASSUME NEW r \in rules, r.limit_origin = "default", r.metric_type = "kQps"
      PROVE  resPass' + Cardinality(AdmittedPass(r)') <= Limit(r, slackPass)
  <2>1. /\ resPass + Cardinality(AdmittedPass(r)) <= Limit(r, slackPass)
        /\ IsFiniteSet(AdmittedPass(r))
    BY <1>1, <1>9, CallsCount DEF PassInv, AdmittedPass, Unpassed, InEntry
  <2>2. r.count \in Int
    BY <1>1 DEF TypeOK, ManagerTypeOK, ValidRules, FlowRule
  <2>3. AdmittedPass(r)' \in SUBSET (InEntry')
    BY DEF AdmittedPass, Unpassed
  <2>4. \A d : d # c => (d \in AdmittedPass(r)' <=> d \in AdmittedPass(r))
    BY <1>4 DEF AdmittedPass, Unpassed, InEntry, Passed
  <2>5. Admits(c \in AdmittedPass(r), c \in AdmittedPass(r)', resPass, resPass', r.count)
    BY <1>1, <1>9, StepAdmits
  <2> QED
    BY <1>7, <2>1, <2>2, <2>3, <2>4, <2>5, AdmitsCount DEF Limit
<1>10. NumInv' /\ PassInv'
  BY <1>3, <1>8, <1>9 DEF NumInv, PassInv, Limit
<1> QED
  BY <1>5, <1>6, <1>10
\* Loading rules makes every call under way stale and allows for all of them.
LEMMA LoadAdmission ==
  ASSUME AdmissionInv, NEW list \in RuleLists, LoadRules(list)
  PROVE  StaleInv' /\ ThreadsInv' /\ NumInv' /\ PassInv'
<1>1. TypeOK /\ StaleInv /\ ThreadsInv /\ NumInv /\ PassInv
  BY DEF AdmissionInv
<1>2. UNCHANGED <<pc, todo, rule, resNum, resPass>>
  BY DEF LoadRules, statVars, callVars
<1>3. InEntry' = InEntry /\ Unpassed' = Unpassed /\ Uncounted' = Uncounted
  BY <1>2 DEF InEntry, Unpassed, Uncounted
<1>4. ThreadsInv'
  BY <1>1, <1>3 DEF ThreadsInv
<1>5. CASE UNCHANGED <<rules, stale, slackNum, slackPass>>
  <2>1. StaleInv'
    BY <1>1, <1>3, <1>5 DEF StaleInv
  <2>2. \A r : AdmittedNum(r)' = AdmittedNum(r) /\ AdmittedPass(r)' = AdmittedPass(r)
    BY <1>2, <1>3, <1>5 DEF AdmittedNum, AdmittedPass, Passed
  <2>3. NumInv' /\ PassInv'
    BY <1>1, <1>2, <1>5, <2>2 DEF NumInv, PassInv, Limit
  <2> QED
    BY <1>4, <2>1, <2>3
<1>6. CASE /\ stale' = Unpassed
           /\ slackNum' = resNum + Cardinality(Uncounted)
           /\ slackPass' = resPass + Cardinality(Unpassed)
  <2>1. StaleInv'
    BY <1>3, <1>6 DEF StaleInv
  <2>2. Uncounted \subseteq Unpassed
    BY DEF Uncounted, Unpassed
  <2>3. \A r : AdmittedNum(r)' = Uncounted /\ AdmittedPass(r)' = Unpassed
    BY <1>3, <1>6, <2>2 DEF AdmittedNum, AdmittedPass
  <2>4. rules' \subseteq ValidRules /\ slackNum' \in Int /\ slackPass' \in Int
    BY <1>1, NextTypeOK DEF Next, TypeOK, ManagerTypeOK
  <2>5. ASSUME NEW r \in rules' PROVE slackNum' <= Limit(r, slackNum') /\ slackPass' <= Limit(r, slackPass')
    BY <2>4, <2>5, LimitInt
  <2>6. NumInv' /\ PassInv'
    BY <1>2, <1>6, <2>3, <2>5 DEF NumInv, PassInv, Limit
  <2> QED
    BY <1>4, <2>1, <2>6
<1> QED
  BY <1>5, <1>6 DEF LoadRules, slackVars

\* A call that begins has passed no check.
LEMMA EntryAdmission ==
  ASSUME AdmissionInv, NEW c \in Calls, NEW ty \in EntryTypes, NEW g \in Tags \cup {NoTag},
         Entry(c, ty, g)
  PROVE  StaleInv' /\ ThreadsInv' /\ NumInv' /\ PassInv'
<1>1. TypeOK /\ StaleInv /\ ThreadsInv /\ NumInv /\ PassInv
  BY DEF AdmissionInv
<1>2. UNCHANGED <<rules, todo, rule, resNum, resPass, stale, slackNum, slackPass>>
  BY DEF Entry, statVars, slackVars
<1>3. /\ pc[c] = "new" /\ pc'[c] \in {"running", "getRules", "getTagNode"}
      /\ \A d \in Calls : d # c => pc'[d] = pc[d]
  BY <1>1 DEF Entry, Goto, TypeOK, CallTypeOK
<1>4. c \notin stale
  BY <1>1, <1>3 DEF StaleInv, Unpassed, InEntry, EntryPcs, CheckPcs
<1>5. StaleInv'
  BY <1>1, <1>2, <1>3, <1>4 DEF StaleInv, Unpassed, InEntry
<1>6. ThreadsInv'
  <2>1. InEntry' \subseteq InEntry \cup {c} /\ c \notin InEntry
    BY <1>3 DEF InEntry, EntryPcs, CheckPcs
  <2>2. IsFiniteSet(InEntry) /\ Cardinality(InEntry) \in Nat
    BY CallsCount DEF InEntry
  <2>3. IsFiniteSet(InEntry \cup {c}) /\ Cardinality(InEntry \cup {c}) = Cardinality(InEntry) + 1
    BY <2>1, <2>2, FS_AddElement
  <2>4. Cardinality(InEntry') \in Nat /\ Cardinality(InEntry') <= Cardinality(InEntry \cup {c})
    BY <2>1, <2>3, FS_Subset, FS_CardinalityType
  <2>5. Cardinality(InEntry) < NumThreads /\ NumThreads \in Int
    BY NumThreadsInt DEF Entry
  <2>6. Cardinality(InEntry') <= NumThreads
    BY <2>2, <2>3, <2>4, <2>5
  <2> QED
    BY <2>6 DEF ThreadsInv
<1>7. \A r : AdmittedNum(r)' = AdmittedNum(r) /\ AdmittedPass(r)' = AdmittedPass(r)
  BY <1>2, <1>3, <1>4 DEF AdmittedNum, AdmittedPass, Uncounted, Unpassed, InEntry,
                          EntryPcs, CheckPcs, Passed
<1>8. NumInv' /\ PassInv'
  BY <1>1, <1>2, <1>7 DEF NumInv, PassInv, Limit
<1> QED
  BY <1>5, <1>6, <1>8

\* A step that moves no call; passes may expire.
LEMMA QuietAdmission ==
  ASSUME AdmissionInv, UNCHANGED <<rules, pc, todo, rule, resNum, stale, slackNum, slackPass>>,
         resPass' \in Int, resPass' <= resPass
  PROVE  StaleInv' /\ ThreadsInv' /\ NumInv' /\ PassInv'
<1>1. TypeOK /\ StaleInv /\ ThreadsInv /\ NumInv /\ PassInv
  BY DEF AdmissionInv
<1>2. InEntry' = InEntry /\ Unpassed' = Unpassed /\ Uncounted' = Uncounted
  BY DEF InEntry, Unpassed, Uncounted
<1>3. StaleInv' /\ ThreadsInv'
  BY <1>1, <1>2 DEF StaleInv, ThreadsInv
<1>4. \A r : AdmittedNum(r)' = AdmittedNum(r) /\ AdmittedPass(r)' = AdmittedPass(r)
  BY <1>2 DEF AdmittedNum, AdmittedPass, Passed
<1>5. NumInv'
  BY <1>1, <1>4 DEF NumInv, Limit
<1>6. PassInv'
  <2>1. ASSUME NEW r \in rules, r.limit_origin = "default", r.metric_type = "kQps"
        PROVE  resPass' + Cardinality(AdmittedPass(r)) <= Limit(r, slackPass)
    <3>1. resPass + Cardinality(AdmittedPass(r)) <= Limit(r, slackPass)
      BY <1>1, <2>1 DEF PassInv
    <3>2. Cardinality(AdmittedPass(r)) \in Nat /\ resPass \in Int
      BY <1>1, CallsCount DEF AdmittedPass, Unpassed, InEntry, TypeOK, StatTypeOK
    <3>3. Limit(r, slackPass) \in Int
      BY <1>1, LimitInt DEF TypeOK, ManagerTypeOK
    <3> QED
      BY <3>1, <3>2, <3>3
  <2> QED
    BY <1>4, <2>1 DEF PassInv, Limit
<1> QED
  BY <1>3, <1>5, <1>6

\* The admission invariant is inductive.
LEMMA NextAdmission == AdmissionInv /\ [Next]_vars => AdmissionInv'
<1> SUFFICES ASSUME AdmissionInv, [Next]_vars PROVE AdmissionInv'
  OBVIOUS
<1> DEFINE Goal == StaleInv' /\ ThreadsInv' /\ NumInv' /\ PassInv'
           Quiet == /\ UNCHANGED <<rules, pc, todo, rule, resNum, stale, slackNum, slackPass>>
                    /\ resPass' \in Int /\ resPass' <= resPass
<1>1. TypeOK' /\ resPass \in Nat
  BY NextTypeOK DEF AdmissionInv, TypeOK, StatTypeOK
<1>2. ASSUME UNCHANGED vars PROVE Goal
  <2>1. Quiet
    BY <1>1, <1>2 DEF vars
  <2> QED
    BY <2>1, QuietAdmission
<1>3. ASSUME NEW on \in BOOLEAN, SetSwitchStatus(on) PROVE Goal
  <2>1. Quiet
    BY <1>1, <1>3 DEF SetSwitchStatus, statVars, callVars, slackVars
  <2> QED
    BY <2>1, QuietAdmission
<1>4. ASSUME NEW list \in RuleLists, LoadRules(list) PROVE Goal
  BY <1>4, LoadAdmission
<1>5. ASSUME Expire PROVE Goal
  <2>1. Quiet
    BY <1>1, <1>5 DEF Expire, callVars, slackVars
  <2> QED
    BY <2>1, QuietAdmission
<1>6. ASSUME NEW c \in Calls, NEW ty \in EntryTypes, NEW g \in Tags \cup {NoTag}, Entry(c, ty, g)
      PROVE  Goal
  BY <1>6, EntryAdmission
<1>7. ASSUME NEW c \in Calls, Step(c) PROVE Goal
  BY <1>7, StepAdmission
<1>8. Goal
  BY <1>2, <1>3, <1>4, <1>5, <1>6, <1>7 DEF Next, Step
<1> QED
  BY <1>1, <1>8 DEF AdmissionInv

\* A flow rule for all callers is overrun by less than the number of threads
\* inside SphU::Entry, however many calls, rules and reloads there are: what
\* lies between the check of FlowSlot and the count of StatisticSlot is all
\* that DefaultTrafficShapingChecker fails to see.
THEOREM AdmissionIsBounded == Spec => []AdmissionBounded
<1>1. Init => AdmissionInv
  <2> SUFFICES ASSUME Init PROVE AdmissionInv
    OBVIOUS
  <2>1. rules = {} /\ stale = {} /\ InEntry = {}
    BY DEF Init, InEntry, EntryPcs, CheckPcs
  <2>2. Cardinality(InEntry) <= NumThreads
    BY <2>1, FS_EmptySet, NumThreadsInt
  <2> QED
    BY <2>1, <2>2, InitTypeOK DEF AdmissionInv, StaleInv, ThreadsInv, NumInv, PassInv
<1>2. AdmissionInv => AdmissionBounded
  <2> SUFFICES ASSUME AdmissionInv, NEW r \in rules, r.limit_origin = "default"
               PROVE  /\ r.metric_type = "kThreadCount" => resNum <= Limit(r, slackNum)
                      /\ r.metric_type # "kThreadCount" => resPass <= Limit(r, slackPass)
    BY DEF AdmissionBounded, Limit
  <2>1. /\ Cardinality(AdmittedNum(r)) \in Nat /\ Cardinality(AdmittedPass(r)) \in Nat
        /\ resNum \in Int /\ resPass \in Int
    BY CallsCount DEF AdmissionInv, TypeOK, StatTypeOK, AdmittedNum, AdmittedPass, Uncounted,
                      Unpassed, InEntry
  <2>2. Limit(r, slackNum) \in Int /\ Limit(r, slackPass) \in Int
    BY LimitInt DEF AdmissionInv, TypeOK, ManagerTypeOK
  <2>3. r.metric_type \in {"kQps", "kThreadCount"}
    BY DEF AdmissionInv, TypeOK, ManagerTypeOK, ValidRules, FlowRule
  <2> QED
    BY <2>1, <2>2, <2>3 DEF AdmissionInv, NumInv, PassInv
<1> QED
  BY <1>1, <1>2, NextAdmission, PTL DEF Spec
=============================================================================

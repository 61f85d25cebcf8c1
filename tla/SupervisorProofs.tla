--------------------------- MODULE SupervisorProofs ---------------------------
(***************************************************************************)
(* Proofs about the supervisor's orchestration, for any number of requests,*)
(* agents and limits, what its prompts show of a session's history, and the*)
(* evidence an investigation concludes from.                               *)
(*                                                                         *)
(* Conversation and Investigation compute with recursive functions.  What  *)
(* such a function does is proved here in three steps each: it exists      *)
(* (IterationExists), it satisfies its equations, and a least argument at  *)
(* which its invariant fails (LeastNat) leads to a contradiction.          *)
(***************************************************************************)
EXTENDS Conversation, Investigation, SequenceTheorems, FiniteSetTheorems, TLAPS

-----------------------------------------------------------------------------
(* Types *)

\* A request that is past its routing has a primary agent.
Planned ==
  \A r \in Request : pc[r] \in {"save", "calling", "synthesize", "answer"} => plan[r] # <<>>

TypeInv == TypeOK /\ Planned

LEMMA PrefixType ==
  ASSUME NEW S, NEW s \in Seq(S), NEW n \in Nat
  PROVE  /\ Prefix(s, n) \in Seq(S)
         /\ s # <<>> /\ n # 0 => Prefix(s, n) # <<>>
<1> DEFINE m == IF Len(s) < n THEN Len(s) ELSE n
<1>1. m \in Nat /\ m <= Len(s)
  OBVIOUS
<1>2. Prefix(s, n) = [i \in 1..m |-> s[i]]
  BY <1>1 DEF Prefix
<1>3. Prefix(s, n) \in Seq(S)
  BY <1>1, <1>2
<1>4. ASSUME s # <<>>, n # 0 PROVE Prefix(s, n) # <<>>
  <2>1. m >= 1
    BY <1>4
  <2>2. Len(Prefix(s, n)) = m
    BY <1>1, <1>2
  <2> QED BY <2>1, <2>2
<1> QED BY <1>3, <1>4

LEMMA VerdictType ==
  ASSUME NEW v \in Verdict
  PROVE  v \in Seq(Agent)
  BY SupervisorAssumption DEF Verdict

\* The calls a request starts, one per agent.
LEMMA StartType ==
  ASSUME TypeOK, NEW r \in Request, NEW agents \in Seq(Agent), Start(r, agents)
  PROVE  calls' \in [Request -> Seq(CallState)]
<1>1. [i \in DOMAIN agents |-> "running"] \in Seq(CallState)
  BY DEF CallState
<1> QED BY <1>1 DEF Start, TypeOK

\* A message is filed under the request's primary agent.
LEMMA SaveType ==
  ASSUME TypeOK, NEW r \in Request, NEW role \in {"user", "assistant"}, plan[r] # <<>>,
         Save(r, role)
  PROVE  history' \in Seq(Message) /\ unsaved' \subseteq Request
<1>1. plan[r][1] \in Agent
  BY DEF TypeOK
<1> DEFINE m == [agent |-> plan[r][1], role |-> role, req |-> r]
<1>2. m \in Message
  BY <1>1 DEF Message
<1>3. Append(history, m) \in Seq(Message)
  BY <1>2 DEF TypeOK
<1>4. CASE history' = Append(history, m) /\ UNCHANGED unsaved
  BY <1>3, <1>4 DEF TypeOK
<1>5. CASE unsaved' = unsaved \cup {r} /\ UNCHANGED history
  BY <1>5 DEF TypeOK
<1> QED BY <1>4, <1>5 DEF Save

LEMMA SpendType == TypeOK /\ Spend => over' \in BOOLEAN
  BY Zenon DEF TypeOK, Spend

LEMMA InitTypeInv == Init => TypeInv
<1> SUFFICES ASSUME Init PROVE TypeInv
  OBVIOUS
<1> USE DEF Init
<1>1. /\ plan \in [Request -> Seq(Agent)]
      /\ calls \in [Request -> Seq(CallState)]
      /\ history \in Seq(Message)
  OBVIOUS
<1>2. over \in BOOLEAN
  OBVIOUS
<1> QED BY <1>1, <1>2 DEF TypeInv, TypeOK, Planned

LEMMA NextTypeInv == TypeInv /\ [Next]_vars => TypeInv'
<1> SUFFICES ASSUME TypeInv, [Next]_vars PROVE TypeInv'
  OBVIOUS
<1> USE SupervisorAssumption DEF TypeInv, TypeOK, Planned
<1>1. CASE UNCHANGED vars
  BY <1>1 DEF vars, requestVars
<1>2. CASE BudgetExpires
  BY <1>2 DEF BudgetExpires, requestVars
<1>3. ASSUME NEW r \in Request, RequestStep(r) PROVE TypeInv'
  <2>1. CASE Arrive(r)
    BY <1>3, <2>1 DEF RequestStep, Arrive, Goto
  <2>2. CASE OverBudget(r)
    BY <1>3, <2>2 DEF RequestStep, OverBudget, FallBack, Ends, Answer, Goto, Outcome
  <2>3. CASE Refuse(r)
    BY <1>3, <2>3 DEF RequestStep, Refuse, Ends, Answer, Goto, Outcome
  <2>4. CASE Admit(r)
    <3>1. CASE ask[r] \in Agent /\ FallBack(r)
      BY <1>3, <2>4, <3>1 DEF RequestStep, Admit, FallBack, Goto
    <3>2. CASE ask[r] \in Agent /\ Route(r, <<ask[r]>>)
      BY <1>3, <2>4, <3>2 DEF RequestStep, Admit, Route, Goto
    <3>3. CASE ask[r] = "symptom"
      <4>1. CASE FallBack(r)
        BY <1>3, <2>4, <4>1 DEF RequestStep, Admit, FallBack, Goto
      <4>2. CASE Start(r, Prefix(Roster, MaxInvestigators)) /\ Goto(r, "investigating")
                 /\ UNCHANGED <<handler, plan, outcome, counted>>
        BY <1>3, <2>4, <4>2, PrefixType, StartType DEF RequestStep, Admit, Goto
      <4> QED BY <1>3, <2>4, <3>3, <4>1, <4>2 DEF RequestStep, Admit
    <3>4. CASE ask[r] = "free"
      BY <1>3, <2>4, <3>4 DEF RequestStep, Admit, Goto
    <3> QED BY <2>4, <3>1, <3>2, <3>3, <3>4 DEF Admit
  <2>5. CASE Classify(r)
    <3>1. PICK v \in Verdict :
            LET agents == Prefix(v, MaxAgents) IN
            \/ /\ v = <<>>
               /\ IF handler[r] = "stream" THEN FallBack(r) ELSE Ends(r, "unknown")
            \/ /\ v # <<>>
               /\ IF handler[r] = "stream" /\ ~(Len(agents) = 1 /\ agents[1] \in Agentic)
                  THEN FallBack(r)
                  ELSE Route(r, agents)
      BY <2>5 DEF Classify
    <3>2. CASE FallBack(r)
      BY <1>3, <2>5, <3>2, SpendType DEF RequestStep, Classify, FallBack, Goto
    <3>3. CASE Ends(r, "unknown")
      BY <1>3, <2>5, <3>3, SpendType DEF RequestStep, Classify, Ends, Answer, Goto, Outcome
    <3>4. CASE v # <<>> /\ Route(r, Prefix(v, MaxAgents))
      <4>1. Prefix(v, MaxAgents) \in Seq(Agent) /\ Prefix(v, MaxAgents) # <<>>
        BY <3>4, PrefixType, VerdictType
      <4> QED BY <1>3, <2>5, <3>4, <4>1, SpendType DEF RequestStep, Classify, Route, Goto
    <3> QED BY <3>1, <3>2, <3>3, <3>4
  <2>6. CASE ClassifyFails(r)
    BY <1>3, <2>6, SpendType DEF RequestStep, ClassifyFails, Fail, Answer, Goto, Outcome
  <2>7. CASE SaveQuestion(r)
    <3>1. history' \in Seq(Message) /\ unsaved' \subseteq Request
      BY <2>7, SaveType DEF SaveQuestion
    <3>2. calls' \in [Request -> Seq(CallState)]
      BY <2>7, StartType DEF SaveQuestion
    <3> QED BY <1>3, <2>7, <3>1, <3>2 DEF RequestStep, SaveQuestion, Goto
  <2>8. CASE AgentEnds(r)
    BY <1>3, <2>8, SpendType DEF RequestStep, AgentEnds, CallState
  <2>9. CASE JoinRefused(r)
    BY <1>3, <2>9 DEF RequestStep, JoinRefused, Ends, Answer, Goto, Outcome
  <2>10. CASE JoinSingle(r)
    <3>1. CASE Some(r, "raised") /\ Ends(r, "agent_error")
      BY <1>3, <2>10, <3>1 DEF RequestStep, JoinSingle, Ends, Answer, Goto, Outcome
    <3>2. CASE /\ Some(r, "ok") /\ Goto(r, "answer") /\ Count(r)
               /\ UNCHANGED <<handler, plan, calls, outcome>>
      <4>1. plan[r] # <<>>
        BY <2>10 DEF JoinSingle
      <4>2. UNCHANGED <<ask, history, over, unsaved>>
        BY <1>3, <2>10 DEF RequestStep, JoinSingle
      <4> QED BY <3>2, <4>1, <4>2 DEF Goto, Count
    <3> QED BY <2>10, <3>1, <3>2 DEF JoinSingle
  <2>11. CASE JoinFanOut(r)
    <3>1. plan[r] # <<>>
      BY <2>11 DEF JoinFanOut
    <3>2. UNCHANGED <<ask, handler, plan, calls, outcome, history, over, unsaved>>
      BY <1>3, <2>11 DEF RequestStep, JoinFanOut
    <3>3. CASE Goto(r, "synthesize") /\ UNCHANGED counted
      BY <3>1, <3>2, <3>3 DEF Goto
    <3>4. CASE Goto(r, "answer") /\ Count(r)
      BY <3>1, <3>2, <3>4 DEF Goto, Count
    <3> QED BY <2>11, <3>3, <3>4 DEF JoinFanOut
  <2>12. CASE JoinInvestigation(r)
    BY <1>3, <2>12 DEF RequestStep, JoinInvestigation, Goto
  <2>13. CASE Synthesize(r)
    <3>1. over' \in BOOLEAN
      BY <2>13, SpendType DEF Synthesize
    <3>2. Count(r) /\ UNCHANGED <<ask, handler, plan, calls, history, unsaved>>
      BY <1>3, <2>13 DEF RequestStep, Synthesize
    <3>3. CASE pc[r] = "synthesize"
      <4>1. Goto(r, "answer") /\ UNCHANGED outcome
        BY <2>13, <3>3 DEF Synthesize
      <4>2. plan[r] # <<>>
        BY <3>3
      <4> QED BY <3>1, <3>2, <4>1, <4>2 DEF Goto, Count
    <3>4. CASE pc[r] = "explain"
      <4>1. Answer(r, "rca")
        BY <2>13, <3>4 DEF Synthesize
      <4> QED BY <3>1, <3>2, <4>1 DEF Answer, Goto, Count, Outcome
    <3> QED BY <2>13, <3>3, <3>4 DEF Synthesize
  <2>14. CASE SynthesisFails(r)
    BY <1>3, <2>14, SpendType DEF RequestStep, SynthesisFails, Fail, Answer, Goto, Outcome
  <2>15. CASE SaveAnswer(r)
    <3>1. history' \in Seq(Message) /\ unsaved' \subseteq Request
      BY <2>15, SaveType DEF SaveAnswer
    <3> QED BY <1>3, <2>15, <3>1 DEF RequestStep, SaveAnswer, Ends, Answer, Goto, Outcome
  <2>16. CASE OpenStream(r)
    BY <1>3, <2>16 DEF RequestStep, OpenStream, Fail, Answer, Goto, Outcome
  <2>17. CASE StreamBegins(r)
    BY <1>3, <2>17 DEF RequestStep, StreamBegins, Answer, Goto, Outcome
  <2>18. CASE StreamEnds(r)
    BY <1>3, <2>18, SpendType DEF RequestStep, StreamEnds, Answer, Goto, Count, Outcome
  <2> QED BY <1>3, <2>1, <2>2, <2>3, <2>4, <2>5, <2>6, <2>7, <2>8, <2>9, <2>10, <2>11, <2>12,
             <2>13, <2>14, <2>15, <2>16, <2>17, <2>18 DEF RequestStep
<1> QED BY <1>1, <1>2, <1>3 DEF Next

\* The requests, their plans, calls and answers, and the history keep their types.
THEOREM TypeCorrect == Spec => []TypeOK
<1>1. Spec => []TypeInv
  BY InitTypeInv, NextTypeInv, PTL DEF Spec
<1> QED BY <1>1, PTL DEF TypeInv

-----------------------------------------------------------------------------
(* Counting *)

Counted == {"answered", "rca", "streamed"}

\* The counter of a request is 1 exactly from the step on that counts it.
CountInv ==
  \A r \in Request :
    counted[r] = IF pc[r] = "answer" \/ (pc[r] = "done" /\ outcome[r] \in Counted) THEN 1 ELSE 0

LEMMA NextCountInv == TypeInv /\ CountInv /\ [Next]_vars => CountInv'
<1> SUFFICES ASSUME TypeInv, CountInv, [Next]_vars PROVE CountInv'
  OBVIOUS
<1> USE DEF CountInv, Counted
<1>1. CASE UNCHANGED vars
  BY <1>1 DEF vars, requestVars
<1>2. CASE BudgetExpires
  BY <1>2 DEF BudgetExpires, requestVars
<1>3. ASSUME NEW r \in Request, RequestStep(r) PROVE CountInv'
  <2> USE DEF Goto, Answer, Ends, Fail, FallBack, Route, TypeInv, TypeOK
  <2>1. CASE Arrive(r) \/ OverBudget(r) \/ Refuse(r)
    BY <2>1 DEF Arrive, OverBudget, Refuse
  <2>2. CASE Admit(r)
    BY <2>2 DEF Admit
  <2>3. CASE Classify(r)
    BY <2>3 DEF Classify
  <2>4. CASE ClassifyFails(r) \/ SynthesisFails(r)
    BY <2>4 DEF ClassifyFails, SynthesisFails
  <2>5. CASE SaveQuestion(r)
    BY <2>5 DEF SaveQuestion
  <2>6. CASE AgentEnds(r)
    BY <2>6 DEF AgentEnds
  <2>7. CASE JoinRefused(r) \/ JoinInvestigation(r)
    BY <2>7 DEF JoinRefused, JoinInvestigation
  <2>8. CASE JoinSingle(r)
    <3>1. CASE Ends(r, "agent_error")
      BY <2>8, <3>1 DEF JoinSingle
    <3>2. CASE Goto(r, "answer") /\ Count(r) /\ UNCHANGED outcome
      BY <2>8, <3>2 DEF JoinSingle, Count
    <3> QED BY <2>8, <3>1, <3>2 DEF JoinSingle
  <2>9. CASE JoinFanOut(r)
    BY <2>9 DEF JoinFanOut, Count
  <2>10. CASE Synthesize(r)
    BY <2>10 DEF Synthesize, Count
  <2>11. CASE SaveAnswer(r)
    BY <2>11 DEF SaveAnswer
  <2>12. CASE OpenStream(r) \/ StreamBegins(r)
    BY <2>12 DEF OpenStream, StreamBegins
  <2>13. CASE StreamEnds(r)
    BY <2>13 DEF StreamEnds, Count
  <2> QED BY <1>3, <2>1, <2>2, <2>3, <2>4, <2>5, <2>6, <2>7, <2>8, <2>9, <2>10, <2>11, <2>12,
             <2>13 DEF RequestStep
<1> QED BY <1>1, <1>2, <1>3 DEF Next

\* Whatever was answered, by either function, is counted exactly once; a refusal or
\* an error is not counted, and nothing twice.
THEOREM CountedExactlyOnce == Spec => []CountedOnce
<1>1. Init => CountInv
  BY DEF Init, CountInv
<1>2. Spec => [](TypeInv /\ CountInv)
  BY <1>1, InitTypeInv, NextTypeInv, NextCountInv, PTL DEF Spec
<1>3. CountInv => CountedOnce
  BY DEF CountInv, CountedOnce, Counted
<1> QED BY <1>2, <1>3, PTL

-----------------------------------------------------------------------------
(* What a save does to the history *)

LEMMA SaveExtends ==
  ASSUME TypeOK, NEW r \in Request, NEW role \in {"user", "assistant"}, plan[r] # <<>>,
         Save(r, role)
  PROVE  LET m == [agent |-> plan[r][1], role |-> role, req |-> r] IN
         \/ history' = Append(history, m) /\ m \in Message /\ unsaved' = unsaved
         \/ history' = history /\ unsaved' = unsaved \cup {r}
<1>1. plan[r][1] \in Agent
  BY DEF TypeOK
<1> QED BY <1>1 DEF Save, Message

LEMMA AppendPlaces ==
  ASSUME TypeOK, NEW m \in Message, history' = Append(history, m)
  PROVE  /\ DOMAIN history' = 1..Len(history) + 1
         /\ \A i \in 1..Len(history) : history'[i] = history[i]
         /\ history'[Len(history) + 1] = m
         /\ \A q \in Request, role \in {"user", "assistant"} :
              Places(q, role)' = Places(q, role) \cup
                (IF m.req = q /\ m.role = role THEN {Len(history) + 1} ELSE {})
<1>1. /\ DOMAIN history = 1..Len(history) /\ Len(history) \in Nat
      /\ DOMAIN history' = 1..Len(history) + 1
      /\ \A i \in 1..Len(history) : history'[i] = history[i]
      /\ history'[Len(history) + 1] = m
  BY DEF TypeOK
<1> QED BY <1>1 DEF Places

\* The steps other than the two saves leave the history alone, and move their
\* request neither back before its first save nor forward past it.
Early == {"new", "entry", "classify", "save", "investigating", "explain"}
Answering == {"calling", "synthesize", "answer"}

StillStep(r) ==
  /\ UNCHANGED <<history, unsaved>>
  /\ \A q \in Request \ {r} : pc'[q] = pc[q] /\ plan'[q] = plan[q]
  /\ pc[r] # "done"
  /\ pc'[r] \in Early => pc[r] \in Early
  /\ pc'[r] \in Answering => pc[r] \in Answering /\ plan'[r] = plan[r]

LEMMA OtherStepsAreStill ==
  ASSUME TypeInv, NEW r \in Request, RequestStep(r)
  PROVE  StillStep(r) \/ SaveQuestion(r) \/ SaveAnswer(r)
<1> USE DEF StillStep, Early, Answering, Goto, Answer, Ends, Fail, FallBack, Route, TypeInv, TypeOK
<1>1. CASE Arrive(r) \/ OverBudget(r) \/ Refuse(r)
  BY <1>1 DEF Arrive, OverBudget, Refuse
<1>2. CASE Admit(r)
  BY <1>2 DEF Admit
<1>3. CASE Classify(r)
  BY <1>3 DEF Classify
<1>4. CASE ClassifyFails(r) \/ SynthesisFails(r)
  BY <1>4 DEF ClassifyFails, SynthesisFails
<1>5. CASE AgentEnds(r)
  BY <1>5 DEF AgentEnds
<1>6. CASE JoinRefused(r) \/ JoinInvestigation(r)
  BY <1>6 DEF JoinRefused, JoinInvestigation
<1>7. CASE JoinSingle(r) \/ JoinFanOut(r)
  BY <1>7 DEF JoinSingle, JoinFanOut
<1>8. CASE Synthesize(r)
  BY <1>8 DEF Synthesize
<1>9. CASE OpenStream(r) \/ StreamBegins(r) \/ StreamEnds(r)
  BY <1>9 DEF OpenStream, StreamBegins, StreamEnds
<1> QED BY <1>1, <1>2, <1>3, <1>4, <1>5, <1>6, <1>7, <1>8, <1>9 DEF RequestStep

-----------------------------------------------------------------------------
(* The history *)

\* Where a request is tells what of it can be in the history.
PairInv ==
  \A r \in Request :
    /\ pc[r] \in Early => Places(r, "user") = {}
    /\ pc[r] # "done" => Places(r, "assistant") = {}
    /\ pc[r] \in Answering =>
         r \in unsaved \/ \E j \in Places(r, "user") : history[j].agent = plan[r][1]
    /\ \A role \in {"user", "assistant"} : \A i, j \in Places(r, role) : i = j
    /\ \A i \in Places(r, "assistant") :
         r \in unsaved \/ \E j \in Places(r, "user") : j < i /\ history[j].agent = history[i].agent

LEMMA NextPairInv == TypeInv /\ PairInv /\ [Next]_vars => PairInv'
<1> SUFFICES ASSUME TypeInv, PairInv, [Next]_vars PROVE PairInv'
  OBVIOUS
<1>1. CASE UNCHANGED vars
  BY <1>1 DEF PairInv, Places, vars, requestVars
<1>2. CASE BudgetExpires
  BY <1>2 DEF PairInv, Places, BudgetExpires, requestVars
<1>3. ASSUME NEW r \in Request, RequestStep(r) PROVE PairInv'
  <2>1. CASE StillStep(r)
    <3>1. \A q \in Request, role \in {"user", "assistant"} : Places(q, role)' = Places(q, role)
      BY <2>1 DEF StillStep, Places
    <3>2. history' = history /\ unsaved' = unsaved
      BY <2>1 DEF StillStep
    <3>3. ASSUME NEW q \in Request, q # r PROVE PairInv!(q)'
      <4>1. pc'[q] = pc[q] /\ plan'[q] = plan[q]
        BY <2>1, <3>3 DEF StillStep
      <4> QED BY <3>1, <3>2, <4>1 DEF PairInv
    <3>4. PairInv!(r)'
      <4>1. /\ pc[r] # "done"
            /\ pc'[r] \in Early => pc[r] \in Early
            /\ pc'[r] \in Answering => pc[r] \in Answering /\ plan'[r] = plan[r]
        BY <2>1 DEF StillStep
      <4> QED BY <3>1, <3>2, <4>1 DEF PairInv
    <3> QED BY <3>3, <3>4 DEF PairInv
  <2>2. ASSUME NEW role \in {"user", "assistant"}, Save(r, role), plan[r] # <<>>,
               plan' = plan, pc' = [pc EXCEPT ![r] = pc'[r]],
               role = "user" => pc[r] = "save" /\ pc'[r] \notin Early,
               role = "assistant" => pc[r] = "answer" /\ pc'[r] = "done"
        PROVE  PairInv'
    <3> DEFINE m == [agent |-> plan[r][1], role |-> role, req |-> r]
               new == Len(history) + 1
    <3>1. CASE history' = history /\ unsaved' = unsaved \cup {r}
      <4>1. \A q \in Request, rl \in {"user", "assistant"} : Places(q, rl)' = Places(q, rl)
        BY <3>1 DEF Places
      <4>2. ASSUME NEW q \in Request, q # r PROVE PairInv!(q)'
        BY <2>2, <3>1, <4>1, <4>2 DEF PairInv, TypeInv, TypeOK
      <4>3. r \in unsaved'
        BY <3>1
      <4>4. pc[r] # "done" /\ pc'[r] \notin Early
        BY <2>2 DEF Early
      <4>5. PairInv!(r)'
        BY <3>1, <4>1, <4>3, <4>4 DEF PairInv
      <4> QED BY <4>2, <4>5 DEF PairInv
    <3>2. CASE history' = Append(history, m) /\ m \in Message /\ unsaved' = unsaved
      <4>1. /\ \A i \in 1..Len(history) : history'[i] = history[i]
            /\ history'[new] = m
            /\ \A q \in Request, rl \in {"user", "assistant"} :
                 Places(q, rl)' = Places(q, rl) \cup
                   (IF m.req = q /\ m.role = rl THEN {new} ELSE {})
        BY <3>2, AppendPlaces DEF TypeInv
      <4>2. m.req = r /\ m.role = role /\ m.agent = plan[r][1]
        OBVIOUS
      <4>3. \A q \in Request, rl \in {"user", "assistant"} :
              Places(q, rl) \subseteq 1..Len(history)
        BY DEF Places, TypeInv, TypeOK
      <4>4. Len(history) \in Nat
        BY DEF TypeInv, TypeOK
      <4> HIDE DEF m, new
      <4>5. ASSUME NEW q \in Request, q # r PROVE PairInv!(q)'
        BY <2>2, <3>2, <4>1, <4>2, <4>3, <4>5 DEF PairInv, TypeInv, TypeOK
      <4>6. PairInv!(r)'
        <5>1. CASE role = "user"
          <6>1. Places(r, "user") = {} /\ Places(r, "assistant") = {}
            BY <2>2, <5>1 DEF PairInv, Early
          <6>2. Places(r, "user")' = {new} /\ Places(r, "assistant")' = {}
            BY <4>1, <4>2, <5>1, <6>1
          <6>3. pc'[r] \notin Early /\ history'[new].agent = plan'[r][1]
            BY <2>2, <4>1, <4>2, <5>1
          <6> QED BY <6>2, <6>3 DEF PairInv
        <5>2. CASE role = "assistant"
          <6>1. pc[r] = "answer" /\ pc'[r] = "done"
            BY <2>2, <5>2
          <6>2. Places(r, "assistant") = {} /\ pc'[r] \notin Early \cup Answering
            BY <6>1 DEF PairInv, Early, Answering
          <6>3. Places(r, "user")' = Places(r, "user") /\ Places(r, "assistant")' = {new}
            BY <4>1, <4>2, <5>2, <6>2
          <6>4. r \in unsaved \/ \E j \in Places(r, "user") : history[j].agent = plan[r][1]
            BY <6>1 DEF PairInv, Answering
          <6>5. r \in unsaved' \/ \E j \in Places(r, "user")' :
                                  j < new /\ history'[j].agent = history'[new].agent
            BY <3>2, <4>1, <4>2, <4>3, <4>4, <6>3, <6>4 DEF new
          <6>6. \A i, j \in Places(r, "user") : i = j
            BY DEF PairInv
          <6> QED BY <6>1, <6>2, <6>3, <6>5, <6>6 DEF PairInv
        <5> QED BY <5>1, <5>2
      <4> QED BY <4>5, <4>6 DEF PairInv
    <3> QED BY <2>2, <3>1, <3>2, SaveExtends DEF TypeInv
  <2>3. CASE SaveQuestion(r)
    BY <2>2, <2>3 DEF SaveQuestion, Goto, Early, TypeInv, TypeOK, Planned
  <2>4. CASE SaveAnswer(r)
    BY <2>2, <2>4 DEF SaveAnswer, Ends, Answer, Goto, TypeInv, TypeOK, Planned
  <2> QED BY <1>3, <2>1, <2>3, <2>4, OtherStepsAreStill
<1> QED BY <1>1, <1>2, <1>3 DEF Next

LEMMA AtMostOne ==
  ASSUME NEW S, \A i, j \in S : i = j
  PROVE  Cardinality(S) <= 1
<1>1. CASE S = {}
  BY <1>1, FS_EmptySet
<1>2. CASE S # {}
  <2>1. PICK x \in S : TRUE
    BY <1>2
  <2>2. S = {x}
    BY <2>1
  <2> QED BY <2>2, FS_Singleton
<1> QED BY <1>1, <1>2

\* Whatever the requests of a session interleave, questions and answers are
\* saved once and in pairs.
THEOREM HistoryStaysPaired == Spec => []HistoryPaired
<1>1. Init => PairInv
  BY DEF Init, PairInv, Places, Early, Answering
<1>2. Spec => [](TypeInv /\ PairInv)
  BY <1>1, InitTypeInv, NextTypeInv, NextPairInv, PTL DEF Spec
<1>3. PairInv => HistoryPaired
  BY AtMostOne DEF PairInv, HistoryPaired
<1> QED BY <1>2, <1>3, PTL

-----------------------------------------------------------------------------
(* Refusals *)

Uncalled == {"new", "entry", "classify", "save", "opening", "opened", "streaming"}

\* Calls run only while their request waits for them, and none of them was refused
\* where the request goes on to an answer.
CallsInv ==
  \A r \in Request :
    /\ pc[r] \in Uncalled => calls[r] = <<>>
    /\ pc[r] \in {"synthesize", "explain", "answer"} => AllEnded(r) /\ ~Some(r, "refused")
    /\ pc[r] = "done" => AllEnded(r) /\ (Some(r, "refused") => outcome[r] = "blocked")

LEMMA OtherRequestsUntouched ==
  ASSUME TypeInv, NEW r \in Request, RequestStep(r), NEW q \in Request, q # r
  PROVE  pc'[q] = pc[q] /\ calls'[q] = calls[q] /\ outcome'[q] = outcome[q]
<1> USE DEF Goto, Answer, Ends, Fail, FallBack, Route, Start, TypeInv, TypeOK
<1>1. CASE Arrive(r) \/ OverBudget(r) \/ Refuse(r)
  BY <1>1 DEF Arrive, OverBudget, Refuse
<1>2. CASE Admit(r)
  BY <1>2 DEF Admit
<1>3. CASE Classify(r)
  BY <1>3 DEF Classify
<1>4. CASE ClassifyFails(r) \/ SynthesisFails(r)
  BY <1>4 DEF ClassifyFails, SynthesisFails
<1>5. CASE SaveQuestion(r) \/ SaveAnswer(r)
  BY <1>5 DEF SaveQuestion, SaveAnswer
<1>6. CASE AgentEnds(r)
  BY <1>6 DEF AgentEnds
<1>7. CASE JoinRefused(r) \/ JoinInvestigation(r)
  BY <1>7 DEF JoinRefused, JoinInvestigation
<1>8. CASE JoinSingle(r) \/ JoinFanOut(r)
  BY <1>8 DEF JoinSingle, JoinFanOut
<1>9. CASE Synthesize(r)
  BY <1>9 DEF Synthesize
<1>10. CASE OpenStream(r) \/ StreamBegins(r) \/ StreamEnds(r)
  BY <1>10 DEF OpenStream, StreamBegins, StreamEnds
<1> QED BY <1>1, <1>2, <1>3, <1>4, <1>5, <1>6, <1>7, <1>8, <1>9, <1>10 DEF RequestStep

LEMMA NextCallsInv == TypeInv /\ CallsInv /\ [Next]_vars => CallsInv'
<1> SUFFICES ASSUME TypeInv, CallsInv, [Next]_vars PROVE CallsInv'
  OBVIOUS
<1>1. CASE UNCHANGED vars
  BY <1>1 DEF CallsInv, AllEnded, Some, vars, requestVars
<1>2. CASE BudgetExpires
  BY <1>2 DEF CallsInv, AllEnded, Some, BudgetExpires, requestVars
<1>3. ASSUME NEW r \in Request, RequestStep(r) PROVE CallsInv'
  <2>1. ASSUME NEW q \in Request, q # r PROVE CallsInv!(q)'
    BY <1>3, <2>1, OtherRequestsUntouched DEF CallsInv, AllEnded, Some
  <2>2. CallsInv!(r)'
    <3> USE DEF Goto, Answer, Ends, Fail, FallBack, Route, TypeInv, TypeOK
    <3>1. CASE UNCHANGED calls
      <4>1. AllEnded(r)' = AllEnded(r) /\ Some(r, "refused")' = Some(r, "refused")
        BY <3>1 DEF AllEnded, Some
      <4>2. pc[r] \in Uncalled => calls[r] = <<>> /\ AllEnded(r) /\ ~Some(r, "refused")
        BY DEF CallsInv, AllEnded, Some
      <4>3. pc[r] \in {"synthesize", "explain", "answer"} => AllEnded(r) /\ ~Some(r, "refused")
        BY DEF CallsInv
      <4>4. CASE Arrive(r) \/ OverBudget(r) \/ Refuse(r)
        BY <3>1, <4>1, <4>2, <4>4 DEF Arrive, OverBudget, Refuse, Uncalled
      <4>5. CASE Admit(r) \/ Classify(r) \/ ClassifyFails(r)
        <5>1. /\ pc[r] \in Uncalled
              /\ pc'[r] \in {"entry", "classify", "save", "investigating", "done"}
          BY <4>5 DEF Admit, Classify, ClassifyFails, Uncalled
        <5> QED BY <3>1, <4>1, <4>2, <5>1 DEF Uncalled
      <4>6. CASE SaveQuestion(r)
        <5>1. pc[r] \in Uncalled /\ pc'[r] \in {"opening", "calling"}
          BY <4>6 DEF SaveQuestion, Uncalled
        <5> QED BY <3>1, <4>1, <4>2, <5>1 DEF Uncalled
      <4>7. CASE JoinRefused(r)
        BY <3>1, <4>1, <4>7 DEF JoinRefused, Uncalled
      <4>8. CASE JoinSingle(r)
        <5>1. AllEnded(r) /\ ~Some(r, "refused") /\ pc'[r] \in {"done", "answer"}
          BY <4>8 DEF JoinSingle
        <5> QED BY <4>1, <5>1 DEF Uncalled
      <4>9. CASE JoinFanOut(r) \/ JoinInvestigation(r)
        <5>1. AllEnded(r) /\ ~Some(r, "refused") /\ pc'[r] \in {"synthesize", "answer", "explain"}
          BY <4>9 DEF JoinFanOut, JoinInvestigation
        <5> QED BY <4>1, <5>1 DEF Uncalled
      <4>10. CASE Synthesize(r) \/ SynthesisFails(r) \/ SaveAnswer(r)
        <5>1. /\ pc[r] \in {"synthesize", "explain", "answer"}
              /\ pc'[r] \in {"answer", "done"}
          BY <4>10 DEF Synthesize, SynthesisFails, SaveAnswer
        <5> QED BY <4>1, <4>3, <5>1 DEF Uncalled
      <4>11. CASE OpenStream(r) \/ StreamBegins(r) \/ StreamEnds(r)
        <5>1. pc[r] \in Uncalled /\ pc'[r] \in {"opened", "streaming", "done"}
          BY <4>11 DEF OpenStream, StreamBegins, StreamEnds, Uncalled
        <5> QED BY <3>1, <4>1, <4>2, <5>1 DEF Uncalled
      <4>12. CASE AgentEnds(r)
        BY <4>12 DEF AgentEnds, Uncalled
      <4> QED BY <1>3, <4>4, <4>5, <4>6, <4>7, <4>8, <4>9, <4>10, <4>11, <4>12 DEF RequestStep
    <3>2. CASE ~UNCHANGED calls
      <4>1. (Admit(r) /\ pc'[r] = "investigating") \/ (SaveQuestion(r) /\ pc'[r] = "calling")
              \/ AgentEnds(r)
        BY <1>3, <3>2 DEF RequestStep, Arrive, OverBudget, Refuse, Admit, Classify, ClassifyFails,
             SaveQuestion, JoinRefused, JoinSingle, JoinFanOut, JoinInvestigation, Synthesize,
             SynthesisFails, SaveAnswer, OpenStream, StreamBegins, StreamEnds
      <4>2. pc'[r] \in {"calling", "investigating"}
        BY <4>1 DEF AgentEnds
      <4> QED BY <4>2 DEF Uncalled
    <3> QED BY <3>1, <3>2
  <2> QED BY <2>1, <2>2 DEF CallsInv
<1> QED BY <1>1, <1>2, <1>3 DEF Next

\* Once a call of a request was refused, no answer of the request is saved.
UnsavedInv == \A r \in Request : Places(r, "assistant") # {} => pc[r] = "done" /\ ~Some(r, "refused")

LEMMA NextUnsavedInv == TypeInv /\ CallsInv /\ UnsavedInv /\ [Next]_vars => UnsavedInv'
<1> SUFFICES ASSUME TypeInv, CallsInv, UnsavedInv, [Next]_vars PROVE UnsavedInv'
  OBVIOUS
<1>1. CASE UNCHANGED vars
  BY <1>1 DEF UnsavedInv, Places, Some, vars, requestVars
<1>2. CASE BudgetExpires
  BY <1>2 DEF UnsavedInv, Places, Some, BudgetExpires, requestVars
<1>3. ASSUME NEW r \in Request, RequestStep(r) PROVE UnsavedInv'
  <2>1. ASSUME \A q \in Request \ {r} : Places(q, "assistant")' = Places(q, "assistant"),
               Places(r, "assistant")' = Places(r, "assistant"), pc[r] # "done"
        PROVE  UnsavedInv'
    BY <1>3, <2>1, OtherRequestsUntouched DEF UnsavedInv, Some
  <2>2. CASE StillStep(r)
    BY <2>1, <2>2 DEF StillStep, Places
  <2>3. ASSUME NEW role \in {"user", "assistant"}, Save(r, role), plan[r] # <<>>
        PROVE  /\ \A q \in Request \ {r} : Places(q, "assistant")' = Places(q, "assistant")
               /\ role = "user" => Places(r, "assistant")' = Places(r, "assistant")
    <3> DEFINE m == [agent |-> plan[r][1], role |-> role, req |-> r]
    <3>1. CASE history' = history
      BY <3>1 DEF Places
    <3>2. CASE history' = Append(history, m) /\ m \in Message
      <4>1. \A q \in Request : Places(q, "assistant")' = Places(q, "assistant") \cup
               (IF m.req = q /\ m.role = "assistant" THEN {Len(history) + 1} ELSE {})
        BY <3>2, AppendPlaces DEF TypeInv
      <4>2. m.req = r /\ m.role = role
        OBVIOUS
      <4> HIDE DEF m
      <4> QED BY <4>1, <4>2
    <3> QED BY <2>3, <3>1, <3>2, SaveExtends DEF TypeInv
  <2>4. CASE SaveQuestion(r)
    BY <2>1, <2>3, <2>4 DEF SaveQuestion, TypeInv, Planned
  <2>5. CASE SaveAnswer(r)
    <3>1. Save(r, "assistant") /\ plan[r] # <<>> /\ pc[r] = "answer"
      BY <2>5 DEF SaveAnswer, TypeInv, Planned
    <3>2. pc'[r] = "done" /\ calls' = calls
      BY <2>5 DEF SaveAnswer, Ends, Answer, Goto, TypeInv, TypeOK
    <3>3. ~Some(r, "refused")'
      BY <3>1, <3>2 DEF CallsInv, Some
    <3>4. \A q \in Request \ {r} : Places(q, "assistant")' = Places(q, "assistant")
      BY <2>3, <3>1
    <3>5. ASSUME NEW q \in Request \ {r}, Places(q, "assistant")' # {}
          PROVE  pc'[q] = "done" /\ ~Some(q, "refused")'
      BY <1>3, <3>4, <3>5, OtherRequestsUntouched DEF UnsavedInv, Some
    <3> QED BY <3>2, <3>3, <3>5 DEF UnsavedInv
  <2> QED BY <1>3, <2>2, <2>4, <2>5, OtherStepsAreStill
<1> QED BY <1>1, <1>2, <1>3 DEF Next

\* A refusal of any agent refuses the request, after all its calls have ended,
\* for any number of agents.
THEOREM RefusalAlwaysWins == Spec => []RefusalWins
<1>1. Init => CallsInv /\ UnsavedInv
  BY DEF Init, CallsInv, UnsavedInv, Places
<1>2. Spec => [](TypeInv /\ CallsInv /\ UnsavedInv)
  BY <1>1, InitTypeInv, NextTypeInv, NextCallsInv, NextUnsavedInv, PTL DEF Spec
<1>3. CallsInv /\ UnsavedInv => RefusalWins
  BY DEF CallsInv, UnsavedInv, RefusalWins
<1> QED BY <1>2, <1>3, PTL

-----------------------------------------------------------------------------
(* Recursive definitions: induction, and the values they have *)

(* The form of induction used here: a least counterexample is none. *)
LEMMA LeastNat ==
  ASSUME NEW S, S \subseteq Nat, S # {}
  PROVE  \E m \in S : \A k \in S : m <= k
<1> DEFINE R == OpToRel(<, Nat)
<1>1. IsWellFoundedOn(R, Nat)
  BY NatLessThanWellFounded
<1>2. \A k, m \in Nat : <<k, m>> \in R <=> k < m
  BY DEF OpToRel
<1> HIDE DEF R
<1>3. \E m \in S : \A k \in S : ~(<<k, m>> \in R)
  BY <1>1, WFMin
<1>4. PICK m \in S : \A k \in S : ~(<<k, m>> \in R)
  BY <1>3
<1>5. ASSUME NEW k \in S
      PROVE  m <= k
  <2>1. k \in Nat /\ m \in Nat
    OBVIOUS
  <2>2. ~(k < m)
    BY <1>2, <1>4, <2>1
  <2> QED
    BY <2>1, <2>2
<1> QED
  BY <1>5

\* u iterates f, a function of the step and of the value before it, from x.
Iterates(u, N, x, f) == u[0] = x /\ \A k \in 1..N : u[k] = f[<<k, u[k - 1]>>]

(* Such a function can be iterated as often as one wishes. *)
LEMMA IterationExists ==
  ASSUME NEW N \in Nat, NEW S, NEW x \in S, NEW f \in [Nat \X S -> S]
  PROVE  \E u \in [0..N -> S] : Iterates(u, N, x, f)
<1> DEFINE Good(m) == \E u \in [0..m -> S] : Iterates(u, m, x, f)
           Bad == {m \in Nat : ~Good(m)}
<1> SUFFICES ASSUME Bad # {}
             PROVE  FALSE
  OBVIOUS
<1>1. PICK m \in Bad : \A k \in Bad : m <= k
  BY LeastNat
<1>2. Good(0)
  <2>1. [k \in 0..0 |-> x] \in [0..0 -> S] /\ [k \in 0..0 |-> x][0] = x
    OBVIOUS
  <2>2. \A k \in 1..0 : FALSE
    OBVIOUS
  <2> QED
    BY <2>1, <2>2 DEF Iterates
<1>3. m # 0
  BY <1>2
<1>4. m \in Nat /\ m - 1 \in Nat /\ ~(m <= m - 1)
  BY <1>3
<1>5. Good(m - 1)
  BY <1>1, <1>4
<1>6. PICK u \in [0..m - 1 -> S] : u[0] = x /\ \A k \in 1..m - 1 : u[k] = f[<<k, u[k - 1]>>]
  BY <1>5 DEF Iterates
<1> DEFINE v == [k \in 0..m |-> IF k = m THEN f[<<m, u[m - 1]>>] ELSE u[k]]
<1>7. v \in [0..m -> S]
  <2>1. u[m - 1] \in S /\ f[<<m, u[m - 1]>>] \in S
    BY <1>4, <1>6
  <2>2. \A k \in 0..m : k # m => u[k] \in S
    BY <1>4, <1>6
  <2> QED
    BY <2>1, <2>2
<1>8. v[0] = x
  BY <1>3, <1>4, <1>6
<1>9. \A k \in 1..m : v[k] = f[<<k, v[k - 1]>>]
  <2> SUFFICES ASSUME NEW k \in 1..m
               PROVE  v[k] = f[<<k, v[k - 1]>>]
    OBVIOUS
  <2>1. v[k - 1] = u[k - 1]
    BY <1>4
  <2>2. CASE k = m
    BY <2>1, <2>2, <1>4
  <2>3. CASE k # m
    BY <2>1, <2>3, <1>4, <1>6
  <2> QED
    BY <2>2, <2>3
<1>10. Good(m)
  BY <1>7, <1>8, <1>9 DEF Iterates
<1> QED
  BY <1>10

-----------------------------------------------------------------------------
(* What the prompts show of the history *)

LEMMA TokensType == Tokens \in [{"user", "assistant"} -> Nat \ {0}]
BY ConversationAssumption

\* The walk of truncate_history_by_tokens from the last message back.
Walks(w, s) ==
  /\ w[0] = 0
  /\ \A k \in 1..Len(s) : w[k] = w[k - 1] + Tokens[s[Len(s) + 1 - k].role]

LEMMA CostWalk ==
  ASSUME NEW s \in Seq(Message)
  PROVE  \E w \in [0..Len(s) -> Nat] : Walks(w, s) /\ Cost(s) = w[Len(s)]
<1> DEFINE n == Len(s)
           token(k) == Tokens[s[Len(s) + 1 - k].role]
           f == [a \in Nat \X Nat |-> IF a[1] \in 1..n THEN a[2] + token(a[1]) ELSE a[2]]
           Total(u) == u = [k \in 0..n |-> IF k = 0 THEN 0 ELSE u[k - 1] + token(k)]
           w == CHOOSE u : Total(u)
<1>1. n \in Nat
  BY LenProperties
<1>2. \A k \in 1..n : token(k) \in Nat
  <2> SUFFICES ASSUME NEW k \in 1..n
               PROVE  token(k) \in Nat
    OBVIOUS
  <2>1. n + 1 - k \in 1..n
    BY <1>1
  <2>2. s[n + 1 - k] \in Message
    BY <2>1, ElementOfSeq
  <2>3. s[n + 1 - k].role \in {"user", "assistant"}
    BY <2>2 DEF Message
  <2> QED
    BY <2>3, TokensType
<1>3. Cost(s) = w[n]
  BY DEF Cost
<1> HIDE DEF n, token
<1>4. f \in [Nat \X Nat -> Nat] /\ \A k \in 1..n, c \in Nat : f[<<k, c>>] = c + token(k)
  <2>1. \A k \in 1..n : k \in Nat
    BY <1>1
  <2> QED
    BY <1>2, <2>1
<1> HIDE DEF f
<1>5. PICK u \in [0..n -> Nat] : Iterates(u, n, 0, f)
  BY <1>1, <1>4, IterationExists
<1>6. u[0] = 0 /\ \A k \in 1..n : u[k] = u[k - 1] + token(k)
  <2>1. ASSUME NEW k \in 1..n
        PROVE  u[k] = u[k - 1] + token(k)
    <3>1. k - 1 \in 0..n
      BY <1>1
    <3>2. u[k - 1] \in Nat
      BY <3>1
    <3> QED
      BY <1>4, <1>5, <3>2 DEF Iterates
  <2> QED
    BY <1>5, <2>1 DEF Iterates
<1>7. Total(u)
  <2>1. u = [k \in 0..n |-> u[k]]
    OBVIOUS
  <2>2. \A k \in 0..n : k # 0 => k \in 1..n
    BY <1>1
  <2> QED
    BY <1>6, <2>1, <2>2
<1>8. Total(w)
  BY <1>7
<1> HIDE DEF w
<1>9. w[0] = 0 /\ \A k \in 1..n : w[k] = w[k - 1] + token(k)
  <2>1. 0 \in 0..n /\ \A k \in 1..n : k \in 0..n /\ k # 0
    BY <1>1
  <2> QED
    BY <1>8, <2>1
<1>10. \A k \in Nat : k <= n => w[k] \in Nat
  <2> DEFINE Bad == {k \in Nat : k <= n /\ w[k] \notin Nat}
  <2> SUFFICES ASSUME Bad # {}
               PROVE  FALSE
    OBVIOUS
  <2>1. PICK m \in Bad : \A k \in Bad : m <= k
    BY LeastNat
  <2>2. m \in 1..n /\ m - 1 \in Nat /\ m - 1 <= n /\ ~(m <= m - 1)
    BY <1>1, <1>9
  <2>3. w[m - 1] \in Nat
    BY <2>1, <2>2
  <2> QED
    BY <1>2, <1>9, <2>2, <2>3
<1>11. w \in [0..n -> Nat]
  <2>1. \A k \in 0..n : k \in Nat /\ k <= n
    BY <1>1
  <2>2. \A k \in 0..n : w[k] \in Nat
    BY <1>10, <2>1
  <2> QED
    BY <1>8, <2>2
<1>12. Walks(w, s)
  BY <1>9 DEF Walks, token, n
<1> QED
  BY <1>3, <1>11, <1>12 DEF n

LEMMA CostOfNone == Cost(<<>>) = 0
<1>1. <<>> \in Seq(Message) /\ Len(<<>>) = 0
  BY EmptySeq
<1>2. PICK w \in [0..Len(<<>>) -> Nat] : Walks(w, <<>>) /\ Cost(<<>>) = w[Len(<<>>)]
  BY <1>1, CostWalk
<1> QED
  BY <1>1, <1>2 DEF Walks

\* The messages from place t on.
Latest(s, t) == SubSeq(s, t, Len(s))

LEMMA LatestIs ==
  ASSUME NEW S, NEW s \in Seq(S), NEW t \in 1..Len(s) + 1
  PROVE  /\ Latest(s, t) \in Seq(S) /\ Len(s) \in Nat
         /\ Len(Latest(s, t)) = Len(s) + 1 - t
         /\ \A k \in 1..Len(s) + 1 - t : Latest(s, t)[k] = s[t + k - 1]
<1>1. Len(s) \in Nat
  BY LenProperties
<1>2. t \in 1..Len(s) + 1 /\ Len(s) \in t - 1..Len(s)
  BY <1>1
<1> QED
  BY <1>1, <1>2, SubSeqProperties DEF Latest

LEMMA CostOfOneMore ==
  ASSUME NEW s \in Seq(Message), NEW t \in 1..Len(s)
  PROVE  /\ Cost(Latest(s, t)) = Cost(Latest(s, t + 1)) + Tokens[s[t].role]
         /\ Cost(Latest(s, t + 1)) \in Nat
<1> DEFINE n == Len(s)
           a == Latest(s, t)
           b == Latest(s, t + 1)
           L == n - t
<1>1. n \in Nat /\ t \in 1..n + 1 /\ t + 1 \in 1..n + 1 /\ L \in Nat /\ t \in Nat
  BY LenProperties
<1>2. a \in Seq(Message) /\ Len(a) = L + 1 /\ \A k \in 1..L + 1 : a[k] = s[t + k - 1]
  <2>1. /\ a \in Seq(Message) /\ Len(a) = n + 1 - t
        /\ \A k \in 1..n + 1 - t : a[k] = s[t + k - 1]
    BY <1>1, LatestIs
  <2>2. n + 1 - t = L + 1
    BY <1>1
  <2> QED
    BY <2>1, <2>2
<1>3. b \in Seq(Message) /\ Len(b) = L /\ \A k \in 1..L : b[k] = s[t + k]
  <2>1. /\ b \in Seq(Message) /\ Len(b) = n + 1 - (t + 1)
        /\ \A k \in 1..n + 1 - (t + 1) : b[k] = s[t + 1 + k - 1]
    BY <1>1, LatestIs
  <2>2. n + 1 - (t + 1) = L /\ \A k \in 1..L : t + 1 + k - 1 = t + k
    BY <1>1
  <2> HIDE DEF b
  <2> QED
    BY <2>1, <2>2
<1> HIDE DEF a, b, L, n
<1>4. PICK v \in [0..L + 1 -> Nat] : Walks(v, a) /\ Cost(a) = v[L + 1]
  BY <1>2, CostWalk
<1>5. PICK w \in [0..L -> Nat] : Walks(w, b) /\ Cost(b) = w[L]
  BY <1>3, CostWalk
<1>6. \A k \in Nat : k <= L => v[k] = w[k]
  <2> DEFINE Bad == {k \in Nat : k <= L /\ v[k] # w[k]}
  <2> SUFFICES ASSUME Bad # {}
               PROVE  FALSE
    OBVIOUS
  <2>1. PICK m \in Bad : \A k \in Bad : m <= k
    BY LeastNat
  <2>2. m \in 1..L /\ m - 1 \in Nat /\ m - 1 <= L /\ ~(m <= m - 1)
    BY <1>1, <1>4, <1>5 DEF Walks
  <2>3. v[m - 1] = w[m - 1]
    BY <2>1, <2>2
  <2>4. L + 2 - m \in 1..L + 1 /\ L + 1 - m \in 1..L /\ m \in 1..L + 1
    BY <1>1, <2>2
  <2>5. a[L + 2 - m] = b[L + 1 - m]
    <3>1. t + (L + 2 - m) - 1 = t + (L + 1 - m)
      BY <1>1, <2>2
    <3> QED
      BY <1>2, <1>3, <2>4, <3>1
  <2>6. v[m] = v[m - 1] + Tokens[a[L + 2 - m].role]
    <3>1. L + 1 + 1 - m = L + 2 - m
      BY <1>1, <2>2
    <3> QED
      BY <1>2, <1>4, <2>4, <3>1 DEF Walks
  <2>7. w[m] = w[m - 1] + Tokens[b[L + 1 - m].role]
    BY <1>3, <1>5, <2>2 DEF Walks
  <2> QED
    BY <2>3, <2>5, <2>6, <2>7
<1>7. v[L] = w[L]
  BY <1>1, <1>6
<1>8. v[L + 1] = v[L] + Tokens[s[t].role]
  <2> DEFINE m == L + 1
  <2>1. m \in 1..m /\ m - 1 = L /\ m + 1 - m = 1 /\ 1 \in 1..m /\ t + 1 - 1 = t
    BY <1>1
  <2>2. Len(a) = m /\ a[1] = s[t]
    BY <1>2, <2>1
  <2>3. \A k \in 1..m : v[k] = v[k - 1] + Tokens[a[m + 1 - k].role]
    BY <1>4, <2>2 DEF Walks
  <2> HIDE DEF m
  <2>4. v[m] = v[L] + Tokens[a[1].role]
    BY <2>1, <2>3
  <2> QED
    BY <2>2, <2>4 DEF m
<1>9. w[L] \in Nat
  BY <1>1
<1> QED
  BY <1>4, <1>5, <1>7, <1>8, <1>9 DEF a, b

(* The cut keeps the latest messages that fit, and one more would not. *)
LEMMA Truncated ==
  ASSUME NEW s \in Seq(Message), NEW window \in Nat
  PROVE  \E t \in 1..Len(s) + 1 :
           /\ TruncateByTokens(s, window) = Latest(s, t)
           /\ Cost(Latest(s, t)) <= window
           /\ t > 1 => Cost(Latest(s, t)) + Tokens[s[t - 1].role] > window
<1> DEFINE n == Len(s)
           fits == {i \in 1..n + 1 : Cost(SubSeq(s, i, n)) <= window}
           t == Min(fits)
<1>1. n \in Nat
  BY LenProperties
<1>2. n + 1 \in fits
  <2>1. SubSeq(s, n + 1, n) = <<>>
    BY <1>1, SubSeqEmpty
  <2>2. 0 <= window /\ n + 1 \in 1..n + 1
    BY <1>1
  <2> QED
    BY <2>1, <2>2, CostOfNone
<1>3. TruncateByTokens(s, window) = SubSeq(s, t, n)
  BY DEF TruncateByTokens
<1>4. fits \subseteq Nat /\ \A i \in fits : i \in 1..n + 1 /\ Cost(Latest(s, i)) <= window
  BY <1>1 DEF Latest
<1>5. \A i \in 1..n + 1 : Cost(Latest(s, i)) <= window => i \in fits
  BY DEF Latest
<1> HIDE DEF fits
<1>6. \E m \in fits : \A k \in fits : m <= k
  BY <1>2, <1>4, LeastNat
<1>7. t \in fits /\ \A k \in fits : t <= k
  BY <1>6 DEF Min
<1> HIDE DEF t
<1>8. t \in 1..n + 1 /\ Cost(Latest(s, t)) <= window
  BY <1>4, <1>7
<1>9. ASSUME t > 1
      PROVE  Cost(Latest(s, t)) + Tokens[s[t - 1].role] > window
  <2>1. t - 1 \in 1..n /\ t - 1 \in 1..n + 1 /\ ~(t <= t - 1) /\ t - 1 + 1 = t
    BY <1>1, <1>8, <1>9
  <2>2. ~(Cost(Latest(s, t - 1)) <= window)
    BY <1>5, <1>7, <2>1
  <2>3. /\ Cost(Latest(s, t - 1)) = Cost(Latest(s, t - 1 + 1)) + Tokens[s[t - 1].role]
        /\ Cost(Latest(s, t - 1 + 1)) \in Nat
    BY <2>1, CostOfOneMore
  <2>4. Tokens[s[t - 1].role] \in Nat
    <3>1. s[t - 1] \in Message
      BY <2>1, ElementOfSeq
    <3> QED
      BY <3>1, TokensType DEF Message
  <2> QED
    BY <2>1, <2>2, <2>3, <2>4
<1> QED
  BY <1>3, <1>8, <1>9 DEF Latest

\* The filter of fetch_chat, message by message.
Keeps(w, agent) ==
  /\ w[0] = <<>>
  /\ \A k \in 1..Len(history) :
       w[k] = IF history[k].agent = agent THEN Append(w[k - 1], history[k]) ELSE w[k - 1]

LEMMA OfKeeps ==
  ASSUME history \in Seq(Message), NEW agent
  PROVE  \E w \in [0..Len(history) -> Seq(Message)] :
           Keeps(w, agent) /\ Of(agent) = w[Len(history)]
<1> DEFINE n == Len(history)
           S == Seq(Message)
           next(k, q) == IF history[k].agent = agent THEN Append(q, history[k]) ELSE q
           f == [a \in Nat \X S |-> IF a[1] \in 1..n THEN next(a[1], a[2]) ELSE a[2]]
           Kept(u) == u = [k \in 0..n |-> IF k = 0 THEN <<>> ELSE
                             IF history[k].agent = agent THEN Append(u[k - 1], history[k])
                                                         ELSE u[k - 1]]
           w == CHOOSE u : Kept(u)
<1>1. n \in Nat /\ <<>> \in S
  BY LenProperties, EmptySeq
<1>2. \A k \in 1..n, q \in S : next(k, q) \in S
  <2> SUFFICES ASSUME NEW k \in 1..n, NEW q \in S
               PROVE  next(k, q) \in S
    OBVIOUS
  <2>1. history[k] \in Message
    BY ElementOfSeq
  <2> QED
    BY <2>1, AppendProperties
<1>3. Of(agent) = w[n]
  BY DEF Of
<1>4. \A u : Kept(u) <=> u = [k \in 0..n |-> IF k = 0 THEN <<>> ELSE next(k, u[k - 1])]
  OBVIOUS
<1>5. \A k, q : next(k, q) = IF history[k].agent = agent THEN Append(q, history[k]) ELSE q
  OBVIOUS
<1> HIDE DEF n, next, S, Kept
<1>6. f \in [Nat \X S -> S] /\ \A k \in 1..n, q \in S : f[<<k, q>>] = next(k, q)
  <2>1. \A k \in 1..n : k \in Nat
    BY <1>1
  <2> QED
    BY <1>2, <2>1
<1> HIDE DEF f
<1>7. PICK u \in [0..n -> S] : Iterates(u, n, <<>>, f)
  BY <1>1, <1>6, IterationExists
<1>8. u[0] = <<>> /\ \A k \in 1..n : u[k] = next(k, u[k - 1])
  <2>1. ASSUME NEW k \in 1..n
        PROVE  u[k] = next(k, u[k - 1])
    <3>1. k - 1 \in 0..n
      BY <1>1
    <3>2. u[k - 1] \in S
      BY <3>1
    <3> QED
      BY <1>6, <1>7, <3>2 DEF Iterates
  <2> QED
    BY <1>7, <2>1 DEF Iterates
<1>9. Kept(u)
  <2>1. u = [k \in 0..n |-> u[k]]
    OBVIOUS
  <2>2. \A k \in 0..n : k # 0 => k \in 1..n
    BY <1>1
  <2>3. \A k \in 0..n : u[k] = IF k = 0 THEN <<>> ELSE next(k, u[k - 1])
    BY <1>8, <2>2
  <2> QED
    BY <1>4, <2>1, <2>3
<1>10. Kept(w)
  BY <1>9
<1> HIDE DEF w
<1>11. w = [k \in 0..n |-> IF k = 0 THEN <<>> ELSE next(k, w[k - 1])]
  BY <1>4, <1>10
<1>12. w[0] = <<>> /\ \A k \in 1..n : w[k] = next(k, w[k - 1])
  <2>1. 0 \in 0..n /\ \A k \in 1..n : k \in 0..n /\ k # 0
    BY <1>1
  <2> QED
    BY <1>11, <2>1
<1>13. \A k \in Nat : k <= n => w[k] \in S
  <2> DEFINE Bad == {k \in Nat : k <= n /\ w[k] \notin S}
  <2> SUFFICES ASSUME Bad # {}
               PROVE  FALSE
    OBVIOUS
  <2>1. PICK m \in Bad : \A k \in Bad : m <= k
    BY LeastNat
  <2>2. m \in 1..n /\ m - 1 \in Nat /\ m - 1 <= n /\ ~(m <= m - 1)
    BY <1>1, <1>12
  <2>3. w[m - 1] \in S
    BY <2>1, <2>2
  <2>4. w[m] \in S
    BY <1>2, <1>12, <2>2, <2>3
  <2> QED
    BY <2>4
<1>14. w \in [0..n -> S]
  <2>1. \A k \in 0..n : k \in Nat /\ k <= n
    BY <1>1
  <2>2. \A k \in 0..n : w[k] \in S
    BY <1>13, <2>1
  <2> QED
    BY <1>11, <2>2
<1>15. Keeps(w, agent)
  BY <1>5, <1>12 DEF Keeps, n
<1> QED
  BY <1>3, <1>14, <1>15 DEF n, S

\* q lists the agent's messages among the first m; place says where each stands.
Lists(q, place, agent, m) ==
  /\ \A k \in 1..Len(q) : place[k] \in 1..m /\ q[k] = history[place[k]] /\ q[k].agent = agent
  /\ \A k, l \in 1..Len(q) : k < l => place[k] < place[l]
  /\ \A i \in 1..m : history[i].agent = agent => \E k \in 1..Len(q) : place[k] = i

LEMMA OfLists ==
  ASSUME history \in Seq(Message), NEW agent
  PROVE  /\ Of(agent) \in Seq(Message)
         /\ \E place : Lists(Of(agent), place, agent, Len(history))
<1> DEFINE n == Len(history)
<1>1. PICK w \in [0..n -> Seq(Message)] : Keeps(w, agent) /\ Of(agent) = w[n]
  BY OfKeeps
<1>2. n \in Nat
  BY LenProperties
<1>3. w[0] = <<>> /\ \A k \in 1..n : w[k] = IF history[k].agent = agent
                                          THEN Append(w[k - 1], history[k]) ELSE w[k - 1]
  BY <1>1 DEF Keeps
<1> HIDE DEF n
<1> DEFINE Good(m) == \E place : Lists(w[m], place, agent, m)
           Bad == {m \in Nat : m <= n /\ ~Good(m)}
<1>4. Bad = {}
  <2> SUFFICES ASSUME Bad # {}
               PROVE  FALSE
    OBVIOUS
  <2>1. PICK m \in Bad : \A k \in Bad : m <= k
    BY LeastNat
  <2>2. Good(0)
    <3>1. Len(w[0]) = 0 /\ \A k \in 1..0 : FALSE
      BY <1>3, EmptySeq
    <3>2. Lists(w[0], <<>>, agent, 0)
      BY <3>1 DEF Lists
    <3> QED
      BY <3>2
  <2>3. m \in 1..n /\ m - 1 \in 0..n /\ m - 1 \in Nat /\ m - 1 <= n /\ ~(m <= m - 1)
    BY <1>2, <2>2
  <2>4. PICK place : Lists(w[m - 1], place, agent, m - 1)
    BY <2>1, <2>3
  <2> DEFINE q == w[m - 1]
             l == Len(q)
  <2>5. q \in Seq(Message) /\ l \in Nat
    BY <2>3, LenProperties
  <2>6. CASE history[m].agent # agent
    <3>1. w[m] = q
      BY <1>3, <2>3, <2>6
    <3>2. \A i \in 1..m : history[i].agent = agent => i \in 1..m - 1
      BY <2>3, <2>6
    <3>3. 1..m - 1 \subseteq 1..m
      BY <2>3
    <3>4. Lists(q, place, agent, m)
      BY <2>4, <3>2, <3>3 DEF Lists
    <3> QED
      BY <3>1, <3>4
  <2>7. CASE history[m].agent = agent
    <3> DEFINE more == [k \in 1..l + 1 |-> IF k = l + 1 THEN m ELSE place[k]]
    <3>1. w[m] = Append(q, history[m])
      BY <1>3, <2>3, <2>7
    <3>2. Len(w[m]) = l + 1 /\ w[m][l + 1] = history[m] /\ \A k \in 1..l : w[m][k] = q[k]
      <4>1. history[m] \in Message
        BY <2>3, ElementOfSeq DEF n
      <4> QED
        BY <2>5, <3>1, <4>1, AppendProperties
    <3>3. /\ l + 1 \in 1..l + 1 /\ \A k \in 1..l : k \in 1..l + 1 /\ k # l + 1
          /\ \A k \in 1..l + 1 : k = l + 1 \/ k \in 1..l
      BY <2>5
    <3>4. more[l + 1] = m /\ \A k \in 1..l : more[k] = place[k]
      BY <3>3
    <3> HIDE DEF more, q, l
    <3>5. \A k \in 1..l : place[k] \in 1..m - 1 /\ place[k] \in 1..m /\ place[k] < m
      <4>1. \A k \in 1..l : place[k] \in 1..m - 1
        BY <2>4 DEF Lists, q, l
      <4>2. \A i \in 1..m - 1 : i \in 1..m /\ i < m
        BY <2>3
      <4> QED
        BY <4>1, <4>2
    <3>6. ASSUME NEW k \in 1..l + 1
          PROVE  more[k] \in 1..m /\ w[m][k] = history[more[k]] /\ w[m][k].agent = agent
      <4>1. CASE k = l + 1
        BY <2>3, <2>7, <3>2, <3>4, <4>1
      <4>2. CASE k \in 1..l
        <5>1. q[k] = history[place[k]] /\ q[k].agent = agent
          BY <2>4, <4>2 DEF Lists, q, l
        <5> QED
          BY <3>2, <3>4, <3>5, <4>2, <5>1
      <4> QED
        BY <3>3, <4>1, <4>2
    <3>7. ASSUME NEW j \in 1..l + 1, NEW k \in 1..l + 1, j < k
          PROVE  more[j] < more[k]
      <4>1. j \in 1..l
        BY <2>5, <3>7
      <4>2. CASE k = l + 1
        BY <3>4, <3>5, <4>1, <4>2
      <4>3. CASE k \in 1..l
        <5>1. place[j] < place[k]
          BY <2>4, <3>7, <4>1, <4>3 DEF Lists, q, l
        <5> QED
          BY <3>4, <4>1, <4>3, <5>1
      <4> QED
        BY <3>3, <4>2, <4>3
    <3>8. ASSUME NEW i \in 1..m, history[i].agent = agent
          PROVE  \E k \in 1..l + 1 : more[k] = i
      <4>1. CASE i = m
        BY <3>3, <3>4, <4>1
      <4>2. CASE i # m
        <5>1. i \in 1..m - 1
          BY <2>3, <4>2
        <5>2. PICK k \in 1..l : place[k] = i
          BY <2>4, <3>8, <5>1 DEF Lists, q, l
        <5> QED
          BY <3>3, <3>4, <5>2
      <4> QED
        BY <4>1, <4>2
    <3>9. Lists(w[m], more, agent, m)
      BY <3>2, <3>6, <3>7, <3>8 DEF Lists
    <3> QED
      BY <3>9
  <2> QED
    BY <2>6, <2>7
<1>5. Good(n)
  <2>1. n \in Nat /\ n <= n
    BY <1>2
  <2> HIDE DEF Good
  <2> QED
    BY <1>4, <2>1
<1>6. n \in 0..n
  BY <1>2
<1> QED
  BY <1>1, <1>5, <1>6 DEF n

\* In s the messages of the agent are those of q, side by side after the first b.
Block(s, q, b, agent) ==
  /\ \A k \in 1..Len(q) : b + k \in 1..Len(s) /\ s[b + k] = q[k]
  /\ \A i \in 1..Len(s) : s[i].agent = agent => i - b \in 1..Len(q)

\* No message is in the history twice.
Distinct == \A i, j \in 1..Len(history) : history[i] = history[j] => i = j

LEMMA HistoryDistinct == TypeOK /\ PairInv => Distinct
<1> SUFFICES ASSUME TypeOK, PairInv, NEW i \in 1..Len(history), NEW j \in 1..Len(history),
                    history[i] = history[j]
             PROVE  i = j
  BY DEF Distinct
<1>1. history[i] \in Message /\ DOMAIN history = 1..Len(history)
  BY ElementOfSeq, LenProperties DEF TypeOK
<1> DEFINE r == history[i].req
           role == history[i].role
<1>2. r \in Request /\ role \in {"user", "assistant"}
  BY <1>1 DEF Message
<1>3. i \in Places(r, role) /\ j \in Places(r, role)
  BY <1>1 DEF Places
<1> HIDE DEF r, role
<1> QED
  BY <1>2, <1>3 DEF PairInv

\* A message's place is the one it was saved at.
LEMMA AtPlace ==
  ASSUME history \in Seq(Message), Distinct, NEW i \in 1..Len(history)
  PROVE  At(history[i]) = i
<1>1. DOMAIN history = 1..Len(history)
  BY LenProperties
<1> QED
  BY <1>1 DEF At, Distinct

(* What of an agent's messages is hidden by a prompt that shows the end of s. *)
LEMMA HiddenBefore ==
  ASSUME history \in Seq(Message), Distinct, NEW agent, NEW s \in Seq(Message),
         NEW q \in Seq(Message), NEW place, Lists(q, place, agent, Len(history)),
         NEW b \in Nat, Block(s, q, b, agent), NEW t \in 1..Len(s) + 1,
         NEW k \in 1..Len(q)
  PROVE  place[k] \in Hidden(agent, Latest(s, t)) <=> b + k < t
<1> DEFINE P == Latest(s, t)
<1>1. /\ Len(s) \in Nat /\ Len(P) = Len(s) + 1 - t /\ DOMAIN P = 1..Len(P)
      /\ \A i \in 1..Len(P) : P[i] = s[t + i - 1]
  <2>1. /\ P \in Seq(Message) /\ Len(s) \in Nat /\ Len(P) = Len(s) + 1 - t
        /\ \A i \in 1..Len(s) + 1 - t : P[i] = s[t + i - 1]
    BY LatestIs
  <2> HIDE DEF P
  <2> QED
    BY <2>1, LenProperties
<1>2. /\ place[k] \in DOMAIN history /\ history[place[k]] = q[k] /\ q[k].agent = agent
      /\ place[k] \in 1..Len(history)
  BY LenProperties DEF Lists
<1>3. b + k \in 1..Len(s) /\ s[b + k] = q[k] /\ k \in Nat
  BY LenProperties DEF Block
<1>4. place[k] \in Hidden(agent, P) <=> \A i \in 1..Len(P) : P[i] # q[k]
  BY <1>1, <1>2 DEF Hidden, Own
<1>5. ASSUME ~(b + k < t)
      PROVE  place[k] \notin Hidden(agent, P)
  <2> DEFINE i == b + k + 1 - t
  <2>1. i \in 1..Len(P) /\ t + i - 1 = b + k
    BY <1>1, <1>3, <1>5
  <2>2. P[i] = q[k]
    BY <1>1, <1>3, <2>1
  <2> QED
    BY <1>4, <2>1, <2>2
<1>6. ASSUME b + k < t
      PROVE  place[k] \in Hidden(agent, P)
  <2> SUFFICES ASSUME NEW i \in 1..Len(P), P[i] = q[k]
               PROVE  FALSE
    BY <1>4
  <2> DEFINE x == t + i - 1
             l == x - b
  <2>1. x \in 1..Len(s) /\ P[i] = s[x] /\ x >= t
    BY <1>1
  <2>2. l \in 1..Len(q)
    BY <1>2, <2>1 DEF Block
  <2>3. b + l = x /\ l \in Nat
    BY <2>1, <2>2, LenProperties
  <2>4. s[x] = q[l]
    BY <2>2, <2>3 DEF Block
  <2>5. q[l] = history[place[l]] /\ place[l] \in 1..Len(history)
    BY <2>2 DEF Lists
  <2>6. place[l] = place[k]
    BY <1>2, <2>1, <2>4, <2>5 DEF Distinct
  <2> HIDE DEF l, x
  <2>7. l > k
    BY <1>3, <1>6, <2>1, <2>3
  <2>8. place[k] < place[l]
    BY <2>2, <2>7 DEF Lists
  <2>9. place[k] \in Nat
    BY <1>2
  <2> QED
    BY <2>6, <2>8, <2>9
<1> QED
  BY <1>5, <1>6

(* A prompt that shows the end of s shows the latest messages of the agent. *)
LEMMA BlockShowsRecent ==
  ASSUME history \in Seq(Message), Distinct, NEW agent, NEW s \in Seq(Message),
         NEW q \in Seq(Message), NEW place, Lists(q, place, agent, Len(history)),
         NEW b \in Nat, Block(s, q, b, agent), NEW t \in 1..Len(s) + 1
  PROVE  ShowsRecent(Latest(s, t), agent)
<1> DEFINE P == Latest(s, t)
<1>1. /\ Len(s) \in Nat /\ Len(P) = Len(s) + 1 - t /\ DOMAIN P = 1..Len(P)
      /\ \A i \in 1..Len(P) : P[i] = s[t + i - 1]
  <2>1. /\ P \in Seq(Message) /\ Len(s) \in Nat /\ Len(P) = Len(s) + 1 - t
        /\ \A i \in 1..Len(s) + 1 - t : P[i] = s[t + i - 1]
    BY LatestIs
  <2> HIDE DEF P
  <2> QED
    BY <2>1, LenProperties
<1>2. ASSUME NEW i \in 1..Len(P), P[i].agent = agent
      PROVE  /\ t + i - 1 - b \in 1..Len(q)
             /\ At(P[i]) = place[t + i - 1 - b]
  <2> DEFINE x == t + i - 1
             l == x - b
  <2>1. x \in 1..Len(s) /\ P[i] = s[x]
    BY <1>1
  <2>2. l \in 1..Len(q)
    BY <1>2, <2>1 DEF Block
  <2>3. b + l = x
    BY <2>1, <2>2
  <2>4. s[x] = q[l]
    BY <2>2, <2>3 DEF Block
  <2>5. q[l] = history[place[l]] /\ place[l] \in 1..Len(history)
    BY <2>2 DEF Lists
  <2>6. At(history[place[l]]) = place[l]
    BY <2>5, AtPlace
  <2> QED
    BY <2>1, <2>2, <2>4, <2>5, <2>6
<1>3. ASSUME NEW i \in 1..Len(P), NEW j \in 1..Len(P), P[i].agent = agent, P[j].agent = agent,
             i < j
      PROVE  At(P[i]) < At(P[j])
  <2>1. t + i - 1 - b < t + j - 1 - b
    BY <1>1, <1>3
  <2>2. place[t + i - 1 - b] < place[t + j - 1 - b]
    BY <1>2, <1>3, <2>1 DEF Lists
  <2> QED
    BY <1>2, <1>3, <2>2
<1>4. ASSUME NEW i \in Hidden(agent, P), NEW j \in Own(agent) \ Hidden(agent, P)
      PROVE  i < j
  <2>1. /\ i \in 1..Len(history) /\ history[i].agent = agent
        /\ j \in 1..Len(history) /\ history[j].agent = agent
    BY LenProperties DEF Hidden, Own
  <2>2. PICK k \in 1..Len(q) : place[k] = i
    BY <2>1 DEF Lists
  <2>3. PICK l \in 1..Len(q) : place[l] = j
    BY <2>1 DEF Lists
  <2>4. b + k < t /\ ~(b + l < t)
    BY <1>4, <2>2, <2>3, HiddenBefore
  <2>5. k < l
    BY <1>1, <2>4, LenProperties
  <2> QED
    BY <2>2, <2>3, <2>5 DEF Lists
<1> HIDE DEF P
<1>5. ShowsRecent(P, agent)
  BY <1>1, <1>3, <1>4 DEF ShowsRecent
<1> QED
  BY <1>5 DEF P

\* The messages of the first i agents of the roster, each agent's side by side.
Rows(s, i) ==
  /\ s \in Seq(Message)
  /\ \A l \in 1..i : \E b \in Nat : Block(s, Of(Roster[l]), b, Roster[l])
  /\ \A x \in 1..Len(s) : \E l \in 1..i : s[x].agent = Roster[l]

LEMMA RowsOfOne ==
  ASSUME history \in Seq(Message), 1 \in 1..Len(Roster)
  PROVE  Rows(Of(Roster[1]), 1)
<1> DEFINE a == Roster[1]
           q == Of(a)
<1>1. q \in Seq(Message) /\ \E place : Lists(q, place, a, Len(history))
  BY OfLists
<1>2. PICK place : Lists(q, place, a, Len(history))
  BY <1>1
<1>3. \A k \in 1..Len(q) : q[k].agent = a /\ 0 + k = k /\ k - 0 = k
  BY <1>2 DEF Lists
<1>4. Block(q, q, 0, a)
  BY <1>3 DEF Block
<1>5. \A l \in 1..1 : l = 1
  OBVIOUS
<1>6. 0 \in Nat /\ 1 \in 1..1
  OBVIOUS
<1> QED
  BY <1>1, <1>3, <1>4, <1>5, <1>6 DEF Rows

LEMMA RowsOfOneMore ==
  ASSUME history \in Seq(Message), NEW i \in Nat, i >= 1, i + 1 \in 1..Len(Roster),
         NEW s, Rows(s, i)
  PROVE  Rows(s \o Of(Roster[i + 1]), i + 1)
<1> DEFINE a == Roster[i + 1]
           q == Of(a)
           more == s \o q
           n == Len(s)
<1>1. q \in Seq(Message) /\ \E place : Lists(q, place, a, Len(history))
  BY OfLists
<1>2. s \in Seq(Message)
  BY DEF Rows
<1>3. /\ more \in Seq(Message) /\ n \in Nat /\ Len(q) \in Nat /\ Len(more) = n + Len(q)
      /\ \A x \in 1..n : more[x] = s[x]
      /\ \A k \in 1..Len(q) : more[n + k] = q[k]
  <2>1. n \in Nat /\ Len(q) \in Nat
    BY <1>1, <1>2, LenProperties
  <2>2. /\ more \in Seq(Message) /\ Len(more) = n + Len(q)
        /\ \A x \in 1..n + Len(q) : more[x] = IF x <= n THEN s[x] ELSE q[x - n]
    BY <1>1, <1>2, ConcatProperties
  <2>3. \A x \in 1..n : x \in 1..n + Len(q) /\ x <= n
    BY <2>1
  <2>4. \A k \in 1..Len(q) : n + k \in 1..n + Len(q) /\ ~(n + k <= n) /\ n + k - n = k
    BY <2>1
  <2> HIDE DEF more, n, q
  <2> QED
    BY <2>1, <2>2, <2>3, <2>4
<1>4. \A k \in 1..Len(q) : q[k].agent = a
  BY <1>1 DEF Lists
<1>5. \A l \in 1..i : Roster[l] # a
  <2>1. \A l \in 1..i : l \in DOMAIN Roster /\ l # i + 1
    BY SupervisorAssumption, LenProperties
  <2>2. i + 1 \in DOMAIN Roster
    BY SupervisorAssumption, LenProperties
  <2> QED
    BY <2>1, <2>2, ConversationAssumption
<1>6. \A x \in 1..n : \E l \in 1..i : s[x].agent = Roster[l]
  BY DEF Rows
<1>7. \A x \in 1..Len(more) : x \in 1..n \/ (x - n \in 1..Len(q) /\ n + (x - n) = x)
  BY <1>3
<1> HIDE DEF q, more, n, a
<1>8. Block(more, q, n, a)
  <2>1. ASSUME NEW k \in 1..Len(q)
        PROVE  n + k \in 1..Len(more) /\ more[n + k] = q[k]
    BY <1>3
  <2>2. ASSUME NEW x \in 1..Len(more), more[x].agent = a
        PROVE  x - n \in 1..Len(q)
    BY <1>3, <1>5, <1>6, <1>7, <2>2
  <2> QED
    BY <2>1, <2>2 DEF Block
<1>9. ASSUME NEW l \in 1..i
      PROVE  \E b \in Nat : Block(more, Of(Roster[l]), b, Roster[l])
  <2>1. PICK b \in Nat : Block(s, Of(Roster[l]), b, Roster[l])
    BY DEF Rows
  <2>2. \A x \in 1..n : x \in 1..Len(more)
    BY <1>3
  <2>3. ASSUME NEW k \in 1..Len(Of(Roster[l]))
        PROVE  b + k \in 1..Len(more) /\ more[b + k] = Of(Roster[l])[k]
    <3>1. b + k \in 1..n /\ s[b + k] = Of(Roster[l])[k]
      BY <2>1 DEF Block, n
    <3> QED
      BY <1>3, <2>2, <3>1
  <2>4. ASSUME NEW x \in 1..Len(more), more[x].agent = Roster[l]
        PROVE  x - b \in 1..Len(Of(Roster[l]))
    <3>1. x \in 1..n
      <4>1. CASE x - n \in 1..Len(q) /\ n + (x - n) = x
        <5>1. more[x].agent = a
          BY <1>3, <1>4, <4>1
        <5> QED
          BY <1>5, <2>4, <5>1
      <4> QED
        BY <1>7, <4>1
    <3>2. s[x].agent = Roster[l]
      BY <1>3, <2>4, <3>1
    <3> QED
      BY <2>1, <3>1, <3>2 DEF Block, n
  <2>5. Block(more, Of(Roster[l]), b, Roster[l])
    BY <2>3, <2>4 DEF Block
  <2> QED
    BY <2>5
<1>10. ASSUME NEW x \in 1..Len(more)
       PROVE  \E l \in 1..i + 1 : more[x].agent = Roster[l]
  <2>1. i + 1 \in 1..i + 1 /\ \A l \in 1..i : l \in 1..i + 1
    OBVIOUS
  <2>2. CASE x \in 1..n
    BY <1>3, <1>6, <2>1, <2>2
  <2>3. CASE x - n \in 1..Len(q) /\ n + (x - n) = x
    BY <1>3, <1>4, <2>1, <2>3 DEF a
  <2> QED
    BY <1>7, <2>2, <2>3
<1>11. \A l \in 1..i + 1 : l \in 1..i \/ l = i + 1
  OBVIOUS
<1>12. ASSUME NEW l \in 1..i + 1
       PROVE  \E b \in Nat : Block(more, Of(Roster[l]), b, Roster[l])
  BY <1>3, <1>8, <1>9, <1>11 DEF a, q
<1>13. Rows(more, i + 1)
  BY <1>3, <1>10, <1>12 DEF Rows
<1> QED
  BY <1>13 DEF more, q, a

\* The partition of a session, in the order of its sort key.
Partition == FlattenSeq([i \in DOMAIN Roster |-> Of(Roster[i])])

LEMMA PartitionRows ==
  ASSUME history \in Seq(Message)
  PROVE  Rows(Partition, Len(Roster))
<1> DEFINE n == Len(Roster)
           rows == [i \in DOMAIN Roster |-> Of(Roster[i])]
           S == Seq(Message)
           f == [a \in Nat \X S |-> IF a[1] + 1 \in 1..n THEN a[2] \o Of(Roster[a[1] + 1])
                                                        ELSE a[2]]
           Flat(u) == u = [i \in 1..Len(rows) |-> IF i = 1 THEN rows[i] ELSE u[i - 1] \o rows[i]]
           w == CHOOSE u : Flat(u)
<1>1. DOMAIN Roster = 1..n /\ n \in Nat /\ 1 \in 1..n /\ n >= 1
  <2>1. Roster \in Seq(Agent) /\ Roster # <<>>
    BY SupervisorAssumption
  <2>2. DOMAIN Roster = 1..n /\ n \in Nat /\ n # 0
    BY <2>1, LenProperties, EmptySeq
  <2> QED
    BY <2>2
<1>2. Len(rows) = n /\ \A i \in 1..n : rows[i] = Of(Roster[i])
  <2>1. rows \in Seq(S)
    <3>1. \A i \in 1..n : rows[i] \in S
      BY <1>1, OfLists
    <3> QED
      BY <1>1, <3>1, SeqDef
  <2>2. DOMAIN rows = 1..n /\ \A i \in 1..n : rows[i] = Of(Roster[i])
    BY <1>1
  <2> HIDE DEF rows
  <2>3. DOMAIN rows = 1..Len(rows) /\ Len(rows) \in Nat
    BY <2>1, LenProperties
  <2> QED
    BY <1>1, <2>2, <2>3
<1>3. Partition = w[n]
  <2>1. Len(rows) = n /\ ~(Len(rows) = 0)
    BY <1>1, <1>2
  <2> HIDE DEF n
  <2> QED
    BY <2>1 DEF Partition, FlattenSeq
<1>4. \A i \in 1..n : Of(Roster[i]) \in S
  BY OfLists
<1>5. \A u : Flat(u) <=> u = [i \in 1..n |-> IF i = 1 THEN rows[i] ELSE u[i - 1] \o rows[i]]
  BY <1>2
<1> HIDE DEF Flat, rows, n, S
<1>6. /\ f \in [Nat \X S -> S]
      /\ \A k \in Nat, q \in S : k + 1 \in 1..n => f[<<k, q>>] = q \o Of(Roster[k + 1])
  <2>1. \A q, r \in S : q \o r \in S
    BY ConcatProperties DEF S
  <2> QED
    BY <1>4, <2>1
<1> HIDE DEF f
<1>7. Of(Roster[1]) \in S
  BY <1>1, <1>4
<1>8. PICK v \in [0..n -> S] : Iterates(v, n, Of(Roster[1]), f)
  BY <1>1, <1>6, <1>7, IterationExists
<1> DEFINE u == [i \in 1..n |-> v[i - 1]]
<1>9. u[1] = rows[1] /\ \A i \in 1..n : i # 1 => u[i] = u[i - 1] \o rows[i]
  <2>1. u[1] = rows[1]
    <3>1. 1 - 1 = 0
      OBVIOUS
    <3> QED
      BY <1>1, <1>2, <1>8, <3>1 DEF Iterates
  <2>2. ASSUME NEW i \in 1..n, i # 1
        PROVE  u[i] = u[i - 1] \o rows[i]
    <3> DEFINE k == i - 1
    <3>1. k \in 1..n /\ k \in Nat /\ k - 1 \in 0..n /\ k - 1 \in Nat /\ k + 1 = i /\ i \in 1..n
      BY <1>1, <2>2
    <3> HIDE DEF k
    <3>2. v[k] = f[<<k, v[k - 1]>>] /\ v[k - 1] \in S
      BY <1>8, <3>1 DEF Iterates
    <3>3. v[k] = v[k - 1] \o Of(Roster[i])
      BY <1>6, <3>1, <3>2
    <3>4. u[i] = v[k] /\ u[k] = v[k - 1]
      BY <3>1 DEF k
    <3> QED
      BY <1>2, <3>3, <3>4 DEF k
  <2> QED
    BY <2>1, <2>2
<1>10. Flat(u)
  <2>1. \A i \in 1..n : u[i] = IF i = 1 THEN rows[i] ELSE u[i - 1] \o rows[i]
    BY <1>9
  <2>2. u = [i \in 1..n |-> u[i]]
    OBVIOUS
  <2> HIDE DEF u
  <2> QED
    BY <1>5, <2>1, <2>2
<1>11. Flat(w)
  BY <1>10
<1> HIDE DEF w
<1>12. w[1] = Of(Roster[1]) /\ \A i \in 1..n : i # 1 => w[i] = w[i - 1] \o Of(Roster[i])
  <2>1. w = [i \in 1..n |-> IF i = 1 THEN rows[i] ELSE w[i - 1] \o rows[i]]
    BY <1>5, <1>11
  <2> QED
    BY <1>1, <1>2, <2>1
<1>13. \A i \in Nat : 1 <= i /\ i <= n => Rows(w[i], i)
  <2> DEFINE Bad == {i \in Nat : 1 <= i /\ i <= n /\ ~Rows(w[i], i)}
  <2> SUFFICES ASSUME Bad # {}
               PROVE  FALSE
    OBVIOUS
  <2>1. PICK m \in Bad : \A i \in Bad : m <= i
    BY LeastNat
  <2>2. m # 1
    BY <1>1, <1>12, RowsOfOne DEF n
  <2>3. /\ m \in 1..n /\ m - 1 \in Nat /\ 1 <= m - 1 /\ m - 1 <= n /\ ~(m <= m - 1)
        /\ m - 1 >= 1 /\ m - 1 + 1 = m
    BY <1>1, <2>2
  <2>4. Rows(w[m - 1], m - 1)
    BY <2>1, <2>3
  <2>5. w[m] = w[m - 1] \o Of(Roster[m])
    BY <1>12, <2>2, <2>3
  <2> DEFINE k == m - 1
  <2>6. k \in Nat /\ k >= 1 /\ k + 1 \in 1..Len(Roster) /\ Rows(w[k], k) /\ k + 1 = m
    BY <2>3, <2>4 DEF n
  <2> HIDE DEF k
  <2>7. Rows(w[k] \o Of(Roster[k + 1]), k + 1)
    BY <2>6, RowsOfOneMore
  <2>8. Rows(w[m], m)
    BY <2>5, <2>6, <2>7 DEF k
  <2> QED
    BY <2>8
<1> QED
  BY <1>1, <1>3, <1>13 DEF n

\* A page is the end of what it is a page of.
LEMMA PageIsLatest ==
  ASSUME NEW s \in Seq(Message), NEW limit \in Nat
  PROVE  \E t \in 1..Len(s) + 1 :
           /\ LastPage(s, limit) = Latest(s, t)
           /\ Len(Latest(s, t)) <= limit
           /\ t > 1 => Len(Latest(s, t)) = limit
<1> DEFINE n == Len(s)
           t == IF n > limit THEN n - limit + 1 ELSE 1
<1>1. n \in Nat /\ t \in 1..n + 1
  <2>1. n \in Nat
    BY LenProperties
  <2> HIDE DEF n
  <2> QED
    BY <2>1
<1>2. LastPage(s, limit) = Latest(s, t)
  BY DEF LastPage, Latest
<1>3. Len(Latest(s, t)) = n + 1 - t
  BY <1>1, LatestIs
<1>4. n + 1 - t <= limit /\ (t > 1 => n + 1 - t = limit)
  <2> HIDE DEF n
  <2> QED
    BY <1>1
<1> HIDE DEF t
<1> QED
  BY <1>1, <1>2, <1>3, <1>4

LEMMA LatestOfLatest ==
  ASSUME NEW s \in Seq(Message), NEW t \in 1..Len(s) + 1, NEW u \in 1..Len(Latest(s, t)) + 1
  PROVE  /\ t + u - 1 \in 1..Len(s) + 1
         /\ Latest(Latest(s, t), u) = Latest(s, t + u - 1)
<1> DEFINE P == Latest(s, t)
           Q == Latest(P, u)
           R == Latest(s, t + u - 1)
           n == Len(s)
<1>1. /\ P \in Seq(Message) /\ n \in Nat /\ Len(P) = n + 1 - t
      /\ \A k \in 1..n + 1 - t : P[k] = s[t + k - 1]
  BY LatestIs
<1>2. u \in 1..Len(P) + 1 /\ t \in 1..n + 1
  OBVIOUS
<1> HIDE DEF P
<1>3. t + u - 1 \in 1..n + 1
  BY <1>1, <1>2
<1>4. /\ Q \in Seq(Message) /\ Len(Q) = Len(P) + 1 - u
      /\ \A k \in 1..Len(P) + 1 - u : Q[k] = P[u + k - 1]
  BY <1>1, <1>2, LatestIs
<1>5. /\ R \in Seq(Message) /\ Len(R) = n + 1 - (t + u - 1)
      /\ \A k \in 1..n + 1 - (t + u - 1) : R[k] = s[t + u - 1 + k - 1]
  BY <1>3, LatestIs
<1> HIDE DEF Q, R
<1>6. n + 1 - (t + u - 1) = Len(P) + 1 - u
  BY <1>1, <1>2
<1>7. ASSUME NEW k \in 1..Len(Q)
      PROVE  Q[k] = R[k]
  <2>1. /\ u + k - 1 \in 1..n + 1 - t /\ k \in 1..Len(P) + 1 - u
        /\ t + (u + k - 1) - 1 = t + u - 1 + k - 1
    BY <1>1, <1>2, <1>4
  <2>2. Q[k] = s[t + (u + k - 1) - 1]
    BY <1>1, <1>4, <2>1
  <2>3. R[k] = s[t + u - 1 + k - 1]
    BY <1>5, <1>6, <2>1
  <2> QED
    BY <2>1, <2>2, <2>3
<1>8. Q = R
  BY <1>4, <1>5, <1>6, <1>7, SeqEqual
<1> QED
  BY <1>3, <1>8 DEF P, Q, R

\* What AgentSeesRecent says of one agent.
SeesRecent(agent) ==
  LET prompt == AgentPrompt(agent)
      hidden == Hidden(agent, prompt)
  IN  /\ \A i \in DOMAIN prompt : prompt[i].agent = agent
      /\ ShowsRecent(prompt, agent)
      /\ Len(prompt) <= AgentLimit /\ Cost(prompt) <= AgentTokens
      /\ \A i \in hidden : (\A j \in hidden : j <= i) =>
           Len(prompt) = AgentLimit \/ Cost(prompt) + Tokens[history[i].role] > AgentTokens

LEMMA ClassifierSees ==
  ASSUME history \in Seq(Message), Distinct, NEW agent \in Agent
  PROVE  ShowsRecent(ClassifierPrompt, agent)
<1> DEFINE s == Partition
           page == LastPage(s, SessionLimit)
<1>1. Rows(s, Len(Roster))
  BY PartitionRows
<1>2. s \in Seq(Message)
  BY <1>1 DEF Rows
<1>3. PICK l \in 1..Len(Roster) : agent = Roster[l]
  BY SupervisorAssumption, LenProperties DEF Agent
<1>4. PICK b \in Nat : Block(s, Of(agent), b, agent)
  BY <1>1, <1>3 DEF Rows
<1>5. SessionLimit \in Nat /\ ClassifierTokens \in Nat
  BY ConversationAssumption
<1>6. ClassifierPrompt = TruncateByTokens(page, ClassifierTokens)
  BY DEF ClassifierPrompt, FetchAllChats, Partition
<1> HIDE DEF s
<1>7. PICK t \in 1..Len(s) + 1 : page = Latest(s, t)
  BY <1>2, <1>5, PageIsLatest
<1>8. page \in Seq(Message)
  BY <1>2, <1>7, LatestIs
<1>9. PICK u \in 1..Len(page) + 1 : TruncateByTokens(page, ClassifierTokens) = Latest(page, u)
  BY <1>5, <1>8, Truncated
<1>10. t + u - 1 \in 1..Len(s) + 1 /\ Latest(Latest(s, t), u) = Latest(s, t + u - 1)
  BY <1>2, <1>7, <1>9, LatestOfLatest
<1>11. Of(agent) \in Seq(Message) /\ \E place : Lists(Of(agent), place, agent, Len(history))
  BY OfLists
<1>12. ShowsRecent(Latest(s, t + u - 1), agent)
  BY <1>2, <1>4, <1>10, <1>11, BlockShowsRecent
<1> QED
  BY <1>6, <1>7, <1>9, <1>10, <1>12

LEMMA AgentSees ==
  ASSUME history \in Seq(Message), Distinct, NEW agent \in Agent
  PROVE  SeesRecent(agent)
<1> DEFINE s == Of(agent)
           page == LastPage(s, AgentLimit)
           prompt == AgentPrompt(agent)
           hidden == Hidden(agent, prompt)
<1>1. s \in Seq(Message) /\ \E place : Lists(s, place, agent, Len(history))
  BY OfLists
<1>2. PICK place : Lists(s, place, agent, Len(history))
  BY <1>1
<1>3. Len(s) \in Nat /\ \A k \in 1..Len(s) : s[k].agent = agent /\ 0 + k = k /\ k - 0 = k
  BY <1>1, <1>2, LenProperties DEF Lists
<1>4. Block(s, s, 0, agent)
  BY <1>3 DEF Block
<1>5. AgentLimit \in Nat /\ AgentTokens \in Nat /\ 0 \in Nat
  BY ConversationAssumption
<1>6. prompt = TruncateByTokens(page, AgentTokens)
  BY DEF AgentPrompt, FetchChat
<1> HIDE DEF s, prompt
<1>61. \E t \in 1..Len(s) + 1 :
         /\ page = Latest(s, t)
         /\ Len(Latest(s, t)) <= AgentLimit
         /\ t > 1 => Len(Latest(s, t)) = AgentLimit
  BY <1>1, <1>5, PageIsLatest
<1> HIDE DEF page
<1>7. PICK t \in 1..Len(s) + 1 :
        /\ page = Latest(s, t)
        /\ Len(Latest(s, t)) <= AgentLimit
        /\ t > 1 => Len(Latest(s, t)) = AgentLimit
  BY <1>61
<1>71. /\ Latest(s, t) \in Seq(Message) /\ Len(Latest(s, t)) = Len(s) + 1 - t
       /\ \A k \in 1..Len(s) + 1 - t : Latest(s, t)[k] = s[t + k - 1]
  BY <1>1, LatestIs
<1>8. page \in Seq(Message)
  BY <1>7, <1>71
<1>9. PICK u \in 1..Len(page) + 1 :
        /\ TruncateByTokens(page, AgentTokens) = Latest(page, u)
        /\ Cost(Latest(page, u)) <= AgentTokens
        /\ u > 1 => Cost(Latest(page, u)) + Tokens[page[u - 1].role] > AgentTokens
  BY <1>5, <1>8, Truncated
<1> DEFINE x == t + u - 1
<1>10. x \in 1..Len(s) + 1 /\ Latest(page, u) = Latest(s, x)
  <2>1. u \in 1..Len(Latest(s, t)) + 1
    BY <1>7
  <2>2. x \in 1..Len(s) + 1 /\ Latest(Latest(s, t), u) = Latest(s, t + u - 1)
    BY <1>1, <2>1, LatestOfLatest
  <2> QED
    BY <1>7, <2>2
<1>11. prompt = Latest(s, x) /\ prompt = Latest(page, u)
  BY <1>6, <1>9, <1>10
<1>12. /\ prompt \in Seq(Message) /\ Len(prompt) = Len(s) + 1 - x
       /\ \A k \in 1..Len(s) + 1 - x : prompt[k] = s[x + k - 1]
  <2> HIDE DEF x
  <2>1. /\ Latest(s, x) \in Seq(Message) /\ Len(Latest(s, x)) = Len(s) + 1 - x
        /\ \A k \in 1..Len(s) + 1 - x : Latest(s, x)[k] = s[x + k - 1]
    BY <1>1, <1>10, LatestIs
  <2> QED
    BY <1>11, <2>1
<1>13. Len(page) = Len(s) + 1 - t /\ Len(page) \in Nat
  <2>1. Len(page) \in Nat
    BY <1>8, LenProperties
  <2> QED
    BY <1>7, <1>71, <2>1
<1>14. t \in 1..Len(s) + 1 /\ u \in 1..Len(page) + 1 /\ x = t + u - 1
  OBVIOUS
<1> HIDE DEF x
<1>15. \A i \in DOMAIN prompt : prompt[i].agent = agent
  <2> SUFFICES ASSUME NEW i \in 1..Len(prompt)
               PROVE  prompt[i].agent = agent
    BY <1>12, LenProperties
  <2>1. x + i - 1 \in 1..Len(s) /\ prompt[i] = s[x + i - 1]
    BY <1>3, <1>10, <1>12
  <2> QED
    BY <1>3, <2>1
<1>16. ShowsRecent(prompt, agent)
  BY <1>1, <1>2, <1>4, <1>5, <1>10, <1>11, BlockShowsRecent
<1>18. Len(prompt) <= AgentLimit
  <2>1. Len(page) <= AgentLimit
    BY <1>7
  <2> QED
    BY <1>3, <1>5, <1>12, <1>13, <1>14, <2>1
<1>19. Cost(prompt) <= AgentTokens
  BY <1>9, <1>11
<1>20. ASSUME NEW i \in hidden, \A j \in hidden : j <= i
       PROVE  Len(prompt) = AgentLimit \/ Cost(prompt) + Tokens[history[i].role] > AgentTokens
  <2>1. i \in 1..Len(history) /\ history[i].agent = agent
    BY LenProperties DEF Hidden, Own
  <2>2. PICK k \in 1..Len(s) : place[k] = i
    BY <1>2, <2>1 DEF Lists
  <2>3. \A l \in 1..Len(s) : place[l] \in hidden <=> 0 + l < x
    BY <1>1, <1>2, <1>4, <1>5, <1>10, <1>11, HiddenBefore
  <2>4. k < x /\ k \in Nat
    BY <2>2, <2>3, <1>3
  <2>5. x - 1 \in 1..Len(s) /\ 0 + (x - 1) < x
    BY <1>3, <1>10, <2>4
  <2>6. place[x - 1] \in hidden /\ place[x - 1] \in 1..Len(history)
    BY <1>2, <2>3, <2>5 DEF Lists
  <2>7. k = x - 1
    <3>0. k <= x - 1
      BY <1>3, <1>10, <2>4
    <3> SUFFICES ASSUME k < x - 1
                 PROVE  FALSE
      BY <2>4, <2>5, <3>0
    <3>1. place[k] < place[x - 1]
      BY <1>2, <2>5 DEF Lists
    <3>2. place[x - 1] <= place[k]
      BY <1>20, <2>2, <2>6
    <3>3. place[k] \in Nat /\ place[x - 1] \in Nat
      BY <2>1, <2>2, <2>6
    <3> QED
      BY <3>1, <3>2, <3>3
  <2>8. history[i] = s[x - 1]
    BY <1>2, <2>2, <2>7 DEF Lists
  <2>9. CASE u = 1
    <3>1. t > 1 /\ t = x
      BY <1>13, <1>14, <2>4, <2>9
    <3>2. Len(Latest(s, t)) = AgentLimit
      BY <1>7, <3>1
    <3> QED
      BY <1>11, <3>1, <3>2
  <2>10. CASE u # 1
    <3>1. u > 1 /\ u - 1 \in 1..Len(s) + 1 - t /\ t + (u - 1) - 1 = x - 1
      BY <1>3, <1>13, <1>14, <2>10
    <3>2. page[u - 1] = s[t + (u - 1) - 1]
      BY <1>7, <1>71, <3>1
    <3>3. Cost(prompt) + Tokens[page[u - 1].role] > AgentTokens
      BY <1>9, <1>11, <3>1
    <3> QED
      BY <2>8, <3>1, <3>2, <3>3
  <2> QED
    BY <2>9, <2>10
<1> QED
  BY <1>15, <1>16, <1>18, <1>19, <1>20 DEF SeesRecent, prompt

LEMMA SavedOnce == Spec => [](history \in Seq(Message) /\ Distinct)
<1>1. Init => PairInv
  BY DEF Init, PairInv, Places, Early, Answering
<1>2. TypeInv /\ PairInv => history \in Seq(Message) /\ Distinct
  BY HistoryDistinct DEF TypeInv, TypeOK
<1> QED
  BY <1>1, <1>2, InitTypeInv, NextTypeInv, NextPairInv, PTL DEF Spec

(* Whatever the requests of a session saved in whatever order, an agent's prompt *)
(* shows the most recent of its own messages, as many as the limits allow.       *)
THEOREM AgentsSeeRecent == Spec => []AgentSeesRecent
<1>1. history \in Seq(Message) /\ Distinct => AgentSeesRecent
  BY AgentSees DEF SeesRecent, AgentSeesRecent
<1> QED
  BY <1>1, SavedOnce, PTL

(* The classifier's prompt, cut by two limits from a listing agent by agent, shows *)
(* the most recent messages of each agent, if not the most recent of all.          *)
THEOREM ClassifierSeesEach == Spec => []ClassifierSeesEachRecent
<1>1. history \in Seq(Message) /\ Distinct => ClassifierSeesEachRecent
  BY ClassifierSees DEF ClassifierSeesEachRecent
<1> QED
  BY <1>1, SavedOnce, PTL

-----------------------------------------------------------------------------
(* The evidence of an investigation and its score *)

\* Signals are counted, and there are no more of them than pieces of evidence.
LEMMA CountedSignals ==
  ASSUME NEW s \in Seq(Piece)
  PROVE  CountIndependent(s) \in 0..Len(s)
<1> DEFINE parent == Grouped(s)
           roots == {Root(parent, i) : i \in DOMAIN s}
           f == [i \in DOMAIN s |-> Root(parent, i)]
<1>1. f \in Surjection(DOMAIN s, roots)
  <2> HIDE DEF parent
  <2> QED
    BY DEF Surjection
<1>2. IsFiniteSet(DOMAIN s) /\ Cardinality(DOMAIN s) = Len(s) /\ Len(s) \in Nat
  <2>1. DOMAIN s = 1..Len(s) /\ Len(s) \in Nat
    OBVIOUS
  <2> QED
    BY <2>1, FS_Interval
<1>3. IsFiniteSet(roots) /\ Cardinality(roots) <= Len(s) /\ Cardinality(roots) \in Nat
  <2> HIDE DEF f, roots
  <2> QED
    BY <1>1, <1>2, FS_Surjection, FS_CardinalityType
<1> QED
  BY <1>3 DEF CountIndependent

LEMMA ScoreTypes ==
  ASSUME NEW s \in Seq(Piece)
  PROVE  /\ Score(s)[1] \in {"LOW", "MEDIUM", "HIGH"}
         /\ Score(s)[2] \in {"A", "B", "INSUFFICIENT"}
         /\ Rank(Score(s)[1]) \in 0..2
BY DEF Score, Rank

LEMMA CorrelateTypes ==
  ASSUME NEW s, NEW contradicted \in BOOLEAN
  PROVE  Correlate(s, contradicted) \in 0..2
BY DEF Correlate

\* The result was computed from the evidence that is there.
Concluded ==
  rca # Unset =>
    \E contradicted \in BOOLEAN :
      rca.confidence = Lower(Rank(Score(evidence)[1]), Correlate(evidence, contradicted))

RcaInv == RcaTypeOK /\ Concluded

LEMMA RcaInitInv == RcaInit => RcaInv
BY DEF RcaInit, RcaInv, RcaTypeOK, Concluded

LEMMA RcaNextInv == RcaInv /\ [RcaNext]_rcaVars => RcaInv'
<1> SUFFICES ASSUME RcaInv, [RcaNext]_rcaVars
             PROVE  RcaInv'
  OBVIOUS
<1>1. evidence \in Seq(Piece)
  BY DEF RcaInv, RcaTypeOK
<1>2. ASSUME NEW e \in Piece, Collect(e)
      PROVE  RcaInv'
  BY <1>1, <1>2, AppendProperties DEF Collect, RcaInv, RcaTypeOK, Concluded
<1>3. CASE SynthesizeRca
  <2>1. PICK said \in {{}} \cup {{i} : i \in 1..MaxEvidence} :
          rca' = [confidence |-> Lower(Rank(Score(evidence)[1]),
                                       Correlate(evidence,
                                                 Contradicting(said, evidence) # {})),
                  level |-> Score(evidence)[1],
                  track |-> Score(evidence)[2],
                  independent |-> CountIndependent(evidence),
                  contradicting |-> Contradicting(said, evidence)]
    BY <1>3 DEF SynthesizeRca
  <2>2. evidence' = evidence
    BY <1>3 DEF SynthesizeRca
  <2>3. rca'.confidence \in 0..2
    BY <1>1, <2>1, ScoreTypes, CorrelateTypes DEF Lower
  <2>4. Contradicting(said, evidence) \in SUBSET DOMAIN evidence
    BY DEF Contradicting
  <2>5. RcaTypeOK'
    BY <1>1, <2>1, <2>2, <2>3, <2>4, ScoreTypes, CountedSignals DEF RcaTypeOK
  <2>6. Concluded'
    BY <2>1, <2>2 DEF Concluded
  <2> QED
    BY <2>5, <2>6 DEF RcaInv
<1>4. CASE UNCHANGED rcaVars
  BY <1>4 DEF rcaVars, RcaInv, RcaTypeOK, Concluded
<1> QED
  BY <1>2, <1>3, <1>4 DEF RcaNext

LEMMA RcaInductive == RcaSpec => []RcaInv
BY RcaInitInv, RcaNextInv, PTL DEF RcaSpec

(* A result speaks of evidence there is: it counts no more signals than pieces, and *)
(* what contradicts it are indices of pieces.                                       *)
THEOREM RcaTypeCorrect == RcaSpec => []RcaTypeOK
BY RcaInductive, PTL DEF RcaInv

\* The layers present, the evidence of the mechanism, and what sets evidence aside.
Layers(s) == {s[i].layer : i \in DOMAIN s} \ {Unset}
Mechanisms(s) == {i \in DOMAIN s : s[i].layer = "mechanism"}
Blocked(s) == TemporalViolations(s) # {} \/ \E i \in DOMAIN s : s[i].unexplained
FullCoverage(s) == OrderedLayer \subseteq Layers(s)
TrackB(s) ==
  "change" \notin Layers(s) /\ Cardinality(Mechanisms(s)) >= 2 /\ "impact" \in Layers(s)
Correlated(s) == {"change", "impact", "temporal"} \subseteq Layers(s)

\* The cases of score_confidence, by what they give.
LEMMA ScoreCases ==
  ASSUME NEW s \in Seq(Piece)
  PROVE  Rank(Score(s)[1]) =
           IF Blocked(s) THEN 0
           ELSE IF FullCoverage(s) THEN IF CountIndependent(s) >= 3 THEN 2 ELSE 1
           ELSE IF TrackB(s) \/ Correlated(s) THEN 2
           ELSE IF PartialCoverage(Layers(s)) THEN 1 ELSE 0
<1>1. Score(s)[1] =
        IF Blocked(s) THEN "LOW"
        ELSE IF FullCoverage(s) THEN IF Enough(CountIndependent(s)) THEN "HIGH" ELSE "MEDIUM"
        ELSE IF TrackB(s) \/ Correlated(s) THEN "HIGH"
        ELSE IF PartialCoverage(Layers(s)) THEN "MEDIUM" ELSE "LOW"
  <2>1. CASE Blocked(s)
    BY <2>1 DEF Score, Blocked
  <2>2. CASE ~Blocked(s) /\ FullCoverage(s)
    <3>1. ~TrackB(s)
      BY <2>2 DEF FullCoverage, TrackB, OrderedLayer
    <3> QED
      BY <2>2, <3>1 DEF Score, Blocked, FullCoverage, TrackB, Layers, Mechanisms
  <2>3. CASE ~Blocked(s) /\ ~FullCoverage(s) /\ TrackB(s)
    BY <2>3 DEF Score, Blocked, FullCoverage, TrackB, Layers, Mechanisms
  <2>4. CASE ~Blocked(s) /\ ~FullCoverage(s) /\ ~TrackB(s)
    BY <2>4 DEF Score, Blocked, FullCoverage, TrackB, Correlated, Layers, Mechanisms
  <2> QED
    BY <2>1, <2>2, <2>3, <2>4
<1> QED
  BY <1>1 DEF Rank, Enough

\* One more piece adds its layer and takes none away.
LEMMA OneMorePiece ==
  ASSUME NEW s \in Seq(Piece), NEW e \in Piece
  PROVE  /\ Append(s, e) \in Seq(Piece)
         /\ Layers(Append(s, e)) = Layers(s) \cup ({e.layer} \ {Unset})
         /\ Cardinality(Mechanisms(s)) \in Nat
         /\ Cardinality(Mechanisms(Append(s, e))) \in Nat
         /\ Cardinality(Mechanisms(s)) <= Cardinality(Mechanisms(Append(s, e)))
         /\ PartialCoverage(Layers(s)) => PartialCoverage(Layers(Append(s, e)))
<1> DEFINE more == Append(s, e)
<1>1. /\ more \in Seq(Piece) /\ Len(more) = Len(s) + 1 /\ Len(s) \in Nat
      /\ DOMAIN s = 1..Len(s) /\ DOMAIN more = 1..(Len(s) + 1)
      /\ \A i \in 1..Len(s) : more[i] = s[i]
      /\ more[Len(s) + 1] = e
  BY AppendProperties
<1> HIDE DEF more
<1>2. Layers(more) = Layers(s) \cup ({e.layer} \ {Unset})
  <2>1. ASSUME NEW l \in {more[i].layer : i \in DOMAIN more}
        PROVE  l \in {s[i].layer : i \in DOMAIN s} \cup {e.layer}
    <3>1. PICK i \in 1..(Len(s) + 1) : l = more[i].layer
      BY <1>1, <2>1
    <3>2. i \in 1..Len(s) \/ i = Len(s) + 1
      BY <1>1, <3>1
    <3> QED
      BY <1>1, <3>1, <3>2
  <2>2. ASSUME NEW l \in {s[i].layer : i \in DOMAIN s} \cup {e.layer}
        PROVE  l \in {more[i].layer : i \in DOMAIN more}
    <3>1. Len(s) + 1 \in DOMAIN more /\ \A i \in DOMAIN s : i \in DOMAIN more
      BY <1>1
    <3> QED
      BY <1>1, <2>2, <3>1
  <2> QED
    BY <2>1, <2>2 DEF Layers
<1>3. IsFiniteSet(Mechanisms(s)) /\ IsFiniteSet(Mechanisms(more))
  <2>1. IsFiniteSet(DOMAIN s) /\ IsFiniteSet(DOMAIN more)
    BY <1>1, FS_Interval
  <2>2. Mechanisms(s) \subseteq DOMAIN s /\ Mechanisms(more) \subseteq DOMAIN more
    BY DEF Mechanisms
  <2> QED
    BY <2>1, <2>2, FS_Subset
<1>4. Mechanisms(s) \subseteq Mechanisms(more)
  BY <1>1 DEF Mechanisms
<1>5. PartialCoverage(Layers(s)) => PartialCoverage(Layers(more))
  <2> DEFINE before == Layers(s) \cap OrderedLayer
             after == Layers(more) \cap OrderedLayer
  <2>1. before \subseteq after
    BY <1>2
  <2>2. IsFiniteSet(OrderedLayer)
    <3>1. IsFiniteSet({"change"})
      BY FS_Singleton
    <3>2. IsFiniteSet({"change"} \cup {"mechanism"})
      BY <3>1, FS_AddElement
    <3>3. IsFiniteSet(({"change"} \cup {"mechanism"}) \cup {"impact"})
      BY <3>2, FS_AddElement
    <3>4. OrderedLayer = ({"change"} \cup {"mechanism"}) \cup {"impact"}
      BY DEF OrderedLayer
    <3> QED
      BY <3>3, <3>4
  <2>3. IsFiniteSet(after)
    <3>1. after \subseteq OrderedLayer
      OBVIOUS
    <3> QED
      BY <2>2, <3>1, FS_Subset
  <2>4. Cardinality(before) <= Cardinality(after) /\ IsFiniteSet(before)
    BY <2>1, <2>3, FS_Subset
  <2>5. Cardinality(before) \in Nat /\ Cardinality(after) \in Nat
    BY <2>3, <2>4, FS_CardinalityType
  <2> QED
    BY <2>4, <2>5 DEF PartialCoverage
<1> QED
  BY <1>1, <1>2, <1>3, <1>4, <1>5, FS_Subset, FS_CardinalityType DEF more

\* Why one more piece can lower the level.
DropCause(s, e) ==
  \/ e.unexplained
  \/ TemporalViolations(Append(s, e)) # {}
  \/ CountIndependent(Append(s, e)) < CountIndependent(s)
  \/ /\ e.layer \in {"change", "mechanism"}
     /\ \A i \in DOMAIN s : s[i].layer # e.layer
     /\ CountIndependent(Append(s, e)) < 3

\* Without such a cause the level stays or rises, whatever the evidence.
LEMMA NoCauseNoDrop ==
  ASSUME NEW s \in Seq(Piece), NEW e \in Piece, ~DropCause(s, e)
  PROVE  Rank(Score(Append(s, e))[1]) >= Rank(Score(s)[1])
<1> DEFINE more == Append(s, e)
<1>0. more \in Seq(Piece)
  BY OneMorePiece
<1>1. /\ Layers(more) = Layers(s) \cup ({e.layer} \ {Unset})
      /\ Cardinality(Mechanisms(s)) >= 2 => Cardinality(Mechanisms(more)) >= 2
      /\ PartialCoverage(Layers(s)) => PartialCoverage(Layers(more))
  BY OneMorePiece
<1>2. Blocked(more) => Blocked(s)
  <2>1. TemporalViolations(more) = {} /\ ~e.unexplained
    BY DEF DropCause
  <2>2. ASSUME NEW i \in DOMAIN more, more[i].unexplained
        PROVE  Blocked(s)
    <3>1. /\ DOMAIN s = 1..Len(s) /\ DOMAIN more = 1..(Len(s) + 1) /\ Len(s) \in Nat
          /\ \A k \in 1..Len(s) : more[k] = s[k]
          /\ more[Len(s) + 1] = e
      BY AppendProperties
    <3>2. i \in 1..Len(s)
      BY <2>1, <2>2, <3>1
    <3> QED
      BY <2>2, <3>1, <3>2 DEF Blocked
  <2> QED
    BY <2>1, <2>2 DEF Blocked
<1>3. /\ CountIndependent(s) \in Nat /\ CountIndependent(more) \in Nat
      /\ CountIndependent(s) <= CountIndependent(more)
  <2>1. CountIndependent(s) \in Nat /\ CountIndependent(more) \in Nat
    <3>1. CountIndependent(s) \in 0..Len(s) /\ CountIndependent(more) \in 0..Len(more)
      BY <1>0, CountedSignals
    <3>2. Len(s) \in Nat /\ Len(more) \in Nat
      BY <1>0
    <3> QED
      BY <3>1, <3>2
  <2>2. ~(CountIndependent(more) < CountIndependent(s))
    BY DEF DropCause
  <2> QED
    BY <2>1, <2>2
<1>4. /\ "change" \notin Layers(s) /\ e.layer = "change" => CountIndependent(more) >= 3
      /\ "mechanism" \notin Layers(s) /\ e.layer = "mechanism" => CountIndependent(more) >= 3
  BY <1>3, InvestigationAssumption DEF DropCause, Layers, OrderedLayer
<1>5. Cardinality(Mechanisms(s)) >= 2 => "mechanism" \in Layers(s)
  <2>1. Mechanisms(s) = {} => Cardinality(Mechanisms(s)) = 0
    BY FS_EmptySet
  <2>2. Mechanisms(s) # {} => "mechanism" \in Layers(s)
    BY InvestigationAssumption DEF Mechanisms, Layers, OrderedLayer
  <2> QED
    BY <2>1, <2>2
<1> SUFFICES Rank(Score(more)[1]) >= Rank(Score(s)[1])
  OBVIOUS
<1> HIDE DEF more
<1>6. CASE Blocked(s)
  BY <1>0, <1>6, ScoreCases, ScoreTypes
<1>7. CASE ~Blocked(s) /\ FullCoverage(s)
  <2>1. FullCoverage(more)
    BY <1>1, <1>7 DEF FullCoverage
  <2> QED
    BY <1>0, <1>2, <1>3, <1>7, <2>1, ScoreCases
<1>8. CASE ~Blocked(s) /\ ~FullCoverage(s) /\ TrackB(s)
  <2>1. FullCoverage(more) => CountIndependent(more) >= 3
    BY <1>1, <1>4, <1>5, <1>8 DEF FullCoverage, TrackB, OrderedLayer
  <2>2. FullCoverage(more) \/ TrackB(more)
    BY <1>1, <1>5, <1>8 DEF FullCoverage, TrackB, OrderedLayer
  <2> QED
    BY <1>0, <1>2, <1>8, <2>1, <2>2, ScoreCases
<1>9. CASE ~Blocked(s) /\ ~FullCoverage(s) /\ Correlated(s)
  <2>1. Correlated(more)
    BY <1>1, <1>9 DEF Correlated
  <2>2. FullCoverage(more) => CountIndependent(more) >= 3
    BY <1>1, <1>4, <1>9 DEF FullCoverage, Correlated, OrderedLayer
  <2> QED
    BY <1>0, <1>2, <1>9, <2>1, <2>2, ScoreCases
<1>10. CASE ~Blocked(s) /\ ~FullCoverage(s) /\ ~TrackB(s) /\ ~Correlated(s)
  <2>1. Rank(Score(s)[1]) = IF PartialCoverage(Layers(s)) THEN 1 ELSE 0
    BY <1>10, ScoreCases
  <2>2. PartialCoverage(Layers(s)) => Rank(Score(more)[1]) >= 1
    <3>1. PartialCoverage(Layers(s)) => ~Blocked(more) /\ PartialCoverage(Layers(more))
      BY <1>1, <1>2, <1>10
    <3>2. ~Blocked(more) /\ PartialCoverage(Layers(more)) => Rank(Score(more)[1]) \in {1, 2}
      BY <1>0, ScoreCases
    <3> QED
      BY <3>1, <3>2
  <2> QED
    BY <1>0, <2>1, <2>2, ScoreTypes
<1> QED
  BY <1>6, <1>7, <1>8, <1>9, <1>10

(* A piece of evidence lowers the level only by contradicting the hypothesis, by *)
(* putting an effect before its cause, by joining two signals, or as the first   *)
(* change or mechanism among fewer than three signals.                           *)
THEOREM DropsHaveCauses == RcaSpec => DropHasCause
<1>1. RcaTypeOK =>
        \A e \in Piece :
          evidence' = Append(evidence, e) /\ Rank(Score(evidence')[1]) < Rank(Score(evidence)[1])
            => DropCause(evidence, e)
  <2> SUFFICES ASSUME RcaTypeOK, NEW e \in Piece, evidence' = Append(evidence, e),
                      Rank(Score(evidence')[1]) < Rank(Score(evidence)[1]), ~DropCause(evidence, e)
               PROVE  FALSE
    OBVIOUS
  <2>1. evidence \in Seq(Piece) /\ Append(evidence, e) \in Seq(Piece)
    BY AppendProperties DEF RcaTypeOK
  <2>2. Rank(Score(Append(evidence, e))[1]) >= Rank(Score(evidence)[1])
    BY <2>1, NoCauseNoDrop
  <2>3. {Rank(Score(Append(evidence, e))[1]), Rank(Score(evidence)[1])} \subseteq 0..2
    BY <2>1, ScoreTypes
  <2>4. Rank(Score(Append(evidence, e))[1]) < Rank(Score(evidence)[1])
    OBVIOUS
  <2> QED
    BY <2>2, <2>3, <2>4
<1>2. RcaTypeOK =>
        \A e \in Piece :
          evidence' = Append(evidence, e) /\ Rank(Score(evidence')[1]) < Rank(Score(evidence)[1])
            => \/ e.unexplained
               \/ TemporalViolations(evidence') # {}
               \/ CountIndependent(evidence') < CountIndependent(evidence)
               \/ /\ e.layer \in {"change", "mechanism"}
                  /\ \A i \in DOMAIN evidence : evidence[i].layer # e.layer
                  /\ CountIndependent(evidence') < 3
  BY <1>1 DEF DropCause
<1> QED
  BY <1>2, RcaTypeCorrect, PTL DEF DropHasCause

-----------------------------------------------------------------------------
(* Independent signals: the union-find and the components it counts *)

\* u climbs from x along the parents p.
Climbs(u, n, p, x) == u[0] = x /\ \A k \in 1..n : u[k] = p[u[k - 1]]

(* find climbs as many times as there are elements. *)
LEMMA RootClimbs ==
  ASSUME NEW n \in Nat, NEW p \in [1..n -> 1..n], NEW x \in 1..n
  PROVE  \E u \in [0..n -> 1..n] : Climbs(u, n, p, x) /\ Root(p, x) = u[n]
<1> DEFINE f == [a \in Nat \X (1..n) |-> p[a[2]]]
           Up(u) == u = [k \in 0..n |-> IF k = 0 THEN x ELSE p[u[k - 1]]]
<1>1. Len(p) = n
  BY LenProperties, SeqDef
<1>2. f \in [Nat \X (1..n) -> 1..n] /\ \A k \in Nat, y \in 1..n : f[<<k, y>>] = p[y]
  OBVIOUS
<1> HIDE DEF f
<1>3. PICK u \in [0..n -> 1..n] : u[0] = x /\ \A k \in 1..n : u[k] = f[<<k, u[k - 1]>>]
  <2> DEFINE S == 1..n
  <2>1. x \in S /\ f \in [Nat \X S -> S]
    BY <1>2
  <2> HIDE DEF S
  <2>2. \E u \in [0..n -> S] : Iterates(u, n, x, f)
    BY <2>1, IterationExists
  <2> QED
    BY <2>2 DEF S, Iterates
<1>4. \A k \in 1..n : u[k] = p[u[k - 1]]
  <2> SUFFICES ASSUME NEW k \in 1..n
               PROVE  u[k] = p[u[k - 1]]
    OBVIOUS
  <2>1. k \in Nat /\ k - 1 \in 0..n
    OBVIOUS
  <2>2. u[k - 1] \in 1..n
    BY <2>1
  <2> QED
    BY <1>2, <1>3, <2>1, <2>2
<1>5. Up(u)
  <2>1. u = [k \in 0..n |-> u[k]]
    OBVIOUS
  <2>2. \A k \in 0..n : k # 0 => k \in 1..n
    OBVIOUS
  <2>3. \A k \in 0..n : u[k] = IF k = 0 THEN x ELSE p[u[k - 1]]
    BY <1>3, <1>4, <2>2
  <2> QED
    BY <2>1, <2>3
<1> DEFINE w == CHOOSE v : Up(v)
<1>6. Up(w)
  BY <1>5
<1>7. Root(p, x) = w[n]
  BY <1>1 DEF Root
<1> HIDE DEF w
<1>8. \A m \in Nat : m <= n => w[m] = u[m]
  <2> DEFINE Bad == {m \in Nat : m <= n /\ w[m] # u[m]}
  <2> SUFFICES ASSUME Bad # {}
               PROVE  FALSE
    OBVIOUS
  <2>1. PICK m \in Bad : \A k \in Bad : m <= k
    BY LeastNat
  <2>2. w[0] = x
    BY <1>6
  <2>3. m # 0
    BY <2>2, <1>3
  <2>4. m \in 1..n /\ m - 1 \in Nat /\ m - 1 <= n /\ ~(m <= m - 1)
    BY <2>3
  <2>5. w[m - 1] = u[m - 1]
    BY <2>1, <2>4
  <2>6. w[m] = p[w[m - 1]]
    <3>1. m \in 0..n /\ m # 0
      BY <2>4
    <3> QED
      BY <1>6, <3>1
  <2> QED
    BY <2>4, <2>5, <2>6, <1>4
<1>9. Root(p, x) = u[n]
  BY <1>7, <1>8
<1> QED
  BY <1>3, <1>4, <1>9 DEF Climbs

\* The parents p are a forest: x belongs to the tree of r[x], which is a root,
\* and sits d[x] steps below it; a path has no more steps than there are elements
\* that are not roots.
NotRoots(E, p) == {y \in E : p[y] # y}

Forest(E, p, r, d) ==
  /\ p \in [E -> E] /\ r \in [E -> E] /\ d \in [E -> Nat]
  /\ \A x \in E : p[x] = x => r[x] = x /\ d[x] = 0
  /\ \A x \in E : p[x] # x => r[x] = r[p[x]] /\ d[x] = d[p[x]] + 1
  /\ \A x \in E : p[r[x]] = r[x]
  /\ \A x \in E : d[x] <= Cardinality(NotRoots(E, p))

\* What is left of the way up after k steps from x.
Reached(u, k, p, r, d, x) == r[u[k]] = r[x] /\ (p[u[k]] = u[k] \/ d[u[k]] + k = d[x])

(* Climbing never leaves the tree, and gets one step nearer to its root or is there. *)
LEMMA Climb ==
  ASSUME NEW E, NEW p, NEW r, NEW d, Forest(E, p, r, d), NEW n \in Nat, NEW x \in E,
         NEW u \in [0..n -> E], Climbs(u, n, p, x)
  PROVE  Reached(u, n, p, r, d, x)
<1> DEFINE Good(k) == r[u[k]] = r[x] /\ (p[u[k]] = u[k] \/ d[u[k]] + k = d[x])
           Bad == {k \in Nat : k <= n /\ ~Good(k)}
<1> SUFFICES ASSUME Bad # {}
             PROVE  FALSE
  BY DEF Reached
<1>1. PICK m \in Bad : \A k \in Bad : m <= k
  BY LeastNat
<1>2. Good(0)
  BY DEF Forest, Climbs
<1>3. m \in 1..n /\ m - 1 \in 0..n /\ m - 1 \in Nat /\ ~(m <= m - 1)
  BY <1>2
<1>4. Good(m - 1)
  BY <1>1, <1>3
<1> DEFINE y == u[m - 1]
<1>5. y \in E /\ u[m] = p[y]
  BY <1>3 DEF Climbs
<1>6. CASE p[y] = y
  BY <1>4, <1>5, <1>6
<1>7. CASE p[y] # y
  <2>0. r[p[y]] = r[y] /\ d[y] = d[p[y]] + 1 /\ p[y] \in E
    BY <1>5, <1>7 DEF Forest
  <2>1. r[u[m]] = r[y] /\ d[y] = d[u[m]] + 1
    BY <1>5, <2>0
  <2>2. u[m] \in E /\ d[y] \in Nat /\ d[u[m]] \in Nat /\ d[x] \in Nat /\ m \in Nat
    BY <1>5, <2>0 DEF Forest
  <2>3. d[y] + (m - 1) = d[x] /\ r[y] = r[x]
    BY <1>4, <1>7
  <2>4. d[u[m]] + m = d[x]
    BY <2>1, <2>2, <2>3
  <2> QED
    BY <2>1, <2>3, <2>4
<1> QED
  BY <1>6, <1>7

(* find returns the root of the tree. *)
LEMMA RootFound ==
  ASSUME NEW n \in Nat, NEW p, NEW r, NEW d, Forest(1..n, p, r, d), NEW x \in 1..n
  PROVE  Root(p, x) = r[x]
<1>1. p \in [1..n -> 1..n]
  BY DEF Forest
<1>2. PICK u \in [0..n -> 1..n] : Climbs(u, n, p, x) /\ Root(p, x) = u[n]
  BY <1>1, RootClimbs
<1> DEFINE E == 1..n
<1>3. IsFiniteSet(E) /\ Cardinality(E) = n
  <2>1. 1 \in Int /\ n \in Int
    OBVIOUS
  <2>2. IsFiniteSet(1..n) /\ Cardinality(1..n) = IF 1 > n THEN 0 ELSE n - 1 + 1
    BY <2>1, FS_Interval
  <2> QED
    BY <2>2
<1>4. Forest(E, p, r, d) /\ x \in E /\ u \in [0..n -> E] /\ n \in 0..n
  OBVIOUS
<1> HIDE DEF E
<1>5. Reached(u, n, p, r, d, x)
  BY <1>2, <1>4, Climb
<1>6. d[x] <= n
  <2>1. NotRoots(E, p) \in SUBSET E
    BY DEF NotRoots
  <2>2. Cardinality(NotRoots(E, p)) <= n /\ IsFiniteSet(NotRoots(E, p))
    BY <1>3, <2>1, FS_Subset
  <2>3. Cardinality(NotRoots(E, p)) \in Nat
    BY <2>2, FS_CardinalityType
  <2>4. d[x] <= Cardinality(NotRoots(E, p)) /\ d[x] \in Nat
    BY <1>4 DEF Forest
  <2> QED
    BY <2>2, <2>3, <2>4
<1> DEFINE t == u[n]
<1>7. t \in E
  BY <1>4
<1>8. p[t] = t
  <2> SUFFICES ASSUME p[t] # t
               PROVE  FALSE
    OBVIOUS
  <2>1. p[t] \in E /\ d[t] = d[p[t]] + 1
    BY <1>4, <1>7 DEF Forest
  <2>2. d[p[t]] \in Nat /\ d[t] \in Nat /\ d[x] \in Nat
    BY <1>4, <1>7, <2>1 DEF Forest
  <2>3. d[t] + n = d[x]
    BY <1>5 DEF Reached
  <2>4. \A a, b, c \in Nat : ~(a = b + 1 /\ a + n = c /\ c <= n)
    OBVIOUS
  <2> HIDE DEF t
  <2> QED
    BY Zenon, <1>6, <2>1, <2>2, <2>3, <2>4
<1>9. r[t] = t
  BY <1>4, <1>7, <1>8 DEF Forest
<1> QED
  BY <1>2, <1>5, <1>9 DEF Reached

\* The trees after the tree of i has been put under the root of the tree of j.
Joined(E, r, i, j) == [x \in E |-> IF r[x] = r[i] THEN r[j] ELSE r[x]]

(* Linking the root of one tree to that of another joins the two. *)
LEMMA LinkJoins ==
  ASSUME NEW E, IsFiniteSet(E), NEW p, NEW r, NEW d, Forest(E, p, r, d),
         NEW i \in E, NEW j \in E
  PROVE  \E b : Forest(E, [p EXCEPT ![r[i]] = r[j]], Joined(E, r, i, j), b)
<1> DEFINE q == [p EXCEPT ![r[i]] = r[j]]
           s == Joined(E, r, i, j)
<1>0. p \in [E -> E] /\ r \in [E -> E] /\ d \in [E -> Nat] /\ r[i] \in E /\ r[j] \in E
  BY DEF Forest
<1>1. CASE r[i] = r[j]
  <2>1. q = p
    <3>1. p[r[i]] = r[i]
      BY DEF Forest
    <3>2. \A x \in E : q[x] = p[x]
      BY <1>0, <1>1, <3>1
    <3> QED
      BY <1>0, <3>2
  <2>2. s = r
    BY <1>0, <1>1 DEF Joined
  <2> QED
    BY <2>1, <2>2
<1>2. CASE r[i] # r[j]
  <2> DEFINE a == r[i]
             b == r[j]
             e == [x \in E |-> IF r[x] = a THEN d[x] + 1 ELSE d[x]]
  <2>1. a \in E /\ b \in E /\ a # b /\ p[a] = a /\ p[b] = b
    BY <1>0, <1>2 DEF Forest
  <2>2. r[a] = a /\ r[b] = b /\ d[a] = 0 /\ d[b] = 0
    BY <2>1 DEF Forest
  <2>3. q \in [E -> E] /\ q[a] = b /\ \A x \in E : x # a => q[x] = p[x]
    BY <1>0, <2>1
  <2>4. s \in [E -> E] /\ \A x \in E : s[x] = IF r[x] = a THEN b ELSE r[x]
    BY <1>0, <2>1 DEF Joined
  <2>5. e \in [E -> Nat] /\ \A x \in E : e[x] = IF r[x] = a THEN d[x] + 1 ELSE d[x]
    BY <1>0
  <2> HIDE DEF q, s, e, a, b
  <2>6. ASSUME NEW x \in E, q[x] = x
        PROVE  s[x] = x /\ e[x] = 0
    <3>1. x # a /\ p[x] = x
      BY <2>1, <2>3, <2>6
    <3>2. r[x] = x /\ d[x] = 0
      BY <3>1 DEF Forest
    <3> QED
      BY <2>4, <2>5, <3>1, <3>2
  <2>7. ASSUME NEW x \in E, q[x] # x
        PROVE  s[x] = s[q[x]] /\ e[x] = e[q[x]] + 1
    <3>1. CASE x = a
      BY <2>1, <2>2, <2>3, <2>4, <2>5, <3>1
    <3>2. CASE x # a
      <4>1. q[x] = p[x] /\ p[x] # x /\ p[x] \in E
        BY <1>0, <2>3, <2>7, <3>2
      <4>2. r[x] = r[p[x]] /\ d[x] = d[p[x]] + 1
        BY <4>1 DEF Forest
      <4>3. s[x] = s[p[x]]
        BY <2>4, <4>1, <4>2
      <4>4. d[p[x]] \in Nat /\ e[x] = e[p[x]] + 1
        BY <1>0, <2>5, <4>1, <4>2
      <4> QED
        BY <4>1, <4>3, <4>4
    <3> QED
      BY <3>1, <3>2
  <2>8. ASSUME NEW x \in E
        PROVE  q[s[x]] = s[x]
    <3>1. CASE r[x] = a
      BY <2>1, <2>3, <2>4, <3>1
    <3>2. CASE r[x] # a
      <4>1. p[r[x]] = r[x] /\ r[x] \in E
        BY <1>0 DEF Forest
      <4> QED
        BY <2>3, <2>4, <3>2, <4>1
    <3> QED
      BY <3>1, <3>2
  <2>9. ASSUME NEW x \in E
        PROVE  e[x] <= Cardinality(NotRoots(E, q))
    <3>1. NotRoots(E, p) \in SUBSET E /\ a \notin NotRoots(E, p)
      BY <2>1 DEF NotRoots
    <3>2. NotRoots(E, q) = NotRoots(E, p) \cup {a}
      BY <2>1, <2>3 DEF NotRoots
    <3>3. IsFiniteSet(NotRoots(E, p))
      BY <3>1, FS_Subset
    <3>4. Cardinality(NotRoots(E, p)) \in Nat
      BY <3>3, FS_CardinalityType
    <3>5. Cardinality(NotRoots(E, q)) = Cardinality(NotRoots(E, p)) + 1
      BY <3>1, <3>2, <3>3, FS_AddElement
    <3>6. d[x] \in Nat /\ d[x] <= Cardinality(NotRoots(E, p))
      BY <1>0 DEF Forest
    <3>7. e[x] = d[x] + 1 \/ e[x] = d[x]
      BY <2>5
    <3> QED
      BY <3>4, <3>5, <3>6, <3>7
  <2>10. Forest(E, q, s, e)
    BY <2>3, <2>4, <2>5, <2>6, <2>7, <2>8, <2>9 DEF Forest
  <2> QED
    BY <2>10 DEF q, s
<1> QED
  BY <1>1, <1>2

\* The pair of indices of a turn of the two nested loops, and the turn of a pair.
RowOf(k, n) == ((k - 1) \div n) + 1
ColumnOf(k, n) == ((k - 1) % n) + 1
Turn(i, j, n) == (i - 1) * n + j

(* Dividing the turn by the length gives its row and its column back. *)
LEMMA Quotient ==
  ASSUME NEW n \in Nat, n > 0, NEW a \in Nat, NEW b \in 0..n - 1
  PROVE  (a * n + b) \div n = a /\ (a * n + b) % n = b
<1> DEFINE q == (a * n + b) \div n
           m == (a * n + b) % n
<1>1. a * n \in Nat /\ a * n + b \in Nat
  OBVIOUS
<1>2. q \in Int /\ m \in 0..n - 1 /\ a * n + b = n * q + m
  BY <1>1
<1>3. n * q = q * n
  BY <1>2
<1> HIDE DEF q, m
<1>4. ~(q >= a + 1)
  <2> SUFFICES ASSUME q >= a + 1
               PROVE  FALSE
    OBVIOUS
  <2>1. q * n >= (a + 1) * n
    BY <1>2
  <2>2. (a + 1) * n = a * n + n
    OBVIOUS
  <2> QED
    BY <1>1, <1>2, <1>3, <2>1, <2>2
<1>5. ~(q <= a - 1)
  <2> SUFFICES ASSUME q <= a - 1
               PROVE  FALSE
    OBVIOUS
  <2>1. q * n <= (a - 1) * n
    BY <1>2
  <2>2. (a - 1) * n = a * n - n
    OBVIOUS
  <2> QED
    BY <1>1, <1>2, <1>3, <2>1, <2>2
<1>6. q = a
  BY <1>2, <1>4, <1>5
<1>7. m = b
  BY <1>1, <1>2, <1>3, <1>6
<1> QED
  BY <1>6, <1>7 DEF q, m

LEMMA Cells ==
  ASSUME NEW n \in Nat, NEW k \in 1..n * n
  PROVE  RowOf(k, n) \in 1..n /\ ColumnOf(k, n) \in 1..n
<1>1. n > 0 /\ n * n \in Nat
  OBVIOUS
<1> DEFINE q == (k - 1) \div n
           m == (k - 1) % n
<1>2. q \in Int /\ m \in 0..n - 1 /\ k - 1 = n * q + m
  BY <1>1
<1>3. RowOf(k, n) = q + 1 /\ ColumnOf(k, n) = m + 1
  BY DEF RowOf, ColumnOf
<1> HIDE DEF q, m
<1>4. ~(q <= -1)
  <2> SUFFICES ASSUME q <= -1
               PROVE  FALSE
    OBVIOUS
  <2>1. n * q <= n * (-1)
    BY <1>1, <1>2
  <2>2. n * (-1) = -n /\ n * q \in Int
    BY <1>2
  <2> QED
    BY <1>1, <1>2, <2>1, <2>2
<1>5. ~(q >= n)
  <2> SUFFICES ASSUME q >= n
               PROVE  FALSE
    OBVIOUS
  <2>1. n * q >= n * n /\ n * q \in Int
    BY <1>1, <1>2
  <2> QED
    BY <1>1, <1>2, <2>1
<1> QED
  BY <1>1, <1>2, <1>3, <1>4, <1>5

LEMMA Turns ==
  ASSUME NEW n \in Nat, NEW i \in 1..n, NEW j \in 1..n
  PROVE  /\ Turn(i, j, n) \in 1..n * n
         /\ RowOf(Turn(i, j, n), n) = i /\ ColumnOf(Turn(i, j, n), n) = j
<1>1. n > 0 /\ i - 1 \in Nat /\ j - 1 \in 0..n - 1
  OBVIOUS
<1>2. Turn(i, j, n) - 1 = (i - 1) * n + (j - 1) /\ (i - 1) * n \in Nat
  BY <1>1 DEF Turn
<1>3. ((i - 1) * n + (j - 1)) \div n = i - 1 /\ ((i - 1) * n + (j - 1)) % n = j - 1
  BY <1>1, Quotient
<1>4. (i - 1) * n <= n * n - n
  <2>1. (i - 1) * n <= (n - 1) * n
    OBVIOUS
  <2>2. (n - 1) * n = n * n - n
    OBVIOUS
  <2> QED
    BY <2>1, <2>2
<1>5. Turn(i, j, n) \in 1..n * n
  <2>1. n * n \in Nat /\ Turn(i, j, n) = (i - 1) * n + j
    BY DEF Turn
  <2> QED
    BY <1>1, <1>2, <1>4, <2>1
<1>6. RowOf(Turn(i, j, n), n) = (i - 1) + 1 /\ ColumnOf(Turn(i, j, n), n) = (j - 1) + 1
  BY <1>2, <1>3 DEF RowOf, ColumnOf
<1> QED
  BY <1>5, <1>6

(* union joins the trees of its two elements. *)
LEMMA UniteJoins ==
  ASSUME NEW n \in Nat, NEW p, NEW r, NEW d, Forest(1..n, p, r, d),
         NEW i \in 1..n, NEW j \in 1..n
  PROVE  \E b : Forest(1..n, Unite(p, i, j), Joined(1..n, r, i, j), b)
<1>1. Root(p, i) = r[i] /\ Root(p, j) = r[j]
  BY RootFound
<1>2. Unite(p, i, j) = [p EXCEPT ![r[i]] = r[j]]
  BY <1>1 DEF Unite
<1>3. IsFiniteSet(1..n)
  <2>1. 1 \in Int /\ n \in Int
    OBVIOUS
  <2> QED
    BY <2>1, FS_Interval
<1> DEFINE E == 1..n
<1>4. IsFiniteSet(E) /\ Forest(E, p, r, d) /\ i \in E /\ j \in E
  BY <1>3
<1> HIDE DEF E
<1>5. \E b : Forest(E, [p EXCEPT ![r[i]] = r[j]], Joined(E, r, i, j), b)
  BY <1>4, LinkJoins
<1> QED
  BY <1>2, <1>5 DEF E

LEMMA UniteTypes ==
  ASSUME NEW n \in Nat, NEW p \in [1..n -> 1..n], NEW i \in 1..n, NEW j \in 1..n
  PROVE  Unite(p, i, j) \in [1..n -> 1..n]
<1>1. Root(p, i) \in 1..n /\ Root(p, j) \in 1..n
  <2>1. ASSUME NEW x \in 1..n
        PROVE  Root(p, x) \in 1..n
    <3>1. PICK u \in [0..n -> 1..n] : Root(p, x) = u[n]
      BY RootClimbs
    <3>2. n \in 0..n
      OBVIOUS
    <3> QED
      BY <3>1, <3>2
  <2> QED
    BY <2>1
<1> DEFINE E == 1..n
<1>2. p \in [E -> E] /\ Root(p, i) \in E /\ Root(p, j) \in E
  BY <1>1
<1> HIDE DEF E
<1>3. Unite(p, i, j) \in [E -> E]
  BY <1>2 DEF Unite
<1> QED
  BY <1>3 DEF E

\* A turn of the two nested loops of count_independent.
Turned(s, p, k) ==
  IF RowOf(k, Len(s)) < ColumnOf(k, Len(s)) /\ SameSignal(s[RowOf(k, Len(s))], s[ColumnOf(k, Len(s))])
  THEN Unite(p, RowOf(k, Len(s)), ColumnOf(k, Len(s)))
  ELSE p

Loops(u, s) ==
  /\ u[0] = [i \in 1..Len(s) |-> i]
  /\ \A k \in 1..Len(s) * Len(s) : u[k] = Turned(s, u[k - 1], k)

(* The grouping is what the two loops leave after their last turn. *)
LEMMA GroupedLoops ==
  ASSUME NEW s \in Seq(Piece)
  PROVE  \E u \in [0..Len(s) * Len(s) -> [1..Len(s) -> 1..Len(s)]] :
           Loops(u, s) /\ Grouped(s) = u[Len(s) * Len(s)]
<1> DEFINE n == Len(s)
           N == n * n
           P == [1..n -> 1..n]
           x == [i \in 1..n |-> i]
           f == [a \in Nat \X P |-> IF a[1] \in 1..N THEN Turned(s, a[2], a[1]) ELSE a[2]]
           After(u) == u = [k \in 0..N |-> IF k = 0 THEN x ELSE
                              LET parent == u[k - 1]
                                  i == ((k - 1) \div n) + 1
                                  j == ((k - 1) % n) + 1
                              IN  IF i < j /\ SameSignal(s[i], s[j]) THEN Unite(parent, i, j)
                                                                     ELSE parent]
           w == CHOOSE u : After(u)
<1>1. n \in Nat /\ N \in Nat /\ x \in P
  BY LenProperties
<1>2. ASSUME NEW p \in P, NEW k \in 1..N
      PROVE  Turned(s, p, k) \in P
  <2>1. RowOf(k, n) \in 1..n /\ ColumnOf(k, n) \in 1..n
    BY <1>1, Cells
  <2>2. Unite(p, RowOf(k, n), ColumnOf(k, n)) \in [1..n -> 1..n]
    BY <1>1, <2>1, UniteTypes
  <2> QED
    BY <2>2 DEF Turned
<1>3. Grouped(s) = w[N]
  BY DEF Grouped
<1>4. \A u : After(u) <=> u = [k \in 0..N |-> IF k = 0 THEN x ELSE Turned(s, u[k - 1], k)]
  BY DEF Turned, RowOf, ColumnOf
<1> HIDE DEF After, P, x, N
<1>5. /\ f \in [Nat \X P -> P]
      /\ \A k \in 1..N, p \in P : f[<<k, p>>] = Turned(s, p, k)
  <2>1. \A k \in 1..N : k \in Nat
    BY <1>1
  <2> QED
    BY <1>2, <2>1
<1> HIDE DEF f
<1>6. PICK u \in [0..N -> P] : Iterates(u, N, x, f)
  BY <1>1, <1>5, IterationExists
<1>7. u[0] = x /\ \A k \in 1..N : u[k] = Turned(s, u[k - 1], k)
  <2>1. ASSUME NEW k \in 1..N
        PROVE  u[k] = Turned(s, u[k - 1], k)
    <3>1. k - 1 \in 0..N
      BY <1>1
    <3>2. u[k - 1] \in P
      BY <3>1
    <3>3. u[k] = f[<<k, u[k - 1]>>]
      BY <1>6 DEF Iterates
    <3> QED
      BY <1>5, <3>2, <3>3
  <2> QED
    BY <1>6, <2>1 DEF Iterates
<1>8. After(u)
  <2>1. u = [k \in 0..N |-> u[k]]
    OBVIOUS
  <2>2. \A k \in 0..N : k # 0 => k \in 1..N
    BY <1>1
  <2>3. \A k \in 0..N : u[k] = IF k = 0 THEN x ELSE Turned(s, u[k - 1], k)
    BY <1>7, <2>2
  <2> QED
    BY <1>4, <2>1, <2>3
<1>9. After(w)
  BY <1>8
<1> HIDE DEF w
<1>10. w = [k \in 0..N |-> IF k = 0 THEN x ELSE Turned(s, w[k - 1], k)]
  BY <1>4, <1>9
<1>11. w[0] = x /\ \A k \in 1..N : w[k] = Turned(s, w[k - 1], k)
  <2>1. 0 \in 0..N /\ \A k \in 1..N : k \in 0..N /\ k # 0
    BY <1>1
  <2> QED
    BY <1>10, <2>1
<1>12. \A k \in Nat : k <= N => w[k] \in P
  <2> DEFINE Bad == {k \in Nat : k <= N /\ w[k] \notin P}
  <2> SUFFICES ASSUME Bad # {}
               PROVE  FALSE
    OBVIOUS
  <2>1. PICK m \in Bad : \A k \in Bad : m <= k
    BY LeastNat
  <2>2. m # 0
    BY <1>1, <1>11
  <2>3. m \in 1..N /\ m - 1 \in Nat /\ m - 1 <= N /\ ~(m <= m - 1)
    BY <1>1, <2>2
  <2>4. w[m - 1] \in P
    BY <2>1, <2>3
  <2>5. w[m] \in P
    BY <1>2, <1>11, <2>3, <2>4
  <2> QED
    BY <2>5
<1>13. w \in [0..N -> P]
  <2>1. \A k \in 0..N : k \in Nat /\ k <= N
    BY <1>1
  <2>2. \A k \in 0..N : w[k] \in P
    BY <1>12, <2>1
  <2> QED
    BY <1>10, <2>2
<1>14. Loops(w, s) /\ Grouped(s) = w[N]
  BY <1>3, <1>11 DEF Loops, N, x
<1> QED
  BY <1>13, <1>14 DEF N, P

Related(a, b) == SameSignal(a, b) \/ SameSignal(b, a)

ClosedSet(s, S) ==
  S \in SUBSET DOMAIN s /\ \A x \in S, y \in DOMAIN s : Related(s[x], s[y]) => y \in S

\* Every closed set is a union of trees.
Sound(s, r) == \A S : ClosedSet(s, S) => \A x \in DOMAIN s : x \in S <=> r[x] \in S

\* The pairs of the first k turns are in one tree each.
Met(s, r, k) ==
  \A i, j \in DOMAIN s :
    i < j /\ Turn(i, j, Len(s)) <= k /\ SameSignal(s[i], s[j]) => r[i] = r[j]

Trees(s, p, r, d, k) == Forest(1..Len(s), p, r, d) /\ Sound(s, r) /\ Met(s, r, k)

LEMMA SameIsSymmetric ==
  ASSUME NEW a, NEW b, SameSignal(a, b)
  PROVE  SameSignal(b, a)
BY DEF SameSignal, AreDerived

(* Before the loops every piece is a tree of its own. *)
LEMMA TreesAtFirst ==
  ASSUME NEW s \in Seq(Piece)
  PROVE  \E r, d : Trees(s, [i \in 1..Len(s) |-> i], r, d, 0)
<1> DEFINE E == 1..Len(s)
           p == [i \in E |-> i]
           d == [i \in E |-> 0]
<1>1. DOMAIN s = E /\ Len(s) \in Nat
  BY LenProperties
<1>2. Met(s, p, 0)
  <2>1. ASSUME NEW i \in 1..Len(s), NEW j \in 1..Len(s)
        PROVE  ~(Turn(i, j, Len(s)) <= 0)
    <3>1. Turn(i, j, Len(s)) \in 1..Len(s) * Len(s)
      BY <1>1, Turns
    <3> QED
      BY <3>1
  <2> QED
    BY <1>1, <2>1 DEF Met
<1>3. IsFiniteSet(E)
  <2>1. 1 \in Int /\ Len(s) \in Int
    BY <1>1
  <2> QED
    BY <2>1, FS_Interval
<1> HIDE DEF E
<1>4. Forest(E, p, p, d)
  <2>1. Cardinality(NotRoots(E, p)) = 0
    <3>1. NotRoots(E, p) = {}
      BY DEF NotRoots
    <3> QED
      BY <3>1, FS_EmptySet
  <2> QED
    BY <2>1 DEF Forest
<1>5. Sound(s, p)
  BY <1>1 DEF Sound
<1> QED
  BY <1>2, <1>4, <1>5 DEF Trees, E

(* A turn keeps the trees within every closed set, and sees to one more pair. *)
LEMMA TreesAfter ==
  ASSUME NEW s \in Seq(Piece), NEW k \in 1..Len(s) * Len(s),
         NEW p, NEW r, NEW d, Trees(s, p, r, d, k - 1)
  PROVE  \E r2, d2 : Trees(s, Turned(s, p, k), r2, d2, k)
<1> DEFINE n == Len(s)
           i == RowOf(k, n)
           j == ColumnOf(k, n)
<1>1. DOMAIN s = 1..n /\ n \in Nat /\ k \in Nat
  BY LenProperties
<1>2. i \in 1..n /\ j \in 1..n
  BY <1>1, Cells
<1>3. Forest(1..n, p, r, d) /\ Sound(s, r) /\ Met(s, r, k - 1)
  BY DEF Trees
<1>4. ASSUME NEW x \in 1..n, NEW y \in 1..n, Turn(x, y, n) <= k, ~(Turn(x, y, n) <= k - 1)
      PROVE  x = i /\ y = j
  <2>1. Turn(x, y, n) \in 1..n * n /\ RowOf(Turn(x, y, n), n) = x /\ ColumnOf(Turn(x, y, n), n) = y
    BY <1>1, Turns
  <2>2. n * n \in Nat
    BY <1>1
  <2>3. Turn(x, y, n) \in Nat
    BY <2>1, <2>2
  <2>4. Turn(x, y, n) = k
    BY <1>1, <1>4, <2>3
  <2> QED
    BY <2>1, <2>4
<1> HIDE DEF i, j
<1>5. CASE ~(i < j /\ SameSignal(s[i], s[j]))
  <2>1. Turned(s, p, k) = p
    BY <1>5 DEF Turned, i, j
  <2>2. Met(s, r, k)
    <3> SUFFICES ASSUME NEW x \in 1..n, NEW y \in 1..n,
                        x < y, Turn(x, y, n) <= k, SameSignal(s[x], s[y])
                 PROVE  r[x] = r[y]
      BY <1>1 DEF Met
    <3>1. Turn(x, y, n) <= k - 1
      BY <1>4, <1>5
    <3> QED
      BY <1>1, <1>3, <3>1 DEF Met
  <2> QED
    BY <1>3, <2>1, <2>2 DEF Trees
<1>6. CASE i < j /\ SameSignal(s[i], s[j])
  <2> DEFINE t == Joined(1..n, r, i, j)
  <2>1. Turned(s, p, k) = Unite(p, i, j)
    BY <1>6 DEF Turned, i, j
  <2>2. PICK b : Forest(1..n, Unite(p, i, j), t, b)
    BY <1>1, <1>2, <1>3, UniteJoins
  <2>3. /\ \A x \in 1..n : t[x] = IF r[x] = r[i] THEN r[j] ELSE r[x]
        /\ \A x \in 1..n : r[x] \in 1..n
    BY <1>3 DEF Joined, Forest
  <2> HIDE DEF t
  <2>4. Sound(s, t)
    <3> SUFFICES ASSUME NEW S, ClosedSet(s, S), NEW x \in 1..n
                 PROVE  x \in S <=> t[x] \in S
      BY <1>1 DEF Sound
    <3>1. i \in S <=> j \in S
      BY <1>1, <1>2, <1>6 DEF ClosedSet, Related
    <3>2. \A y \in 1..n : y \in S <=> r[y] \in S
      BY <1>1, <1>3 DEF Sound
    <3>3. r[i] \in S <=> r[j] \in S
      BY <1>2, <3>1, <3>2
    <3> QED
      BY <2>3, <3>2, <3>3
  <2>5. Met(s, t, k)
    <3> SUFFICES ASSUME NEW x \in 1..n, NEW y \in 1..n,
                        x < y, Turn(x, y, n) <= k, SameSignal(s[x], s[y])
                 PROVE  t[x] = t[y]
      BY <1>1 DEF Met
    <3>1. CASE Turn(x, y, n) <= k - 1
      <4>1. r[x] = r[y]
        BY <1>1, <1>3, <3>1 DEF Met
      <4> QED
        BY <2>3, <4>1
    <3>2. CASE ~(Turn(x, y, n) <= k - 1)
      <4>1. x = i /\ y = j
        BY <1>4, <3>2
      <4>2. t[i] = r[j] /\ t[j] = r[j]
        BY <1>2, <2>3
      <4> QED
        BY <4>1, <4>2
    <3> QED
      BY <3>1, <3>2
  <2> QED
    BY <2>1, <2>2, <2>4, <2>5 DEF Trees
<1> QED
  BY <1>5, <1>6

LEMMA GroupedTrees ==
  ASSUME NEW s \in Seq(Piece)
  PROVE  \E r, d : Trees(s, Grouped(s), r, d, Len(s) * Len(s))
<1> DEFINE N == Len(s) * Len(s)
<1>1. PICK u \in [0..N -> [1..Len(s) -> 1..Len(s)]] : Loops(u, s) /\ Grouped(s) = u[N]
  BY GroupedLoops
<1>2. N \in Nat
  BY LenProperties
<1>3. u[0] = [i \in 1..Len(s) |-> i] /\ \A k \in 1..N : u[k] = Turned(s, u[k - 1], k)
  BY <1>1 DEF Loops
<1> DEFINE Good(k) == \E r, d : Trees(s, u[k], r, d, k)
           Bad == {k \in Nat : k <= N /\ ~Good(k)}
<1>4. Bad = {}
  <2> SUFFICES ASSUME Bad # {}
               PROVE  FALSE
    OBVIOUS
  <2>1. PICK m \in Bad : \A k \in Bad : m <= k
    BY LeastNat
  <2>2. Good(0)
    <3>1. \E r, d : Trees(s, [i \in 1..Len(s) |-> i], r, d, 0)
      BY TreesAtFirst
    <3> QED
      BY <1>3, <3>1
  <2> HIDE DEF N
  <2>3. m \in 1..N /\ m - 1 \in Nat /\ m - 1 <= N /\ ~(m <= m - 1)
    BY <1>2, <2>2
  <2>4. PICK r, d : Trees(s, u[m - 1], r, d, m - 1)
    BY <2>1, <2>3
  <2>5. u[m] = Turned(s, u[m - 1], m)
    BY <1>3, <2>3
  <2>6. Good(m)
    BY <2>3, <2>4, <2>5, TreesAfter DEF N
  <2> QED
    BY <2>6
<1>5. Good(N)
  <2> HIDE DEF N
  <2> QED
    BY <1>2, <1>4
<1> QED
  BY <1>1, <1>5

\* The elements in the tree of x.
Tree(s, r, x) == {y \in DOMAIN s : r[y] = r[x]}

(* After the last turn the tree of a piece is its connected component. *)
LEMMA ComponentIsTree ==
  ASSUME NEW s \in Seq(Piece), NEW p, NEW r, NEW d, Trees(s, p, r, d, Len(s) * Len(s)),
         NEW x \in DOMAIN s
  PROVE  Component(s, x) = Tree(s, r, x)
<1> DEFINE n == Len(s)
<1>1. DOMAIN s = 1..n /\ n \in Nat
  BY LenProperties
<1>2. Sound(s, r) /\ Met(s, r, n * n)
  BY DEF Trees
<1>3. Component(s, x) = {y \in DOMAIN s : \A S : ClosedSet(s, S) /\ x \in S => y \in S}
  BY DEF Component, ClosedSet, Related
<1>4. ASSUME NEW a \in DOMAIN s, NEW b \in DOMAIN s, a < b, SameSignal(s[a], s[b])
      PROVE  r[a] = r[b]
  <2>1. Turn(a, b, n) \in 1..n * n /\ n * n \in Nat
    BY <1>1, Turns
  <2>2. Turn(a, b, n) <= n * n
    BY <2>1
  <2> QED
    BY <1>2, <1>4, <2>2 DEF Met
<1>5. ASSUME NEW a \in DOMAIN s, NEW b \in DOMAIN s, Related(s[a], s[b])
      PROVE  r[a] = r[b]
  <2>1. SameSignal(s[a], s[b]) /\ SameSignal(s[b], s[a])
    BY <1>5, SameIsSymmetric DEF Related
  <2>2. a = b \/ a < b \/ b < a
    BY <1>1
  <2> QED
    BY <1>4, <2>1, <2>2
<1>6. ClosedSet(s, Tree(s, r, x)) /\ x \in Tree(s, r, x)
  BY <1>5 DEF ClosedSet, Tree
<1>7. ASSUME NEW y \in Tree(s, r, x), NEW S, ClosedSet(s, S), x \in S
      PROVE  y \in S
  <2>1. y \in DOMAIN s /\ r[y] = r[x]
    BY DEF Tree
  <2>2. x \in S <=> r[x] \in S
    BY <1>2, <1>7 DEF Sound
  <2>3. y \in S <=> r[y] \in S
    BY <1>2, <1>7, <2>1 DEF Sound
  <2> QED
    BY <1>7, <2>1, <2>2, <2>3
<1>8. Tree(s, r, x) \subseteq DOMAIN s
  BY DEF Tree
<1> QED
  BY <1>3, <1>6, <1>7, <1>8

(* The union-find counts the connected components of the relation. *)
LEMMA CountsComponents ==
  ASSUME NEW s \in Seq(Piece)
  PROVE  CountIndependent(s) = Cardinality({Component(s, i) : i \in DOMAIN s})
<1> DEFINE n == Len(s)
           E == DOMAIN s
<1>1. DOMAIN s = 1..n /\ n \in Nat
  BY LenProperties
<1>2. PICK r, d : Trees(s, Grouped(s), r, d, n * n)
  BY GroupedTrees
<1>3. Forest(1..n, Grouped(s), r, d)
  BY <1>2 DEF Trees
<1> DEFINE R == {r[i] : i \in E}
           T == {Tree(s, r, i) : i \in E}
           f == [t \in R |-> {y \in E : r[y] = t}]
<1>4. CountIndependent(s) = Cardinality(R)
  <2>1. \A i \in E : Root(Grouped(s), i) = r[i]
    BY <1>1, <1>3, RootFound
  <2> QED
    BY <2>1 DEF CountIndependent
<1>5. {Component(s, i) : i \in E} = T
  <2>1. \A i \in E : Component(s, i) = Tree(s, r, i)
    BY <1>2, ComponentIsTree
  <2> QED
    BY <2>1
<1>6. IsFiniteSet(R)
  <2>1. IsFiniteSet(1..n)
    <3>1. 1 \in Int /\ n \in Int
      BY <1>1
    <3> QED
      BY <3>1, FS_Interval
  <2>2. R \in SUBSET (1..n)
    BY <1>1, <1>3 DEF Forest
  <2> HIDE DEF R
  <2> QED
    BY <2>1, <2>2, FS_Subset
<1> HIDE DEF E
<1>7. f \in Bijection(R, T)
  <2>1. \A i \in E : f[r[i]] = Tree(s, r, i)
    BY DEF Tree, E
  <2>2. f \in [R -> T]
    <3>1. \A t \in R : f[t] \in T
      BY <2>1
    <3> QED
      BY <3>1
  <2>3. \A i, j \in E : f[r[i]] = f[r[j]] => r[i] = r[j]
    <3>1. \A i \in E : i \in Tree(s, r, i)
      BY DEF Tree, E
    <3>2. \A i, j \in E : i \in Tree(s, r, j) => r[i] = r[j]
      BY DEF Tree, E
    <3> QED
      BY <2>1, <3>1, <3>2
  <2>4. f \in Injection(R, T)
    BY <2>2, <2>3 DEF Injection, IsInjective
  <2>5. f \in Surjection(R, T)
    BY <2>1, <2>2 DEF Surjection
  <2> QED
    BY <2>4, <2>5 DEF Bijection
<1> HIDE DEF R, T, f
<1>8. ExistsBijection(R, T)
  BY <1>7 DEF ExistsBijection
<1>9. Cardinality(T) = Cardinality(R)
  BY <1>6, <1>8, FS_Bijection
<1> QED
  BY <1>4, <1>5, <1>9 DEF E

(* The independent signals of an investigation are the connected components of *)
(* the relation between its pieces of evidence, for any evidence of any length. *)
THEOREM SignalsComponents == RcaSpec => []SignalsAreComponents
<1>1. RcaTypeOK => SignalsAreComponents
  BY CountsComponents DEF RcaTypeOK, SignalsAreComponents
<1> QED
  BY <1>1, RcaTypeCorrect, PTL
=============================================================================

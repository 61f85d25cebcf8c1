------------------------- MODULE AgenticLoopProofs --------------------------
(***************************************************************************)
(* Proofs about AgenticLoop, for any loops, servers, budgets and window.   *)
(*                                                                         *)
(* TurnInv says what a turn looks like while its tools run; with it the    *)
(* types are inductive.  On top of it: finished turns stay paired, the     *)
(* window of verbatim results is exact, budgets are overspent by one turn, *)
(* and the breakers open for a cause.                                      *)
(***************************************************************************)
EXTENDS AgenticLoop, FiniteSetTheorems, TLAPS

Last(l) == messages[l][Len(messages[l])]

\* The turn that is being worked on: the last message holds the tool uses, and
\* the results so far carry the first of their ids, in order.
TurnOf(l) ==
  /\ pc[l] \in {"asking", "tools", "calling"} => step[l] < MaxToolSteps
  /\ pc[l] \in {"tools", "calling"} =>
       /\ Len(messages[l]) > 0
       /\ Last(l).role = "assistant"
       /\ Last(l).ids # <<>>
       /\ Len(Last(l).ids) = Len(uses[l])
       /\ Len(results[l]) <= Len(uses[l])
       /\ \A k \in 1..Len(results[l]) : results[l][k] = Last(l).ids[k]
  /\ pc[l] = "calling" => Len(results[l]) < Len(uses[l])

TurnInv == \A l \in Loop : TurnOf(l)

IInv == TypeOK /\ TurnInv

LoopStep(l) == Turn(l) \/ Call(l) \/ Abandon(l)

\* A step of one loop leaves the others' turns alone.
LEMMA OthersStay ==
  ASSUME TypeOK, NEW l \in Loop, LoopStep(l), NEW k \in Loop, k # l
  PROVE  /\ pc'[k] = pc[k] /\ step'[k] = step[k] /\ tokens'[k] = tokens[k]
         /\ messages'[k] = messages[k] /\ uses'[k] = uses[k] /\ results'[k] = results[k]
<1> USE DEF TypeOK, Goto, turnVars, serverVars
<1>1. CASE ListTools(l) \/ Exhaust(l) \/ ModelRaises(l) \/ SendCall(l) \/ Abandon(l)
  BY <1>1 DEF ListTools, Exhaust, ModelRaises, SendCall, Abandon
<1>2. CASE Ask(l) \/ FinishTurn(l)
  BY <1>2 DEF Ask, FinishTurn
<1>3. CASE ModelAnswers(l)
  BY <1>3 DEF ModelAnswers
<1>4. CASE AnswerInline(l) \/ Call(l)
  BY <1>4 DEF AnswerInline, Call, CallReturns, CallTimesOut, CallDenied, AddResult
<1>5. QED
  BY <1>1, <1>2, <1>3, <1>4 DEF LoopStep, Turn

LEMMA SummarisedShape ==
  ASSUME NEW m \in Message
  PROVE  /\ Summarised(m) \in Message
         /\ Summarised(m).role = m.role /\ Summarised(m).ids = m.ids
         /\ Summarised(m).trims = IF m.trims < 2 THEN m.trims + 1 ELSE m.trims
BY DEF Summarised, Message

\* What trimming leaves: the messages, their roles and ids, and the question.
LEMMA TrimShape ==
  ASSUME NEW ms \in Seq(Message)
  PROVE  /\ Trim(ms) \in Seq(Message)
         /\ Len(Trim(ms)) = Len(ms)
         /\ \A i \in 1..Len(ms) : Trim(ms)[i].role = ms[i].role /\ Trim(ms)[i].ids = ms[i].ids
         /\ \A i \in 1..Len(ms) : i \notin ToTrim(ms) => Trim(ms)[i] = ms[i]
         /\ \A i \in 1..Len(ms) : i \in ToTrim(ms) => Trim(ms)[i].trims > 0
<1>1. ASSUME NEW i \in 1..Len(ms)
      PROVE  /\ Trim(ms)[i] \in Message
             /\ Trim(ms)[i].role = ms[i].role /\ Trim(ms)[i].ids = ms[i].ids
             /\ i \notin ToTrim(ms) => Trim(ms)[i] = ms[i]
             /\ i \in ToTrim(ms) => Trim(ms)[i].trims > 0
  <2>1. ms[i] \in Message /\ i \in DOMAIN ms
    OBVIOUS
  <2>2. CASE i \in ToTrim(ms)
    <3>1. Trim(ms)[i] = Summarised(ms[i])
      BY <2>1, <2>2 DEF Trim
    <3>2. ms[i].trims \in 0..2
      BY <2>1 DEF Message
    <3>3. QED
      BY <2>1, <2>2, <3>1, <3>2, SummarisedShape
  <2>3. CASE i \notin ToTrim(ms)
    BY <2>1, <2>3 DEF Trim
  <2>4. QED
    BY <2>2, <2>3
<1>2. DOMAIN Trim(ms) = 1..Len(ms) /\ Len(ms) \in Nat
  BY DEF Trim
<1>3. Trim(ms) = [i \in 1..Len(ms) |-> Trim(ms)[i]]
  BY <1>2 DEF Trim
<1>4. QED
  BY <1>1, <1>2, <1>3

-----------------------------------------------------------------------------
(* Types and the turn at work *)

\* The result that is added is the next id of the turn.
LEMMA NextResult ==
  ASSUME IInv, NEW l \in Loop, pc[l] \in {"tools", "calling"}, UsesLeft(l), AddResult(l)
  PROVE  /\ Last(l) \in Message
         /\ NextUse(l) \in 1..Len(Last(l).ids)
         /\ results' = [results EXCEPT ![l] = Append(results[l], Last(l).ids[NextUse(l)])]
         /\ results' \in [Loop -> Seq(Id)]
         /\ Len(results'[l]) = Len(results[l]) + 1
         /\ \A k \in 1..Len(results'[l]) : results'[l][k] = Last(l).ids[k]
<1> USE DEF IInv, TurnInv, TurnOf, TypeOK
<1>1. Last(l) \in Message
  BY DEF Last
<1>2. NextUse(l) \in 1..Len(Last(l).ids)
  BY DEF UsesLeft, NextUse
<1>3. Last(l).ids \in Seq(Id)
  BY <1>1 DEF Message
<1>4. Last(l).ids[NextUse(l)] \in Id
  BY <1>2, <1>3
<1>5. results' = [results EXCEPT ![l] = Append(results[l], Last(l).ids[NextUse(l)])]
  BY DEF AddResult, Last
<1>6. results'[l] = Append(results[l], Last(l).ids[NextUse(l)]) /\ results[l] \in Seq(Id)
  BY <1>5
<1>7. \A k \in 1..Len(results[l]) : results[l][k] = Last(l).ids[k]
  OBVIOUS
<1>8. Len(results'[l]) = Len(results[l]) + 1
      /\ \A k \in 1..Len(results'[l]) : results'[l][k] = Last(l).ids[k]
  BY <1>4, <1>6, <1>7 DEF NextUse
<1>9. results' \in [Loop -> Seq(Id)]
  BY <1>4, <1>5
<1>10. QED
  BY <1>1, <1>2, <1>5, <1>8, <1>9

LEMMA TargetIsServer ==
  ASSUME TypeOK, NEW l \in Loop, UsesLeft(l)
  PROVE  Target(l) \in Server
BY DEF TypeOK, UsesLeft, NextUse, Target

LEMMA BreakerType ==
  ASSUME NEW b \in Breaker
  PROVE  /\ AfterCanExecute(b) \in Breaker /\ AfterSuccess(b) \in Breaker
         /\ AfterFailure(b) \in Breaker /\ AfterCooling(b) \in Breaker
<1>1. b.failures \in Nat /\ b.failures + 1 \in Nat
  BY DEF Breaker
<1>2. AfterFailure(b) \in Breaker
  BY <1>1 DEF Breaker, AfterFailure
<1>3. AfterCanExecute(b) \in Breaker
  BY DEF Breaker, AfterCanExecute
<1>4. AfterSuccess(b) \in Breaker
  <2>1. 0 \in Nat
    OBVIOUS
  <2>2. QED
    BY <2>1 DEF Breaker, AfterSuccess
<1>5. AfterCooling(b) \in Breaker
  BY DEF Breaker, AfterCooling
<1>6. QED
  BY <1>2, <1>3, <1>4, <1>5

LEMMA StepKeepsTypes ==
  ASSUME IInv, NEW l \in Loop, LoopStep(l)
  PROVE  TypeOK'
<1> USE LoopAssumption, ThresholdAssumption DEF IInv, Goto, Ended, turnVars, serverVars
<1>t. TypeOK
  OBVIOUS
<1>1. CASE ListTools(l)
  BY <1>t, <1>1 DEF TypeOK, ListTools
<1>2. CASE Ask(l)
  <2>1. messages[l] \in Seq(Message)
    BY <1>t DEF TypeOK
  <2>2. Trim(messages[l]) \in Seq(Message)
    BY <2>1, TrimShape
  <2>3. QED
    BY <1>t, <1>2, <2>2 DEF TypeOK, Ask
<1>3. CASE Exhaust(l)
  BY <1>t, <1>3 DEF TypeOK, Exhaust
<1>4. CASE ModelAnswers(l)
  <2>1. tokens' \in [Loop -> Nat]
    BY <1>t, <1>4 DEF TypeOK, ModelAnswers
  <2>2. CASE pc' = [pc EXCEPT ![l] = "answered"] /\ UNCHANGED turnVars
    BY <1>t, <1>4, <2>1, <2>2 DEF TypeOK, ModelAnswers
  <2>3. ASSUME NEW n \in 1..MaxUses(l, step[l]), NEW u \in [1..n -> Server],
               messages' = [messages EXCEPT ![l] =
                  Append(@, [role |-> "assistant", ids |-> UseIds(l, n), trims |-> 0])],
               uses' = [uses EXCEPT ![l] = u],
               results' = [results EXCEPT ![l] = <<>>],
               pc' = [pc EXCEPT ![l] = "tools"]
        PROVE  TypeOK'
    <3>1. step[l] \in 0..MaxToolSteps /\ MaxToolSteps \in Nat /\ step[l] \in Nat
      BY <1>t DEF TypeOK
    <3>2. n \in Nat
      BY <3>1
    <3>3. UseIds(l, n) \in Seq(Id)
      BY <3>1, <3>2 DEF UseIds, Id
    <3>4. [role |-> "assistant", ids |-> UseIds(l, n), trims |-> 0] \in Message
      BY <3>3 DEF Message
    <3>5. messages' \in [Loop -> Seq(Message)]
      BY <1>t, <2>3, <3>4 DEF TypeOK
    <3>6. uses' \in [Loop -> Seq(Server)]
      BY <1>t, <2>3, <3>2 DEF TypeOK
    <3>7. results' \in [Loop -> Seq(Id)]
      BY <1>t, <2>3 DEF TypeOK
    <3>8. QED
      BY <1>t, <1>4, <2>1, <2>3, <3>5, <3>6, <3>7 DEF TypeOK, ModelAnswers
  <2>4. QED
    BY <1>4, <2>2, <2>3 DEF ModelAnswers
<1>5. CASE ModelRaises(l) \/ Abandon(l)
  BY <1>t, <1>5 DEF TypeOK, ModelRaises, Abandon
<1>6. CASE AnswerInline(l)
  <2>1. results' \in [Loop -> Seq(Id)]
    BY <1>6, NextResult DEF AnswerInline
  <2>2. QED
    BY <1>t, <1>6, <2>1 DEF TypeOK, AnswerInline, AddResult
<1>7. CASE SendCall(l)
  <2>1. breaker' \in [Server -> Breaker]
    BY <1>t, <1>7, BreakerType, TargetIsServer DEF TypeOK, SendCall
  <2>2. QED
    BY <1>t, <1>7, <2>1 DEF TypeOK, SendCall
<1>8. CASE FinishTurn(l)
  <2>1. step[l] < MaxToolSteps
    BY <1>8 DEF TurnInv, TurnOf, FinishTurn
  <2>2. [role |-> "user", ids |-> results[l], trims |-> 0] \in Message
    BY <1>t DEF TypeOK, Message
  <2>3. messages' \in [Loop -> Seq(Message)]
    BY <1>t, <1>8, <2>2 DEF TypeOK, FinishTurn
  <2>4. step' \in [Loop -> 0..MaxToolSteps]
    BY <1>t, <1>8, <2>1 DEF TypeOK, FinishTurn
  <2>5. QED
    BY <1>t, <1>8, <2>3, <2>4 DEF TypeOK, FinishTurn
<1>9. CASE Call(l)
  <2>1. pc[l] = "calling" /\ UsesLeft(l) /\ AddResult(l)
    BY <1>9 DEF Call, CallReturns, CallTimesOut, CallDenied, TurnInv, TurnOf, UsesLeft, NextUse, TypeOK
  <2>2. results' \in [Loop -> Seq(Id)]
    BY <2>1, NextResult
  <2>3. breaker' \in [Server -> Breaker]
    <3>1. Target(l) \in Server /\ breaker \in [Server -> Breaker]
      BY <1>t, <2>1, TargetIsServer DEF TypeOK
    <3>2. \/ breaker' = [breaker EXCEPT ![Target(l)] = AfterSuccess(@)]
          \/ breaker' = [breaker EXCEPT ![Target(l)] = AfterFailure(@)]
          \/ breaker' = breaker
      BY <1>9 DEF Call, CallReturns, CallTimesOut, CallDenied
    <3>3. QED
      BY <3>1, <3>2, BreakerType
  <2>4. streak' \in [Server -> 0..Threshold]
    BY <1>t, <1>9 DEF TypeOK, Call, CallReturns, CallTimesOut, CallDenied, FailedOnce
  <2>5. pc' \in [Loop -> Ended \cup {"listing", "top", "asking", "tools", "calling"}]
    BY <1>t, <2>1 DEF TypeOK, AddResult
  <2>6. QED
    BY <1>t, <1>9, <2>2, <2>3, <2>4, <2>5 DEF TypeOK, Call, CallReturns, CallTimesOut, CallDenied
<1>10. QED
  BY <1>1, <1>2, <1>3, <1>4, <1>5, <1>6, <1>7, <1>8, <1>9 DEF LoopStep, Turn

LEMMA StepKeepsTurns ==
  ASSUME IInv, NEW l \in Loop, LoopStep(l)
  PROVE  TurnInv'
<1> USE DEF Goto, turnVars, serverVars
<1>t. TypeOK /\ TurnOf(l) /\ TypeOK'
  BY StepKeepsTypes DEF IInv, TurnInv
<1>1. SUFFICES TurnOf(l)'
  <2>1. ASSUME NEW k \in Loop, k # l
        PROVE  TurnOf(k)'
    <3>1. TurnOf(k) /\ messages'[k] = messages[k]
      BY <2>1, <1>t, OthersStay DEF IInv, TurnInv
    <3>2. /\ pc'[k] = pc[k] /\ step'[k] = step[k]
          /\ uses'[k] = uses[k] /\ results'[k] = results[k]
      BY <2>1, <1>t, OthersStay
    <3>3. QED
      BY <3>1, <3>2 DEF TurnOf, Last
  <2>2. QED
    BY <2>1 DEF TurnInv
<1>2. CASE ListTools(l) \/ Exhaust(l) \/ ModelRaises(l) \/ Abandon(l)
  BY <1>t, <1>2 DEF TurnOf, TypeOK, ListTools, Exhaust, ModelRaises, Abandon
<1>3. CASE Ask(l)
  BY <1>t, <1>3 DEF TurnOf, TypeOK, Ask, WithinBudget
<1>4. CASE ModelAnswers(l)
  <2>1. CASE pc' = [pc EXCEPT ![l] = "answered"]
    BY <1>t, <2>1 DEF TurnOf, TypeOK
  <2>2. ASSUME NEW n \in 1..MaxUses(l, step[l]), NEW u \in [1..n -> Server],
               messages' = [messages EXCEPT ![l] =
                  Append(@, [role |-> "assistant", ids |-> UseIds(l, n), trims |-> 0])],
               uses' = [uses EXCEPT ![l] = u],
               results' = [results EXCEPT ![l] = <<>>],
               pc' = [pc EXCEPT ![l] = "tools"]
        PROVE  TurnOf(l)'
    <3> DEFINE m == [role |-> "assistant", ids |-> UseIds(l, n), trims |-> 0]
    <3>1. n \in Nat /\ n > 0 /\ step[l] \in Nat
      BY <1>t, LoopAssumption DEF TypeOK
    <3>2. UseIds(l, n) \in Seq(Id) /\ Len(UseIds(l, n)) = n
      BY <3>1 DEF UseIds, Id
    <3>a. m \in Message
      BY <3>2 DEF Message
    <3>3. m \in Message /\ messages[l] \in Seq(Message)
      BY <1>t, <3>a DEF TypeOK
    <3>4. messages'[l] = Append(messages[l], m)
      BY <1>t, <2>2 DEF TypeOK
    <3>5. Len(messages'[l]) > 0 /\ Last(l)' = m
      BY <3>3, <3>4 DEF Last
    <3>6. uses'[l] = u /\ Len(u) = n /\ results'[l] = <<>> /\ pc'[l] = "tools" /\ step'[l] = step[l]
      BY <1>4, <1>t, <2>2, <3>1 DEF TypeOK, ModelAnswers
    <3>7. m.role = "assistant" /\ m.ids = UseIds(l, n) /\ UseIds(l, n) # <<>>
      BY <3>1, <3>2
    <3>8. step[l] < MaxToolSteps
      BY <1>4, <1>t DEF TurnOf, ModelAnswers
    <3>9. QED
      BY <3>1, <3>2, <3>5, <3>6, <3>7, <3>8 DEF TurnOf
  <2>3. QED
    BY <1>4, <2>1, <2>2 DEF ModelAnswers
<1>5. CASE SendCall(l)
  <2>1. messages' = messages /\ uses' = uses /\ results' = results /\ step' = step
    BY <1>5 DEF SendCall
  <2>2. pc[l] = "tools" /\ pc'[l] = "calling" /\ UsesLeft(l)
    BY <1>t, <1>5 DEF SendCall, TypeOK
  <2>3. Len(results[l]) < Len(uses[l])
    BY <1>t, <2>2 DEF UsesLeft, NextUse, TypeOK
  <2>4. QED
    BY <1>t, <2>1, <2>2, <2>3 DEF TurnOf, Last
<1>6. CASE AnswerInline(l) \/ Call(l)
  <2>1. /\ pc[l] \in {"tools", "calling"} /\ UsesLeft(l) /\ AddResult(l)
        /\ messages' = messages /\ uses' = uses /\ step' = step
    BY <1>6, <1>t DEF AnswerInline, Call, CallReturns, CallTimesOut, CallDenied,
                      TurnOf, UsesLeft, NextUse, TypeOK
  <2>2. /\ Len(results'[l]) = Len(results[l]) + 1
        /\ \A k \in 1..Len(results'[l]) : results'[l][k] = Last(l).ids[k]
    BY <2>1, NextResult
  <2>3. pc'[l] = "tools" /\ Last(l)' = Last(l)
    BY <1>t, <2>1 DEF AddResult, TypeOK, Last
  <2>4. Len(results'[l]) <= Len(uses[l])
    BY <2>1, <2>2 DEF UsesLeft, NextUse
  <2>5. QED
    BY <1>t, <2>1, <2>2, <2>3, <2>4 DEF TurnOf
<1>7. CASE FinishTurn(l)
  BY <1>t, <1>7 DEF TurnOf, TypeOK, FinishTurn
<1>8. QED
  BY <1>2, <1>3, <1>4, <1>5, <1>6, <1>7 DEF LoopStep, Turn

LEMMA IInvStep == IInv /\ [Next]_vars => IInv'
<1> SUFFICES ASSUME IInv, [Next]_vars
             PROVE  IInv'
  OBVIOUS
<1>1. ASSUME NEW l \in Loop, LoopStep(l)
      PROVE  IInv'
  BY <1>1, StepKeepsTypes, StepKeepsTurns DEF IInv
<1>2. ASSUME NEW s \in Server, Cool(s)
      PROVE  IInv'
  <2>1. breaker' \in [Server -> Breaker]
    BY <1>2, BreakerType DEF Cool, IInv, TypeOK
  <2>2. QED
    BY <1>2, <2>1 DEF Cool, IInv, TypeOK, TurnInv, TurnOf, Last, turnVars
<1>3. CASE UNCHANGED vars
  BY <1>3 DEF vars, turnVars, serverVars, IInv, TypeOK, TurnInv, TurnOf, Last
<1>4. QED
  BY <1>1, <1>2, <1>3 DEF Next, LoopStep

LEMMA IInvInit == Init => IInv
<1> SUFFICES ASSUME Init
             PROVE  IInv
  OBVIOUS
<1>1. <<Question>> \in Seq(Message)
  BY DEF Question, Message
<1>2. NewBreaker \in Breaker
  BY DEF NewBreaker, Breaker
<1>3. QED
  BY <1>1, <1>2, LoopAssumption, ThresholdAssumption DEF Init, IInv, TypeOK, TurnInv, TurnOf

LEMMA IInvHolds == Spec => []IInv
BY IInvInit, IInvStep, PTL DEF Spec

\* Type correctness of the loops (agentic_loop.py:304-561): in particular the
\* steps never exceed MAX_TOOL_STEPS, for any budgets.
THEOREM TypeCorrect == Spec => []TypeOK
<1>1. IInv => TypeOK
  BY DEF IInv
<1>2. QED
  BY <1>1, IInvHolds, PTL

-----------------------------------------------------------------------------
(* The shared breakers *)

\* The ghost count of consecutive failures is never behind the breaker's.
CauseOf(s) ==
  /\ breaker[s].failures <= streak[s] \/ streak[s] = Threshold
  /\ breaker[s].state # "closed" => streak[s] = Threshold

CauseInv == \A s \in Server : CauseOf(s)

LEMMA CallKeepsCause ==
  ASSUME IInv, CauseInv, NEW l \in Loop, Call(l)
  PROVE  CauseInv'
<1>1. /\ Target(l) \in Server /\ breaker \in [Server -> Breaker]
      /\ streak \in [Server -> 0..Threshold] /\ Threshold \in Nat \ {0}
  BY TargetIsServer, ThresholdAssumption
     DEF IInv, TypeOK, TurnInv, TurnOf, Call, CallReturns, CallTimesOut, CallDenied, UsesLeft, NextUse
<1>2. SUFFICES ASSUME NEW s \in Server PROVE CauseOf(s)'
  BY DEF CauseInv
<1>3. CauseOf(s) /\ breaker[s].failures \in Nat /\ streak[s] \in 0..Threshold
  BY <1>1 DEF CauseInv, Breaker
<1>4. CASE s # Target(l) \/ CallDenied(l)
  <2>1. breaker'[s] = breaker[s] /\ streak'[s] = streak[s]
    BY <1>1, <1>4 DEF Call, CallReturns, CallTimesOut, CallDenied, FailedOnce, serverVars
  <2>2. QED
    BY <1>3, <2>1 DEF CauseOf
<1>5. CASE s = Target(l) /\ CallReturns(l)
  <2>1. breaker'[s] = AfterSuccess(breaker[s])
    BY <1>1, <1>5 DEF CallReturns
  <2>2. breaker'[s].state = "closed" /\ breaker'[s].failures = 0
    BY <1>1, <2>1 DEF AfterSuccess, Breaker
  <2>3. streak'[s] >= 0
    BY <1>1, <1>3, <1>5 DEF CallReturns, FailedOnce
  <2>4. QED
    BY <2>2, <2>3 DEF CauseOf
<1>6. CASE s = Target(l) /\ CallTimesOut(l)
  <2>1. breaker'[s] = AfterFailure(breaker[s])
    BY <1>1, <1>6 DEF CallTimesOut
  <2>2. /\ breaker'[s].state = IF breaker[s].failures + 1 >= Threshold THEN "open" ELSE breaker[s].state
        /\ breaker'[s].failures = breaker[s].failures + 1
    BY <2>1 DEF AfterFailure
  <2>3. streak'[s] = IF streak[s] < Threshold THEN streak[s] + 1 ELSE streak[s]
    BY <1>1, <1>6 DEF CallTimesOut, FailedOnce
  <2>4. QED
    BY <1>1, <1>3, <2>2, <2>3 DEF CauseOf
<1>7. QED
  BY <1>4, <1>5, <1>6 DEF Call

LEMMA CauseStep == IInv /\ CauseInv /\ [Next]_vars => CauseInv'
<1> SUFFICES ASSUME IInv, CauseInv, [Next]_vars
             PROVE  CauseInv'
  OBVIOUS
<1>t. breaker \in [Server -> Breaker]
  BY DEF IInv, TypeOK
<1>1. ASSUME NEW t \in Server, NEW b \in Breaker,
             b.failures = breaker[t].failures,
             b.state = breaker[t].state \/ breaker[t].state = "open",
             breaker' = [breaker EXCEPT ![t] = b], streak' = streak
      PROVE  CauseInv'
  <2> SUFFICES ASSUME NEW s \in Server PROVE CauseOf(s)'
    BY DEF CauseInv
  <2>1. CauseOf(s) /\ (s # t => breaker'[s] = breaker[s]) /\ (s = t => breaker'[s] = b)
    BY <1>t, <1>1 DEF CauseInv
  <2>2. QED
    BY <1>1, <2>1 DEF CauseOf
<1>2. ASSUME NEW l \in Loop, SendCall(l)
      PROVE  CauseInv'
  <2>1. Target(l) \in Server
    BY <1>2, TargetIsServer DEF SendCall, IInv
  <2> DEFINE b == AfterCanExecute(breaker[Target(l)])
  <2>2. b \in Breaker
    BY <1>t, <2>1, BreakerType
  <2>3. b.failures = breaker[Target(l)].failures
    BY <1>t, <2>1 DEF AfterCanExecute, Breaker
  <2>4. b.state = breaker[Target(l)].state \/ breaker[Target(l)].state = "open"
    BY <1>t, <2>1 DEF AfterCanExecute, Breaker
  <2>5. breaker' = [breaker EXCEPT ![Target(l)] = b] /\ streak' = streak
    BY <1>2 DEF SendCall
  <2>6. QED
    BY <1>1, <2>1, <2>2, <2>3, <2>4, <2>5
<1>3. ASSUME NEW s \in Server, Cool(s)
      PROVE  CauseInv'
  <2> DEFINE b == AfterCooling(breaker[s])
  <2>1. b \in Breaker
    BY <1>t, BreakerType
  <2>2. b.failures = breaker[s].failures /\ b.state = breaker[s].state
    BY <1>t DEF AfterCooling, Breaker
  <2>3. breaker' = [breaker EXCEPT ![s] = b] /\ streak' = streak
    BY <1>3 DEF Cool
  <2>4. QED
    BY <1>1, <2>1, <2>2, <2>3
<1>4. ASSUME UNCHANGED serverVars
      PROVE  CauseInv'
  BY <1>4 DEF serverVars, CauseInv, CauseOf
<1>5. ASSUME NEW l \in Loop, LoopStep(l), ~SendCall(l), ~Call(l)
      PROVE  CauseInv'
  BY <1>4, <1>5 DEF LoopStep, Turn, ListTools, Ask, Exhaust, ModelAnswers, ModelRaises,
                    AnswerInline, FinishTurn, Abandon
<1>6. QED
  BY <1>2, <1>3, <1>4, <1>5, CallKeepsCause DEF Next, LoopStep, vars

\* A server is cut off only after Threshold failures in a row, counted over any
\* number of loops that share its breaker (agentic_loop.py:100-163).
THEOREM BreakersOpenForACause == Spec => []OpenHasCause
<1>1. Init => CauseInv
  BY ThresholdAssumption DEF Init, CauseInv, CauseOf, NewBreaker
<1>2. CauseInv => OpenHasCause
  BY DEF CauseInv, CauseOf, OpenHasCause
<1>3. QED
  BY <1>1, <1>2, CauseStep, IInvHolds, PTL DEF Spec

-----------------------------------------------------------------------------
(* The budgets *)

InTurn(l) == pc[l] \in {"tools", "calling"}

\* A loop's conversation grows by two messages a turn; it asks with budget left.
SpendingOf(l) ==
  /\ Len(messages[l]) = 2 * step[l] + 1 \/ Len(messages[l]) = 2 * step[l] + 2
  /\ InTurn(l) => Len(messages[l]) = 2 * step[l] + 2
  /\ ~InTurn(l) /\ pc[l] # "abandoned" => Len(messages[l]) = 2 * step[l] + 1
  /\ Len(messages[l]) <= 2 * MaxToolSteps + 1
  /\ pc[l] = "asking" => tokens[l] < MaxLoopTokens
  /\ MaxLoopTokens > 0 => tokens[l] <= MaxLoopTokens - 1 + MaxTurnTokens

SpendingInv == \A l \in Loop : SpendingOf(l)

LEMMA AnsweringTurns ==
  ASSUME IInv, NEW l \in Loop, AnswerInline(l) \/ SendCall(l) \/ Call(l)
  PROVE  /\ InTurn(l) /\ InTurn(l)'
         /\ messages' = messages /\ step' = step /\ tokens' = tokens
BY DEF IInv, TypeOK, AnswerInline, SendCall, Call, CallReturns, CallTimesOut, CallDenied,
       AddResult, Goto, InTurn, turnVars

LEMMA SpendingStep ==
  ASSUME IInv, SpendingInv, NEW l \in Loop, LoopStep(l)
  PROVE  SpendingInv'
<1> USE DEF Goto, turnVars, serverVars
<1>t. TypeOK /\ TurnOf(l) /\ SpendingOf(l)
  BY DEF IInv, TurnInv, SpendingInv
<1>c. MaxToolSteps \in Nat /\ MaxLoopTokens \in Nat /\ MaxTurnTokens \in Nat
  BY LoopAssumption
<1>n. /\ step[l] \in 0..MaxToolSteps /\ tokens[l] \in Nat /\ messages[l] \in Seq(Message)
      /\ Len(messages[l]) \in Nat
  BY <1>t DEF TypeOK
<1>1. SUFFICES SpendingOf(l)'
  <2>1. ASSUME NEW k \in Loop, k # l
        PROVE  SpendingOf(k)'
    <3>1. SpendingOf(k) /\ pc'[k] = pc[k] /\ messages'[k] = messages[k]
      BY <2>1, <1>t, OthersStay DEF SpendingInv
    <3>2. step'[k] = step[k] /\ tokens'[k] = tokens[k]
      BY <2>1, <1>t, OthersStay
    <3>3. QED
      BY <3>1, <3>2 DEF SpendingOf, InTurn
  <2>2. QED
    BY <2>1 DEF SpendingInv
<1>2. CASE ListTools(l) \/ Exhaust(l) \/ ModelRaises(l) \/ Abandon(l)
  BY <1>t, <1>2 DEF SpendingOf, InTurn, TypeOK, ListTools, Exhaust, ModelRaises, Abandon
<1>3. CASE Ask(l)
  <2>1. Len(messages'[l]) = Len(messages[l])
    BY <1>t, <1>n, <1>3, TrimShape DEF Ask, TypeOK
  <2>2. pc[l] = "top" /\ pc'[l] = "asking" /\ step' = step /\ tokens' = tokens /\ tokens[l] < MaxLoopTokens
    BY <1>t, <1>3 DEF Ask, TypeOK, WithinBudget
  <2>3. QED
    BY <1>t, <2>1, <2>2 DEF SpendingOf, InTurn
<1>4. CASE ModelAnswers(l)
  <2>1. pc[l] = "asking" /\ step' = step /\ step[l] < MaxToolSteps
    BY <1>t, <1>4 DEF ModelAnswers, TurnOf
  <2>2. tokens'[l] <= MaxLoopTokens - 1 + MaxTurnTokens
    <3>1. PICK t \in 0..MaxTurnTokens : tokens' = [tokens EXCEPT ![l] = @ + t]
      BY <1>4 DEF ModelAnswers
    <3>2. tokens'[l] = tokens[l] + t /\ tokens[l] < MaxLoopTokens
      BY <1>t, <2>1, <3>1 DEF TypeOK, SpendingOf
    <3>3. QED
      BY <1>c, <1>n, <3>2
  <2>3. \/ pc'[l] = "answered" /\ Len(messages'[l]) = Len(messages[l])
        \/ pc'[l] = "tools" /\ Len(messages'[l]) = Len(messages[l]) + 1
    <3>1. CASE pc' = [pc EXCEPT ![l] = "answered"] /\ messages' = messages
      BY <1>t, <3>1 DEF TypeOK
    <3>2. ASSUME NEW m, messages' = [messages EXCEPT ![l] = Append(@, m)],
                 pc' = [pc EXCEPT ![l] = "tools"]
          PROVE  pc'[l] = "tools" /\ Len(messages'[l]) = Len(messages[l]) + 1
      <4>1. messages'[l] = Append(messages[l], m) /\ pc'[l] = "tools"
        BY <1>t, <3>2 DEF TypeOK
      <4>2. QED
        BY <1>n, <4>1
    <3>3. QED
      BY <1>4, <3>1, <3>2 DEF ModelAnswers
  <2>4. Len(messages[l]) = 2 * step[l] + 1
    BY <1>t, <2>1 DEF SpendingOf, InTurn
  <2>5. Len(messages'[l]) <= 2 * MaxToolSteps + 1
    BY <1>c, <1>n, <2>1, <2>3, <2>4
  <2>6. QED
    BY <1>n, <2>1, <2>2, <2>3, <2>4, <2>5 DEF SpendingOf, InTurn
<1>5. CASE AnswerInline(l) \/ SendCall(l) \/ Call(l)
  <2>1. InTurn(l) /\ InTurn(l)' /\ messages' = messages /\ step' = step /\ tokens' = tokens
    BY <1>5, AnsweringTurns
  <2>2. QED
    BY <1>t, <2>1 DEF SpendingOf, InTurn
<1>6. CASE FinishTurn(l)
  <2>1. /\ pc[l] = "tools" /\ pc'[l] = "top" /\ tokens' = tokens /\ step'[l] = step[l] + 1
        /\ step[l] < MaxToolSteps
    BY <1>t, <1>6 DEF FinishTurn, TypeOK, TurnOf
  <2>2. Len(messages'[l]) = Len(messages[l]) + 1
    BY <1>t, <1>n, <1>6 DEF FinishTurn, TypeOK
  <2>3. /\ Len(messages[l]) = 2 * step[l] + 2
        /\ MaxLoopTokens > 0 => tokens[l] <= MaxLoopTokens - 1 + MaxTurnTokens
    BY <1>t, <2>1 DEF SpendingOf, InTurn
  <2>4. Len(messages'[l]) = 2 * step'[l] + 1 /\ Len(messages'[l]) <= 2 * MaxToolSteps + 1
    BY <1>c, <1>n, <2>1, <2>2, <2>3
  <2>5. QED
    BY <1>n, <2>1, <2>3, <2>4 DEF SpendingOf, InTurn
<1>7. QED
  BY <1>2, <1>3, <1>4, <1>5, <1>6 DEF LoopStep, Turn

LEMMA SpendingHolds == Spec => []SpendingInv
<1>1. Init => SpendingInv
  BY LoopAssumption DEF Init, SpendingInv, SpendingOf, InTurn
<1>2. IInv /\ SpendingInv /\ [Next]_vars => SpendingInv'
  <2>1. ASSUME SpendingInv, \/ \E s \in Server : Cool(s)
                            \/ UNCHANGED vars
        PROVE  SpendingInv'
    BY <2>1 DEF Cool, vars, turnVars, SpendingInv, SpendingOf, InTurn
  <2>2. QED
    BY <2>1, SpendingStep DEF Next, LoopStep
<1>3. QED
  BY <1>1, <1>2, IInvHolds, PTL DEF Spec

\* A loop overspends its tokens by one turn at most and asks the model at most
\* MAX_TOOL_STEPS times, for any budgets (agentic_loop.py:353-370).
THEOREM OneTurnOverspent == Spec => []BudgetOverspend
<1>1. SpendingInv => BudgetOverspend
  BY DEF SpendingInv, SpendingOf, BudgetOverspend
<1>2. QED
  BY <1>1, SpendingHolds, PTL

-----------------------------------------------------------------------------
(* The conversation *)

\* The k-th turn of a conversation: its tool uses and all their results.
Round(ms, k) ==
  /\ ms[2 * k].role = "assistant" /\ ms[2 * k].ids # <<>>
  /\ ms[2 * k + 1].role = "user" /\ ms[2 * k + 1].ids = ms[2 * k].ids

RoundsOf(l) ==
  /\ messages[l][1] = Question
  /\ \A k \in 1..step[l] : Round(messages[l], k)

RoundsInv == \A l \in Loop : RoundsOf(l)

\* A turn that is finished has the ids of its uses in its results.
LEMMA ResultsComplete ==
  ASSUME IInv, NEW l \in Loop, pc[l] = "tools", ~UsesLeft(l)
  PROVE  Last(l) \in Message /\ results[l] = Last(l).ids
<1>1. Last(l) \in Message /\ results[l] \in Seq(Id) /\ uses[l] \in Seq(Server)
  BY DEF IInv, TypeOK, TurnInv, TurnOf, Last
<1>2. Last(l).ids \in Seq(Id)
  BY <1>1 DEF Message
<1>3. /\ Len(Last(l).ids) = Len(uses[l]) /\ Len(results[l]) <= Len(uses[l])
      /\ \A k \in 1..Len(results[l]) : results[l][k] = Last(l).ids[k]
  BY DEF IInv, TurnInv, TurnOf
<1>4. Len(results[l]) = Len(Last(l).ids)
  BY <1>1, <1>2, <1>3 DEF UsesLeft, NextUse
<1>5. QED
  BY <1>1, <1>2, <1>3, <1>4

LEMMA AppendKeepsRounds ==
  ASSUME NEW ms \in Seq(Message), NEW m \in Message, NEW n \in Nat, Len(ms) >= 2 * n + 1,
         ms[1] = Question, \A k \in 1..n : Round(ms, k)
  PROVE  /\ Append(ms, m)[1] = Question /\ \A k \in 1..n : Round(Append(ms, m), k)
         /\ Append(ms, m)[Len(ms) + 1] = m
         /\ \A i \in 1..Len(ms) : Append(ms, m)[i] = ms[i]
<1>1. \A i \in 1..Len(ms) : Append(ms, m)[i] = ms[i]
  OBVIOUS
<1>2. ASSUME NEW k \in 1..n
      PROVE  Round(Append(ms, m), k)
  <2>1. 2 * k \in 1..Len(ms) /\ 2 * k + 1 \in 1..Len(ms)
    OBVIOUS
  <2>2. Append(ms, m)[2 * k] = ms[2 * k] /\ Append(ms, m)[2 * k + 1] = ms[2 * k + 1]
    BY <1>1, <2>1
  <2>3. QED
    BY <2>2 DEF Round
<1>3. QED
  BY <1>1, <1>2

LEMMA RoundsStep ==
  ASSUME IInv, SpendingInv, RoundsInv, NEW l \in Loop, LoopStep(l)
  PROVE  RoundsInv'
<1> USE DEF Goto, turnVars, serverVars
<1>t. TypeOK /\ TurnOf(l) /\ SpendingOf(l) /\ RoundsOf(l)
  BY DEF IInv, TurnInv, SpendingInv, RoundsInv
<1>n. /\ step[l] \in Nat /\ messages[l] \in Seq(Message) /\ Len(messages[l]) \in Nat
      /\ Len(messages[l]) >= 2 * step[l] + 1
  <2>1. step[l] \in 0..MaxToolSteps /\ MaxToolSteps \in Nat /\ messages[l] \in Seq(Message)
    BY <1>t, LoopAssumption DEF TypeOK
  <2>2. QED
    BY <1>t, <2>1 DEF SpendingOf
<1>r. messages[l][1] = Question /\ \A k \in 1..step[l] : Round(messages[l], k)
  BY <1>t DEF RoundsOf
<1>a. ASSUME NEW m \in Message
      PROVE  /\ Append(messages[l], m)[1] = Question
             /\ \A k \in 1..step[l] : Round(Append(messages[l], m), k)
             /\ Append(messages[l], m)[Len(messages[l]) + 1] = m
             /\ \A i \in 1..Len(messages[l]) : Append(messages[l], m)[i] = messages[l][i]
  BY <1>n, <1>r, AppendKeepsRounds
<1>1. SUFFICES RoundsOf(l)'
  <2>1. ASSUME NEW k \in Loop, k # l
        PROVE  RoundsOf(k)'
    <3>1. RoundsOf(k) /\ messages'[k] = messages[k] /\ step'[k] = step[k]
      BY <2>1, <1>t, OthersStay DEF RoundsInv
    <3>2. QED
      BY <3>1 DEF RoundsOf
  <2>2. QED
    BY <2>1 DEF RoundsInv
<1>2. CASE messages' = messages /\ step' = step
  BY <1>t, <1>2 DEF RoundsOf
<1>3. CASE Ask(l)
  <2>1. step' = step /\ messages'[l] = Trim(messages[l])
    BY <1>t, <1>3 DEF Ask, TypeOK
  <2>2. Trim(messages[l])[1] = messages[l][1]
    <3>1. 1 \notin ToTrim(messages[l]) /\ 1 \in 1..Len(messages[l])
      BY <1>n DEF ToTrim, Eligible
    <3>2. QED
      BY <1>n, <3>1, TrimShape
  <2>3. ASSUME NEW k \in 1..step[l]
        PROVE  Round(Trim(messages[l]), k)
    <3>1. 2 * k \in 1..Len(messages[l]) /\ 2 * k + 1 \in 1..Len(messages[l])
      BY <1>n
    <3>2. Round(messages[l], k)
      BY <1>t DEF RoundsOf
    <3>3. QED
      BY <1>n, <3>1, <3>2, TrimShape DEF Round
  <2>4. QED
    BY <1>t, <2>1, <2>2, <2>3 DEF RoundsOf
<1>4. CASE ModelAnswers(l)
  <2>1. step' = step
    BY <1>4 DEF ModelAnswers
  <2>2. ASSUME NEW n \in 1..MaxUses(l, step[l]),
               messages' = [messages EXCEPT ![l] =
                  Append(@, [role |-> "assistant", ids |-> UseIds(l, n), trims |-> 0])]
        PROVE  RoundsOf(l)'
    <3> DEFINE m == [role |-> "assistant", ids |-> UseIds(l, n), trims |-> 0]
    <3>1. n \in Nat
      BY <1>4, <1>t, LoopAssumption DEF TypeOK
    <3>2. UseIds(l, n) \in Seq(Id)
      BY <3>1, <1>n DEF UseIds, Id
    <3>3. m \in Message
      BY <3>2 DEF Message
    <3>4. messages'[l] = Append(messages[l], m)
      BY <1>t, <2>2 DEF TypeOK
    <3> HIDE DEF m
    <3>5. QED
      BY <1>a, <2>1, <3>3, <3>4 DEF RoundsOf
  <2>3. QED
    BY <1>2, <1>4, <2>1, <2>2 DEF ModelAnswers
<1>5. CASE FinishTurn(l)
  <2> DEFINE m == [role |-> "user", ids |-> results[l], trims |-> 0]
             ms == messages[l]
  <2>1. /\ messages'[l] = Append(ms, m) /\ step'[l] = step[l] + 1
        /\ pc[l] = "tools" /\ ~UsesLeft(l)
    BY <1>t, <1>5 DEF FinishTurn, TypeOK
  <2>2. Len(ms) = 2 * step[l] + 2
    BY <1>t, <2>1 DEF SpendingOf, InTurn
  <2>3. results[l] \in Seq(Id)
    BY <1>t DEF TypeOK
  <2>4. m \in Message
    BY <2>3 DEF Message
  <2>5. /\ Append(ms, m)[1] = Question
        /\ \A k \in 1..step[l] : Round(Append(ms, m), k)
        /\ Append(ms, m)[Len(ms) + 1] = m
        /\ Append(ms, m)[Len(ms)] = ms[Len(ms)]
    <3>1. Len(ms) \in 1..Len(ms)
      BY <1>n, <2>2
    <3> HIDE DEF m
    <3>2. QED
      BY <1>a, <2>4, <3>1
  <2>6. Round(Append(ms, m), step[l] + 1)
    <3>1. Last(l).role = "assistant" /\ Last(l).ids # <<>> /\ results[l] = Last(l).ids
      BY <1>t, <2>1, ResultsComplete DEF TurnOf
    <3>2. 2 * (step[l] + 1) = Len(ms) /\ 2 * (step[l] + 1) + 1 = Len(ms) + 1
      BY <1>n, <2>2
    <3>3. m.role = "user" /\ m.ids = results[l]
      OBVIOUS
    <3>4. QED
      BY <2>5, <3>1, <3>2, <3>3 DEF Round, Last
  <2>7. QED
    BY <1>n, <2>1, <2>5, <2>6 DEF RoundsOf
<1>6. QED
  BY <1>2, <1>3, <1>4, <1>5, AnsweringTurns
     DEF LoopStep, Turn, ListTools, Exhaust, ModelRaises, Abandon

LEMMA RoundsHold == Spec => []RoundsInv
<1>1. Init => RoundsInv
  BY DEF Init, RoundsInv, RoundsOf
<1>2. IInv /\ SpendingInv /\ RoundsInv /\ [Next]_vars => RoundsInv'
  <2>1. ASSUME RoundsInv, \/ \E s \in Server : Cool(s)
                          \/ UNCHANGED vars
        PROVE  RoundsInv'
    BY <2>1 DEF Cool, vars, turnVars, RoundsInv, RoundsOf
  <2>2. QED
    BY <2>1, RoundsStep DEF Next, LoopStep
<1>3. QED
  BY <1>1, <1>2, IInvHolds, SpendingHolds, PTL DEF Spec

\* Whatever is refused, unknown, denied, timed out or trimmed, the model is asked
\* with, and the caller gets, a conversation in which every tool use has its
\* result, in its place (agentic_loop.py:415-535).
THEOREM ConversationStaysPaired == Spec => []ContextPaired
<1>1. ASSUME IInv, SpendingInv, RoundsInv
      PROVE  ContextPaired
  <2> SUFFICES ASSUME NEW l \in Loop, pc[l] \in {"asking", "answered", "degraded"}
               PROVE  Paired(messages[l])
    BY DEF ContextPaired
  <2>1. step[l] \in Nat
    BY <1>1, LoopAssumption DEF IInv, TypeOK
  <2>2. Len(messages[l]) = 2 * step[l] + 1
    BY <1>1 DEF SpendingInv, SpendingOf, InTurn
  <2>3. Len(messages[l]) % 2 = 1 /\ Len(messages[l]) \div 2 = step[l]
    BY <2>1, <2>2
  <2>4. QED
    BY <1>1, <2>3 DEF RoundsInv, RoundsOf, Round, Paired
<1>2. QED
  BY <1>1, IInvHolds, SpendingHolds, RoundsHold, PTL

-----------------------------------------------------------------------------
(* The verbatim window *)

LEMMA OddsCardinality ==
  ASSUME NEW a \in Nat, NEW b \in Nat, a <= b
  PROVE  Cardinality({2 * j + 1 : j \in (a + 1)..b}) = b - a
<1> DEFINE S == (a + 1)..b
           T == {2 * j + 1 : j \in S}
           f == [j \in S |-> 2 * j + 1]
<1>1. IsFiniteSet(S) /\ Cardinality(S) = b - a
  <2>1. IsFiniteSet(S) /\ Cardinality(S) = IF a + 1 > b THEN 0 ELSE b - (a + 1) + 1
    BY FS_Interval
  <2>2. QED
    BY <2>1
<1>2. f \in Injection(S, T)
  BY DEF Injection, IsInjective
<1>3. f \in Surjection(S, T)
  BY DEF Surjection
<1>4. ExistsBijection(S, T)
  BY <1>2, <1>3 DEF ExistsBijection, Bijection
<1>5. QED
  BY <1>1, <1>4, FS_Bijection

\* Of the n turns of a conversation, trimming takes those with KeepLast turns
\* between them and the last one (truncation.py:242-263).
LEMMA TrimmedTurns ==
  ASSUME NEW ms \in Seq(Message), NEW n \in Nat, Len(ms) = 2 * n + 1,
         \A k \in 1..n : Round(ms, k), NEW k \in 1..n
  PROVE  2 * k + 1 \in ToTrim(ms) <=> k + KeepLast < n
<1>k. KeepLast \in Nat /\ k \in Nat /\ KeepLast > 0
  BY LoopAssumption
<1>1. Eligible(ms) = {2 * j + 1 : j \in 1..(n - 1)}
  <2>1. ASSUME NEW j \in 1..(n - 1)
        PROVE  2 * j + 1 \in Eligible(ms)
    <3>1. Round(ms, j) /\ 2 * j + 1 \in 2..(Len(ms) - 2)
      OBVIOUS
    <3>2. QED
      BY <3>1 DEF Round, Eligible, IsResults
  <2>2. ASSUME NEW i \in Eligible(ms)
        PROVE  \E j \in 1..(n - 1) : i = 2 * j + 1
    <3>1. i \in 2..(2 * n - 1) /\ ms[i].role = "user"
      BY DEF Eligible, IsResults
    <3> DEFINE h == i \div 2
    <3>a. h \in 1..n /\ (i = 2 * h \/ i = 2 * h + 1)
      BY <3>1
    <3>2. PICK j \in 1..n : i = 2 * j \/ i = 2 * j + 1
      BY <3>a
    <3>3. i # 2 * j
      BY <3>1 DEF Round
    <3>4. QED
      BY <3>1, <3>2, <3>3
  <2>3. QED
    BY <2>1, <2>2
<1>2. CASE k = n
  <2>1. 2 * k + 1 \notin Eligible(ms)
    BY <1>2 DEF Eligible
  <2>2. QED
    BY <1>2, <1>k, <2>1 DEF ToTrim
<1>3. CASE k # n
  <2>1. k <= n - 1 /\ n - 1 \in Nat /\ k \in 1..(n - 1)
    BY <1>3
  <2>2. {i \in Eligible(ms) : i > 2 * k + 1} = {2 * j + 1 : j \in (k + 1)..(n - 1)}
    BY <1>1, <1>k, <2>1
  <2>3. Cardinality({i \in Eligible(ms) : i > 2 * k + 1}) = n - 1 - k
    BY <1>k, <2>1, <2>2, OddsCardinality
  <2>4. 2 * k + 1 \in Eligible(ms)
    BY <1>1, <2>1
  <2>5. QED
    BY <1>k, <2>1, <2>3, <2>4 DEF ToTrim
<1>4. QED
  BY <1>2, <1>3

\* Between two requests the window is that of the last one.
WindowOf(l) ==
  pc[l] \in {"listing", "top", "asking", "tools", "calling"} =>
    \A k \in 1..step[l] :
      messages[l][2 * k + 1].trims = 0 <=>
        k + KeepLast >= IF pc[l] \in {"listing", "top"} THEN step[l] - 1 ELSE step[l]

WindowInv == \A l \in Loop : WindowOf(l)

LEMMA WindowStep ==
  ASSUME IInv, SpendingInv, RoundsInv, WindowInv, NEW l \in Loop, LoopStep(l)
  PROVE  WindowInv'
<1> USE DEF Goto, turnVars, serverVars
<1>t. TypeOK /\ TurnOf(l) /\ SpendingOf(l) /\ RoundsOf(l) /\ WindowOf(l)
  BY DEF IInv, TurnInv, SpendingInv, RoundsInv, WindowInv
<1>n. /\ step[l] \in Nat /\ messages[l] \in Seq(Message) /\ Len(messages[l]) \in Nat
      /\ Len(messages[l]) >= 2 * step[l] + 1
  <2>1. step[l] \in 0..MaxToolSteps /\ MaxToolSteps \in Nat /\ messages[l] \in Seq(Message)
    BY <1>t, LoopAssumption DEF TypeOK
  <2>2. QED
    BY <1>t, <2>1 DEF SpendingOf
<1>k. KeepLast \in Nat /\ KeepLast > 0
  BY LoopAssumption
<1>p. \A p : pc' = [pc EXCEPT ![l] = p] => pc'[l] = p
  BY <1>t DEF TypeOK
<1>1. SUFFICES WindowOf(l)'
  <2>1. ASSUME NEW k \in Loop, k # l
        PROVE  WindowOf(k)'
    <3>1. WindowOf(k) /\ messages'[k] = messages[k] /\ step'[k] = step[k] /\ pc'[k] = pc[k]
      BY <2>1, <1>t, OthersStay DEF WindowInv
    <3>2. QED
      BY <3>1 DEF WindowOf
  <2>2. QED
    BY <2>1 DEF WindowInv
<1>2. CASE Exhaust(l) \/ ModelRaises(l) \/ Abandon(l)
  <2>1. pc'[l] \in {"degraded", "crashed", "failed", "abandoned"}
    BY <1>p, <1>2 DEF Exhaust, ModelRaises, Abandon
  <2>2. QED
    BY <2>1 DEF WindowOf
<1>3. CASE ListTools(l)
  <2>1. pc[l] = "listing" /\ pc'[l] = "top" /\ messages' = messages /\ step' = step
    BY <1>p, <1>3 DEF ListTools
  <2>2. QED
    BY <1>t, <2>1 DEF WindowOf
<1>4. CASE AnswerInline(l) \/ SendCall(l) \/ Call(l)
  <2>1. InTurn(l) /\ InTurn(l)' /\ messages' = messages /\ step' = step
    BY <1>4, AnsweringTurns
  <2>2. QED
    BY <1>t, <2>1 DEF WindowOf, InTurn
<1>5. CASE Ask(l)
  <2> DEFINE ms == messages[l]
  <2>1. pc[l] = "top" /\ pc'[l] = "asking" /\ step' = step /\ messages'[l] = Trim(ms)
    BY <1>t, <1>p, <1>5 DEF Ask, TypeOK
  <2>2. Len(ms) = 2 * step[l] + 1 /\ \A k \in 1..step[l] : Round(ms, k)
    BY <1>t, <2>1 DEF SpendingOf, RoundsOf, InTurn
  <2>3. ASSUME NEW k \in 1..step[l]
        PROVE  Trim(ms)[2 * k + 1].trims = 0 <=> k + KeepLast >= step[l]
    <3>1. 2 * k + 1 \in 1..Len(ms)
      BY <1>n
    <3>2. ms[2 * k + 1].trims = 0 <=> k + KeepLast >= step[l] - 1
      BY <1>t, <2>1 DEF WindowOf
    <3>3. 2 * k + 1 \in ToTrim(ms) <=> k + KeepLast < step[l]
      BY <1>n, <2>2, TrimmedTurns
    <3>4. CASE k + KeepLast < step[l]
      <4>1. Trim(ms)[2 * k + 1].trims > 0
        BY <1>n, <3>1, <3>3, <3>4, TrimShape
      <4>2. QED
        BY <1>n, <1>k, <3>4, <4>1
    <3>5. CASE ~(k + KeepLast < step[l])
      <4>1. Trim(ms)[2 * k + 1] = ms[2 * k + 1]
        BY <1>n, <3>1, <3>3, <3>5, TrimShape
      <4>2. QED
        BY <1>n, <1>k, <3>2, <3>5, <4>1
    <3>6. QED
      BY <3>4, <3>5
  <2>4. QED
    BY <2>1, <2>3 DEF WindowOf
<1>6. CASE ModelAnswers(l)
  <2>1. pc[l] = "asking" /\ step' = step /\ pc'[l] \in {"answered", "tools"}
    BY <1>p, <1>6 DEF ModelAnswers
  <2>2. ASSUME NEW m, messages'[l] = Append(messages[l], m), pc'[l] = "tools"
        PROVE  WindowOf(l)'
    <3>1. \A k \in 1..step[l] : messages'[l][2 * k + 1] = messages[l][2 * k + 1]
      <4>1. ASSUME NEW k \in 1..step[l]
            PROVE  2 * k + 1 \in 1..Len(messages[l])
        BY <1>n
      <4>2. QED
        BY <1>n, <2>2, <4>1
    <3>2. QED
      BY <1>t, <2>1, <2>2, <3>1 DEF WindowOf
  <2>3. CASE pc'[l] = "answered"
    BY <2>3 DEF WindowOf
  <2>4. CASE pc'[l] = "tools"
    <3>1. \E m : messages' = [messages EXCEPT ![l] = Append(@, m)]
      BY <1>p, <1>6, <2>4 DEF ModelAnswers
    <3>2. QED
      BY <1>t, <2>2, <2>4, <3>1 DEF TypeOK
  <2>5. QED
    BY <2>1, <2>3, <2>4
<1>7. CASE FinishTurn(l)
  <2> DEFINE m == [role |-> "user", ids |-> results[l], trims |-> 0]
             ms == messages[l]
  <2>1. /\ messages'[l] = Append(ms, m) /\ step'[l] = step[l] + 1
        /\ pc[l] = "tools" /\ pc'[l] = "top"
    BY <1>t, <1>p, <1>7 DEF FinishTurn, TypeOK
  <2>2. Len(ms) = 2 * step[l] + 2
    BY <1>t, <2>1 DEF SpendingOf, InTurn
  <2>3. ASSUME NEW k \in 1..step[l]
        PROVE  Append(ms, m)[2 * k + 1].trims = 0 <=> k + KeepLast >= step[l]
    <3>1. 2 * k + 1 \in 1..Len(ms)
      BY <1>n
    <3>2. Append(ms, m)[2 * k + 1] = ms[2 * k + 1]
      BY <1>n, <3>1
    <3>3. QED
      BY <1>t, <2>1, <3>2 DEF WindowOf
  <2>4. Append(ms, m)[2 * (step[l] + 1) + 1] = m /\ m.trims = 0
    <3>1. 2 * (step[l] + 1) + 1 = Len(ms) + 1
      BY <1>n, <2>2
    <3>2. Append(ms, m)[Len(ms) + 1] = m
      BY <1>n
    <3>3. QED
      BY <3>1, <3>2
  <2> DEFINE longer == Append(ms, m)
  <2>a. \A k \in 1..step[l] : longer[2 * k + 1].trims = 0 <=> k + KeepLast >= step[l]
    BY <2>3
  <2>b. longer[2 * (step[l] + 1) + 1].trims = 0
    BY <2>4
  <2>c. messages'[l] = longer
    BY <2>1
  <2> HIDE DEF longer
  <2>5. ASSUME NEW k \in 1..(step[l] + 1)
        PROVE  longer[2 * k + 1].trims = 0 <=> k + KeepLast >= step[l]
    <3>1. CASE k = step[l] + 1
      <4>1. k + KeepLast >= step[l]
        BY <1>n, <1>k, <3>1
      <4>2. QED
        BY <2>b, <3>1, <4>1
    <3>2. CASE k # step[l] + 1
      <4>1. k \in 1..step[l]
        BY <1>n, <3>2
      <4>2. QED
        BY <2>a, <4>1
    <3>3. QED
      BY <3>1, <3>2
  <2>6. step'[l] - 1 = step[l] /\ step'[l] = step[l] + 1 /\ pc'[l] = "top"
    BY <1>n, <2>1
  <2>7. QED
    BY <2>c, <2>5, <2>6 DEF WindowOf
<1>8. QED
  BY <1>2, <1>3, <1>4, <1>5, <1>6, <1>7 DEF LoopStep, Turn

LEMMA WindowHolds == Spec => []WindowInv
<1>1. Init => WindowInv
  BY DEF Init, WindowInv, WindowOf
<1>2. IInv /\ SpendingInv /\ RoundsInv /\ WindowInv /\ [Next]_vars => WindowInv'
  <2>1. ASSUME WindowInv, \/ \E s \in Server : Cool(s)
                          \/ UNCHANGED vars
        PROVE  WindowInv'
    BY <2>1 DEF Cool, vars, turnVars, WindowInv, WindowOf
  <2>2. QED
    BY <2>1, WindowStep DEF Next, LoopStep
<1>3. QED
  BY <1>1, <1>2, IInvHolds, SpendingHolds, RoundsHold, PTL DEF Spec

\* Trimming in place, turn by turn, shows the model the last KeepLast + 1 tool
\* turns verbatim and none before them, for any window (truncation.py:242-263).
THEOREM WindowIsExact == Spec => []VerbatimWindow
<1>1. ASSUME IInv, SpendingInv, WindowInv
      PROVE  VerbatimWindow
  <2> SUFFICES ASSUME NEW l \in Loop, pc[l] = "asking",
                      NEW k \in 1..(Len(messages[l]) \div 2)
               PROVE  messages[l][2 * k + 1].trims = 0 <=> k + KeepLast >= Len(messages[l]) \div 2
    BY DEF VerbatimWindow
  <2>1. step[l] \in Nat
    BY <1>1, LoopAssumption DEF IInv, TypeOK
  <2>2. Len(messages[l]) = 2 * step[l] + 1
    BY <1>1 DEF SpendingInv, SpendingOf, InTurn
  <2>3. Len(messages[l]) \div 2 = step[l]
    BY <2>1, <2>2
  <2>4. QED
    BY <1>1, <2>3 DEF WindowInv, WindowOf
<1>2. QED
  BY <1>1, IInvHolds, SpendingHolds, WindowHolds, PTL
=============================================================================

--------------------------- MODULE IncidentsProofs ---------------------------
(***************************************************************************)
(* Theorems about Incidents: for any number of replicas, handlers,         *)
(* distillations and items.  Beside the types, each of the three parts has *)
(* an invariant of its own: the handlers between their look-up and their   *)
(* mark sit on replicas of their own and, with the investigations already  *)
(* started, are no more than the replicas (Alerts); what a distillation    *)
(* has read of the counter is not above the bill (Books), and without a    *)
(* failure the distillations underway are already covered by the bound on  *)
(* the overspend (Spending), while every one that has called the model is  *)
(* charged, lost or under way (Paying); an active row was vouched for      *)
(* (Cases).                                                                *)
(***************************************************************************)
EXTENDS Incidents, FiniteSetTheorems, TLAPS

Charging == \A t \in Task : task[t] = "charging" <=> seen[t] # None

Types == TypeOK /\ Charging

LEMMA TasksFinite ==
  /\ IsFiniteSet(Task) /\ Cardinality(Task) \in Nat
  /\ IsFiniteSet(UnderWay) /\ Cardinality(UnderWay) \in Nat
  /\ Cardinality(UnderWay) <= Cardinality(Task)
<1>1. IsFiniteSet(Task) /\ UnderWay \in SUBSET Task
  BY IncidentsAssumption DEF UnderWay
<1>2. IsFiniteSet(UnderWay) /\ Cardinality(UnderWay) <= Cardinality(Task)
  BY <1>1, FS_Subset
<1> QED
  BY <1>1, <1>2, FS_CardinalityType

LEMMA TasksFiniteAfter ==
  /\ IsFiniteSet(UnderWay') /\ Cardinality(UnderWay') \in Nat
  /\ Cardinality(UnderWay') <= Cardinality(Task)
<1>1. IsFiniteSet(Task) /\ UnderWay' \in SUBSET Task
  BY IncidentsAssumption DEF UnderWay
<1>2. IsFiniteSet(UnderWay') /\ Cardinality(UnderWay') <= Cardinality(Task)
  BY <1>1, FS_Subset
<1> QED
  BY <1>1, <1>2, FS_CardinalityType

\* The distillations that die with a replica, and those that do not.
LEMMA Deaths ==
  ASSUME NEW r
  PROVE  /\ Cardinality({t \in UnderWay : Home[t] = r}) \in Nat
         /\ Cardinality({t \in UnderWay : Home[t] # r})
              = Cardinality(UnderWay) - Cardinality({t \in UnderWay : Home[t] = r})
<1> DEFINE D == {t \in UnderWay : Home[t] = r}
<1>1. IsFiniteSet(D) /\ Cardinality(D) \in Nat
  BY TasksFinite, FS_Subset, FS_CardinalityType
<1>2. Cardinality(UnderWay \ D) = Cardinality(UnderWay) - Cardinality(UnderWay \cap D)
  BY TasksFinite, <1>1, FS_Difference
<1>3. UnderWay \cap D = D /\ UnderWay \ D = {t \in UnderWay : Home[t] # r}
  OBVIOUS
<1> QED
  BY <1>1, <1>2, <1>3

LEMMA InitTypes == Init => Types
<1> SUFFICES ASSUME Init
             PROVE  Types
  OBVIOUS
<1>1. TypeOK
  BY Zenon, IncidentsAssumption DEF Init, TypeOK
<1>2. Charging
  BY DEF Init, Charging
<1> QED
  BY <1>1, <1>2 DEF Types

LEMMA NextTypes == Types /\ [Next]_vars => Types'
<1> SUFFICES ASSUME TypeOK, Charging, [Next]_vars
             PROVE  TypeOK' /\ Charging'
  BY DEF Types
<1> USE IncidentsAssumption
        DEF TypeOK, Charging, alertVars, taskVars, ghostVars, kbVars, HandlerAt, TaskAt, Disturb
<1>1. ASSUME NEW h \in Handler, LookUp(h)
      PROVE  TypeOK' /\ Charging'
  BY <1>1 DEF LookUp
<1>2. ASSUME NEW h \in Handler, Mark(h)
      PROVE  TypeOK' /\ Charging'
  <2>1. started' \in Nat
    BY <1>2 DEF Mark
  <2> QED
    BY <1>2, <2>1 DEF Mark
<1>3. ASSUME NEW h \in Handler, Synthesize(h)
      PROVE  TypeOK' /\ Charging'
  BY <1>3 DEF Synthesize, Similar
<1>4. ASSUME NEW h \in Handler, Conclude(h)
      PROVE  TypeOK' /\ Charging'
  BY <1>4 DEF Conclude
<1>5. ASSUME NEW t \in Task, Begin(t) \/ NothingToKeep(t) \/ Refine(t)
      PROVE  TypeOK' /\ Charging'
  <2>1. CASE Begin(t)
    <3>1. paid' \in Nat
      BY <2>1 DEF Begin
    <3>2. /\ task' = [task EXCEPT ![t] = "distilling"] /\ task[t] = "idle"
          /\ disturbed' \subseteq {"mark", "counter", "carried"}
          /\ UNCHANGED <<handler, cases, marked, started, seen, counter, bill, unrecorded, kb, approved>>
      BY <2>1 DEF Begin
    <3> QED
      BY <3>1, <3>2
  <2>2. CASE NothingToKeep(t)
    <3>1. unrecorded' \in Nat
      BY <2>2 DEF NothingToKeep
    <3> QED
      BY <2>2, <3>1 DEF NothingToKeep
  <2>3. CASE Refine(t)
    BY <2>3 DEF Refine
  <2> QED
    BY <1>5, <2>1, <2>2, <2>3
<1>6. ASSUME NEW t \in Task, Insert(t)
      PROVE  TypeOK' /\ Charging'
  <2>1. PICK k \in Item, d \in Delta, e \in BOOLEAN :
          /\ decide_status(d) # "rejected"
          /\ kb' = [kb EXCEPT ![k] = [type |-> d.type, confidence |-> d.confidence,
                                      status |-> decide_status(d), embedded |-> e]]
    BY <1>6 DEF Insert
  <2>2. d.type \in Type /\ d.confidence \in Nat /\ decide_status(d) \in {"active", "pending_review"}
    BY <2>1 DEF decide_status
  <2>3. kb' \in [Item -> Row \cup {None}]
    BY <2>1, <2>2 DEF Row
  <2> QED
    BY <1>6, <2>3 DEF Insert
<1>7. ASSUME NEW t \in Task, ReadCounter(t)
      PROVE  TypeOK' /\ Charging'
  <2>1. /\ task' = [task EXCEPT ![t] = "charging"]
        /\ \E n \in Nat : seen' = [seen EXCEPT ![t] = n]
    BY <1>7 DEF ReadCounter
  <2>2. /\ UNCHANGED <<handler, cases, marked, started, counter, bill, paid, unrecorded, kb, approved>>
        /\ disturbed' \subseteq {"mark", "counter", "carried"}
    BY <1>7 DEF ReadCounter
  <2> QED
    BY <2>1, <2>2
<1>8. ASSUME NEW t \in Task, WriteCounter(t)
      PROVE  TypeOK' /\ Charging'
  <2>1. seen[t] \in Nat /\ task' = [task EXCEPT ![t] = "idle"] /\ seen' = [seen EXCEPT ![t] = None]
    BY <1>8 DEF WriteCounter, Charged
  <2>2. counter' \in Nat /\ bill' \in Nat
    BY <1>8, <2>1 DEF WriteCounter, Charged
  <2>3. /\ UNCHANGED <<handler, cases, marked, started, paid, unrecorded, kb, approved>>
        /\ disturbed' \subseteq {"mark", "counter", "carried"}
    BY <1>8 DEF WriteCounter, Charged
  <2> QED
    BY <2>1, <2>2, <2>3
<1>9. ASSUME NEW k \in Item, NEW s \in {"active", "rejected"}, Review(k, s)
      PROVE  TypeOK' /\ Charging'
  BY <1>9 DEF Review, Row
<1>10. ASSUME NEW r \in Replica, Crash(r)
       PROVE  TypeOK' /\ Charging'
  <2>1. /\ unrecorded' = unrecorded + Cardinality({t \in UnderWay : Home[t] = r})
        /\ Cardinality({t \in UnderWay : Home[t] = r}) \in Nat
    BY <1>10, Deaths DEF Crash
  <2> QED
    BY <1>10, <2>1 DEF Crash
<1>11. CASE Expire
  BY <1>11 DEF Expire
<1>12. CASE NewMonth
  BY <1>12, TasksFinite DEF NewMonth
<1>13. CASE UNCHANGED vars
  BY <1>13 DEF vars
<1> QED
  BY <1>1, <1>2, <1>3, <1>4, <1>5, <1>6, <1>7, <1>8, <1>9, <1>10, <1>11, <1>12, <1>13
     DEF Next, Alert, Distill

LEMMA TypesAlways == Spec => []Types
BY InitTypes, NextTypes, PTL DEF Spec

-----------------------------------------------------------------------------
(* Cases *)

Asking == \A d \in Delta : d.confidence <= 100

Cases ==
  /\ \A k \in Item : kb[k] # None /\ kb[k].status = "active" => Vouched(k)
  /\ \A h \in Handler : \A k \in cases[h] : kb[k] # None /\ Vouched(k)

\* What decide_status approves on its own reaches the documented confidence.
LEMMA ApprovedAlone ==
  ASSUME Asking, NEW d \in Delta, decide_status(d) = "active"
  PROVE  d.type \in DOMAIN Documented /\ d.confidence >= Documented[d.type]
<1>1. d.type \in Type /\ d.confidence \in Nat /\ d.confidence <= 100
  BY IncidentsAssumption DEF Asking
<1>2. d.confidence >= THRESHOLDS[d.type]
  BY <1>1 DEF decide_status
<1> QED
  BY <1>1, <1>2 DEF Type, THRESHOLDS, Documented

LEMMA NextCases == Asking /\ Types /\ Cases /\ [Next]_vars => Cases'
<1> SUFFICES ASSUME Asking, Types, Cases, [Next]_vars
             PROVE  Cases'
  OBVIOUS
<1> USE DEF Types, TypeOK, Cases, Vouched, alertVars, taskVars, ghostVars, kbVars
<1>1. ASSUME UNCHANGED <<cases, kbVars>>
      PROVE  Cases'
  BY <1>1
<1>2. ASSUME NEW h \in Handler, Synthesize(h)
      PROVE  Cases'
  BY <1>2 DEF Synthesize, Similar
<1>3. ASSUME NEW h \in Handler, Conclude(h)
      PROVE  Cases'
  BY <1>3 DEF Conclude
<1>4. ASSUME NEW t \in Task, Insert(t)
      PROVE  Cases'
  <2>1. PICK k \in Item, d \in Delta, e \in BOOLEAN :
          /\ kb[k] = None
          /\ kb' = [kb EXCEPT ![k] = [type |-> d.type, confidence |-> d.confidence,
                                      status |-> decide_status(d), embedded |-> e]]
    BY <1>4 DEF Insert
  <2>2. approved' = approved /\ cases' = cases
    BY <1>4 DEF Insert
  <2>3. kb'[k].status = "active" => Vouched(k)'
    BY <2>1, ApprovedAlone
  <2>4. \A i \in Item \ {k} : kb'[i] = kb[i] /\ (Vouched(i)' <=> Vouched(i))
    BY <2>1, <2>2
  <2>5. \A h \in Handler : k \notin cases[h]
    BY <2>1
  <2> HIDE DEF Vouched
  <2> QED
    BY <2>2, <2>3, <2>4, <2>5
<1>5. ASSUME NEW k \in Item, NEW s \in {"active", "rejected"}, Review(k, s)
      PROVE  Cases'
  <2>1. /\ kb[k] # None /\ kb' = [kb EXCEPT ![k].status = s]
        /\ approved \subseteq approved' /\ (s = "active" => k \in approved') /\ cases' = cases
    BY <1>5 DEF Review
  <2>2. \A i \in Item : kb[i] # None => /\ kb'[i] # None
                                       /\ kb'[i].type = kb[i].type
                                       /\ kb'[i].confidence = kb[i].confidence
    <3>1. \A i \in Item \ {k} : kb'[i] = kb[i]
      BY <2>1
    <3>2. kb[k] \in Row /\ kb'[k] = [kb[k] EXCEPT !.status = s]
      BY <2>1
    <3>3. kb'[k] = [type |-> kb[k].type, confidence |-> kb[k].confidence,
                    status |-> s, embedded |-> kb[k].embedded]
      BY Zenon, <3>2 DEF Row
    <3>4. kb'[k] \in Row
      BY <3>2, <3>3 DEF Row
    <3>5. kb'[k] # None
      BY <3>4, IncidentsAssumption
    <3> QED
      BY <3>1, <3>3, <3>5
  <2>3. \A i \in Item : kb[i] # None /\ Vouched(i) => Vouched(i)'
    BY <2>1, <2>2
  <2>4. kb'[k].status = s /\ \A i \in Item \ {k} : kb'[i] = kb[i]
    BY <2>1 DEF Row
  <2>5. \A i \in Item : kb'[i] # None /\ kb'[i].status = "active" => Vouched(i)'
    BY <2>1, <2>3, <2>4
  <2> QED
    BY <2>1, <2>2, <2>3, <2>5
<1>6. ASSUME NEW r \in Replica, Crash(r)
      PROVE  Cases'
  BY <1>6 DEF Crash
<1>7. ASSUME NEW h \in Handler, LookUp(h) \/ Mark(h)
      PROVE  Cases'
  BY <1>1, <1>7 DEF LookUp, Mark
<1>8. ASSUME NEW t \in Task,
             Begin(t) \/ NothingToKeep(t) \/ Refine(t) \/ ReadCounter(t) \/ WriteCounter(t)
      PROVE  Cases'
  BY <1>1, <1>8 DEF Begin, NothingToKeep, Refine, ReadCounter, WriteCounter, Charged
<1>9. CASE Expire \/ NewMonth \/ UNCHANGED vars
  BY <1>1, <1>9 DEF Expire, NewMonth, vars
<1> QED
  BY <1>2, <1>3, <1>4, <1>5, <1>6, <1>7, <1>8, <1>9 DEF Next, Alert, Distill

(* While the model answers with confidences of at most 1, every case of an         *)
(* investigation has a person's approval or, being no decision, the documented     *)
(* confidence of its type, whatever reviews, insertions and crashes come between   *)
(* the search and its use.  Without the assumption this is false: never is a       *)
(* threshold of 1.01, and no code bounds the confidence the model answers.         *)
THEOREM VouchedCases ==
  ASSUME \A d \in Delta : d.confidence <= 100
  PROVE  Spec => []CasesVouched
<1>1. Init => Cases
  BY DEF Init, Cases
<1>2. Cases => CasesVouched
  BY DEF Cases, CasesVouched
<1>3. Types /\ Cases /\ [Next]_vars => Cases'
  BY NextCases DEF Asking
<1> QED
  BY <1>1, <1>2, <1>3, TypesAlways, PTL DEF Spec

-----------------------------------------------------------------------------
(* The counter against the bill *)

Books ==
  "carried" \notin disturbed =>
    /\ counter <= bill
    /\ \A t \in Task : seen[t] # None => seen[t] <= bill

LEMMA NextBooks == Types /\ Books /\ [Next]_vars => Books'
<1> SUFFICES ASSUME Types, Books, [Next]_vars, "carried" \notin disturbed'
             PROVE  /\ counter' <= bill'
                    /\ \A t \in Task : seen'[t] # None => seen'[t] <= bill'
  BY DEF Books
<1> USE DEF Types, TypeOK, Charging, Books, alertVars, taskVars, ghostVars, kbVars, Disturb
<1>1. ASSUME UNCHANGED <<seen, counter, bill>>, "carried" \notin disturbed
      PROVE  /\ counter' <= bill'
             /\ \A t \in Task : seen'[t] # None => seen'[t] <= bill'
  BY <1>1
<1>2. ASSUME NEW t \in Task, ReadCounter(t)
      PROVE  /\ counter' <= bill'
             /\ \A p \in Task : seen'[p] # None => seen'[p] <= bill'
  <2>1. /\ "carried" \notin disturbed /\ counter' = counter /\ bill' = bill
        /\ \E n \in 0..bill : seen' = [seen EXCEPT ![t] = n]
    BY <1>2 DEF ReadCounter
  <2> QED
    BY <2>1
<1>3. ASSUME NEW t \in Task, WriteCounter(t)
      PROVE  /\ counter' <= bill'
             /\ \A p \in Task : seen'[p] # None => seen'[p] <= bill'
  <2>1. "carried" \notin disturbed /\ bill' = bill + 1 /\ seen' = [seen EXCEPT ![t] = None]
    BY <1>3 DEF WriteCounter, Charged
  <2>2. seen[t] \in Nat /\ seen[t] <= bill
    BY <1>3, <2>1, IncidentsAssumption DEF WriteCounter
  <2>3. counter' = seen[t] + 1 \/ counter' = counter
    BY <1>3 DEF WriteCounter
  <2>4. counter' <= bill'
    BY <2>1, <2>2, <2>3
  <2>5. ASSUME NEW p \in Task, seen'[p] # None
        PROVE  seen'[p] <= bill'
    <3>1. seen'[p] = seen[p] /\ seen[p] \in Nat
      BY <2>1, <2>5
    <3>2. seen[p] <= bill
      BY <2>1, <2>5, <3>1
    <3> QED
      BY <2>1, <3>1, <3>2
  <2> QED
    BY <2>4, <2>5
<1>4. CASE NewMonth
  <2>1. \A t \in Task : task[t] # "charging"
    BY <1>4 DEF NewMonth
  <2> QED
    BY <1>4, <2>1 DEF NewMonth
<1>5. ASSUME NEW r \in Replica, Crash(r)
      PROVE  /\ counter' <= bill'
             /\ \A p \in Task : seen'[p] # None => seen'[p] <= bill'
  BY <1>5 DEF Crash
<1>6. ASSUME NEW h \in Handler, LookUp(h) \/ Mark(h) \/ Synthesize(h) \/ Conclude(h)
      PROVE  UNCHANGED <<seen, counter, bill>> /\ "carried" \notin disturbed
  BY <1>6 DEF LookUp, Mark, Synthesize, Conclude
<1>7. ASSUME NEW t \in Task, Begin(t) \/ NothingToKeep(t) \/ Refine(t) \/ Insert(t)
      PROVE  UNCHANGED <<seen, counter, bill>> /\ "carried" \notin disturbed
  BY <1>7 DEF Begin, NothingToKeep, Refine, Insert
<1>8. ASSUME NEW k \in Item, NEW s \in {"active", "rejected"}, Review(k, s)
      PROVE  UNCHANGED <<seen, counter, bill>> /\ "carried" \notin disturbed
  BY <1>8 DEF Review
<1>9. CASE Expire \/ UNCHANGED vars
  BY <1>1, <1>9 DEF Expire, vars
<1> QED
  BY <1>1, <1>2, <1>3, <1>4, <1>5, <1>6, <1>7, <1>8, <1>9 DEF Next, Alert, Distill

(* The budget never stops too early: whatever updates of record_cost are lost, and *)
(* however many distillations interleave, the counter is not above what the month  *)
(* has cost, unless the month turned between its read and its write.               *)
THEOREM NotOvercharged == Spec => []NeverOvercharged
<1>1. Init => Books
  BY DEF Init, Books
<1>2. Books => NeverOvercharged
  BY DEF Books, NeverOvercharged
<1> QED
  BY <1>1, <1>2, TypesAlways, NextBooks, PTL DEF Spec

-----------------------------------------------------------------------------
(* Spending without a failure *)

Spending ==
  "counter" \notin disturbed =>
    /\ counter = bill
    /\ bill + Cardinality(UnderWay) <= Cap + Cardinality(Task) - 1

\* Nobody becomes busy: there are no more than before.
LEMMA NoMoreUnderWay ==
  ASSUME UnderWay' \subseteq UnderWay
  PROVE  Cardinality(UnderWay') <= Cardinality(UnderWay)
BY TasksFinite, FS_Subset

LEMMA NextSpending == Types /\ Spending /\ [Next]_vars => Spending'
<1> SUFFICES ASSUME Types, Spending, [Next]_vars, "counter" \notin disturbed'
             PROVE  /\ counter' = bill'
                    /\ bill' + Cardinality(UnderWay') <= Cap + Cardinality(Task) - 1
  BY DEF Spending
<1> USE DEF Types, TypeOK, Charging, Spending, alertVars, taskVars, ghostVars, kbVars, Disturb, TaskAt
<1>0. /\ Cap \in Nat \ {0} /\ Cardinality(Task) \in Nat
      /\ Cardinality(UnderWay) \in Nat /\ Cardinality(UnderWay') \in Nat
      /\ Cardinality(UnderWay') <= Cardinality(Task)
  BY IncidentsAssumption, TasksFinite, TasksFiniteAfter
<1>1. ASSUME UNCHANGED <<counter, bill>>, UnderWay' \subseteq UnderWay, "counter" \notin disturbed
      PROVE  /\ counter' = bill'
             /\ bill' + Cardinality(UnderWay') <= Cap + Cardinality(Task) - 1
  BY <1>0, <1>1, NoMoreUnderWay
<1>2. ASSUME NEW t \in Task, Begin(t)
      PROVE  /\ counter' = bill'
             /\ bill' + Cardinality(UnderWay') <= Cap + Cardinality(Task) - 1
  <2>1. /\ "counter" \notin disturbed /\ counter + 1 <= Cap
        /\ UNCHANGED <<counter, bill>>
    BY <1>2 DEF Begin
  <2> QED
    BY <1>0, <2>1
<1>3. ASSUME NEW t \in Task, WriteCounter(t)
      PROVE  /\ counter' = bill'
             /\ bill' + Cardinality(UnderWay') <= Cap + Cardinality(Task) - 1
  <2>1. /\ "counter" \notin disturbed
        /\ counter' = counter + 1 /\ bill' = bill + 1
        /\ task[t] = "charging" /\ task' = [task EXCEPT ![t] = "idle"]
    BY <1>3 DEF WriteCounter, Charged
  <2>2. UnderWay' = UnderWay \ {t} /\ t \in UnderWay
    BY <2>1 DEF UnderWay
  <2>3. Cardinality(UnderWay') = Cardinality(UnderWay) - 1
    BY <2>2, TasksFinite, FS_RemoveElement
  <2> QED
    BY <1>0, <2>1, <2>3
<1>4. CASE NewMonth
  <2>1. counter' = 0 /\ bill' = 0
    BY <1>4 DEF NewMonth
  <2> QED
    BY <1>0, <2>1
<1>5. ASSUME NEW t \in Task, NothingToKeep(t) \/ Refine(t) \/ Insert(t) \/ ReadCounter(t)
      PROVE  UNCHANGED <<counter, bill>> /\ UnderWay' \subseteq UnderWay /\ "counter" \notin disturbed
  BY <1>5 DEF NothingToKeep, Refine, Insert, ReadCounter, UnderWay
<1>6. ASSUME NEW h \in Handler, LookUp(h) \/ Mark(h) \/ Synthesize(h) \/ Conclude(h)
      PROVE  UNCHANGED <<counter, bill>> /\ UnderWay' \subseteq UnderWay /\ "counter" \notin disturbed
  BY <1>6 DEF LookUp, Mark, Synthesize, Conclude, UnderWay
<1>7. ASSUME NEW r \in Replica, Crash(r)
      PROVE  UNCHANGED <<counter, bill>> /\ UnderWay' \subseteq UnderWay /\ "counter" \notin disturbed
  BY <1>7 DEF Crash, UnderWay
<1>8. ASSUME NEW k \in Item, NEW s \in {"active", "rejected"}, Review(k, s)
      PROVE  UNCHANGED <<counter, bill>> /\ UnderWay' \subseteq UnderWay /\ "counter" \notin disturbed
  BY <1>8 DEF Review, UnderWay
<1>9. CASE Expire \/ UNCHANGED vars
  BY <1>1, <1>9 DEF Expire, vars, UnderWay
<1> QED
  BY <1>1, <1>2, <1>3, <1>4, <1>5, <1>6, <1>7, <1>8, <1>9 DEF Next, Alert, Distill

\* Whatever fails, a distillation that has called the model is charged, lost or under way.
Paying == paid = bill + unrecorded + Cardinality(UnderWay)

LEMMA NextPaying == Types /\ Paying /\ [Next]_vars => Paying'
<1> SUFFICES ASSUME Types, Paying, [Next]_vars
             PROVE  Paying'
  OBVIOUS
<1> USE DEF Types, TypeOK, Charging, Paying, alertVars, taskVars, ghostVars, kbVars, TaskAt
<1>0. Cardinality(UnderWay) \in Nat /\ Cardinality(UnderWay') \in Nat
  BY TasksFinite, TasksFiniteAfter
<1>1. ASSUME UNCHANGED ghostVars, UnderWay' = UnderWay
      PROVE  Paying'
  BY <1>1
<1>2. ASSUME NEW t \in Task, Begin(t)
      PROVE  Paying'
  <2>1. UnderWay' = UnderWay \cup {t} /\ t \notin UnderWay
    BY <1>2 DEF Begin, UnderWay
  <2>2. Cardinality(UnderWay') = Cardinality(UnderWay) + 1
    BY <2>1, TasksFinite, FS_AddElement
  <2> QED
    BY <1>0, <1>2, <2>2 DEF Begin
<1>3. ASSUME NEW t \in Task, NothingToKeep(t) \/ WriteCounter(t)
      PROVE  Paying'
  <2>1. UnderWay' = UnderWay \ {t} /\ t \in UnderWay
    BY <1>3 DEF NothingToKeep, WriteCounter, Charged, UnderWay
  <2>2. Cardinality(UnderWay') = Cardinality(UnderWay) - 1
    BY <2>1, TasksFinite, FS_RemoveElement
  <2>3. CASE NothingToKeep(t)
    <3>1. paid' = paid /\ bill' = bill /\ unrecorded' = unrecorded + 1
      BY <2>3 DEF NothingToKeep
    <3> QED
      BY <1>0, <2>2, <3>1
  <2>4. CASE WriteCounter(t)
    <3>1. paid' = paid /\ bill' = bill + 1 /\ unrecorded' = unrecorded
      BY <2>4 DEF WriteCounter, Charged
    <3> QED
      BY <1>0, <2>2, <3>1
  <2> QED
    BY <1>3, <2>3, <2>4
<1>4. ASSUME NEW r \in Replica, Crash(r)
      PROVE  Paying'
  <2>1. UnderWay' = {t \in UnderWay : Home[t] # r}
    BY <1>4 DEF Crash, UnderWay
  <2>2. /\ UNCHANGED <<bill, paid>>
        /\ unrecorded' = unrecorded + Cardinality({t \in UnderWay : Home[t] = r})
    BY <1>4 DEF Crash
  <2>3. /\ Cardinality({t \in UnderWay : Home[t] = r}) \in Nat
        /\ Cardinality(UnderWay') = Cardinality(UnderWay) - Cardinality({t \in UnderWay : Home[t] = r})
    BY <2>1, Deaths
  <2> QED
    BY <1>0, <2>2, <2>3
<1>5. CASE NewMonth
  <2>1. UnderWay' = UnderWay
    BY <1>5 DEF NewMonth, UnderWay
  <2> QED
    BY <1>0, <1>5, <2>1 DEF NewMonth
<1>6. ASSUME NEW t \in Task, Refine(t) \/ Insert(t) \/ ReadCounter(t)
      PROVE  Paying'
  BY <1>1, <1>6 DEF Refine, Insert, ReadCounter, UnderWay
<1>7. ASSUME NEW h \in Handler, LookUp(h) \/ Mark(h) \/ Synthesize(h) \/ Conclude(h)
      PROVE  Paying'
  BY <1>1, <1>7 DEF LookUp, Mark, Synthesize, Conclude, UnderWay
<1>8. ASSUME NEW k \in Item, NEW s \in {"active", "rejected"}, Review(k, s)
      PROVE  Paying'
  BY <1>1, <1>8 DEF Review, UnderWay
<1>9. CASE Expire \/ UNCHANGED vars
  BY <1>1, <1>9 DEF Expire, vars, UnderWay
<1> QED
  BY <1>2, <1>3, <1>4, <1>5, <1>6, <1>7, <1>8, <1>9 DEF Next, Alert, Distill

(* Check and charge are a pipeline apart, yet without a failure or a lost update   *)
(* what a month pays for, extractions that were never recorded apart, exceeds its  *)
(* budget by fewer distillations than can run at once.                             *)
THEOREM OverspendLimited == Spec => []MonthlyOverspend
<1>1. Init => Spending /\ Paying
  <2> SUFFICES ASSUME Init
               PROVE  Spending /\ Paying
    OBVIOUS
  <2>1. UnderWay = {}
    BY DEF Init, UnderWay
  <2>2. Cardinality(UnderWay) = 0
    BY <2>1, FS_EmptySet
  <2> QED
    BY <2>2, TasksFinite, IncidentsAssumption DEF Init, Spending, Paying
<1>2. Types /\ Spending /\ Paying => MonthlyOverspend
  BY TasksFinite, IncidentsAssumption DEF Types, TypeOK, Spending, Paying, MonthlyOverspend
<1> QED
  BY <1>1, <1>2, TypesAlways, NextSpending, NextPaying, PTL DEF Spec

-----------------------------------------------------------------------------
(* Alerts *)

Markers == {h \in Handler : handler[h] = "marking"}

Alone == \A g, h \in Markers : Home[g] = Home[h] => g = h

Investigated ==
  "mark" \notin disturbed =>
    /\ ~marked => started = 0
    /\ started + Cardinality(Markers) <= Cardinality(Replica)

Alerts == Alone /\ Investigated

\* Handlers on replicas of their own are no more than the replicas.
LEMMA AtMostOneEach ==
  ASSUME Alone
  PROVE  /\ IsFiniteSet(Markers) /\ Cardinality(Markers) \in Nat
         /\ Cardinality(Replica) \in Nat /\ Cardinality(Markers) <= Cardinality(Replica)
<1> DEFINE f == [h \in Markers |-> Home[h]]
<1>1. f \in [Markers -> Replica]
  BY IncidentsAssumption DEF Markers
<1>2. IsInjective(f)
  BY DEF Alone, IsInjective
<1>3. f \in Injection(Markers, Replica)
  BY <1>1, <1>2 DEF Injection
<1> QED
  BY <1>3, IncidentsAssumption, FS_Injection, FS_CardinalityType

LEMMA NextAlone == Types /\ Alone /\ [Next]_vars => Alone'
<1> SUFFICES ASSUME Types, Alone, [Next]_vars
             PROVE  Alone'
  OBVIOUS
<1> USE DEF Types, TypeOK, alertVars, taskVars, ghostVars, kbVars, HandlerAt
<1>1. ASSUME Markers' \subseteq Markers
      PROVE  Alone'
  BY <1>1 DEF Alone
<1>2. ASSUME NEW h \in Handler, MayRun(h), LookUp(h)
      PROVE  Alone'
  <2>1. Markers' \subseteq Markers \cup {h}
    BY <1>2 DEF LookUp, Markers
  <2>2. \A g \in Markers \ {h} : Home[g] # Home[h]
    BY <1>2 DEF MayRun, Markers
  <2> QED
    BY <2>1, <2>2 DEF Alone
<1>3. ASSUME NEW h \in Handler, Mark(h) \/ Synthesize(h) \/ Conclude(h)
      PROVE  Markers' \subseteq Markers
  BY <1>3 DEF Mark, Synthesize, Conclude, Markers
<1>4. ASSUME NEW t \in Task, Distill(t)
      PROVE  Markers' \subseteq Markers
  BY <1>4 DEF Distill, Begin, NothingToKeep, Refine, Insert, ReadCounter, WriteCounter,
              Charged, Markers
<1>5. ASSUME NEW r \in Replica, Crash(r)
      PROVE  Markers' \subseteq Markers
  BY <1>5 DEF Crash, Markers
<1>6. ASSUME NEW k \in Item, NEW s \in {"active", "rejected"}, Review(k, s)
      PROVE  Markers' \subseteq Markers
  BY <1>6 DEF Review, Markers
<1>7. CASE Expire \/ NewMonth \/ UNCHANGED vars
  BY <1>1, <1>7 DEF Expire, NewMonth, vars, Markers
<1> QED
  BY <1>1, <1>2, <1>3, <1>4, <1>5, <1>6, <1>7 DEF Next, Alert

LEMMA NextInvestigated == Types /\ Alerts /\ [Next]_vars => Investigated'
<1> SUFFICES ASSUME Types, Alerts, [Next]_vars, "mark" \notin disturbed'
             PROVE  /\ ~marked' => started' = 0
                    /\ started' + Cardinality(Markers') <= Cardinality(Replica)
  BY DEF Investigated
<1> USE DEF Types, TypeOK, Alerts, Investigated, alertVars, taskVars, ghostVars, kbVars, HandlerAt, Disturb
<1>0. /\ IsFiniteSet(Markers) /\ Cardinality(Markers) \in Nat /\ Cardinality(Replica) \in Nat
      /\ Cardinality(Markers') \in Nat /\ Cardinality(Markers') <= Cardinality(Replica)
  <2>1. Alone'
    BY NextAlone
  <2>2. ASSUME Alone'
        PROVE  Cardinality(Markers') \in Nat /\ Cardinality(Markers') <= Cardinality(Replica)
    <3> DEFINE f == [h \in Markers' |-> Home[h]]
    <3>1. f \in Injection(Markers', Replica)
      BY <2>2, IncidentsAssumption DEF Markers, Alone, Injection, IsInjective
    <3> QED
      BY <3>1, IncidentsAssumption, FS_Injection, FS_CardinalityType
  <2> QED
    BY <2>1, <2>2, AtMostOneEach
<1>1. ASSUME UNCHANGED <<marked, started>>, Markers' \subseteq Markers, "mark" \notin disturbed
      PROVE  /\ ~marked' => started' = 0
             /\ started' + Cardinality(Markers') <= Cardinality(Replica)
  <2>1. Cardinality(Markers') <= Cardinality(Markers)
    BY <1>0, <1>1, FS_Subset
  <2> QED
    BY <1>0, <1>1, <2>1
<1>2. ASSUME NEW h \in Handler, LookUp(h)
      PROVE  /\ ~marked' => started' = 0
             /\ started' + Cardinality(Markers') <= Cardinality(Replica)
  <2>1. "mark" \notin disturbed /\ UNCHANGED <<marked, started>>
    BY <1>2 DEF LookUp
  <2>2. CASE marked
    <3>1. Markers' = Markers
      BY <1>2, <2>2 DEF LookUp, Markers
    <3> QED
      BY <1>1, <2>1, <3>1
  <2>3. CASE ~marked
    BY <1>0, <2>1, <2>3
  <2> QED
    BY <2>2, <2>3
<1>3. ASSUME NEW h \in Handler, Mark(h)
      PROVE  /\ ~marked' => started' = 0
             /\ started' + Cardinality(Markers') <= Cardinality(Replica)
  <2>1. /\ "mark" \notin disturbed /\ marked' = TRUE
        /\ started' = started \/ started' = started + 1
        /\ handler[h] = "marking" /\ handler' = [handler EXCEPT ![h] = "investigating"]
    BY <1>3 DEF Mark
  <2>2. Markers' = Markers \ {h} /\ h \in Markers
    BY <2>1 DEF Markers
  <2>3. Cardinality(Markers') = Cardinality(Markers) - 1
    BY <1>0, <2>2, FS_RemoveElement
  <2> QED
    BY <1>0, <2>1, <2>3
<1>4. CASE Expire
  <2>1. started' = 0
    BY <1>4 DEF Expire
  <2> QED
    BY <1>0, <2>1
<1>5. ASSUME NEW h \in Handler, Synthesize(h) \/ Conclude(h)
      PROVE  UNCHANGED <<marked, started>> /\ Markers' \subseteq Markers /\ "mark" \notin disturbed
  BY <1>5 DEF Synthesize, Conclude, Markers
<1>6. ASSUME NEW t \in Task, Distill(t)
      PROVE  UNCHANGED <<marked, started>> /\ Markers' \subseteq Markers /\ "mark" \notin disturbed
  BY <1>6 DEF Distill, Begin, NothingToKeep, Refine, Insert, ReadCounter, WriteCounter,
              Charged, Markers
<1>7. ASSUME NEW r \in Replica, Crash(r)
      PROVE  UNCHANGED <<marked, started>> /\ Markers' \subseteq Markers /\ "mark" \notin disturbed
  BY <1>7 DEF Crash, Markers
<1>8. ASSUME NEW k \in Item, NEW s \in {"active", "rejected"}, Review(k, s)
      PROVE  UNCHANGED <<marked, started>> /\ Markers' \subseteq Markers /\ "mark" \notin disturbed
  BY <1>8 DEF Review, Markers
<1>9. CASE NewMonth \/ UNCHANGED vars
  BY <1>1, <1>9 DEF NewMonth, vars, Markers
<1> QED
  BY <1>1, <1>2, <1>3, <1>4, <1>5, <1>6, <1>7, <1>8, <1>9 DEF Next, Alert

(* The look-up and the mark of an alert are two calls, yet without a failure of    *)
(* Redis each replica investigates a marked alert at most once, however webhooks,  *)
(* crashes and expiries interleave.                                                *)
THEOREM InvestigatedOnce == Spec => []InvestigatedOncePerReplica
<1>1. Init => Alerts
  <2> SUFFICES ASSUME Init
               PROVE  Alerts
    OBVIOUS
  <2>1. Markers = {} /\ Cardinality(Markers) = 0
    BY FS_EmptySet DEF Init, Markers
  <2>2. Cardinality(Replica) \in Nat
    BY IncidentsAssumption, FS_CardinalityType
  <2> QED
    BY <2>1, <2>2 DEF Init, Alerts, Alone, Investigated
<1>2. Types /\ Alerts => InvestigatedOncePerReplica
  BY AtMostOneEach DEF Types, TypeOK, Alerts, Investigated, InvestigatedOncePerReplica
<1>3. Types /\ Alerts /\ [Next]_vars => Alerts'
  BY NextAlone, NextInvestigated DEF Alerts
<1> QED
  BY <1>1, <1>2, <1>3, TypesAlways, PTL DEF Spec

(* Every variable keeps its type.                                                  *)
THEOREM TypeCorrect == Spec => []TypeOK
<1>1. Types => TypeOK
  BY DEF Types
<1> QED
  BY <1>1, TypesAlways, PTL
=============================================================================

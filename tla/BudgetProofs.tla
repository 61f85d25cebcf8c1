----------------------------- MODULE BudgetProofs -----------------------------
(***************************************************************************)
(* Theorems about what requests may use: the token budget of a session,    *)
(* then the rate of a user and the budget of a day.                        *)
(*                                                                         *)
(* That a session overruns its budget by no more than one round of         *)
(* requests needs a potential: the calls that the requests admitted by the *)
(* shared counter may still make.  Each of them is a pair of a request and *)
(* a number, so that they can be counted; a call that is made takes its    *)
(* pair away.                                                              *)
(*                                                                         *)
(* The rate holds because what a late transaction can miss is old: entries *)
(* leave the window's key only once they are older than the window by the  *)
(* clock, and a stamp is behind the clock by at most the delay.  A day's   *)
(* grants fit its cap because the key that counts them was renewed in that *)
(* day and lives for a day.                                                *)
(***************************************************************************)
EXTENDS TokenBudget, AdmissionGuard, FiniteSetTheorems, TLAPS

\* The requests that run and count in Redis, and the calls they have left.
Live == {q \in Active : attached[home[q]]}
Left == {p \in Live \X (1..MaxCalls) : p[2] > calls[p[1]]}

Ceiling == Budget - 1 + Overlap * MaxCalls * MaxTokens

\* What has been billed and what may still be.
Room == Undisturbed => spent + MaxTokens * Cardinality(Left) <= Ceiling

Admitted == Cardinality(Active) <= Overlap

\* A key without an expiry is about to get one.
Unrenewed ==
  Undisturbed /\ total > 0 /\ ~ttl => \E q \in Request : pc[q] = "recording"

-----------------------------------------------------------------------------
(* Types, and the counter *)

LEMMA InitTypes == Init => TypeOK
<1> SUFFICES ASSUME Init
             PROVE  TypeOK
  OBVIOUS
<1>1. attached \in [Replica -> BOOLEAN]
  <2>1. [r \in Replica |-> TRUE] \in [Replica -> BOOLEAN]
    OBVIOUS
  <2> QED
    BY <2>1 DEF Init
<1>2. ttl \in BOOLEAN
  BY DEF Init
<1>3. calls \in [Request -> 0..MaxCalls]
  BY BudgetAssumption DEF Init
<1> QED
  BY <1>1, <1>2, <1>3 DEF Init, TypeOK

\* What a replica works for can be counted.
LEMMA WorkFinite ==
  ASSUME NEW r \in Replica
  PROVE  IsFiniteSet(InCall(r)) /\ Cardinality(InCall(r)) \in Nat
<1>1. InCall(r) \subseteq Request
  BY DEF InCall, WorkOf, Active
<1> QED
  BY <1>1, BudgetAssumption, FS_Subset, FS_CardinalityType

LEMMA CrashTypes ==
  ASSUME TypeOK, NEW r \in Replica, Crash(r)
  PROVE  TypeOK'
<1>1. pc' \in [Request -> {"new", "running", "recording", "refused", "over"}]
  BY DEF Crash, TypeOK
<1>2. attached' \in [Replica -> BOOLEAN]
  BY DEF Crash, TypeOK
<1>3. spent' \in Nat
  <2>1. MaxTokens * Cardinality(InCall(r)) \in Nat
    BY WorkFinite, BudgetAssumption
  <2> QED
    BY <2>1 DEF Crash, TypeOK
<1>4. interrupted' \in BOOLEAN
  BY DEF Crash, TypeOK
<1>5. memory' \in [Replica -> Nat]
  BY DEF Crash, TypeOK
<1>6. UNCHANGED <<home, total, ttl, calls>>
  BY DEF Crash
<1> QED
  BY <1>1, <1>2, <1>3, <1>4, <1>5, <1>6 DEF TypeOK

LEMMA NextTypes == TypeOK /\ [Next]_vars => TypeOK'
<1> SUFFICES ASSUME TypeOK, [Next]_vars
             PROVE  TypeOK'
  OBVIOUS
<1> USE BudgetAssumption DEF TypeOK, Goto
<1>1. ASSUME NEW q \in Request, Admit(q) \/ Refuse(q) \/ Finish(q)
      PROVE  TypeOK'
  BY <1>1 DEF Admit, Refuse, Finish
<1>2. ASSUME NEW q \in Request, RecordInMemory(q)
      PROVE  TypeOK'
  BY <1>2 DEF RecordInMemory, Bill
<1>3. ASSUME NEW q \in Request, RecordAdds(q)
      PROVE  TypeOK'
  BY <1>3 DEF RecordAdds, Bill, Add
<1>4. ASSUME NEW q \in Request, RecordFails(q)
      PROVE  TypeOK'
  BY <1>4 DEF RecordFails, Bill, Add, Pin
<1>5. ASSUME NEW q \in Request, Renew(q)
      PROVE  TypeOK'
  <2>1. ttl' \in BOOLEAN
    BY <1>5, Zenon DEF Renew
  <2>2. memory' \in [Replica -> Nat]
    BY <1>5 DEF Renew, Pin
  <2> QED
    BY <1>5, <2>1, <2>2 DEF Renew
<1>6. CASE KeyExpires
  BY <1>6 DEF KeyExpires
<1>7. ASSUME NEW r \in Replica, Crash(r)
      PROVE  TypeOK'
  BY <1>7, CrashTypes
<1>8. CASE UNCHANGED vars
  BY <1>8 DEF vars
<1> QED
  BY <1>1, <1>2, <1>3, <1>4, <1>5, <1>6, <1>7, <1>8 DEF Next, RequestStep

(* Every variable keeps its type. *)
THEOREM TypeCorrect == Spec => []TypeOK
BY InitTypes, NextTypes, PTL DEF Spec

\* A step that keeps tokens from the counter leaves its trace, in _usage or in the
\* ghost, for as long as the key lives.
LEMMA TraceStays ==
  ASSUME TypeOK, [Next]_vars, ~KeyExpires, Undisturbed'
  PROVE  /\ Undisturbed
         /\ \A q \in Request : ~RecordInMemory(q) /\ ~RecordFails(q)
         /\ \A q \in Request : Renew(q) => ttl'
         /\ \A r \in Replica : Crash(r) => WorkOf(r) = {}
<1> USE BudgetAssumption DEF TypeOK, Undisturbed
<1>1. ASSUME NEW q \in Request, RecordInMemory(q)
      PROVE  FALSE
  BY <1>1 DEF RecordInMemory
<1>2. ASSUME NEW q \in Request, Pin(q)
      PROVE  FALSE
  BY <1>2 DEF Pin
<1>3. ASSUME NEW q \in Request, RecordFails(q)
      PROVE  FALSE
  BY <1>2, <1>3 DEF RecordFails
<1>4. ASSUME NEW q \in Request, Renew(q)
      PROVE  ttl' /\ UNCHANGED <<memory, interrupted>>
  BY <1>2, <1>4 DEF Renew
<1>5. ASSUME NEW r \in Replica, Crash(r)
      PROVE  WorkOf(r) = {} /\ UNCHANGED <<memory, interrupted>>
  <2>1. ~interrupted' /\ interrupted' = (interrupted \/ WorkOf(r) # {} \/ memory[r] > 0)
    BY <1>5 DEF Crash
  <2>2. ~interrupted /\ WorkOf(r) = {} /\ ~(memory[r] > 0)
    BY <2>1
  <2>3. memory[r] = 0 /\ memory' = [memory EXCEPT ![r] = 0]
    BY <1>5, <2>2 DEF Crash
  <2>4. memory' = memory
    BY <2>3
  <2> QED
    BY <2>1, <2>2, <2>4
<1>6. UNCHANGED <<memory, interrupted>>
  BY <1>1, <1>3, <1>4, <1>5 DEF Next, RequestStep, Admit, Refuse, Finish, RecordAdds, vars
<1> QED
  BY <1>1, <1>3, <1>4, <1>5, <1>6

\* A replica that has no work dies unnoticed.
LEMMA IdleCrash ==
  ASSUME TypeOK, NEW r \in Replica, Crash(r), WorkOf(r) = {}
  PROVE  /\ UNCHANGED <<home, pc, calls, total, ttl, spent>>
         /\ \A q \in Active : attached'[home[q]] = attached[home[q]]
<1>1. pc' = pc
  BY DEF Crash, TypeOK
<1>2. InCall(r) = {}
  BY DEF InCall
<1>3. MaxTokens * Cardinality(InCall(r)) = 0
  BY <1>2, FS_EmptySet, BudgetAssumption
<1>4. spent' = spent
  BY <1>3 DEF Crash, TypeOK
<1>5. ASSUME NEW q \in Active
      PROVE  attached'[home[q]] = attached[home[q]]
  <2>1. home[q] # r
    BY DEF WorkOf
  <2> QED
    BY <2>1 DEF Crash, TypeOK, Active
<1> QED
  BY <1>1, <1>4, <1>5 DEF Crash

(* As long as no replica has kept tokens to itself, the shared counter says what was *)
(* billed, however the replicas and their threads interleave (token_budget.py).      *)
THEOREM CounterCorrect == Spec => []CounterIsBill
<1>1. Init => CounterIsBill
  BY DEF Init, CounterIsBill
<1>2. TypeOK /\ CounterIsBill /\ [Next]_vars => CounterIsBill'
  <2> SUFFICES ASSUME TypeOK, CounterIsBill, [Next]_vars, Undisturbed'
               PROVE  total' = spent'
    BY DEF CounterIsBill
  <2>1. CASE KeyExpires
    BY <2>1 DEF KeyExpires
  <2>2. CASE ~KeyExpires
    <3>1. /\ total = spent
          /\ \A q \in Request : ~RecordInMemory(q) /\ ~RecordFails(q)
          /\ \A r \in Replica : Crash(r) => WorkOf(r) = {}
      BY <2>2, TraceStays DEF CounterIsBill
    <3>2. ASSUME NEW q \in Request, RecordAdds(q)
          PROVE  total' = spent'
      BY <3>1, <3>2 DEF RecordAdds, Bill, Add
    <3>3. ASSUME NEW r \in Replica, Crash(r)
          PROVE  total' = spent'
      BY <3>1, <3>3, IdleCrash
    <3> QED
      BY <2>2, <3>1, <3>2, <3>3 DEF Next, RequestStep, Admit, Refuse, Finish, Renew, vars
  <2> QED
    BY <2>1, <2>2
<1> QED
  BY <1>1, <1>2, TypeCorrect, PTL DEF Spec

(* Where no EXPIRE failed and no replica died at work, the EXPIRE of whoever made the  *)
(* key is on its way: between requests every counter has an expiry.                    *)
THEOREM CounterGoes == Spec => []CounterExpires
<1>1. Init => Unrenewed
  BY DEF Init, Unrenewed
<1>2. TypeOK /\ Unrenewed /\ [Next]_vars => Unrenewed'
  <2> SUFFICES ASSUME TypeOK, Unrenewed, [Next]_vars, Undisturbed', total' > 0, ~ttl'
               PROVE  \E q \in Request : pc'[q] = "recording"
    BY DEF Unrenewed
  <2>0. ~KeyExpires
    BY DEF KeyExpires
  <2>1. /\ Undisturbed
        /\ \A q \in Request : ~RecordInMemory(q) /\ ~RecordFails(q) /\ ~Renew(q)
        /\ \A r \in Replica : Crash(r) => WorkOf(r) = {}
    BY <2>0, TraceStays
  <2>2. ASSUME NEW q \in Request, RecordAdds(q)
        PROVE  \E p \in Request : pc'[p] = "recording"
    BY <2>2 DEF RecordAdds, Goto, TypeOK
  <2>3. ASSUME NEW r \in Replica, Crash(r)
        PROVE  \E p \in Request : pc'[p] = "recording"
    BY <2>1, <2>3, IdleCrash DEF Unrenewed
  <2>4. CASE UNCHANGED vars \/ \E q \in Request : Admit(q) \/ Refuse(q) \/ Finish(q)
    <3>1. total' = total /\ ttl' = ttl
      BY <2>4 DEF Admit, Refuse, Finish, vars
    <3>2. PICK p \in Request : pc[p] = "recording"
      BY <2>1, <3>1 DEF Unrenewed
    <3>3. pc'[p] = "recording"
      BY <2>4, <3>2 DEF Admit, Refuse, Finish, Goto, TypeOK, vars
    <3> QED
      BY <3>3
  <2> QED
    BY <2>0, <2>1, <2>2, <2>3, <2>4 DEF Next, RequestStep
<1>3. Unrenewed => CounterExpires
  BY DEF Unrenewed, CounterExpires, Active
<1> QED
  BY <1>1, <1>2, <1>3, TypeCorrect, PTL DEF Spec

-----------------------------------------------------------------------------
(* The overrun *)

Countable ==
  /\ IsFiniteSet(Active) /\ IsFiniteSet(Left)
  /\ Cardinality(Active) \in Nat /\ Cardinality(Left) \in Nat
  /\ Cardinality(Left) <= Cardinality(Active) * MaxCalls

LEMMA LeftFinite == Countable
<1>1. IsFiniteSet(Active)
  BY BudgetAssumption, FS_Subset DEF Active
<1>2. IsFiniteSet(Live) /\ Cardinality(Live) <= Cardinality(Active)
  BY <1>1, FS_Subset DEF Live
<1>3. IsFiniteSet(1..MaxCalls) /\ Cardinality(1..MaxCalls) = MaxCalls
  BY BudgetAssumption, FS_Interval
<1>4. /\ IsFiniteSet(Live \X (1..MaxCalls))
      /\ Cardinality(Live \X (1..MaxCalls)) = Cardinality(Live) * MaxCalls
  BY <1>2, <1>3, FS_Product
<1>5. IsFiniteSet(Left) /\ Cardinality(Left) <= Cardinality(Live) * MaxCalls
  BY <1>4, FS_Subset DEF Left
<1>6. /\ Cardinality(Left) \in Nat /\ Cardinality(Live) \in Nat
      /\ Cardinality(Active) \in Nat
  BY <1>1, <1>2, <1>5, FS_CardinalityType
<1>7. Cardinality(Live) * MaxCalls <= Cardinality(Active) * MaxCalls
  BY <1>2, <1>6, BudgetAssumption
<1> QED
  BY <1>1, <1>2, <1>5, <1>6, <1>7, BudgetAssumption DEF Countable

LEMMA LeftFiniteNext == Countable'
BY LeftFinite, PTL

LEMMA AdmittedAlways == Spec => []Admitted
<1>1. Init => Admitted
  <2> SUFFICES ASSUME Init
               PROVE  Admitted
    OBVIOUS
  <2>1. Active = {}
    BY DEF Init, Active
  <2> QED
    BY <2>1, FS_EmptySet, BudgetAssumption DEF Admitted
<1>2. TypeOK /\ Admitted /\ [Next]_vars => Admitted'
  <2> SUFFICES ASSUME TypeOK, Admitted, [Next]_vars
               PROVE  Cardinality(Active') <= Overlap
    BY DEF Admitted
  <2>1. ASSUME NEW q \in Request, Admit(q)
        PROVE  Cardinality(Active') <= Overlap
    <3>1. Active' = Active \cup {q}
      BY <2>1 DEF Admit, Goto, Active, TypeOK
    <3>2. Cardinality(Active \cup {q}) = IF q \in Active THEN Cardinality(Active)
                                                      ELSE Cardinality(Active) + 1
      BY LeftFinite, FS_AddElement DEF Countable
    <3>3. Cardinality(Active) \in Nat /\ Cardinality(Active) < Overlap
      BY <2>1, LeftFinite DEF Admit, Countable
    <3> QED
      BY <3>1, <3>2, <3>3, BudgetAssumption
  <2>2. CASE ~ \E q \in Request : Admit(q)
    <3>1. Active' \subseteq Active
      BY <2>2 DEF Next, RequestStep, KeyExpires, Refuse, Finish, RecordInMemory,
                  RecordAdds, RecordFails, Renew, Crash, Bill, Goto, Active, TypeOK, vars
    <3>2. Cardinality(Active') <= Cardinality(Active)
      BY <3>1, LeftFinite, FS_Subset DEF Countable
    <3>3. Cardinality(Active') \in Nat
      BY <3>1, LeftFinite, FS_Subset, FS_CardinalityType DEF Countable
    <3> QED
      BY <3>2, <3>3, LeftFinite, BudgetAssumption DEF Countable, Admitted
  <2> QED
    BY <2>1, <2>2
<1> QED
  BY <1>1, <1>2, TypeCorrect, PTL DEF Spec

\* Fewer calls left and no more billed: there is room as before.
LEMMA RoomKept ==
  ASSUME TypeOK, Room, Undisturbed, Left' \subseteq Left, spent' = spent
  PROVE  spent' + MaxTokens * Cardinality(Left') <= Ceiling
<1>1. /\ Cardinality(Left') \in Nat
      /\ Cardinality(Left') <= Cardinality(Left)
  BY LeftFinite, FS_Subset, FS_CardinalityType DEF Countable
<1>2. MaxTokens * Cardinality(Left') <= MaxTokens * Cardinality(Left)
  BY <1>1, LeftFinite, BudgetAssumption DEF Countable
<1>3. /\ MaxTokens * Cardinality(Left') \in Nat
      /\ MaxTokens * Cardinality(Left) \in Nat
      /\ spent \in Nat /\ Ceiling \in Int
  BY <1>1, LeftFinite, BudgetAssumption DEF Countable, TypeOK, Ceiling
<1> QED
  BY <1>2, <1>3 DEF Room

\* The check at the entry: what is billed is below the budget, and Overlap requests
\* have MaxCalls calls each at most.
LEMMA AdmitRoom ==
  ASSUME NEW q \in Request, TypeOK, TypeOK', Room, CounterIsBill, Admitted', Undisturbed,
         Admit(q)
  PROVE  spent' + MaxTokens * Cardinality(Left') <= Ceiling
<1>1. CASE attached[home[q]]
  <2>1. spent' = spent /\ spent <= Budget - 1
    BY <1>1, BudgetAssumption DEF Admit, Used, CounterIsBill, TypeOK
  <2>2. /\ Cardinality(Left') \in Nat /\ Cardinality(Active') \in Nat
        /\ Cardinality(Left') <= Cardinality(Active') * MaxCalls
    BY LeftFiniteNext DEF Countable
  <2>3. Cardinality(Active') <= Overlap
    BY DEF Admitted
  <2>4. Cardinality(Left') <= Overlap * MaxCalls
    BY <2>2, <2>3, BudgetAssumption
  <2>5. MaxTokens * Cardinality(Left') <= Overlap * MaxCalls * MaxTokens
    BY <2>2, <2>4, BudgetAssumption
  <2>6. /\ MaxTokens * Cardinality(Left') \in Nat
        /\ Overlap * MaxCalls * MaxTokens \in Nat /\ spent \in Nat
    BY <2>2, BudgetAssumption DEF TypeOK
  <2> QED
    BY <2>1, <2>5, <2>6, BudgetAssumption DEF Ceiling
<1>2. CASE ~attached[home[q]]
  <2>1. Live' \subseteq Live /\ calls' = calls /\ spent' = spent
    BY <1>2 DEF Live, Active, Admit, Goto, TypeOK
  <2>2. Left' \subseteq Left
    BY <2>1 DEF Left
  <2> QED
    BY <2>1, <2>2, RoomKept
<1> QED
  BY <1>1, <1>2

\* A call of n tokens takes one pair away, worth MaxTokens.
LEMMA RecordRoom ==
  ASSUME NEW q \in Request, TypeOK, Room, Undisturbed, RecordAdds(q)
  PROVE  spent' + MaxTokens * Cardinality(Left') <= Ceiling
<1> DEFINE call == <<q, calls[q] + 1>>
<1>1. PICK n \in 1..MaxTokens : Bill(q, n)
  BY DEF RecordAdds
<1>2. q \in Live /\ calls[q] \in Nat /\ calls[q] < MaxCalls
  BY <1>1, BudgetAssumption DEF RecordAdds, Bill, Live, Active, TypeOK
<1>3. call \in Left
  BY <1>2, BudgetAssumption DEF Left
<1>4. Live' = Live
  BY <1>1 DEF RecordAdds, Bill, Live, Active, Goto, TypeOK
<1>5. Left' \subseteq Left \ {call}
  <2> SUFFICES ASSUME NEW p \in Left'
               PROVE  p \in Left /\ p # call
    OBVIOUS
  <2>1. p \in Live \X (1..MaxCalls) /\ p[2] > calls'[p[1]]
    BY <1>4 DEF Left
  <2>2. calls' = [calls EXCEPT ![q] = @ + 1] /\ p[1] \in Request /\ calls[p[1]] \in Nat
    BY <1>1, <2>1, BudgetAssumption DEF Bill, Live, Active, TypeOK
  <2>3. CASE p[1] = q
    BY <2>1, <2>2, <2>3, <1>2, BudgetAssumption DEF Left, TypeOK
  <2>4. CASE p[1] # q
    BY <2>1, <2>2, <2>4, BudgetAssumption DEF Left, TypeOK
  <2> QED
    BY <2>3, <2>4
<1>6. IsFiniteSet(Left \ {call}) /\ Cardinality(Left \ {call}) = Cardinality(Left) - 1
  BY <1>3, LeftFinite, FS_RemoveElement DEF Countable
<1>7. Cardinality(Left') \in Nat /\ Cardinality(Left') <= Cardinality(Left) - 1
  BY <1>5, <1>6, FS_Subset, FS_CardinalityType
<1>8. MaxTokens * Cardinality(Left') <= MaxTokens * Cardinality(Left) - MaxTokens
  <2> DEFINE a == Cardinality(Left')
             b == Cardinality(Left)
  <2>1. a \in Nat /\ b \in Nat /\ a <= b - 1
    BY <1>7, LeftFinite DEF Countable
  <2> HIDE DEF a, b
  <2>2. MaxTokens * a <= MaxTokens * (b - 1)
    BY <2>1, BudgetAssumption
  <2>3. MaxTokens * (b - 1) = MaxTokens * b - MaxTokens
    BY <2>1, BudgetAssumption
  <2> QED
    BY <2>2, <2>3 DEF a, b
<1>9. spent' = spent + n /\ n <= MaxTokens
  BY <1>1, BudgetAssumption DEF Bill
<1>10. /\ MaxTokens * Cardinality(Left') \in Nat
       /\ MaxTokens * Cardinality(Left) \in Nat
       /\ spent \in Nat /\ Ceiling \in Int /\ n \in Nat /\ MaxTokens \in Nat
  BY <1>7, LeftFinite, BudgetAssumption DEF Countable, TypeOK, Ceiling
<1> QED
  BY <1>8, <1>9, <1>10 DEF Room

LEMMA NextRoom ==
  TypeOK /\ TypeOK' /\ Room /\ CounterIsBill /\ Admitted' /\ [Next]_vars => Room'
<1> SUFFICES ASSUME TypeOK, TypeOK', Room, CounterIsBill, Admitted', [Next]_vars, Undisturbed'
             PROVE  spent' + MaxTokens * Cardinality(Left') <= Ceiling
  BY DEF Room, Ceiling
<1>0. CASE KeyExpires
  <2>1. spent' = 0 /\ Left' = {}
    BY <1>0 DEF KeyExpires, Left, Live, Active
  <2>2. Cardinality(Left') = 0
    BY <2>1, FS_EmptySet
  <2> QED
    BY <2>1, <2>2, BudgetAssumption DEF Ceiling
<1> SUFFICES ASSUME ~KeyExpires
             PROVE  spent' + MaxTokens * Cardinality(Left') <= Ceiling
  BY <1>0
<1>1. /\ Undisturbed
      /\ \A q \in Request : ~RecordInMemory(q) /\ ~RecordFails(q)
      /\ \A r \in Replica : Crash(r) => WorkOf(r) = {}
  BY TraceStays
<1>2. ASSUME NEW q \in Request, Admit(q)
      PROVE  spent' + MaxTokens * Cardinality(Left') <= Ceiling
  BY <1>1, <1>2, AdmitRoom
<1>3. ASSUME NEW q \in Request, RecordAdds(q)
      PROVE  spent' + MaxTokens * Cardinality(Left') <= Ceiling
  BY <1>1, <1>3, RecordRoom
<1>4. CASE UNCHANGED vars \/ \E q \in Request : Refuse(q) \/ Finish(q) \/ Renew(q)
  <2>1. Live' \subseteq Live /\ calls' = calls /\ spent' = spent
    BY <1>4 DEF Refuse, Finish, Renew, Live, Active, Goto, TypeOK, vars
  <2>2. Left' \subseteq Left
    BY <2>1 DEF Left
  <2> QED
    BY <1>1, <2>1, <2>2, RoomKept
<1>5. ASSUME NEW r \in Replica, Crash(r)
      PROVE  spent' + MaxTokens * Cardinality(Left') <= Ceiling
  <2>1. Live' \subseteq Live /\ calls' = calls /\ spent' = spent
    BY <1>1, <1>5, IdleCrash DEF Live, Active
  <2>2. Left' \subseteq Left
    BY <2>1 DEF Left
  <2> QED
    BY <1>1, <2>1, <2>2, RoomKept
<1> QED
  BY <1>1, <1>2, <1>3, <1>4, <1>5 DEF Next, RequestStep

(* A session overruns its budget by at most the calls of the requests that were let in  *)
(* before the counter reached it, whatever replicas they run on (token_budget.py).      *)
THEOREM OverspendCorrect == Spec => []OverspendBounded
<1>1. Init => Room
  <2> SUFFICES ASSUME Init
               PROVE  spent + MaxTokens * Cardinality(Left) <= Ceiling
    BY DEF Room
  <2>1. spent = 0 /\ Left = {}
    BY DEF Init, Left, Live, Active
  <2>2. Cardinality(Left) = 0
    BY <2>1, FS_EmptySet
  <2> QED
    BY <2>1, <2>2, BudgetAssumption DEF Ceiling
<1>2. TypeOK /\ Room => OverspendBounded
  <2> SUFFICES ASSUME TypeOK, Room, Undisturbed
               PROVE  spent <= Ceiling
    BY DEF OverspendBounded, Ceiling
  <2>1. /\ MaxTokens * Cardinality(Left) \in Nat
        /\ spent \in Nat /\ Ceiling \in Int
    BY LeftFinite, BudgetAssumption DEF Countable, TypeOK, Ceiling
  <2> QED
    BY <2>1 DEF Room
<1> QED
  BY <1>1, <1>2, NextRoom, TypeCorrect, CounterCorrect, AdmittedAlways, PTL DEF Spec

-----------------------------------------------------------------------------
(* The admission guards *)

LEMMA GuardInitTypes == GuardInit => GuardTypeOK
BY GuardAssumption DEF GuardInit, GuardTypeOK, Days, Decided, Verdict, Never

LEMMA GuardNextTypes == GuardTypeOK /\ [GuardNext]_guardVars => GuardTypeOK'
<1> SUFFICES ASSUME GuardTypeOK, [GuardNext]_guardVars
             PROVE  GuardTypeOK'
  OBVIOUS
<1> USE GuardAssumption DEF GuardTypeOK, Decided, Verdict, Proceed, rateVars, budgetVars
<1>1. CASE Tick
  BY <1>1 DEF Tick
<1>2. CASE RateKeyExpires
  BY <1>2 DEF RateKeyExpires
<1>3. CASE BudgetKeyExpires
  BY <1>3 DEF BudgetKeyExpires
<1>4. ASSUME NEW q \in Attempt, ReadTime(q)
      PROVE  GuardTypeOK'
  BY <1>4 DEF ReadTime
<1>5. ASSUME NEW q \in Attempt, RateTransaction(q)
      PROVE  /\ entries' \in SUBSET Attempt
             /\ rated' \in [Attempt -> {Never} \cup 0..MaxClock]
             /\ lastAdd' \in 0..MaxClock
  BY <1>5 DEF RateTransaction, LiveAt
<1>6. ASSUME NEW q \in Attempt, Fits(DayOf(stamp[q])), Reserve(DayOf(stamp[q]))
      PROVE  /\ reserved' \in [Days -> 0..Cap]
             /\ renewed' \in [Days -> 0..MaxClock]
             /\ granted' \in [Days -> Nat]
  <2> DEFINE d == DayOf(stamp[q])
  <2> HIDE DEF d
  <2>1. /\ reserved' = [reserved EXCEPT ![d] = @ + Cost]
        /\ granted' = [granted EXCEPT ![d] = IF DayOf(clock) = d THEN @ + Cost ELSE @]
        /\ renewed' = [renewed EXCEPT ![d] = clock]
        /\ reserved[d] + Cost <= Cap
    BY <1>6 DEF Fits, Reserve, d
  <2>2. \A x \in Days : reserved'[x] \in 0..Cap /\ granted'[x] \in Nat
    BY <2>1
  <2> QED
    BY <2>1, <2>2
<1>7. ASSUME NEW q \in Attempt, CheckRate(q)
      PROVE  GuardTypeOK'
  BY <1>5, <1>7 DEF CheckRate
<1>8. ASSUME NEW q \in Attempt, CheckBudget(q)
      PROVE  GuardTypeOK'
  BY <1>6, <1>8 DEF CheckBudget
<1>9. ASSUME NEW q \in Attempt, FailsOpen(q)
      PROVE  GuardTypeOK'
  BY <1>5, <1>6, <1>9 DEF FailsOpen
<1>10. CASE UNCHANGED guardVars
  BY <1>10 DEF guardVars
<1> QED
  BY <1>1, <1>2, <1>3, <1>4, <1>7, <1>8, <1>9, <1>10 DEF GuardNext

(* Every variable of the guards keeps its type; a day's counter never passes the cap. *)
THEOREM GuardTypeCorrect == GuardSpec => []GuardTypeOK
BY GuardInitTypes, GuardNextTypes, PTL DEF GuardSpec

\* No stamp is ahead of the clock, and a command is sent at most Delay ago.
Clocks ==
  \A q \in Attempt :
    /\ stamp[q] <= clock
    /\ progress[q] \in {"rating", "budgeting"} => clock <= stamp[q] + Delay

LEMMA ClocksStep == GuardTypeOK /\ Clocks /\ [GuardNext]_guardVars => Clocks'
<1> SUFFICES ASSUME GuardTypeOK, Clocks, [GuardNext]_guardVars
             PROVE  Clocks'
  OBVIOUS
<1> USE GuardAssumption DEF GuardTypeOK, Clocks, Decided, Verdict, Proceed, rateVars, budgetVars
<1>1. CASE Tick
  BY <1>1 DEF Tick
<1>2. CASE RateKeyExpires \/ BudgetKeyExpires
  BY <1>2 DEF RateKeyExpires, BudgetKeyExpires
<1>3. ASSUME NEW q \in Attempt, ReadTime(q)
      PROVE  Clocks'
  BY <1>3 DEF ReadTime
<1>4. ASSUME NEW q \in Attempt, CheckRate(q) \/ CheckBudget(q) \/ FailsOpen(q)
      PROVE  Clocks'
  BY <1>4 DEF CheckRate, CheckBudget, FailsOpen
<1>5. CASE UNCHANGED guardVars
  BY <1>5 DEF guardVars
<1> QED
  BY <1>1, <1>2, <1>3, <1>4, <1>5 DEF GuardNext

(* The rate *)

\* Nothing in the key is newer than its last renewal, and no entry leaves the key
\* before it is older than the window.
EntriesKept ==
  /\ lastAdd <= clock
  /\ \A p \in Attempt : rated[p] <= lastAdd
  /\ \A p \in Attempt : rated[p] > clock - Window => p \in entries

\* What a transaction does to the entries, wherever it comes from.
LEMMA TransactionKeepsEntries ==
  ASSUME GuardTypeOK, Clocks, EntriesKept, NEW q \in Attempt, RateTransaction(q),
         UNCHANGED clock
  PROVE  EntriesKept'
<1> USE GuardAssumption DEF GuardTypeOK, Clocks, EntriesKept
<1>1. stamp[q] <= clock /\ {clock, stamp[q]} \subseteq Nat
  OBVIOUS
<1>2. \A p \in Attempt : rated'[p] <= lastAdd'
  BY <1>1 DEF RateTransaction, Never
<1>3. ASSUME NEW p \in Attempt, rated'[p] > clock - Window
      PROVE  p \in entries'
  <2>1. CASE p = q
    BY <2>1 DEF RateTransaction
  <2>2. CASE p # q
    <3>1. rated'[p] = rated[p] /\ rated[p] \in Int
      BY <2>2 DEF RateTransaction, Never
    <3>2. p \in entries /\ rated[p] > stamp[q] - Window
      BY <1>1, <1>3, <3>1
    <3> QED
      BY <3>2 DEF RateTransaction, LiveAt
  <2> QED
    BY <2>1, <2>2
<1>4. lastAdd' <= clock'
  BY DEF RateTransaction
<1> QED
  BY <1>2, <1>3, <1>4

LEMMA EntriesStep ==
  GuardTypeOK /\ Clocks /\ EntriesKept /\ [GuardNext]_guardVars => EntriesKept'
<1> SUFFICES ASSUME GuardTypeOK, Clocks, EntriesKept, [GuardNext]_guardVars
             PROVE  EntriesKept'
  OBVIOUS
<1>0. \A p \in Attempt : rated[p] \in Int
  BY GuardAssumption DEF GuardTypeOK, Never
<1> USE GuardAssumption DEF GuardTypeOK, EntriesKept, rateVars
<1>1. CASE Tick
  BY <1>0, <1>1 DEF Tick
<1>2. CASE RateKeyExpires
  BY <1>0, <1>2 DEF RateKeyExpires
<1>3. CASE BudgetKeyExpires
  BY <1>3 DEF BudgetKeyExpires
<1>4. ASSUME NEW q \in Attempt, ReadTime(q) \/ CheckBudget(q)
      PROVE  EntriesKept'
  BY <1>4 DEF ReadTime, CheckBudget
<1>5. ASSUME NEW q \in Attempt, CheckRate(q)
      PROVE  EntriesKept'
  BY <1>5, TransactionKeepsEntries DEF CheckRate
<1>6. ASSUME NEW q \in Attempt, FailsOpen(q)
      PROVE  EntriesKept'
  BY <1>6, TransactionKeepsEntries DEF FailsOpen
<1>7. CASE UNCHANGED guardVars
  BY <1>7 DEF guardVars
<1> QED
  BY <1>1, <1>2, <1>3, <1>4, <1>5, <1>6, <1>7 DEF GuardNext

\* A step that lets no further request pass the count leaves the rate as it was.
LEMMA SamePassed ==
  ASSUME RateHeld, PassedRate' = PassedRate, \A p \in PassedRate : rated'[p] = rated[p]
  PROVE  RateHeld'
<1>1. \A q \in PassedRate :
        Stamped(PassedRate, rated[q] - (Window - Delay), rated[q])'
          = Stamped(PassedRate, rated[q] - (Window - Delay), rated[q])
  BY DEF Stamped
<1> QED
  BY <1>1 DEF RateHeld

\* A transaction that allows its request has counted every other one that a stretch
\* of the window less the delay holds together with it: whatever the transaction no
\* longer finds is older than that.
LEMMA CountedTogether ==
  ASSUME GuardTypeOK, Clocks, EntriesKept, RateHeld,
         NEW q \in Attempt, CheckRate(q), WithinRate(Cardinality(LiveAt(stamp[q])))
  PROVE  RateHeld'
<1> SUFFICES ASSUME NEW p \in PassedRate'
             PROVE  Cardinality(Stamped(PassedRate, rated[p] - (Window - Delay), rated[p])')
                      <= Rate
  BY DEF RateHeld, Stamped
<1> DEFINE together == Stamped(PassedRate, rated[p] - (Window - Delay), rated[p])'
<1>1. /\ rated' = [rated EXCEPT ![q] = stamp[q]]
      /\ PassedRate' \subseteq PassedRate \cup {q} /\ q \notin PassedRate
      /\ p \in Attempt
  BY DEF CheckRate, RateTransaction, PassedRate, Proceed, GuardTypeOK, Decided, Verdict
<1>2. {stamp[q], clock} \subseteq Nat /\ \A x \in Attempt : rated[x] \in Int
  BY GuardAssumption DEF GuardTypeOK, Never
<1>3. IsFiniteSet(LiveAt(stamp[q])) /\ Cardinality(LiveAt(stamp[q])) < Rate
  <2>1. LiveAt(stamp[q]) \subseteq Attempt
    BY DEF LiveAt, GuardTypeOK
  <2> QED
    BY <2>1, FS_Subset, GuardAssumption DEF WithinRate
<1>4. CASE q \in together
  <2>1. stamp[q] <= rated'[p]
    BY <1>1, <1>4 DEF Stamped, GuardTypeOK
  <2>2. ASSUME NEW x \in together, x # q
        PROVE  x \in LiveAt(stamp[q])
    <3>1. x \in Attempt /\ rated'[x] = rated[x] /\ rated'[p] - (Window - Delay) < rated[x]
      BY <1>1, <2>2 DEF Stamped, PassedRate, GuardTypeOK
    <3>2. clock <= stamp[q] + Delay
      BY DEF Clocks, CheckRate
    <3>3. rated'[p] \in Int
      BY <1>1, <1>2 DEF GuardTypeOK
    <3>4. rated[x] > stamp[q] - Window /\ rated[x] > clock - Window
      BY <1>2, <2>1, <3>1, <3>2, <3>3, GuardAssumption
    <3> QED
      BY <3>1, <3>4 DEF EntriesKept, LiveAt
  <2>3. together \subseteq LiveAt(stamp[q]) \cup {q}
    BY <2>2
  <2>4. /\ IsFiniteSet(LiveAt(stamp[q]) \cup {q})
        /\ Cardinality(LiveAt(stamp[q]) \cup {q}) <= Cardinality(LiveAt(stamp[q])) + 1
    <3> DEFINE counted == LiveAt(stamp[q])
    <3>1. IsFiniteSet(counted) /\ Cardinality(counted) \in Nat
      BY <1>3, FS_CardinalityType
    <3>2. /\ IsFiniteSet(counted \cup {q})
          /\ Cardinality(counted \cup {q})
               = IF q \in counted THEN Cardinality(counted) ELSE Cardinality(counted) + 1
      <4> HIDE DEF counted
      <4> QED
        BY <3>1, FS_AddElement
    <3> QED
      BY <3>1, <3>2
  <2>5. Cardinality(together) <= Cardinality(LiveAt(stamp[q]) \cup {q})
    BY <2>3, <2>4, FS_Subset
  <2> QED
    BY <1>3, <2>3, <2>4, <2>5, FS_Subset, FS_CardinalityType, GuardAssumption
<1>5. CASE q \notin together
  <2>1. p \in PassedRate /\ rated'[p] = rated[p]
    <3>1. p # q
      BY <1>1, <1>2, <1>5, GuardAssumption DEF Stamped, GuardTypeOK
    <3> QED
      BY <1>1, <3>1 DEF GuardTypeOK
  <2>2. together \subseteq Stamped(PassedRate, rated[p] - (Window - Delay), rated[p])
    BY <1>1, <1>5, <2>1 DEF Stamped, GuardTypeOK
  <2>3. IsFiniteSet(Stamped(PassedRate, rated[p] - (Window - Delay), rated[p]))
    <3>1. Stamped(PassedRate, rated[p] - (Window - Delay), rated[p]) \subseteq Attempt
      BY DEF Stamped, PassedRate
    <3> QED
      BY <3>1, FS_Subset, GuardAssumption
  <2>4. Cardinality(Stamped(PassedRate, rated[p] - (Window - Delay), rated[p])) <= Rate
    BY <2>1 DEF RateHeld
  <2> QED
    BY <2>2, <2>3, <2>4, FS_Subset, FS_CardinalityType, GuardAssumption
<1> QED
  BY <1>4, <1>5

LEMMA RateStep ==
  GuardTypeOK /\ Clocks /\ EntriesKept /\ RateHeld /\ [GuardNext]_guardVars => RateHeld'
<1> SUFFICES ASSUME GuardTypeOK, Clocks, EntriesKept, RateHeld, [GuardNext]_guardVars
             PROVE  RateHeld'
  OBVIOUS
<1> USE DEF GuardTypeOK, PassedRate, Decided, Verdict, Proceed, rateVars
<1>1. CASE Tick \/ RateKeyExpires \/ BudgetKeyExpires
  BY <1>1, SamePassed DEF Tick, RateKeyExpires, BudgetKeyExpires
<1>2. ASSUME NEW q \in Attempt, ReadTime(q) \/ CheckBudget(q)
      PROVE  RateHeld'
  BY <1>2, SamePassed DEF ReadTime, CheckBudget
<1>3. ASSUME NEW q \in Attempt, CheckRate(q)
      PROVE  RateHeld'
  <2>1. CASE WithinRate(Cardinality(LiveAt(stamp[q])))
    BY <1>3, <2>1, CountedTogether
  <2>2. CASE ~WithinRate(Cardinality(LiveAt(stamp[q])))
    BY <1>3, <2>2, SamePassed DEF CheckRate, RateTransaction
  <2> QED
    BY <2>1, <2>2
<1>4. ASSUME NEW q \in Attempt, FailsOpen(q)
      PROVE  RateHeld'
  BY <1>4, SamePassed DEF FailsOpen, RateTransaction
<1>5. CASE UNCHANGED guardVars
  BY <1>5, SamePassed DEF guardVars
<1> QED
  BY <1>1, <1>2, <1>3, <1>4, <1>5 DEF GuardNext

(* No stretch of the window less the longest delay sees more than Rate requests pass *)
(* the count, in whatever order the replicas' transactions take effect and whatever  *)
(* Redis failures let pass besides (rate_limiter.py:79-95).                          *)
THEOREM RateAlwaysHeld == GuardSpec => []RateHeld
<1>1. GuardInit => Clocks /\ EntriesKept /\ RateHeld
  BY GuardAssumption
     DEF GuardInit, Clocks, EntriesKept, RateHeld, PassedRate, Decided, Verdict, Never
<1> QED
  BY <1>1, ClocksStep, EntriesStep, RateStep, GuardTypeCorrect, PTL DEF GuardSpec

(* The daily budget *)

\* A day's bounds; midnight is where the next one begins.
Dawn(d) == d * Day
Midnight(d) == d * Day + Day

LEMMA DayBounds ==
  ASSUME NEW t \in Nat
  PROVE  /\ DayOf(t) \in Nat
         /\ Dawn(DayOf(t)) <= t
         /\ t < Midnight(DayOf(t))
BY GuardAssumption DEF DayOf, Dawn, Midnight

\* A key that counts something was renewed in its day, and up to its midnight it
\* counts whatever the day has granted.
KeyLives ==
  \A d \in Days :
    /\ reserved[d] > 0 => renewed[d] >= Dawn(d)
    /\ clock < Midnight(d) => granted[d] <= reserved[d]

\* What a reservation does, wherever it comes from.
LEMMA ReserveKeepsBudget ==
  ASSUME GuardTypeOK, Clocks, KeyLives, BudgetHeld, NEW q \in Attempt,
         Fits(DayOf(stamp[q])), Reserve(DayOf(stamp[q])), UNCHANGED clock
  PROVE  KeyLives' /\ BudgetHeld'
<1> DEFINE d == DayOf(stamp[q])
<1>1. {clock, stamp[q]} \subseteq Nat /\ stamp[q] <= clock
  BY DEF GuardTypeOK, Clocks
<1>2. Dawn(d) <= clock /\ Dawn(d) \in Int
  BY <1>1, DayBounds, GuardAssumption DEF Dawn
<1>3. DayOf(clock) = d => clock < Midnight(d)
  BY <1>1, DayBounds
<1> HIDE DEF d
<1>4. /\ reserved' = [reserved EXCEPT ![d] = @ + Cost]
      /\ granted' = [granted EXCEPT ![d] = IF DayOf(clock) = d THEN @ + Cost ELSE @]
      /\ renewed' = [renewed EXCEPT ![d] = clock]
      /\ reserved[d] + Cost <= Cap
  BY DEF Fits, Reserve, d
<1> SUFFICES ASSUME NEW x \in Days
             PROVE  /\ reserved'[x] > 0 => renewed'[x] >= Dawn(x)
                    /\ clock < Midnight(x) => granted'[x] <= reserved'[x]
                    /\ granted'[x] <= Cap
  BY DEF KeyLives, BudgetHeld
<1>5. /\ reserved[x] \in Nat /\ granted[x] \in Nat /\ granted[x] <= Cap
      /\ reserved[x] > 0 => renewed[x] >= Dawn(x)
      /\ clock < Midnight(x) => granted[x] <= reserved[x]
  BY DEF GuardTypeOK, KeyLives, BudgetHeld
<1>6. CASE x = d
  <2>1. /\ reserved'[x] = reserved[x] + Cost /\ renewed'[x] = clock
        /\ granted'[x] = IF DayOf(clock) = d THEN granted[x] + Cost ELSE granted[x]
    BY <1>4, <1>6 DEF GuardTypeOK
  <2> QED
    BY <1>2, <1>3, <1>4, <1>5, <1>6, <2>1, GuardAssumption
<1>7. CASE x # d
  BY <1>4, <1>5, <1>7 DEF GuardTypeOK
<1> QED
  BY <1>6, <1>7

LEMMA BudgetStep ==
  GuardTypeOK /\ Clocks /\ KeyLives /\ BudgetHeld /\ [GuardNext]_guardVars
    => KeyLives' /\ BudgetHeld'
<1> SUFFICES ASSUME GuardTypeOK, Clocks, KeyLives, BudgetHeld, [GuardNext]_guardVars
             PROVE  KeyLives' /\ BudgetHeld'
  OBVIOUS
<1>0. \A d \in Days : Midnight(d) \in Int /\ Midnight(d) = Dawn(d) + Day /\ Dawn(d) \in Int
  BY GuardAssumption DEF Days, Dawn, Midnight
<1> USE DEF KeyLives, BudgetHeld, budgetVars
<1>1. CASE Tick
  BY <1>0, <1>1 DEF Tick, GuardTypeOK
<1>2. CASE BudgetKeyExpires
  <2>1. PICK d \in Days : /\ reserved[d] > 0 /\ clock >= renewed[d] + Day
                          /\ reserved' = [reserved EXCEPT ![d] = 0]
    BY <1>2 DEF BudgetKeyExpires
  <2>2. clock >= Midnight(d)
    BY <1>0, <2>1, GuardAssumption DEF GuardTypeOK
  <2> QED
    BY <1>0, <1>2, <2>1, <2>2 DEF BudgetKeyExpires, GuardTypeOK
<1>3. CASE RateKeyExpires
  BY <1>3 DEF RateKeyExpires
<1>4. ASSUME NEW q \in Attempt, ReadTime(q) \/ CheckRate(q)
      PROVE  KeyLives' /\ BudgetHeld'
  BY <1>4 DEF ReadTime, CheckRate
<1>5. ASSUME NEW q \in Attempt, CheckBudget(q)
      PROVE  KeyLives' /\ BudgetHeld'
  <2>1. CASE UNCHANGED budgetVars
    BY <1>5, <2>1 DEF CheckBudget
  <2>2. CASE Fits(DayOf(stamp[q])) /\ Reserve(DayOf(stamp[q]))
    BY <1>5, <2>2, ReserveKeepsBudget DEF CheckBudget
  <2> QED
    BY <1>5, <2>1, <2>2 DEF CheckBudget
<1>6. ASSUME NEW q \in Attempt, FailsOpen(q)
      PROVE  KeyLives' /\ BudgetHeld'
  <2>1. CASE UNCHANGED budgetVars
    BY <1>6, <2>1 DEF FailsOpen
  <2>2. CASE Fits(DayOf(stamp[q])) /\ Reserve(DayOf(stamp[q]))
    BY <1>6, <2>2, ReserveKeepsBudget DEF FailsOpen
  <2> QED
    BY <1>6, <2>1, <2>2 DEF FailsOpen
<1>7. CASE UNCHANGED guardVars
  BY <1>7 DEF guardVars
<1> QED
  BY <1>1, <1>2, <1>3, <1>4, <1>5, <1>6, <1>7 DEF GuardNext

(* Up to its midnight no day grants more than the cap, although its key expires and    *)
(* commands of the day before still arrive (rate_limiter.py:97-129).                   *)
THEOREM BudgetAlwaysHeld == GuardSpec => []BudgetHeld
<1>1. GuardInit => Clocks /\ KeyLives /\ BudgetHeld
  BY GuardAssumption DEF GuardInit, Clocks, KeyLives, BudgetHeld
<1> QED
  BY <1>1, ClocksStep, BudgetStep, GuardTypeCorrect, PTL DEF GuardSpec
=============================================================================

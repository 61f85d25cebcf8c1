--------------------------- MODULE SpecialistProofs ---------------------------
(***************************************************************************)
(* Theorems about Datasources and about the specialist on top of it.  The  *)
(* inductive invariant of Datasources has three parts: the shape of the    *)
(* state; that every catalogue in it, wherever it is kept, leads from a    *)
(* converse name to an allowed tool of that underscore form, and carries a *)
(* suffix only for a tool that is not distinct; and that what is on its    *)
(* way or stored is no older than Delay allows.  A specialist inherits     *)
(* what holds of its adapters through the refinement.                      *)
(***************************************************************************)
EXTENDS Specialist, FiniteSetTheorems, TLAPS

Shape ==
  /\ now \in Nat
  /\ home \in [Request -> Replica]
  /\ exposed \in Listing \cup {Down}
  /\ pc \in [Request -> Loc]
  /\ asked \in [Request -> Nat]
  /\ DOMAIN specs = Replica /\ DOMAIN nameMap = Replica
  /\ DOMAIN heard = Request /\ DOMAIN offer = Request

GoodCatalogue(m) ==
  \A c \in DOMAIN m :
    /\ c \in Converse
    /\ m[c] \in Allowed
    /\ c[1] = Under[m[c]]
    /\ Distinct(m[c]) => c[2] = 0

Catalogues ==
  /\ \A q \in Request : GoodCatalogue(heard[q]) /\ GoodCatalogue(offer[q])
  /\ \A r \in Replica : /\ specs[r] # None => GoodCatalogue(specs[r].tools)
                        /\ nameMap[r] # None => GoodCatalogue(nameMap[r])

SpecsTimed(s) ==
  /\ s.at \in Nat /\ s.asOf \in Nat
  /\ s.asOf <= s.at /\ s.at <= now /\ s.at <= s.asOf + Delay

RowTimed ==
  /\ row \in [asOf : Nat, till : Nat]
  /\ Ttl > 0
  /\ row.asOf <= now /\ now < row.till /\ row.till <= row.asOf + Ttl + Delay

Underway(q) ==
  pc[q] \in {"collected", "closing"} => asked[q] <= now /\ now <= asked[q] + Delay

Times ==
  /\ \A q \in Request : Underway(q)
  /\ row # None => RowTimed
  /\ \A r \in Replica : specs[r] # None => SpecsTimed(specs[r])

-----------------------------------------------------------------------------
(* Catalogues *)

LEMMA EmptyIsGood == GoodCatalogue(Empty)
BY DEF GoodCatalogue, Empty

\* The suffix of a converse name is a number, and 0 for a distinct tool.
LEMMA RankFacts ==
  ASSUME NEW l \in Listing, NEW i \in 1..Len(l), l[i] \in Allowed
  PROVE  /\ Rank(l, i) \in Nat
         /\ Distinct(l[i]) => Rank(l, i) = 0
<1> DEFINE earlier == {j \in 1..(i - 1) : l[j] \in Allowed /\ Under[l[j]] = Under[l[i]]}
<1>1. Len(l) \in Nat /\ i \in Nat /\ i <= Len(l)
  BY DatasourcesAssumption
<1>2. Rank(l, i) = Cardinality(earlier)
  BY DEF Rank
<1>3. Rank(l, i) \in Nat
  <2>1. IsFiniteSet(1..(i - 1))
    BY <1>1, FS_Interval
  <2>2. IsFiniteSet(earlier)
    BY <2>1, FS_Subset
  <2> QED
    BY <1>2, <2>2, FS_CardinalityType
<1>4. ASSUME Distinct(l[i])
      PROVE  Rank(l, i) = 0
  <2>1. ASSUME NEW j \in 1..(i - 1), l[j] \in Allowed, Under[l[j]] = Under[l[i]]
        PROVE  FALSE
    <3>1. l[j] = l[i]
      BY <1>4, <2>1 DEF Distinct
    <3>2. j \in 1..Len(l) /\ j # i
      BY <1>1
    <3> QED
      BY <3>1, <3>2, DatasourcesAssumption
  <2>2. earlier = {}
    BY <2>1
  <2> QED
    BY <1>2, <2>2, FS_EmptySet
<1> QED
  BY <1>3, <1>4

LEMMA CatalogueIsGood ==
  ASSUME NEW l \in Listing
  PROVE  GoodCatalogue(Catalogue(l))
<1> DEFINE kept == {i \in 1..Len(l) : l[i] \in Allowed}
           m == Catalogue(l)
<1> SUFFICES ASSUME NEW c \in DOMAIN m
             PROVE  /\ c \in Converse /\ m[c] \in Allowed
                    /\ c[1] = Under[m[c]]
                    /\ Distinct(m[c]) => c[2] = 0
  BY DEF GoodCatalogue
<1> DEFINE k == CHOOSE i \in kept : ConverseName(l, i) = c
<1>1. c \in {ConverseName(l, i) : i \in kept} /\ m[c] = l[k]
  BY DEF Catalogue
<1>2. k \in kept /\ ConverseName(l, k) = c
  BY <1>1
<1> HIDE DEF k
<1>3. /\ k \in 1..Len(l) /\ l[k] \in Allowed
      /\ c = <<Under[l[k]], Rank(l, k)>>
  BY <1>2 DEF ConverseName
<1>4. Under[l[k]] \in Name
  BY <1>3, DatasourcesAssumption
<1>5. Rank(l, k) \in Nat /\ (Distinct(l[k]) => Rank(l, k) = 0)
  BY <1>3, RankFacts
<1> QED
  BY <1>1, <1>3, <1>4, <1>5 DEF Converse

-----------------------------------------------------------------------------
(* Shape *)

LEMMA InitShape == Init => Shape
BY DatasourcesAssumption DEF Init, Shape, Loc

LEMMA NextShape == Shape /\ [Next]_vars => Shape'
<1> SUFFICES ASSUME Shape, [Next]_vars
             PROVE  Shape'
  OBVIOUS
<1> USE DatasourcesAssumption DEF Shape, Loc, Goto, catalogue, loop
<1>1. CASE Redeploy
  BY <1>1 DEF Redeploy
<1>2. CASE Tick
  BY <1>2 DEF Tick
<1>3. ASSUME NEW r \in Replica, Restart(r)
      PROVE  Shape'
  BY <1>3 DEF Restart
<1>4. ASSUME NEW q \in Request, Collect(q)
      PROVE  Shape'
  <2>1. CASE CollectHit(q)
    BY <2>1 DEF CollectHit
  <2>2. CASE CollectMiss(q)
    BY <2>2 DEF CollectMiss
  <2>3. CASE SourceAnswers(q)
    BY <2>3 DEF SourceAnswers
  <2>4. CASE CollectStore(q)
    BY <2>4 DEF CollectStore, Collected
  <2> QED
    BY <1>4, <2>1, <2>2, <2>3, <2>4 DEF Collect
<1>5. ASSUME NEW q \in Request, List(q)
      PROVE  Shape'
  <2>1. CASE ListHit(q)
    BY <2>1 DEF ListHit, Give
  <2>2. CASE ListMiss(q)
    BY <2>2 DEF ListMiss
  <2>3. CASE ListAnswered(q)
    BY <2>3 DEF ListAnswered
  <2>4. CASE ListClosed(q)
    BY <2>4 DEF ListClosed, StoreCatalogue, Give
  <2>5. CASE ListFails(q)
    BY <2>5 DEF ListFails, StoreCatalogue, Give
  <2> QED
    BY <1>5, <2>1, <2>2, <2>3, <2>4, <2>5 DEF List
<1>6. ASSUME NEW q \in Request, Finish(q)
      PROVE  Shape'
  BY <1>6 DEF Finish
<1>7. CASE UNCHANGED vars
  BY <1>7 DEF vars
<1> QED
  BY <1>1, <1>2, <1>3, <1>4, <1>5, <1>6, <1>7 DEF Next, Environment

LEMMA ShapeAlways == Spec => []Shape
BY InitShape, NextShape, PTL DEF Spec

-----------------------------------------------------------------------------
(* Every catalogue in the state is good *)

LEMMA InitCatalogues == Init => Catalogues
BY EmptyIsGood DEF Init, Catalogues

\* What the end of a listing stores and gives.
LEMMA StoreCatalogues ==
  ASSUME Shape, Catalogues, NEW q \in Request, NEW m, NEW g, NEW t,
         GoodCatalogue(m), GoodCatalogue(g), StoreCatalogue(q, m, g, t)
  PROVE  Catalogues'
<1>1. \A p \in Request : GoodCatalogue(heard'[p]) /\ GoodCatalogue(offer'[p])
  BY EmptyIsGood DEF Shape, Catalogues, StoreCatalogue, Give
<1>2. ASSUME NEW r \in Replica
      PROVE  /\ specs'[r] # None => GoodCatalogue(specs'[r].tools)
             /\ nameMap'[r] # None => GoodCatalogue(nameMap'[r])
  BY DEF Shape, Catalogues, StoreCatalogue
<1> QED
  BY <1>1, <1>2 DEF Catalogues, GoodCatalogue

LEMMA NextCatalogues == Shape /\ Catalogues /\ [Next]_vars => Catalogues'
<1> SUFFICES ASSUME Shape, Catalogues, [Next]_vars
             PROVE  Catalogues'
  OBVIOUS
<1> USE DEF catalogue, loop
\* Most steps leave all of them alone.
<1>0. ASSUME UNCHANGED <<catalogue, loop>>
      PROVE  Catalogues'
  BY <1>0 DEF Catalogues, GoodCatalogue
<1>1. CASE Environment
  BY <1>0, <1>1 DEF Environment, Redeploy, Tick
<1>2. ASSUME NEW r \in Replica, Restart(r)
      PROVE  Catalogues'
  <2>1. \A p \in Request : GoodCatalogue(heard'[p]) /\ GoodCatalogue(offer'[p])
    BY <1>2, EmptyIsGood DEF Restart, Catalogues
  <2>2. ASSUME NEW x \in Replica
        PROVE  /\ specs'[x] # None => GoodCatalogue(specs'[x].tools)
               /\ nameMap'[x] # None => GoodCatalogue(nameMap'[x])
    BY <1>2 DEF Restart, Shape, Catalogues
  <2> QED
    BY <2>1, <2>2 DEF Catalogues, GoodCatalogue
<1>3. ASSUME NEW q \in Request, Collect(q)
      PROVE  Catalogues'
  BY <1>0, <1>3 DEF Collect, CollectHit, CollectMiss, SourceAnswers, CollectStore, Collected
<1>4. ASSUME NEW q \in Request, ListHit(q)
      PROVE  Catalogues'
  <2>1. home[q] \in Replica /\ specs[home[q]] # None
    BY <1>4 DEF ListHit, SpecsHold, Shape
  <2>2. GoodCatalogue(specs[home[q]].tools)
    BY <2>1 DEF Catalogues
  <2>3. \A p \in Request : GoodCatalogue(heard'[p]) /\ GoodCatalogue(offer'[p])
    BY <1>4, <2>2 DEF ListHit, Give, Shape, Catalogues
  <2> QED
    BY <1>4, <2>3 DEF ListHit, Catalogues, GoodCatalogue
<1>5. ASSUME NEW q \in Request, ListMiss(q)
      PROVE  Catalogues'
  BY <1>0, <1>5 DEF ListMiss
<1>6. ASSUME NEW q \in Request, ListAnswered(q)
      PROVE  Catalogues'
  <2>1. GoodCatalogue(Catalogue(exposed))
    BY <1>6, CatalogueIsGood DEF ListAnswered, Shape
  <2>2. \A p \in Request : GoodCatalogue(heard'[p]) /\ GoodCatalogue(offer'[p])
    BY <1>6, <2>1 DEF ListAnswered, Shape, Catalogues
  <2> QED
    BY <1>6, <2>2 DEF ListAnswered, Catalogues, GoodCatalogue
<1>7. ASSUME NEW q \in Request, ListClosed(q)
      PROVE  Catalogues'
  BY <1>7, StoreCatalogues, EmptyIsGood DEF ListClosed, Catalogues
<1>8. ASSUME NEW q \in Request, ListFails(q)
      PROVE  Catalogues'
  BY <1>8, StoreCatalogues, EmptyIsGood DEF ListFails
<1>9. ASSUME NEW q \in Request, Finish(q)
      PROVE  Catalogues'
  <2>1. \A p \in Request : GoodCatalogue(heard'[p]) /\ GoodCatalogue(offer'[p])
    BY <1>9, EmptyIsGood DEF Finish, Shape, Catalogues
  <2> QED
    BY <1>9, <2>1 DEF Finish, Catalogues, GoodCatalogue
<1>10. CASE UNCHANGED vars
  BY <1>0, <1>10 DEF vars
<1> QED
  BY <1>1, <1>2, <1>3, <1>4, <1>5, <1>6, <1>7, <1>8, <1>9, <1>10 DEF Next, List

(* A loop that calls a tool by the name it was offered gets that tool, or a        *)
(* refusal for a mixed name, whatever other requests have made of the map of       *)
(* list_tool_specs since: for any tools, listings, requests and replicas.          *)
THEOREM OfferedCalled == Spec => []OfferedToolCalled
<1>1. Shape /\ Catalogues => OfferedToolCalled
  <2> SUFFICES ASSUME Shape, Catalogues,
                      NEW q \in Request, NEW c \in DOMAIN offer[q],
                      Distinct(offer[q][c])
               PROVE  \/ Resolve(nameMap[home[q]], c) = offer[q][c]
                      \/ /\ Resolve(nameMap[home[q]], c) = Refused
                         /\ Mixed(offer[q][c])
    BY DEF OfferedToolCalled
  <2> DEFINE t == offer[q][c]
             m == nameMap[home[q]]
  <2>1. t \in Allowed /\ c[1] = Under[t] /\ c[2] = 0
    BY DEF Catalogues, GoodCatalogue
  <2>2. home[q] \in Replica
    BY DEF Shape
  <2>3. Under[Under[t]] = Under[t] /\ Under[Hyphen[Under[t]]] = Under[t]
    BY <2>1, DatasourcesAssumption
  <2>4. CASE m # None /\ c \in DOMAIN m
    <3>1. m[c] \in Allowed /\ c[1] = Under[m[c]]
      BY <2>2, <2>4 DEF Catalogues, GoodCatalogue
    <3>2. m[c] = t
      BY <2>1, <3>1 DEF Distinct
    <3> QED
      BY <2>4, <3>2 DEF Resolve
  <2>5. CASE ~(m # None /\ c \in DOMAIN m) /\ Under[t] \in Allowed
    BY <2>1, <2>3, <2>5 DEF Resolve, Distinct
  <2>6. CASE /\ ~(m # None /\ c \in DOMAIN m) /\ Under[t] \notin Allowed
             /\ Hyphen[Under[t]] \in Allowed
    BY <2>1, <2>3, <2>6 DEF Resolve, Distinct
  <2>7. CASE /\ ~(m # None /\ c \in DOMAIN m) /\ Under[t] \notin Allowed
             /\ Hyphen[Under[t]] \notin Allowed
    BY <2>1, <2>7 DEF Resolve, Mixed
  <2> QED
    BY <2>4, <2>5, <2>6, <2>7
<1> QED
  BY <1>1, ShapeAlways, InitCatalogues, NextCatalogues, PTL DEF Spec

-----------------------------------------------------------------------------
(* What is underway or stored is not older than Delay allows *)

LEMMA InitTimes == Init => Times
BY DEF Init, Times, Underway

\* The end of a listing that was answered at t.
LEMMA StoreTimes ==
  ASSUME Shape, Times, NEW q \in Request, NEW m, NEW g, NEW t \in Nat,
         t <= now, now <= t + Delay, StoreCatalogue(q, m, g, t)
  PROVE  Times'
<1>1. \A p \in Request : Underway(p)'
  BY DEF Shape, Loc, Times, Underway, StoreCatalogue, Give, Goto
<1>2. (row # None => RowTimed)'
  BY DEF Times, RowTimed, StoreCatalogue
<1>3. \A r \in Replica : (specs[r] # None => SpecsTimed(specs[r]))'
  BY DEF Shape, Times, SpecsTimed, StoreCatalogue
<1> QED
  BY <1>1, <1>2, <1>3 DEF Times

LEMMA NextTimes == Shape /\ Times /\ [Next]_vars => Times'
<1> SUFFICES ASSUME Shape, Times, [Next]_vars
             PROVE  Times'
  OBVIOUS
<1> USE DEF catalogue, loop
<1>0. Ttl \in Nat /\ Delay \in Nat
  BY DatasourcesAssumption
\* Steps that store nothing, and bring no answer either.
<1>1. ASSUME UNCHANGED <<now, row, specs>>, \A p \in Request : Underway(p)'
      PROVE  Times'
  BY <1>1 DEF Times, RowTimed, SpecsTimed
<1>2. CASE Redeploy
  BY <1>1, <1>2 DEF Redeploy, Times, Underway
<1>3. CASE Tick
  <2>1. now' = now + 1 /\ specs' = specs
    BY <1>3 DEF Tick
  <2>2. \A p \in Request : Underway(p)'
    BY <1>0, <1>3 DEF Tick, Shape, Times, Underway
  <2>3. (row # None => RowTimed)'
    BY <1>3, <2>1 DEF Tick, Shape, Times, RowTimed
  <2>4. \A r \in Replica : (specs[r] # None => SpecsTimed(specs[r]))'
    BY <2>1 DEF Shape, Times, SpecsTimed
  <2> QED
    BY <2>2, <2>3, <2>4 DEF Times
<1>4. ASSUME NEW r \in Replica, Restart(r)
      PROVE  Times'
  <2>1. \A p \in Request : Underway(p)'
    BY <1>4 DEF Restart, Shape, Times, Underway
  <2>2. (row # None => RowTimed)'
    BY <1>4 DEF Restart, Times, RowTimed
  <2>3. \A x \in Replica : (specs[x] # None => SpecsTimed(specs[x]))'
    BY <1>4 DEF Restart, Shape, Times, SpecsTimed
  <2> QED
    BY <2>1, <2>2, <2>3 DEF Times
<1>5. ASSUME NEW q \in Request, CollectHit(q) \/ CollectMiss(q)
      PROVE  Times'
  BY <1>1, <1>5 DEF CollectHit, CollectMiss, Goto, Shape, Times, Underway
<1>6. ASSUME NEW q \in Request, SourceAnswers(q)
      PROVE  Times'
  <2>1. \A p \in Request : Underway(p)'
    BY <1>0, <1>6 DEF SourceAnswers, Goto, Shape, Times, Underway
  <2> QED
    BY <1>1, <1>6, <2>1 DEF SourceAnswers
<1>7. ASSUME NEW q \in Request, CollectStore(q)
      PROVE  Times'
  <2>1. \A p \in Request : Underway(p)'
    BY <1>7 DEF CollectStore, Collected, Goto, Shape, Times, Underway
  <2>2. asked[q] \in Nat /\ asked[q] <= now /\ now <= asked[q] + Delay
    BY <1>7 DEF CollectStore, Shape, Times, Underway
  <2>3. (row # None => RowTimed)'
    BY <1>0, <1>7, <2>2 DEF CollectStore, Collected, Shape, Times, RowTimed
  <2>4. \A x \in Replica : (specs[x] # None => SpecsTimed(specs[x]))'
    BY <1>7 DEF CollectStore, Collected, Times, SpecsTimed
  <2> QED
    BY <2>1, <2>3, <2>4 DEF Times
<1>8. ASSUME NEW q \in Request, ListHit(q) \/ ListMiss(q) \/ Finish(q)
      PROVE  Times'
  <2>1. \A p \in Request : Underway(p)'
    BY <1>8 DEF ListHit, ListMiss, Finish, Give, Goto, Shape, Times, Underway
  <2> QED
    BY <1>1, <1>8, <2>1 DEF ListHit, ListMiss, Finish
<1>9. ASSUME NEW q \in Request, ListAnswered(q)
      PROVE  Times'
  <2>1. \A p \in Request : Underway(p)'
    BY <1>0, <1>9 DEF ListAnswered, Goto, Shape, Times, Underway
  <2> QED
    BY <1>1, <1>9, <2>1 DEF ListAnswered
<1>10. ASSUME NEW q \in Request, ListClosed(q)
       PROVE  Times'
  <2>1. asked[q] \in Nat /\ asked[q] <= now /\ now <= asked[q] + Delay
    BY <1>10 DEF ListClosed, Shape, Times, Underway
  <2> QED
    BY <1>10, <2>1, StoreTimes DEF ListClosed
<1>11. ASSUME NEW q \in Request, ListFails(q)
       PROVE  Times'
  <2>1. now \in Nat /\ now <= now /\ now <= now + Delay
    BY <1>0 DEF Shape
  <2> QED
    BY <1>11, <2>1, StoreTimes DEF ListFails
<1>12. CASE UNCHANGED vars
  BY <1>1, <1>12 DEF vars, Times, Underway
<1> QED
  BY <1>2, <1>3, <1>4, <1>5, <1>6, <1>7, <1>8, <1>9, <1>10, <1>11, <1>12
     DEF Next, Environment, Collect, List

LEMMA TimesAlways == Spec => [](Shape /\ Times)
BY ShapeAlways, InitTimes, NextTimes, PTL DEF Spec

(* A catalogue list_tool_specs would serve is at most Ttl and Delay old, however   *)
(* many listings, deployments and outages overlapped.                              *)
THEOREM CatalogueFresh == Spec => []CatalogueAge
<1>1. Shape /\ Times => CatalogueAge
  <2> SUFFICES ASSUME Shape, Times, NEW r \in Replica, SpecsHold(r)
               PROVE  now - specs[r].asOf <= Staleness
    BY DEF CatalogueAge
  <2>1. now \in Nat /\ Ttl \in Nat /\ Delay \in Nat
    BY DatasourcesAssumption DEF Shape
  <2>2. SpecsTimed(specs[r]) /\ Ttl > 0 /\ now - specs[r].at < Ttl
    BY DEF SpecsHold, Times
  <2> QED
    BY <2>1, <2>2 DEF SpecsTimed, Staleness
<1> QED
  BY <1>1, TimesAlways, PTL

(* So is the collected text that all replicas share.                               *)
THEOREM ContextFresh == Spec => []ContextAge
<1>1. Shape /\ Times => ContextAge
  <2> SUFFICES ASSUME Shape, Times, row # None
               PROVE  now - row.asOf <= Staleness
    BY DEF ContextAge, CacheHolds
  <2>1. now \in Nat /\ Ttl \in Nat /\ Delay \in Nat
    BY DatasourcesAssumption DEF Shape
  <2>2. RowTimed
    BY DEF Times
  <2> QED
    BY <2>1, <2>2 DEF RowTimed, Staleness
<1> QED
  BY <1>1, TimesAlways, PTL

(* Every variable keeps its type.                                                  *)
THEOREM TypeCorrect == Spec => []TypeOK
<1>1. Shape /\ Catalogues /\ Times => TypeOK
  BY DEF Shape, Catalogues, GoodCatalogue, Times, RowTimed, SpecsTimed, TypeOK, IsCatalogue
<1> QED
  BY <1>1, ShapeAlways, InitCatalogues, NextCatalogues, TimesAlways, PTL DEF Spec

-----------------------------------------------------------------------------
(* The specialist *)

\* What a request does next is a step of its adapters or none at all.
LEMMA RequestStep ==
  ASSUME NEW q \in Request, Receive(q) \/ Step(q) \/ Leave(q)
  PROVE  [Next]_vars
<1>1. CASE Receive(q) \/ StartLoop(q) \/ Think(q) \/ AskTool(q) \/ ToolReturns(q)
  BY <1>1 DEF Receive, StartLoop, Think, AskTool, ToolReturns
<1>2. CASE Gather(q) \/ ListTools(q)
  BY <1>2 DEF Gather, ListTools, Next
<1>3. CASE SingleCall(q) \/ Conclude(q) \/ Break(q) \/ Leave(q)
  BY <1>3 DEF SingleCall, Conclude, Break, Leave, Next
<1> QED
  BY <1>1, <1>2, <1>3 DEF Step

(* A specialist, with its cancellations and restarts, does to the adapters' caches *)
(* what Datasources allows: the scanner, the loop and the screening of answers     *)
(* leave no half-done listing behind.                                              *)
THEOREM SpecialistImplements == SpecialistSpec => DatasourcesRefined
<1>1. SpecialistInit => Init
  BY DEF SpecialistInit
<1>2. [SpecialistNext]_allVars => [Next]_vars
  <2> SUFFICES ASSUME [SpecialistNext]_allVars
               PROVE  [Next]_vars
    OBVIOUS
  <2>1. CASE Environment /\ UNCHANGED own
    BY <2>1 DEF Next
  <2>2. ASSUME NEW r \in Replica, Crash(r)
        PROVE  [Next]_vars
    BY <2>2 DEF Crash, Next
  <2>3. CASE \E q \in Request : Receive(q) \/ Step(q) \/ Leave(q)
    BY <2>3, RequestStep
  <2>4. CASE UNCHANGED allVars
    BY <2>4 DEF allVars
  <2> QED
    BY <2>1, <2>2, <2>3, <2>4 DEF SpecialistNext
<1> QED
  BY <1>1, <1>2, PTL DEF SpecialistSpec, DatasourcesRefined, Spec

(* What a specialist's loops call, and how old what its requests are given can be, *)
(* is therefore bounded in the same way.                                           *)
COROLLARY SpecialistCatalogues ==
  SpecialistSpec => [](OfferedToolCalled /\ CatalogueAge /\ ContextAge)
BY SpecialistImplements, OfferedCalled, CatalogueFresh, ContextFresh, PTL DEF DatasourcesRefined

-----------------------------------------------------------------------------
(* Types of the pipeline *)

OwnTypes ==
  /\ tools \in BOOLEAN
  /\ stage \in [Request -> Stage]
  /\ turn \in [Request -> Turn]
  /\ steps \in [Request -> 0..MaxSteps]
  /\ frames \in [Request -> Seq(Frame)]
  /\ leaks \in [Replica -> Nat]
  /\ restarts \in 0..MaxRestarts
  /\ redacted \in Nat

LEMMA EncodersTyped ==
  /\ \A text \in BOOLEAN : AtOnce(text) \in Seq(Frame)
  /\ \A f \in Seq(Frame), e \in Frame : Traced(f, e) \in Seq(Frame)
  /\ \A f \in Seq(Frame), text \in BOOLEAN : Concluded(f, text) \in Seq(Frame)
  /\ <<"role">> \in Seq(Frame) /\ <<>> \in Seq(Frame)
<1>1. /\ <<"role">> \in Seq(Frame) /\ <<>> \in Seq(Frame)
      /\ <<"open">> \in Seq(Frame) /\ <<"close">> \in Seq(Frame) /\ <<"text">> \in Seq(Frame)
      /\ <<"finish", "done">> \in Seq(Frame)
      /\ \A e \in Frame : <<e>> \in Seq(Frame)
  BY DEF Frame
<1> HIDE DEF Frame
<1>2. \A f \in Seq(Frame), g \in Seq(Frame) : f \o g \in Seq(Frame)
  OBVIOUS
<1>3. \A text \in BOOLEAN : AtOnce(text) \in Seq(Frame)
  BY <1>1, <1>2 DEF AtOnce
<1>4. \A f \in Seq(Frame), e \in Frame : Traced(f, e) \in Seq(Frame)
  BY <1>1, <1>2 DEF Traced
<1>5. \A f \in Seq(Frame), text \in BOOLEAN : Concluded(f, text) \in Seq(Frame)
  BY <1>1, <1>2 DEF Concluded
<1> QED
  BY <1>1, <1>3, <1>4, <1>5

LEMMA ScreenedTyped ==
  ASSUME OwnTypes, Shape, NEW q \in Request, Screened(q) \/ Raised(q)
  PROVE  /\ stage' \in [Request -> Stage]
         /\ leaks' \in [Replica -> Nat]
         /\ redacted' \in Nat
<1>1. CASE Raised(q)
  BY <1>1 DEF Raised, To, OwnTypes, Stage, Over
<1>2. CASE Screened(q)
  <2>1. PICK a \in Answer :
          LET n == leaks[home[q]] + (IF a.canary THEN 1 ELSE 0)
              given == ~Blocked(q, a) /\ ~(a.canary /\ n > Threshold)
          IN  /\ leaks' = [leaks EXCEPT ![home[q]] = AtMost(n, Threshold)]
              /\ redacted' = redacted + (IF a.canary /\ given THEN 1 ELSE 0)
              /\ To(q, IF given /\ q \in Streamed THEN "done" ELSE "ended")
    BY <1>2 DEF Screened
  <2> DEFINE n == leaks[home[q]] + (IF a.canary THEN 1 ELSE 0)
  <2>2. home[q] \in Replica /\ leaks \in [Replica -> Nat] /\ Threshold \in Nat
    BY SpecialistAssumption DEF Shape, OwnTypes
  <2>3. AtMost(n, Threshold) \in Nat
    BY <2>2 DEF AtMost
  <2>4. leaks' \in [Replica -> Nat]
    BY <2>1, <2>2, <2>3
  <2>5. redacted' \in Nat
    BY <2>1 DEF OwnTypes
  <2>6. stage' \in [Request -> Stage]
    BY <2>1 DEF To, OwnTypes, Stage, Over
  <2> QED
    BY <2>4, <2>5, <2>6
<1> QED
  BY <1>1, <1>2

LEMMA EmitTyped ==
  ASSUME OwnTypes, NEW q \in Request, NEW f \in Seq(Frame), Emit(q, f)
  PROVE  frames' \in [Request -> Seq(Frame)]
<1> HIDE DEF Frame
<1> QED
  BY DEF Emit, OwnTypes

LEMMA NextOwnTypes == Shape /\ OwnTypes /\ [SpecialistNext]_allVars => OwnTypes'
<1> SUFFICES ASSUME Shape, OwnTypes, [SpecialistNext]_allVars
             PROVE  OwnTypes'
  OBVIOUS
<1>0. MaxSteps \in Nat /\ MaxRestarts \in Nat
  BY SpecialistAssumption
<1>1. ASSUME NEW q \in Request, Receive(q)
      PROVE  OwnTypes'
  BY <1>1, EncodersTyped DEF Receive, Scanned, To, Hangup, session, OwnTypes, Stage, Over
<1>2. ASSUME NEW q \in Request, SingleCall(q)
      PROVE  OwnTypes'
  <2>1. frames' \in [Request -> Seq(Frame)]
    BY <1>2, EmitTyped, EncodersTyped DEF SingleCall
  <2> QED
    BY <1>2, <2>1, ScreenedTyped DEF SingleCall, OwnTypes
<1>3. ASSUME NEW q \in Request, StartLoop(q)
      PROVE  OwnTypes'
  <2>1. frames' \in [Request -> Seq(Frame)]
    <3>1. "step" \in Frame
      BY DEF Frame
    <3> QED
      BY <1>3, <3>1, EmitTyped, EncodersTyped DEF StartLoop
  <2> QED
    BY <1>3, <2>1 DEF StartLoop, To, session, OwnTypes, Stage
<1>4. ASSUME NEW q \in Request, Think(q) \/ AskTool(q) \/ ToolReturns(q)
      PROVE  OwnTypes'
  <2>1. \A e \in {"step", "call", "result"} : Traced(frames[q], e) \in Seq(Frame)
    BY EncodersTyped DEF Frame, OwnTypes
  <2>2. frames' \in [Request -> Seq(Frame)]
    BY <1>4, <2>1, EmitTyped DEF Think, AskTool, ToolReturns
  <2>3. turn' \in [Request -> Turn]
    BY <1>4 DEF Think, AskTool, ToolReturns, OwnTypes, Turn
  <2>4. steps' \in [Request -> 0..MaxSteps]
    <3>1. CASE AskTool(q)
      BY <1>0, <3>1 DEF AskTool, OwnTypes
    <3>2. CASE Think(q) \/ ToolReturns(q)
      BY <3>2 DEF Think, ToolReturns, OwnTypes
    <3> QED
      BY <1>4, <3>1, <3>2
  <2>5. UNCHANGED <<stage, tools, leaks, restarts, redacted>>
    BY <1>4 DEF Think, AskTool, ToolReturns, session
  <2> QED
    BY <2>2, <2>3, <2>4, <2>5 DEF OwnTypes
<1>5. ASSUME NEW q \in Request, Rest({q})
      PROVE  turn' \in [Request -> Turn] /\ steps' \in [Request -> 0..MaxSteps]
  <2>1. turn' \in [Request -> Turn]
    BY <1>5 DEF Rest, OwnTypes, Turn
  <2>2. steps' \in [Request -> 0..MaxSteps]
    BY <1>0, <1>5 DEF Rest, OwnTypes
  <2> QED
    BY <2>1, <2>2
<1>6. ASSUME NEW q \in Request, Conclude(q)
      PROVE  OwnTypes'
  <2>1. frames' \in [Request -> Seq(Frame)]
    <3>1. \A text \in BOOLEAN : Concluded(frames[q], text) \in Seq(Frame)
      BY EncodersTyped DEF OwnTypes
    <3>2. CASE UNCHANGED frames
      BY <3>2 DEF OwnTypes
    <3>3. CASE \E text \in BOOLEAN : Emit(q, Concluded(frames[q], text))
      BY <3>1, <3>3, EmitTyped
    <3> QED
      BY <1>6, <3>2, <3>3 DEF Conclude
  <2>2. /\ stage' \in [Request -> Stage]
        /\ leaks' \in [Replica -> Nat]
        /\ redacted' \in Nat
    <3>1. CASE Screened(q)
      BY <3>1, ScreenedTyped
    <3>2. CASE To(q, "done") /\ UNCHANGED <<leaks, redacted>>
      BY <3>2 DEF To, OwnTypes, Stage, Over
    <3> QED
      BY <1>6, <3>1, <3>2 DEF Conclude
  <2> QED
    BY <1>5, <1>6, <2>1, <2>2 DEF Conclude, OwnTypes
<1>7. ASSUME NEW q \in Request, Break(q)
      PROVE  OwnTypes'
  <2>1. /\ stage' \in [Request -> Stage]
        /\ leaks' \in [Replica -> Nat]
        /\ redacted' \in Nat
    BY <1>7, ScreenedTyped DEF Break, To, OwnTypes, Stage, Over
  <2> QED
    BY <1>5, <1>7, <2>1 DEF Break, OwnTypes
<1>8. ASSUME NEW q \in Request, Leave(q)
      PROVE  OwnTypes'
  <2>1. frames' \in [Request -> Seq(Frame)]
    BY <1>8, EncodersTyped DEF Leave, Hangup, OwnTypes
  <2>2. stage' \in [Request -> Stage]
    BY <1>8 DEF Leave, To, OwnTypes, Stage, Over
  <2> QED
    BY <1>5, <1>8, <2>1, <2>2 DEF Leave, session, OwnTypes
<1>9. ASSUME NEW r \in Replica, Crash(r)
      PROVE  OwnTypes'
  <2>1. frames' \in [Request -> Seq(Frame)]
    BY <1>9, EncodersTyped DEF Crash, Hangup, OwnTypes
  <2>2. stage' \in [Request -> Stage] /\ turn' \in [Request -> Turn]
    BY <1>9 DEF Crash, Rest, OwnTypes, Stage, Over, Turn
  <2>3. /\ steps' \in [Request -> 0..MaxSteps] /\ leaks' \in [Replica -> Nat]
        /\ restarts' \in 0..MaxRestarts
    BY <1>0, <1>9 DEF Crash, Rest, OwnTypes
  <2> QED
    BY <1>9, <2>1, <2>2, <2>3 DEF Crash, OwnTypes
<1>10. CASE UNCHANGED own
  BY <1>10 DEF own, OwnTypes
<1> QED
  BY <1>1, <1>2, <1>3, <1>4, <1>6, <1>7, <1>8, <1>9, <1>10
     DEF SpecialistNext, Step, Gather, ListTools, allVars

LEMMA InitOwnTypes == SpecialistInit => OwnTypes
<1> SUFFICES ASSUME SpecialistInit
             PROVE  OwnTypes
  OBVIOUS
<1>1. tools \in BOOLEAN
  BY DEF SpecialistInit
<1>2. frames \in [Request -> Seq(Frame)]
  BY EncodersTyped DEF SpecialistInit
<1>3. stage \in [Request -> Stage] /\ turn \in [Request -> Turn]
  BY DEF SpecialistInit, Stage, Over, Turn
<1>4. /\ steps \in [Request -> 0..MaxSteps] /\ leaks \in [Replica -> Nat]
      /\ restarts \in 0..MaxRestarts /\ redacted \in Nat
  BY SpecialistAssumption DEF SpecialistInit
<1> QED
  BY <1>1, <1>2, <1>3, <1>4 DEF OwnTypes

LEMMA OwnTypesAlways == SpecialistSpec => [](Shape /\ OwnTypes)
BY ShapeAlways, SpecialistImplements, InitOwnTypes, NextOwnTypes, PTL
   DEF SpecialistSpec, DatasourcesRefined

(* Every variable of the pipeline keeps its type.                                  *)
THEOREM PipelineTypeCorrect == SpecialistSpec => []SpecialistTypeOK
<1>1. TypeOK /\ OwnTypes => SpecialistTypeOK
  BY DEF OwnTypes, SpecialistTypeOK
<1> QED
  BY <1>1, SpecialistImplements, TypeCorrect, OwnTypesAlways, PTL DEF DatasourcesRefined

-----------------------------------------------------------------------------
(* The stream *)

Trace == {"open", "step", "call", "result"}

\* What a loop has sent whose turn is t: the role, then one block that opens at once
\* and in which only the last call waits for its result.
Growing(f, t) ==
  /\ f \in Seq(Frame) /\ Len(f) > 0
  /\ \A i \in 1..Len(f) : f[i] = "role" <=> i = 1
  /\ \A i \in 2..Len(f) : f[i] \in Trace /\ (f[i] = "open" <=> i = 2)
  /\ \A i \in 1..Len(f) : f[i] = "call" => IF i = Len(f) THEN t = "tool" ELSE f[i + 1] = "result"
  /\ \A i \in 2..Len(f) : f[i] = "result" => f[i - 1] = "call"
  /\ IF TraceOff THEN Len(f) = 1 ELSE t = "tool" => f[Len(f)] = "call"

Completed(f) ==
  \E g \in Seq(Frame), text \in BOOLEAN : Growing(g, "model") /\ f = Concluded(g, text)

\* The stream of a request, as far as it has come.
Streaming(q) ==
  /\ stage[q] # "looping" => turn[q] = "model"
  /\ q \notin Streamed => frames[q] = <<>> /\ stage[q] \notin {"done", "broken"}
  /\ stage[q] \in {"ended", "working"} => frames[q] = <<>>
  /\ q \in Streamed /\ stage[q] \in {"looping", "broken"} => Growing(frames[q], turn[q])
  /\ stage[q] = "done" => Completed(frames[q])

Streams == \A q \in Request : Streaming(q)

LEMMA AppendFacts ==
  ASSUME NEW S, NEW s \in Seq(S), NEW e \in S
  PROVE  /\ s \o <<e>> \in Seq(S) /\ Len(s \o <<e>>) = Len(s) + 1
         /\ (s \o <<e>>)[Len(s) + 1] = e
         /\ \A i \in 1..Len(s) : (s \o <<e>>)[i] = s[i]
OBVIOUS

LEMMA RoleGrows == Growing(<<"role">>, "model")
BY DEF Growing, Frame

\* A block is open as soon as anything follows the role.
LEMMA OpenIsSecond ==
  ASSUME NEW f, NEW t, Growing(f, t)
  PROVE  Sent(f, "open") <=> Len(f) > 1
<1>1. Len(f) \in Nat /\ f[1] = "role"
  BY DEF Growing
<1>2. ASSUME Sent(f, "open")
      PROVE  Len(f) > 1
  <2>1. PICK i \in 1..Len(f) : f[i] = "open"
    BY <1>2 DEF Sent
  <2> QED
    BY <1>1, <2>1
<1>3. ASSUME Len(f) > 1
      PROVE  Sent(f, "open")
  <2>1. f[2] = "open" /\ 2 \in 1..Len(f)
    BY <1>1, <1>3 DEF Growing
  <2> QED
    BY <2>1 DEF Sent
<1> QED
  BY <1>2, <1>3

\* An event e is traced: a call opens a turn of a tool, a result ends it.
LEMMA TracedGrows ==
  ASSUME NEW f, NEW t \in Turn, Growing(f, t), NEW e \in {"step", "call", "result"},
         NEW u \in Turn,
         e = "result" <=> t = "tool",
         e = "call" <=> u = "tool"
  PROVE  Growing(Traced(f, e), u)
<1>0. Len(f) \in Nat /\ Len(f) > 0
  BY DEF Growing
<1>1. Len(f) \in Nat /\ Len(f) > 0 /\ f \in Seq(Frame) /\ f[1] = "role"
  BY DEF Growing
<1>2. Traced(f, e) \in Seq(Frame)
  BY <1>1, EncodersTyped DEF Frame
<1>3. CASE TraceOff
  <2>1. Traced(f, e) = f /\ Len(f) = 1
    BY <1>3 DEF Traced, Growing
  <2> QED
    BY <1>1, <1>3, <2>1 DEF Growing
<1>4. CASE ~TraceOff /\ Len(f) = 1
  <2> DEFINE g == Traced(f, e)
  <2>1. t # "tool" /\ e # "result"
    BY <1>1, <1>4 DEF Growing
  <2>2. ~Sent(f, "open")
    <3>1. ~(Len(f) > 1)
      BY <1>4
    <3> QED
      BY <3>1, OpenIsSecond
  <2>3. g = f \o <<"open">> \o <<e>>
    BY <1>4, <2>2 DEF Traced
  <2>4. Len(g) = 3 /\ g[1] = "role" /\ g[2] = "open" /\ g[3] = e
    <3> DEFINE h == f \o <<"open">>
    <3>1. "open" \in Frame /\ e \in Frame
      BY DEF Frame
    <3>2. /\ h \in Seq(Frame) /\ Len(h) = Len(f) + 1
          /\ h[Len(f) + 1] = "open" /\ \A i \in 1..Len(f) : h[i] = f[i]
      BY <1>1, <3>1, AppendFacts
    <3> HIDE DEF h
    <3>3. Len(h) = 2 /\ h[1] = "role" /\ h[2] = "open"
      BY <1>0, <1>1, <1>4, <3>2
    <3>4. /\ Len(h \o <<e>>) = Len(h) + 1
          /\ (h \o <<e>>)[Len(h) + 1] = e /\ \A i \in 1..Len(h) : (h \o <<e>>)[i] = h[i]
      BY <3>1, <3>2, AppendFacts
    <3> QED
      BY <2>3, <3>3, <3>4 DEF h
  <2> HIDE DEF g
  <2> QED
    BY <1>2, <1>4, <2>1, <2>4 DEF Growing, Trace, g
<1>5. CASE ~TraceOff /\ Len(f) > 1
  <2> DEFINE g == Traced(f, e)
             n == Len(f)
  <2>1. Sent(f, "open")
    BY <1>5, OpenIsSecond
  <2>2. g = f \o <<>> \o <<e>>
    BY <1>5, <2>1 DEF Traced
  <2>3. Len(g) = n + 1 /\ g[n + 1] = e /\ \A i \in 1..n : g[i] = f[i]
    BY <1>1, <2>2
  <2>4. g \in Seq(Frame)
    BY <1>2
  <2>5. n \in Nat /\ n > 1
    BY <1>1, <1>5
  <2> HIDE DEF g
  <2>6. \A i \in 1..Len(g) : g[i] = "role" <=> i = 1
    BY <2>3, <2>5 DEF Growing
  <2>7. \A i \in 2..Len(g) : g[i] \in Trace /\ (g[i] = "open" <=> i = 2)
    BY <2>3, <2>5 DEF Growing, Trace
  <2>8. \A i \in 1..Len(g) : g[i] = "call" => IF i = Len(g) THEN u = "tool" ELSE g[i + 1] = "result"
    BY <2>3, <2>5 DEF Growing
  <2>9. \A i \in 2..Len(g) : g[i] = "result" => g[i - 1] = "call"
    BY <1>5, <2>3, <2>5 DEF Growing
  <2>10. u = "tool" => g[Len(g)] = "call"
    BY <2>3
  <2> QED
    BY <1>5, <2>3, <2>4, <2>5, <2>6, <2>7, <2>8, <2>9, <2>10 DEF Growing, g
<1>6. Len(f) = 1 \/ Len(f) > 1
  <2>1. \A n \in Nat : n > 0 => n = 1 \/ n > 1
    OBVIOUS
  <2> QED
    BY <1>0, <2>1
<1> QED
  BY <1>3, <1>4, <1>5, <1>6, Zenon

\* An answer at once is that of a loop that has sent nothing but the role.
LEMMA AtOnceCompletes ==
  ASSUME NEW text \in BOOLEAN
  PROVE  Completed(AtOnce(text))
<1>1. ~Sent(<<"role">>, "open")
  BY DEF Sent
<1>2. <<"role">> \o <<>> = <<"role">>
  OBVIOUS
<1>3. AtOnce(text) = Concluded(<<"role">>, text)
  BY <1>1, <1>2 DEF AtOnce, Concluded
<1> QED
  BY <1>3, RoleGrows, EncodersTyped DEF Completed

LEMMA NoneWellFormed == WellFormed(<<>>) /\ At(<<>>, "finish") = {}
<1>1. \A e : At(<<>>, e) = {}
  BY DEF At
<1>2. \A e : Cardinality(At(<<>>, e)) <= 1
  BY <1>1, FS_EmptySet
<1>3. \A i, e : i \notin At(<<>>, e)
  BY <1>1
<1> QED
  BY <1>1, <1>2, <1>3 DEF WellFormed

\* A set of positions that has but one member, or none.
LEMMA AtMostOne ==
  ASSUME NEW f, NEW e, NEW k, At(f, e) \subseteq {k}
  PROVE  Cardinality(At(f, e)) <= 1
<1>1. At(f, e) = {} \/ At(f, e) = {k}
  OBVIOUS
<1>2. Cardinality({}) = 0 /\ Cardinality({k}) = 1
  BY FS_EmptySet, FS_Singleton
<1>3. Cardinality(At(f, e)) = 0 \/ Cardinality(At(f, e)) = 1
  BY <1>1, <1>2
<1> QED
  BY <1>3

LEMMA GrowingWellFormed ==
  ASSUME NEW f, NEW t, Growing(f, t)
  PROVE  WellFormed(f) /\ At(f, "finish") = {}
<1>1. Len(f) \in Nat /\ Len(f) > 0
  BY DEF Growing
<1>2. \A i \in 1..Len(f) : i = 1 \/ i \in 2..Len(f)
  BY <1>1
<1>3. /\ At(f, "role") = {1} /\ At(f, "open") \subseteq {2}
      /\ \A e \in {"close", "text", "finish", "done"} : At(f, e) = {}
  BY <1>1, <1>2 DEF Growing, At, Trace
<1>4. \A e \in {"open", "close", "text", "finish", "done"} : Cardinality(At(f, e)) <= 1
  <2>1. \A e \in {"open", "close", "text", "finish", "done"} : At(f, e) \subseteq {2}
    BY <1>3
  <2> QED
    BY <2>1, AtMostOne
<1>5. ASSUME NEW i \in At(f, "step") \cup At(f, "call") \cup At(f, "result")
      PROVE  \E o \in At(f, "open") : o < i /\ \A c \in At(f, "close") : i < c
  <2>1. i \in 1..Len(f) /\ f[i] \in {"step", "call", "result"}
    BY DEF At
  <2>2. i # 1 /\ i # 2
    BY <1>1, <2>1 DEF Growing
  <2>3. 2 \in At(f, "open") /\ 2 < i
    BY <1>1, <2>1, <2>2 DEF Growing, At
  <2> QED
    BY <1>3, <2>3
<1>6. \A i \in At(f, "call") : i < Len(f) => f[i + 1] = "result"
  BY <1>1 DEF Growing, At
<1>7. \A i \in At(f, "result") : f[i - 1] = "call"
  BY <1>1, <1>2 DEF Growing, At
<1> QED
  BY <1>3, <1>4, <1>5, <1>6, <1>7 DEF WellFormed

\* A completed stream is n frames of a loop, a close if the loop has opened a block,
\* the text if there is one, the finish and [DONE].
LEMMA CompletedFrames ==
  ASSUME NEW f, Completed(f)
  PROVE  \E g \in Seq(Frame), c \in Nat, t \in Nat :
           /\ Growing(g, "model")
           /\ c = IF Len(g) > 1 THEN Len(g) + 1 ELSE Len(g)
           /\ t \in {c, c + 1}
           /\ Len(f) = t + 2
           /\ \A i \in 1..Len(g) : f[i] = g[i]
           /\ c > Len(g) => f[c] = "close"
           /\ t > c => f[t] = "text"
           /\ f[t + 1] = "finish" /\ f[t + 2] = "done"
<1>1. PICK g \in Seq(Frame), text \in BOOLEAN : Growing(g, "model") /\ f = Concluded(g, text)
  BY DEF Completed
<1> DEFINE n == Len(g)
           c == IF n > 1 THEN n + 1 ELSE n
           t == IF text THEN c + 1 ELSE c
           closed == g \o (IF Sent(g, "open") THEN <<"close">> ELSE <<>>)
           said == closed \o (IF text THEN <<"text">> ELSE <<>>)
<1>2. n \in Nat /\ c \in Nat /\ t \in Nat
  BY <1>1
<1>3. /\ closed \in Seq(Frame) /\ Len(closed) = c
      /\ \A i \in 1..n : closed[i] = g[i]
      /\ c > n => closed[c] = "close"
  <2>1. Sent(g, "open") <=> n > 1
    BY <1>1, OpenIsSecond
  <2>2. "close" \in Frame
    BY DEF Frame
  <2>3. CASE n > 1
    <3>1. closed = g \o <<"close">> /\ c = n + 1
      BY <2>1, <2>3
    <3> QED
      BY <2>2, <3>1, AppendFacts
  <2>4. CASE ~(n > 1)
    <3>1. closed = g /\ c = n
      BY <2>1, <2>4
    <3> QED
      BY <1>2, <3>1
  <2> QED
    BY <2>3, <2>4
<1> HIDE DEF closed
<1>4. /\ said \in Seq(Frame) /\ Len(said) = t
      /\ \A i \in 1..c : said[i] = closed[i]
      /\ t > c => said[t] = "text"
  <2>1. "text" \in Frame
    BY DEF Frame
  <2>2. CASE text
    <3>1. said = closed \o <<"text">> /\ t = c + 1
      BY <2>2
    <3> QED
      BY <1>3, <2>1, <3>1, AppendFacts
  <2>3. CASE ~text
    <3>1. said = closed /\ t = c
      BY <1>3, <2>3
    <3> QED
      BY <1>2, <1>3, <3>1
  <2> QED
    BY <2>2, <2>3
<1> HIDE DEF said
<1>5. /\ Len(said \o <<"finish", "done">>) = t + 2
      /\ \A i \in 1..t : (said \o <<"finish", "done">>)[i] = said[i]
      /\ (said \o <<"finish", "done">>)[t + 1] = "finish"
      /\ (said \o <<"finish", "done">>)[t + 2] = "done"
  BY <1>2, <1>4
<1>6. f = said \o <<"finish", "done">>
  BY <1>1 DEF Concluded, said, closed
<1>7. /\ n <= c /\ c <= t /\ t \in {c, c + 1}
  BY <1>2
<1> HIDE DEF t
<1>8. /\ \A i \in 1..n : f[i] = g[i]
      /\ c > n => f[c] = "close"
      /\ t > c => f[t] = "text"
  BY <1>2, <1>3, <1>4, <1>5, <1>6, <1>7
<1> QED
  BY <1>1, <1>2, <1>5, <1>6, <1>7, <1>8

LEMMA CompletedWellFormed ==
  ASSUME NEW f, Completed(f)
  PROVE  /\ WellFormed(f)
         /\ At(f, "done") = {Len(f)} /\ At(f, "finish") = {Len(f) - 1}
<1>1. PICK g \in Seq(Frame), c \in Nat, t \in Nat :
           /\ Growing(g, "model")
           /\ c = IF Len(g) > 1 THEN Len(g) + 1 ELSE Len(g)
           /\ t \in {c, c + 1}
           /\ Len(f) = t + 2
           /\ \A i \in 1..Len(g) : f[i] = g[i]
           /\ c > Len(g) => f[c] = "close"
           /\ t > c => f[t] = "text"
           /\ f[t + 1] = "finish" /\ f[t + 2] = "done"
  BY CompletedFrames
<1> DEFINE n == Len(g)
<1>2. n \in Nat /\ n > 0
  BY <1>1 DEF Growing
<1>3. \A i \in 1..Len(f) : \/ i \in 1..n
                           \/ i = c /\ c > n /\ f[i] = "close"
                           \/ i = t /\ t > c /\ f[i] = "text"
                           \/ i = t + 1 /\ f[i] = "finish"
                           \/ i = t + 2 /\ f[i] = "done"
  BY <1>1, <1>2
<1>4. /\ f[1] = "role" /\ 1 \in 1..n
      /\ \A i \in 1..n : i # 1 => f[i] \in Trace /\ (f[i] = "open" <=> i = 2)
  <2>1. \A i \in 1..n : i = 1 \/ i \in 2..n
    BY <1>2
  <2> QED
    BY <1>1, <1>2, <2>1 DEF Growing
<1>5. /\ n <= c /\ c <= t /\ c \in 1..Len(f) /\ t \in 1..Len(f) /\ 1..n \subseteq 1..Len(f)
      /\ t + 1 \in 1..Len(f) /\ t + 2 \in 1..Len(f)
      /\ n > 1 => c > n
  BY <1>1, <1>2
<1>6. At(f, "role") = {1} /\ At(f, "open") \subseteq {2}
  BY <1>3, <1>4, <1>5 DEF At, Trace
<1>7. /\ At(f, "close") \subseteq {c} /\ At(f, "text") \subseteq {t}
      /\ At(f, "finish") = {t + 1} /\ At(f, "done") = {t + 2}
      /\ At(f, "close") # {} => c > n
      /\ At(f, "text") # {} => t > c
  BY <1>1, <1>3, <1>4, <1>5 DEF At, Trace
<1>8. \A e \in {"open", "close", "text", "finish", "done"} : Cardinality(At(f, e)) <= 1
  <2>1. /\ At(f, "open") \subseteq {2} /\ At(f, "close") \subseteq {c}
        /\ At(f, "text") \subseteq {t}
        /\ At(f, "finish") \subseteq {t + 1} /\ At(f, "done") \subseteq {t + 2}
    BY <1>6, <1>7
  <2> QED
    BY <2>1, AtMostOne
<1>9. ASSUME NEW i \in At(f, "step") \cup At(f, "call") \cup At(f, "result")
      PROVE  /\ i \in 1..n /\ i > 2
             /\ \E o \in At(f, "open") : o < i /\ \A k \in At(f, "close") : i < k
  <2>1. i \in 1..Len(f) /\ f[i] \in {"step", "call", "result"}
    BY DEF At
  <2>2. i \in 1..n /\ i # 1 /\ i # 2
    BY <1>3, <1>4, <2>1
  <2>3. i > 2 /\ 2 \in 1..n
    BY <1>2, <2>2
  <2>4. f[2] = "open" /\ 2 \in At(f, "open")
    BY <1>4, <1>5, <2>3 DEF At
  <2>5. \A k \in At(f, "close") : i < k
    BY <1>1, <1>2, <1>7, <2>2
  <2> QED
    BY <2>2, <2>3, <2>4, <2>5
<1>10. ASSUME NEW i \in At(f, "text") \cup At(f, "finish"), NEW o \in At(f, "open")
       PROVE  \E k \in At(f, "close") : o < k /\ k < i
  <2>1. o = 2 /\ f[2] = "open" /\ 2 \in 1..Len(f)
    BY <1>6 DEF At
  <2>2. 2 \in 1..n
    BY <1>3, <1>5, <2>1
  <2>3. n > 1 /\ c > n
    BY <1>2, <1>5, <2>2
  <2>4. c \in At(f, "close") /\ o < c
    BY <1>1, <1>2, <1>5, <2>1, <2>3 DEF At
  <2>5. c < i
    BY <1>1, <1>5, <1>7
  <2> QED
    BY <2>4, <2>5
<1>11. ASSUME NEW i \in At(f, "call"), i < Len(f)
       PROVE  f[i + 1] = "result"
  <2>1. i \in 1..n /\ g[i] = "call"
    BY <1>1, <1>9 DEF At
  <2>2. i # n /\ g[i + 1] = "result"
    BY <1>1, <2>1 DEF Growing
  <2>3. i + 1 \in 1..n
    BY <1>2, <2>1, <2>2
  <2> QED
    BY <1>1, <2>2, <2>3
<1>12. ASSUME NEW i \in At(f, "result")
       PROVE  f[i - 1] = "call"
  <2>1. i \in 2..n /\ g[i] = "result"
    BY <1>1, <1>2, <1>9 DEF At
  <2>2. g[i - 1] = "call" /\ i - 1 \in 1..n
    BY <1>1, <1>2, <2>1 DEF Growing
  <2> QED
    BY <1>1, <2>2
<1> QED
  BY <1>1, <1>6, <1>7, <1>8, <1>9, <1>10, <1>11, <1>12 DEF WellFormed

\* What a step of q does not touch stays as it was for the others.
LEMMA OthersStream ==
  ASSUME NEW p \in Request, Streaming(p),
         turn'[p] = turn[p], stage'[p] = stage[p], frames'[p] = frames[p]
  PROVE  Streaming(p)'
BY DEF Streaming

\* A request that is over, or that has not begun to answer.
LEMMA SilentStreams ==
  ASSUME NEW q \in Request,
         turn'[q] = "model", stage'[q] \in {"ended", "working"}, frames'[q] = <<>>
  PROVE  Streaming(q)'
BY DEF Streaming

\* Where a step of q leaves the others.
Alone(q) ==
  \A p \in Request : p # q => /\ turn'[p] = turn[p] /\ stage'[p] = stage[p]
                              /\ frames'[p] = frames[p]

LEMMA AloneStreams ==
  ASSUME NEW q \in Request, Streams, Alone(q), Streaming(q)'
  PROVE  Streams'
<1>1. \A p \in Request : Streaming(p)'
  BY OthersStream DEF Streams, Alone
<1> QED
  BY <1>1 DEF Streams

LEMMA ReceiveStreams ==
  ASSUME OwnTypes, Streams, NEW q \in Request, Receive(q)
  PROVE  Streams'
<1>1. Alone(q)
  BY DEF Receive, Scanned, To, Hangup, Alone, OwnTypes
<1>2. turn[q] = "model"
  BY DEF Receive, Streams, Streaming, Over
<1>3. turn'[q] = "model" /\ stage'[q] \in {"ended", "working"} /\ frames'[q] = <<>>
  BY <1>2 DEF Receive, Scanned, To, Hangup, OwnTypes
<1> QED
  BY <1>1, <1>3, SilentStreams, AloneStreams

\* Where the screening leaves a request.
LEMMA ScreenedEnds ==
  ASSUME OwnTypes, NEW q \in Request, Screened(q) \/ Raised(q)
  PROVE  /\ stage'[q] = "ended" \/ (q \in Streamed /\ stage'[q] = "done")
         /\ \A p \in Request : p # q => stage'[p] = stage[p]
BY DEF Screened, Raised, To, OwnTypes

LEMMA SingleCallStreams ==
  ASSUME OwnTypes, Streams, NEW q \in Request, SingleCall(q)
  PROVE  Streams'
<1>1. PICK text \in BOOLEAN :
        Emit(q, IF stage'[q] = "done" THEN AtOnce(text) ELSE <<>>)
  BY DEF SingleCall
<1>2. Alone(q)
  BY <1>1, ScreenedEnds DEF SingleCall, Emit, Alone, OwnTypes
<1>3. stage[q] = "working" /\ turn' = turn /\ turn[q] = "model" /\ frames[q] = <<>>
  BY DEF SingleCall, Streams, Streaming
<1>4. CASE stage'[q] = "ended"
  <2>1. frames'[q] = <<>>
    BY <1>1, <1>3, <1>4 DEF Emit, OwnTypes
  <2> QED
    BY <1>2, <1>3, <1>4, <2>1, SilentStreams, AloneStreams
<1>5. CASE q \in Streamed /\ stage'[q] = "done"
  <2>1. frames'[q] = AtOnce(text)
    BY <1>1, <1>5 DEF Emit, OwnTypes
  <2>2. Completed(frames'[q])
    BY <2>1, AtOnceCompletes
  <2>3. Completed(frames[q])'
    BY <2>2 DEF Completed, Growing, Concluded, Sent
  <2>4. Streaming(q)'
    BY <1>3, <1>5, <2>3 DEF Streaming
  <2> QED
    BY <1>2, <2>4, AloneStreams
<1> QED
  BY <1>4, <1>5, ScreenedEnds DEF SingleCall

\* A loop of a stream goes on, or was never streamed.
LEMMA LoopStreams ==
  ASSUME NEW q \in Request, stage'[q] = "looping",
         q \notin Streamed => frames'[q] = <<>>,
         q \in Streamed => Growing(frames'[q], turn'[q])
  PROVE  Streaming(q)'
<1>1. q \in Streamed => Growing(frames[q], turn[q])'
  BY DEF Growing
<1> QED
  BY <1>1 DEF Streaming

LEMMA StartLoopStreams ==
  ASSUME OwnTypes, Streams, NEW q \in Request, StartLoop(q)
  PROVE  Streams'
<1>1. PICK f \in {<<"role">>, Traced(<<"role">>, "step")} : Emit(q, f)
  BY DEF StartLoop
<1>2. Growing(f, "model")
  <2>1. Growing(Traced(<<"role">>, "step"), "model")
    <3>1. "model" \in Turn /\ "step" \in {"step", "call", "result"}
      BY DEF Turn
    <3> QED
      BY <3>1, RoleGrows, TracedGrows
  <2> QED
    BY <1>1, <2>1, RoleGrows
<1>3. stage[q] = "working" /\ turn' = turn /\ turn[q] = "model" /\ frames[q] = <<>>
  BY DEF StartLoop, Streams, Streaming
<1>4. Alone(q) /\ stage'[q] = "looping"
  BY <1>1 DEF StartLoop, Emit, To, Alone, OwnTypes
<1>5. frames'[q] = IF q \in Streamed THEN f ELSE <<>>
  BY <1>1, <1>3 DEF Emit, OwnTypes
<1> QED
  BY <1>2, <1>3, <1>4, <1>5, LoopStreams, AloneStreams

LEMMA TraceStreams ==
  ASSUME OwnTypes, Streams, NEW q \in Request, Think(q) \/ AskTool(q) \/ ToolReturns(q)
  PROVE  Streams'
<1>1. stage[q] = "looping" /\ stage' = stage
  BY DEF Think, AskTool, ToolReturns, InTurn
<1>2. PICK e \in {"step", "call", "result"} :
        /\ Emit(q, Traced(frames[q], e))
        /\ e = "result" <=> turn[q] = "tool"
        /\ e = "call" <=> turn'[q] = "tool"
        /\ \A p \in Request : p # q => turn'[p] = turn[p]
        /\ turn'[q] \in Turn
  BY DEF Think, AskTool, ToolReturns, InTurn, OwnTypes, Turn
<1>3. Alone(q)
  BY <1>1, <1>2 DEF Emit, Alone, OwnTypes
<1>4. frames'[q] = IF q \in Streamed THEN Traced(frames[q], e) ELSE frames[q]
  BY <1>2 DEF Emit, OwnTypes
<1>5. CASE q \in Streamed
  <2>1. Growing(frames[q], turn[q]) /\ turn[q] \in Turn
    BY <1>1, <1>5 DEF Streams, Streaming, OwnTypes
  <2>2. Growing(frames'[q], turn'[q])
    BY <1>2, <1>4, <1>5, <2>1, TracedGrows
  <2> QED
    BY <1>1, <1>3, <1>5, <2>2, LoopStreams, AloneStreams
<1>6. CASE q \notin Streamed
  <2>1. frames'[q] = <<>>
    BY <1>4, <1>6 DEF Streams, Streaming
  <2> QED
    BY <1>1, <1>3, <1>6, <2>1, LoopStreams, AloneStreams
<1> QED
  BY <1>5, <1>6

LEMMA RestModel ==
  ASSUME OwnTypes, NEW q \in Request, Rest({q})
  PROVE  turn'[q] = "model" /\ \A p \in Request : p # q => turn'[p] = turn[p]
BY DEF Rest, OwnTypes

\* Between two calls of the model a loop may stop: its stream can be ended in order.
LEMMA RestingGrows ==
  ASSUME NEW f, NEW t, t # "tool", Growing(f, t)
  PROVE  Growing(f, "model")
<1>1. Len(f) \in Nat /\ Len(f) > 0 /\ Len(f) \in 1..Len(f)
  BY DEF Growing
<1> QED
  BY <1>1 DEF Growing

LEMMA ConcludeStreams ==
  ASSUME OwnTypes, Streams, NEW q \in Request, Conclude(q)
  PROVE  Streams'
<1>1. /\ turn'[q] = "model" /\ \A p \in Request : p # q => turn'[p] = turn[p]
      /\ stage[q] = "looping" /\ turn[q] # "tool"
  BY RestModel DEF Conclude, InTurn
<1>2. CASE q \notin Streamed /\ Screened(q) /\ UNCHANGED frames
  <2>1. stage'[q] = "ended" /\ Alone(q) /\ frames'[q] = <<>>
    BY <1>1, <1>2, ScreenedEnds DEF Alone, Streams, Streaming
  <2> QED
    BY <1>1, <2>1, SilentStreams, AloneStreams
<1>3. CASE /\ q \in Streamed
           /\ \E text \in BOOLEAN : Emit(q, Concluded(frames[q], text))
           /\ To(q, "done")
  <2>1. PICK text \in BOOLEAN : Emit(q, Concluded(frames[q], text))
    BY <1>3
  <2>2. Growing(frames[q], "model") /\ frames[q] \in Seq(Frame)
    BY <1>1, <1>3, RestingGrows DEF Streams, Streaming, OwnTypes
  <2>3. frames'[q] = Concluded(frames[q], text) /\ stage'[q] = "done" /\ Alone(q)
    BY <1>1, <1>3, <2>1 DEF Emit, To, Alone, OwnTypes
  <2>4. Completed(frames'[q])
    BY <2>2, <2>3 DEF Completed
  <2>5. Completed(frames[q])'
    BY <2>4 DEF Completed, Growing, Concluded, Sent
  <2>6. Streaming(q)'
    BY <1>1, <1>3, <2>3, <2>5 DEF Streaming
  <2> QED
    BY <2>3, <2>6, AloneStreams
<1> QED
  BY <1>2, <1>3 DEF Conclude

LEMMA BreakStreams ==
  ASSUME OwnTypes, Streams, NEW q \in Request, Break(q)
  PROVE  Streams'
<1>1. /\ turn'[q] = "model" /\ turn[q] = "model" /\ stage[q] = "looping"
      /\ \A p \in Request : p # q => turn'[p] = turn[p]
      /\ frames' = frames
  BY RestModel DEF Break, InTurn
<1>2. CASE q \in Streamed
  <2>1. stage'[q] = "broken" /\ Alone(q)
    BY <1>1, <1>2 DEF Break, To, Alone, OwnTypes
  <2>2. Growing(frames[q], turn[q])
    BY <1>1, <1>2 DEF Streams, Streaming
  <2>3. Growing(frames[q], turn[q])'
    BY <1>1, <2>2 DEF Growing
  <2>4. Streaming(q)'
    BY <1>1, <1>2, <2>1, <2>3 DEF Streaming
  <2> QED
    BY <2>1, <2>4, AloneStreams
<1>3. CASE q \notin Streamed
  <2>1. stage'[q] = "ended" /\ Alone(q) /\ frames'[q] = <<>>
    BY <1>1, <1>3, ScreenedEnds DEF Break, Alone, Streams, Streaming
  <2> QED
    BY <1>1, <2>1, SilentStreams, AloneStreams
<1> QED
  BY <1>2, <1>3

LEMMA LeaveStreams ==
  ASSUME OwnTypes, Streams, NEW q \in Request, Leave(q)
  PROVE  Streams'
<1>1. turn'[q] = "model" /\ \A p \in Request : p # q => turn'[p] = turn[p]
  BY RestModel DEF Leave
<1>2. stage'[q] = "ended" /\ frames'[q] = <<>> /\ Alone(q)
  BY <1>1 DEF Leave, To, Hangup, Alone, OwnTypes
<1> QED
  BY <1>1, <1>2, SilentStreams, AloneStreams

LEMMA CrashStreams ==
  ASSUME OwnTypes, Streams, NEW r \in Replica, Crash(r)
  PROVE  Streams'
<1> SUFFICES ASSUME NEW q \in Request
             PROVE  Streaming(q)'
  BY DEF Streams
<1>1. CASE home[q] = r
  <2>1. turn'[q] = "model" /\ stage'[q] = "ended" /\ frames'[q] = <<>>
    BY <1>1 DEF Crash, Rest, Hangup
  <2> QED
    BY <2>1, SilentStreams
<1>2. CASE home[q] # r
  <2>1. turn'[q] = turn[q] /\ stage'[q] = stage[q] /\ frames'[q] = frames[q]
    BY <1>2 DEF Crash, Rest, Hangup
  <2>2. Streaming(q)
    BY DEF Streams
  <2> QED
    BY <2>1, <2>2, OthersStream
<1> QED
  BY <1>1, <1>2

LEMMA NextStreams == OwnTypes /\ Streams /\ [SpecialistNext]_allVars => Streams'
<1> SUFFICES ASSUME OwnTypes, Streams, [SpecialistNext]_allVars
             PROVE  Streams'
  OBVIOUS
<1>1. CASE UNCHANGED own
  BY <1>1, OthersStream DEF own, Streams
<1>2. ASSUME NEW r \in Replica, Crash(r)
      PROVE  Streams'
  BY <1>2, CrashStreams
<1>3. ASSUME NEW q \in Request, Receive(q) \/ Step(q) \/ Leave(q), ~UNCHANGED own
      PROVE  Streams'
  BY <1>3, ReceiveStreams, SingleCallStreams, StartLoopStreams, TraceStreams, ConcludeStreams,
     BreakStreams, LeaveStreams DEF Step, Gather, ListTools
<1> QED
  BY <1>1, <1>2, <1>3 DEF SpecialistNext, allVars

(* The client of a stream reads a well-formed sequence of frames at any moment, and *)
(* the finish and [DONE] at its end, unless the stream broke off (openai_compat.py).*)
THEOREM StreamCorrect == SpecialistSpec => []StreamWellFormed
<1>1. SpecialistInit => Streams
  BY DEF SpecialistInit, Streams, Streaming
<1>2. OwnTypes /\ Streams => StreamWellFormed
  <2> SUFFICES ASSUME OwnTypes, Streams, NEW q \in Request
               PROVE  /\ WellFormed(frames[q])
                      /\ stage[q] = "done" => /\ At(frames[q], "done") = {Len(frames[q])}
                                              /\ At(frames[q], "finish") = {Len(frames[q]) - 1}
                      /\ stage[q] # "done" => At(frames[q], "finish") = {}
    BY DEF StreamWellFormed
  <2>1. Streaming(q) /\ stage[q] \in {"ended", "working", "looping", "broken", "done"}
    BY DEF Streams, OwnTypes, Stage, Over
  <2>2. CASE stage[q] = "done"
    BY <2>1, <2>2, CompletedWellFormed DEF Streaming
  <2>3. CASE frames[q] = <<>> /\ stage[q] # "done"
    BY <2>3, NoneWellFormed
  <2>4. CASE q \in Streamed /\ stage[q] \in {"looping", "broken"}
    BY <2>1, <2>4, GrowingWellFormed DEF Streaming
  <2> QED
    BY <2>1, <2>2, <2>3, <2>4 DEF Streaming
<1> QED
  BY <1>1, <1>2, NextStreams, OwnTypesAlways, PTL DEF SpecialistSpec

-----------------------------------------------------------------------------
(* The canary *)

\* The detections the replicas remember, one by one.
Counted == {d \in Replica \X (1..Threshold) : d[2] <= leaks[d[1]]}

\* Every redacted answer was counted by a replica that lives, or by one that died.
Remembered ==
  /\ \A r \in Replica : leaks[r] <= Threshold
  /\ redacted <= Cardinality(Counted) + Threshold * restarts

Constants == Threshold \in Nat /\ MaxRestarts \in Nat /\ IsFiniteSet(Replica)

LEMMA ConstantsHold == Constants
BY SpecialistAssumption DEF Constants

Countable ==
  /\ IsFiniteSet(Counted) /\ Cardinality(Counted) \in Nat
  /\ Cardinality(Replica) \in Nat
  /\ Cardinality(Counted) <= Cardinality(Replica) * Threshold

LEMMA CountedFinite == Countable
<1>1. IsFiniteSet(1..Threshold) /\ Cardinality(1..Threshold) = Threshold
  BY ConstantsHold, FS_Interval DEF Constants
<1>2. /\ IsFiniteSet(Replica \X (1..Threshold))
      /\ Cardinality(Replica \X (1..Threshold)) = Cardinality(Replica) * Threshold
  BY <1>1, ConstantsHold, FS_Product DEF Constants
<1>3. IsFiniteSet(Counted) /\ Cardinality(Counted) <= Cardinality(Replica) * Threshold
  BY <1>2, FS_Subset DEF Counted
<1> QED
  BY <1>3, ConstantsHold, FS_CardinalityType DEF Constants, Countable

LEMMA CountedFiniteNext == Countable'
BY CountedFinite, PTL

\* A redacted answer that is given is a detection more; none is forgotten meanwhile.
LEMMA ScreenedRemembers ==
  ASSUME Shape, OwnTypes, Remembered, NEW q \in Request, Screened(q) \/ Raised(q),
         UNCHANGED restarts
  PROVE  Remembered'
<1>0. Threshold \in Nat /\ restarts \in Nat /\ redacted \in Nat /\ leaks \in [Replica -> Nat]
  BY ConstantsHold DEF Constants, OwnTypes
<1>1. CASE UNCHANGED <<leaks, redacted>>
  BY <1>1 DEF Remembered, Counted
<1>2. CASE Screened(q)
  <2> DEFINE r == home[q]
  <2>1. PICK a \in Answer :
          LET n == leaks[r] + (IF a.canary THEN 1 ELSE 0)
              given == ~Blocked(q, a) /\ ~(a.canary /\ n > Threshold)
          IN  /\ leaks' = [leaks EXCEPT ![r] = AtMost(n, Threshold)]
              /\ redacted' = redacted + (IF a.canary /\ given THEN 1 ELSE 0)
    BY <1>2 DEF Screened
  <2>2. r \in Replica /\ leaks[r] \in Nat /\ leaks[r] <= Threshold
    BY <1>0 DEF Shape, Remembered
  <2>3. \/ redacted' = redacted /\ leaks'[r] \in leaks[r]..Threshold
        \/ redacted' = redacted + 1 /\ leaks'[r] = leaks[r] + 1 /\ leaks[r] < Threshold
    <3>1. CASE a.canary
      BY <1>0, <2>1, <2>2, <3>1 DEF AtMost
    <3>2. CASE ~a.canary
      BY <1>0, <2>1, <2>2, <3>2 DEF AtMost
    <3> QED
      BY <3>1, <3>2
  <2>4. \A p \in Replica : p # r => leaks'[p] = leaks[p]
    BY <1>0, <2>1, <2>2
  <2>5. \A p \in Replica : leaks[p] <= leaks'[p] /\ leaks'[p] <= Threshold /\ leaks'[p] \in Nat
    BY <1>0, <2>2, <2>3, <2>4 DEF Remembered
  <2>6. Counted \subseteq Counted'
    BY <1>0, <2>5 DEF Counted
  <2>7. IsFiniteSet(Counted') /\ Cardinality(Counted') \in Nat
    BY CountedFiniteNext DEF Countable
  <2>8. Cardinality(Counted) <= Cardinality(Counted') /\ Cardinality(Counted) \in Nat
    BY <2>6, <2>7, CountedFinite, FS_Subset DEF Countable
  <2>9. CASE redacted' = redacted
    <3>1. Threshold * restarts \in Nat /\ restarts' = restarts
      BY <1>0
    <3> QED
      BY <1>0, <2>5, <2>7, <2>8, <2>9, <3>1 DEF Remembered
  <2>10. CASE redacted' = redacted + 1 /\ leaks'[r] = leaks[r] + 1 /\ leaks[r] < Threshold
    <3> DEFINE d == <<r, leaks[r] + 1>>
    <3>1. d \in Counted' /\ d \notin Counted
      BY <1>0, <2>2, <2>10 DEF Counted
    <3>2. /\ IsFiniteSet(Counted \cup {d})
          /\ Cardinality(Counted \cup {d}) = Cardinality(Counted) + 1
      BY <3>1, CountedFinite, FS_AddElement DEF Countable
    <3>3. Cardinality(Counted) + 1 <= Cardinality(Counted')
      BY <2>6, <2>7, <3>1, <3>2, FS_Subset
    <3>4. Threshold * restarts \in Nat /\ restarts' = restarts
      BY <1>0
    <3> QED
      BY <1>0, <2>5, <2>7, <2>8, <2>10, <3>3, <3>4 DEF Remembered
  <2> QED
    BY <2>3, <2>9, <2>10
<1> QED
  BY <1>1, <1>2 DEF Raised

\* A replica that dies forgets no more than Threshold detections.
LEMMA CrashRemembers ==
  ASSUME Shape, OwnTypes, Remembered, NEW r \in Replica, Crash(r)
  PROVE  Remembered'
<1>0. Threshold \in Nat /\ restarts \in Nat /\ redacted \in Nat /\ leaks \in [Replica -> Nat]
  BY ConstantsHold DEF Constants, OwnTypes
<1>1. /\ leaks' = [leaks EXCEPT ![r] = 0] /\ restarts' = restarts + 1
      /\ redacted' = redacted
  BY DEF Crash
<1> DEFINE lost == {r} \X (1..Threshold)
<1>2. IsFiniteSet(lost) /\ Cardinality(lost) = Threshold
  <2>1. IsFiniteSet({r}) /\ Cardinality({r}) = 1
    BY FS_Singleton
  <2>2. IsFiniteSet(1..Threshold) /\ Cardinality(1..Threshold) = Threshold
    BY <1>0, FS_Interval
  <2>3. IsFiniteSet(lost) /\ Cardinality(lost) = 1 * Threshold
    BY <2>1, <2>2, FS_Product
  <2> QED
    BY <1>0, <2>3
<1>3. Counted \subseteq Counted' \cup lost
  BY <1>0, <1>1 DEF Counted
<1>4. IsFiniteSet(Counted') /\ Cardinality(Counted') \in Nat
  BY CountedFiniteNext DEF Countable
<1>5. /\ IsFiniteSet(Counted' \cup lost)
      /\ Cardinality(Counted' \cup lost) =
           Cardinality(Counted') + Cardinality(lost) - Cardinality(Counted' \cap lost)
  BY <1>2, <1>4, FS_Union
<1>6. Cardinality(Counted' \cap lost) \in Nat
  BY <1>2, FS_Intersection, FS_CardinalityType
<1>7. /\ Cardinality(Counted) \in Nat
      /\ Cardinality(Counted) <= Cardinality(Counted' \cup lost)
  BY <1>3, <1>5, CountedFinite, FS_Subset DEF Countable
<1>8. Cardinality(Counted) <= Cardinality(Counted') + Threshold
  BY <1>0, <1>2, <1>4, <1>5, <1>6, <1>7
<1>9. /\ Threshold * restarts' = Threshold * restarts + Threshold
      /\ Threshold * restarts \in Nat
  BY <1>0, <1>1
<1>10. \A p \in Replica : leaks'[p] <= Threshold
  BY <1>0, <1>1 DEF Remembered
<1>11. redacted <= Cardinality(Counted) + Threshold * restarts
  BY DEF Remembered
<1>12. redacted' <= Cardinality(Counted') + Threshold * restarts'
  BY <1>0, <1>1, <1>4, <1>7, <1>8, <1>9, <1>11
<1> QED
  BY <1>10, <1>12 DEF Remembered

LEMMA NextRemembers ==
  Shape /\ OwnTypes /\ Remembered /\ [SpecialistNext]_allVars => Remembered'
<1> SUFFICES ASSUME Shape, OwnTypes, Remembered, [SpecialistNext]_allVars
             PROVE  Remembered'
  OBVIOUS
<1>1. CASE UNCHANGED <<leaks, restarts, redacted>>
  BY <1>1 DEF Remembered, Counted
<1>2. ASSUME NEW r \in Replica, Crash(r)
      PROVE  Remembered'
  BY <1>2, CrashRemembers
<1>3. ASSUME NEW q \in Request, Receive(q) \/ Step(q) \/ Leave(q)
      PROVE  Remembered'
  <2>1. \/ UNCHANGED <<leaks, restarts, redacted>>
        \/ UNCHANGED restarts /\ (Screened(q) \/ Raised(q))
    BY <1>3 DEF Receive, Step, Gather, SingleCall, StartLoop, ListTools, Think, AskTool,
                ToolReturns, Conclude, Break, Leave, own, session
  <2> QED
    BY <1>1, <2>1, ScreenedRemembers
<1> QED
  BY <1>1, <1>2, <1>3 DEF SpecialistNext, own, allVars

(* A session reads a redacted answer at most Threshold times in the life of a replica, *)
(* for any number of replicas, requests and restarts (canary.py).                      *)
THEOREM ProbesLimited == SpecialistSpec => []ProbesBounded
<1>1. SpecialistInit => Remembered
  <2> SUFFICES ASSUME SpecialistInit
               PROVE  Remembered
    OBVIOUS
  <2>1. /\ \A r \in Replica : leaks[r] = 0
        /\ restarts = 0 /\ redacted = 0
    BY DEF SpecialistInit
  <2>2. Threshold \in Nat /\ Threshold * restarts = 0
    BY <2>1, ConstantsHold DEF Constants
  <2> QED
    BY <2>1, <2>2, CountedFinite DEF Countable, Remembered
<1>2. OwnTypes /\ Remembered => ProbesBounded
  <2> SUFFICES ASSUME OwnTypes, Remembered
               PROVE  redacted <= Threshold * (Cardinality(Replica) + restarts)
    BY DEF ProbesBounded
  <2>1. /\ Threshold \in Nat /\ restarts \in Nat /\ redacted \in Nat
        /\ Cardinality(Counted) \in Nat /\ Cardinality(Replica) \in Nat
    BY ConstantsHold, CountedFinite DEF Countable, Constants, OwnTypes
  <2>2. redacted <= Cardinality(Counted) + Threshold * restarts
    BY DEF Remembered
  <2>3. Cardinality(Counted) <= Cardinality(Replica) * Threshold
    BY CountedFinite DEF Countable
  <2>4. Threshold * (Cardinality(Replica) + restarts)
          = Cardinality(Replica) * Threshold + Threshold * restarts
    BY <2>1
  <2>5. Threshold * restarts \in Nat /\ Cardinality(Replica) * Threshold \in Nat
    BY <2>1
  <2> QED
    BY <2>1, <2>2, <2>3, <2>4, <2>5
<1> QED
  BY <1>1, <1>2, NextRemembers, OwnTypesAlways, PTL DEF SpecialistSpec
=============================================================================

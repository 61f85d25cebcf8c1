------------------------------- MODULE Incidents -------------------------------
(***************************************************************************)
(* What comes before and after an investigation.  An alert from Alert-     *)
(* manager is looked up, marked and investigated (alert_handler.py); every *)
(* investigation searches the knowledge base (core/kb/rag.py); a user's    *)
(* one is distilled into it afterwards, a task nobody waits for            *)
(* (distillation.py), within a monthly budget (core/kb/budget.py), and a   *)
(* reviewer rules on what is not approved at once (server.py).             *)
(*                                                                         *)
(* All alerts have one fingerprint.  A handler and a distillation are      *)
(* slots that serve one alert or one result after the other.  Distillation *)
(* is modelled for the results that are not of low confidence;             *)
(* run_investigation yields none of these at present, so that distill_rca  *)
(* returns at its first test (ThreeSignalsAreHigh of Investigation).       *)
(*                                                                         *)
(* Confidences are in hundredths.  The budget is counted in distillations, *)
(* what record_cost adds: one that finds nothing has paid for less.        *)
(***************************************************************************)
EXTENDS Naturals, FiniteSets

CONSTANTS
  Replica,
  Handler,       \* webhook calls handling an alert
  Task,          \* distillations
  Item,          \* ids of items of the knowledge base
  Home,          \* the replica of each of them
  Delta,         \* what the extractor and the enricher may answer
  Cap,           \* MONTHLY_BUDGET_USD, in distillations
  MaxBill,       \* bound: distillations of a month
  StoresFail,    \* whether Redis and PostgreSQL may fail
  None

\* KbItemType.  To any other type decide_status applies 0.85, but the table refuses its row.
Type == {"troubleshooting", "pattern", "infrastructure", "decision"}

Row == [type : Type, confidence : Nat,
        status : {"active", "pending_review", "rejected"}, embedded : BOOLEAN]

ASSUME IncidentsAssumption ==
  /\ IsFiniteSet(Replica) /\ IsFiniteSet(Task)
  /\ Handler \cap Task = {} /\ Home \in [Handler \cup Task -> Replica]
  /\ Delta \subseteq [type : Type, confidence : Nat]
  /\ Cap \in Nat \ {0} /\ MaxBill \in Nat
  /\ StoresFail \in BOOLEAN /\ None \notin Nat \cup Row

VARIABLES
  handler,    \* where an alert's handling is
  cases,      \* the similar cases its investigation was given
  marked,     \* whether alert:fp:<fingerprint> is in Redis
  started,    \* ghost: investigations started since the mark last expired
  task,       \* where a distillation is
  seen,       \* the counter a distillation has read and not yet written back
  counter,    \* kb:budget:<month> in Redis, in distillations; 0 when absent
  kb,         \* the rows of kb_items
  bill,       \* ghost: distillations that came to be charged in the month
  paid,       \* ghost: distillations that have called the model in the month
  unrecorded, \* ghost: those of them that ended without a charge
  approved,   \* ghost: items a person has approved
  disturbed   \* ghost: whether a failure has touched the mark; whether a failure or a lost
              \* update, or a counter carried over, has touched this month's counter

alertVars == <<handler, cases, marked, started>>
ghostVars == <<bill, paid, unrecorded>>
taskVars == <<task, seen, counter, ghostVars>>
kbVars == <<kb, approved>>
vars == <<alertVars, taskVars, kbVars, disturbed>>

TypeOK ==
  /\ handler \in [Handler -> {"idle", "marking", "investigating", "concluding"}]
  /\ cases \in [Handler -> SUBSET Item]
  /\ marked \in BOOLEAN
  /\ started \in Nat
  /\ task \in [Task -> {"idle", "distilling", "storing", "charging"}]
  /\ seen \in [Task -> Nat \cup {None}]
  /\ counter \in Nat /\ bill \in Nat /\ paid \in Nat /\ unrecorded \in Nat
  /\ kb \in [Item -> Row \cup {None}]
  /\ approved \subseteq Item
  /\ disturbed \subseteq {"mark", "counter", "carried"}

Init ==
  /\ handler = [h \in Handler |-> "idle"]
  /\ cases = [h \in Handler |-> {}]
  /\ marked = FALSE
  /\ started = 0
  /\ task = [t \in Task |-> "idle"]
  /\ seen = [t \in Task |-> None]
  /\ counter = 0
  /\ kb = [k \in Item |-> None]
  /\ bill = 0 /\ paid = 0 /\ unrecorded = 0
  /\ approved = {}
  /\ disturbed = {}

HandlerAt(h, s) == handler' = [handler EXCEPT ![h] = s]
Disturb(what) == disturbed' = disturbed \cup {what}
TaskAt(t, s) == task' = [task EXCEPT ![t] = s]

\* A client whose calls are awaited.
MayRunAwaiting(x) == x \in Handler \cup Task

\* The Redis client blocks: between its GET and its SET nobody else of the replica runs.
MayRun(x) ==
  /\ \A h \in Handler \ {x} : Home[h] = Home[x] => handler[h] # "marking"
  /\ \A t \in Task \ {x} : Home[t] = Home[x] => task[t] # "charging"

-----------------------------------------------------------------------------
(* Alerts *)

\* is_duplicate, the GET.  An error of it counts as a miss.
LookUp(h) ==
  /\ handler[h] = "idle"
  /\ \/ ~marked /\ HandlerAt(h, "marking") /\ UNCHANGED disturbed
     \/ marked /\ UNCHANGED <<handler, disturbed>>
     \/ StoresFail /\ HandlerAt(h, "marking") /\ Disturb("mark")
  /\ UNCHANGED <<cases, marked, started, taskVars, kbVars>>

\* is_duplicate, the SET, an error of which is swallowed; the investigation starts.
\* The count stops at the first that is one too many.
Mark(h) ==
  /\ handler[h] = "marking"
  /\ \/ marked' = TRUE /\ UNCHANGED disturbed
     \/ StoresFail /\ Disturb("mark") /\ UNCHANGED marked
  /\ started' = IF started > Cardinality(Replica) THEN started ELSE started + 1
  /\ HandlerAt(h, "investigating")
  /\ UNCHANGED <<cases, taskVars, kbVars>>

\* A search over all rows that have an embedding.
SimilarOfAnyStatus == {k \in Item : kb[k] # None /\ kb[k].embedded}

\* search_similar: which rows are near enough is the embedding's business.
Similar == {k \in Item : kb[k] # None /\ kb[k].status = "active" /\ kb[k].embedded}

\* The evidence is collected; inject_similar_cases finds cases, or fails and finds none.
Synthesize(h) ==
  /\ handler[h] = "investigating"
  /\ \E found \in SUBSET Similar : cases' = [cases EXCEPT ![h] = found]
  /\ HandlerAt(h, "concluding")
  /\ UNCHANGED <<marked, started, taskVars, kbVars, disturbed>>

\* The result is posted, or the investigation has failed; the mark stays.
Conclude(h) ==
  /\ handler[h] \in {"investigating", "concluding"}
  /\ HandlerAt(h, "idle")
  /\ cases' = [cases EXCEPT ![h] = {}]
  /\ UNCHANGED <<marked, started, taskVars, kbVars, disturbed>>

\* DEDUP_TTL_SECONDS have passed since the SET.
Expire ==
  /\ marked
  /\ marked' = FALSE
  /\ started' = 0
  /\ UNCHANGED <<handler, cases, taskVars, kbVars, disturbed>>

-----------------------------------------------------------------------------
(* Distillation *)

\* A check that looks only at what has been spent.
BeginUntilSpent(t) ==
  /\ task[t] = "idle" /\ paid < MaxBill
  /\ \/ counter <= Cap /\ UNCHANGED disturbed
     \/ StoresFail /\ Disturb("counter")
  /\ TaskAt(t, "distilling") /\ paid' = paid + 1
  /\ UNCHANGED <<alertVars, seen, counter, bill, unrecorded, kbVars>>

\* check_budget, a failed read of which allows; the extractor's call follows at once.
Begin(t) ==
  /\ task[t] = "idle" /\ paid < MaxBill
  /\ \/ counter + 1 <= Cap /\ UNCHANGED disturbed
     \/ StoresFail /\ Disturb("counter")
  /\ TaskAt(t, "distilling") /\ paid' = paid + 1
  /\ UNCHANGED <<alertVars, seen, counter, bill, unrecorded, kbVars>>

\* A pipeline that records its cost however it ends.
NothingToKeepCharged(t) ==
  /\ task[t] = "distilling"
  /\ TaskAt(t, "idle")
  /\ counter' = counter + 1
  /\ unrecorded' = unrecorded + 1
  /\ UNCHANGED <<alertVars, seen, bill, paid, kbVars, disturbed>>

\* The extractor finds nothing, or fails: its call is paid, no cost is recorded.
NothingToKeep(t) ==
  /\ task[t] = "distilling"
  /\ TaskAt(t, "idle")
  /\ unrecorded' = unrecorded + 1
  /\ UNCHANGED <<alertVars, seen, counter, bill, paid, kbVars, disturbed>>

\* The drafts are refined, or taken as they are.
Refine(t) ==
  /\ task[t] = "distilling"
  /\ TaskAt(t, "storing")
  /\ UNCHANGED <<alertVars, seen, counter, ghostVars, kbVars, disturbed>>

\* "Never", for a decision, is a threshold above every confidence the prompts ask for.
THRESHOLDS == [troubleshooting |-> 85, pattern |-> 90, infrastructure |-> 80, decision |-> 101]

\* One threshold for every type.
decide_statusByDefault(d) ==
  CASE d.confidence < 50  -> "rejected"
    [] d.confidence >= 85 -> "active"
    [] OTHER              -> "pending_review"

decide_status(d) ==
  CASE d.confidence < 50                  -> "rejected"
    [] d.confidence >= THRESHOLDS[d.type] -> "active"
    [] OTHER                              -> "pending_review"

\* A delta that is not rejected is embedded, or could not be, and is stored.
Insert(t) ==
  /\ task[t] = "storing"
  /\ \E k \in Item, d \in Delta, e \in BOOLEAN :
       /\ decide_status(d) # "rejected"
       /\ kb[k] = None
       /\ kb' = [kb EXCEPT ![k] = [type |-> d.type, confidence |-> d.confidence,
                                    status |-> decide_status(d), embedded |-> e]]
  /\ UNCHANGED <<alertVars, taskVars, approved, disturbed>>

\* The deltas are done, the rejected and the failed ones too.  record_cost reads the
\* counter; a failed read is a 0.
ReadCounter(t) ==
  /\ task[t] = "storing"
  /\ TaskAt(t, "charging")
  /\ \/ seen' = [seen EXCEPT ![t] = counter] /\ UNCHANGED disturbed
     \/ StoresFail /\ seen' = [seen EXCEPT ![t] = 0] /\ Disturb("counter")
  /\ UNCHANGED <<alertVars, counter, ghostVars, kbVars>>

Charged(t) ==
  /\ TaskAt(t, "idle")
  /\ seen' = [seen EXCEPT ![t] = None]
  /\ bill' = bill + 1
  /\ UNCHANGED <<alertVars, paid, unrecorded, kbVars>>

\* record_cost writes what it read plus its cost, over whatever is there.
WriteCounter(t) ==
  /\ task[t] = "charging"
  /\ \/ counter' = seen[t] + 1 /\ IF counter = seen[t] THEN UNCHANGED disturbed ELSE Disturb("counter")
     \/ StoresFail /\ Disturb("counter") /\ UNCHANGED counter
  /\ Charged(t)

\* Distillations that have called the model and may yet be charged.
UnderWay == {t \in Task : task[t] # "idle"}

\* The key names the month, and record_cost that of its own time: what is under way is
\* the new month's.  A counter read just before is written under the new key; bound:
\* nothing follows such a month.
NewMonth ==
  /\ "carried" \notin disturbed
  /\ counter' = 0 /\ bill' = 0 /\ unrecorded' = 0 /\ paid' = Cardinality(UnderWay)
  /\ disturbed' = (disturbed \ {"counter"}) \cup
       (IF \E t \in Task : task[t] = "charging" THEN {"counter", "carried"} ELSE {})
  /\ UNCHANGED <<alertVars, task, seen, kbVars>>

-----------------------------------------------------------------------------
(* Reviews: update_status, whatever the item's status is *)

Review(k, s) ==
  /\ kb[k] # None
  /\ kb' = [kb EXCEPT ![k].status = s]
  /\ approved' = IF s = "active" THEN approved \cup {k} ELSE approved
  /\ UNCHANGED <<alertVars, taskVars, disturbed>>

-----------------------------------------------------------------------------
\* A replica dies with its handlers and the distillations nobody waits for.
Crash(r) ==
  /\ handler' = [h \in Handler |-> IF Home[h] = r THEN "idle" ELSE handler[h]]
  /\ cases' = [h \in Handler |-> IF Home[h] = r THEN {} ELSE cases[h]]
  /\ task' = [t \in Task |-> IF Home[t] = r THEN "idle" ELSE task[t]]
  /\ seen' = [t \in Task |-> IF Home[t] = r THEN None ELSE seen[t]]
  /\ unrecorded' = unrecorded + Cardinality({t \in UnderWay : Home[t] = r})
  /\ UNCHANGED <<marked, started, counter, bill, paid, kbVars, disturbed>>

Alert(h) == MayRun(h) /\ (LookUp(h) \/ Mark(h) \/ Synthesize(h) \/ Conclude(h))
Distill(t) ==
  MayRun(t) /\ (\/ Begin(t) \/ NothingToKeep(t) \/ Refine(t) \/ Insert(t)
                \/ ReadCounter(t) \/ WriteCounter(t))

Next ==
  \/ \E h \in Handler : Alert(h)
  \/ \E t \in Task : Distill(t)
  \/ \E k \in Item, s \in {"active", "rejected"} : Review(k, s)
  \/ \E r \in Replica : Crash(r)
  \/ Expire
  \/ NewMonth

Spec == Init /\ [][Next]_vars

-----------------------------------------------------------------------------
(* While the mark of an alert lives, each replica investigates it at most once,      *)
(* restarts included: the look-up and the mark are two calls, but a replica blocks   *)
(* in between.  This is all the code keeps of what InvestigatedOncePerWindow asks.   *)
InvestigatedOncePerReplica == "mark" \notin disturbed => started <= Cardinality(Replica)

(* "Duplicate alerts within the window are skipped" (docs/site/integrations/         *)
(* alerting.md, line 113): while the mark of an alert lives, and Redis has not       *)
(* failed, it is investigated once.  Two replicas that both look the alert up before *)
(* either marks it both investigate.                                                 *)
InvestigatedOncePerWindow == "mark" \notin disturbed => started <= 1

(* Without a failure or a lost update, the distillations a month pays for exceed the *)
(* budget by at most those that were checked before the others were charged and      *)
(* those whose extraction, paid too, was never recorded.                             *)
MonthlyOverspend ==
  "counter" \notin disturbed => paid <= Cap + (Cardinality(Task) - 1) + unrecorded

(* Whatever is lost, the counter of a month never says more than the distillations   *)
(* completed in it, unless the month turned inside record_cost: the budget stops     *)
(* none too early.                                                                   *)
NeverOvercharged == "carried" \notin disturbed => counter <= bill

\* docs/KNOWLEDGE-BASE.md, lines 39-44: from which confidence on which types of items
\* need no person's approval.
Documented == [troubleshooting |-> 85, pattern |-> 90, infrastructure |-> 80]

Vouched(k) ==
  \/ k \in approved
  \/ kb[k].type \in DOMAIN Documented /\ kb[k].confidence >= Documented[kb[k].type]

(* While the model answers with confidences of at most 1, as its prompt asks, an     *)
(* investigation is given only cases that a person has approved, at least once, or   *)
(* that are no decisions and reach the documented confidence of their type, however  *)
(* reviews, insertions and searches interleave.                                      *)
CasesVouched == \A h \in Handler : \A k \in cases[h] : Vouched(k)
=============================================================================

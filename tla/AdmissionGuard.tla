-------------------------- MODULE AdmissionGuard ---------------------------
(***************************************************************************)
(* The admission guards of src/core/rate_limiter.py, in the order          *)
(* _check_admission of gateway/main.py runs them: the rate window of one   *)
(* user, then the global daily budget.                                     *)
(*                                                                         *)
(* A guard reads the time (time.time(), the UTC date) before it awaits     *)
(* Redis; the command takes effect up to Delay later, so commands of       *)
(* several replicas take effect out of the order of their timestamps.      *)
(* Replicas' clocks agree.  No two requests read the same float from       *)
(* time.time(): the tick here is coarser, so a request stands for its own  *)
(* member of the sorted set.                                               *)
(***************************************************************************)
EXTENDS Integers, FiniteSets

CONSTANTS Attempt,   \* requests of the user, one call of _check_admission each
          Rate,      \* rate_per_minute
          Window,    \* the 60 s of the window
          Delay,     \* bound: between reading the time and the effect in Redis
          Day,       \* length of a UTC day, which is also the budget key's TTL
          Cost,      \* estimate_cost of a request
          Cap,       \* daily_budget_usd
          MaxClock,  \* bound of the clock
          RedisMayRaise

ASSUME GuardAssumption ==
  /\ IsFiniteSet(Attempt)
  /\ Rate \in Nat /\ Window \in Nat \ {0} /\ Delay \in 0..(Window - 1)
  /\ Day \in Nat /\ Day > Delay
  /\ Cost \in Nat /\ Cap \in Nat /\ MaxClock \in Nat
  /\ RedisMayRaise \in BOOLEAN

VARIABLES
  clock,     \* the time
  progress,  \* where the call is, or its verdict
  stamp,     \* "now" of check_rate, then of check_budget
  rated,     \* the stamp the request had in check_rate
  entries,   \* members of rate:user:<user>
  lastAdd,   \* when the key's 60 s expiry was last renewed
  reserved,  \* budget:global:<day>, per day
  renewed,   \* when that key's TTL was last renewed
  granted,   \* ghost: what a day's key granted before that day's midnight
  unchecked  \* ghost: requests the rate guard let pass because Redis failed

guardVars ==
  <<clock, progress, stamp, rated, entries, lastAdd, reserved, renewed, granted, unchecked>>

\* The rate stamp of a request without an entry: before any window.
Never == 0 - Window

Days == 0..(MaxClock \div Day)
DayOf(t) == t \div Day

\* allowed is a rate verdict: the budget comes next.
Verdict == {"denied_rate", "denied_budget", "admitted"}
Decided == {"allowed", "budgeting"} \cup Verdict

GuardTypeOK ==
  /\ clock \in 0..MaxClock
  /\ progress \in [Attempt -> Decided \cup {"new", "rating"}]
  /\ stamp \in [Attempt -> 0..MaxClock]
  /\ rated \in [Attempt -> {Never} \cup 0..MaxClock]
  /\ entries \in SUBSET Attempt
  /\ lastAdd \in 0..MaxClock
  /\ reserved \in [Days -> 0..Cap]
  /\ renewed \in [Days -> 0..MaxClock]
  /\ granted \in [Days -> Nat]
  /\ unchecked \in SUBSET Attempt

GuardInit ==
  /\ clock = 0
  /\ progress = [q \in Attempt |-> "new"]
  /\ stamp = [q \in Attempt |-> 0]
  /\ rated = [q \in Attempt |-> Never]
  /\ entries = {}
  /\ lastAdd = 0
  /\ reserved = [d \in Days |-> 0]
  /\ renewed = [d \in Days |-> 0]
  /\ granted = [d \in Days |-> 0]
  /\ unchecked = {}

rateVars   == <<rated, entries, lastAdd, unchecked>>
budgetVars == <<reserved, renewed, granted>>

Proceed(q, l) == progress' = [progress EXCEPT ![q] = l]

\* A guard reads the time and sends its command.
ReadTime(q) ==
  /\ \/ progress[q] = "new" /\ Proceed(q, "rating")
     \/ progress[q] = "allowed" /\ Proceed(q, "budgeting")
  /\ stamp' = [stamp EXCEPT ![q] = clock]
  /\ UNCHANGED <<clock, rateVars, budgetVars>>

-----------------------------------------------------------------------------
(* The rate window *)

\* ZREMRANGEBYSCORE key 0 now-60.
LiveAt(now) == {e \in entries : rated[e] > now - Window}

\* One attempt too many.
WithinRateOffByOne(n) == n <= Rate

\* The count before the request's own entry.
WithinRate(n) == n < Rate

\* The transaction: prune, count, add, renew.  The entry is added whatever the
\* verdict.
RateTransaction(q) ==
  /\ entries' = LiveAt(stamp[q]) \cup {q}
  /\ rated' = [rated EXCEPT ![q] = stamp[q]]
  /\ lastAdd' = clock

CheckRate(q) ==
  /\ progress[q] = "rating"
  /\ RateTransaction(q)
  /\ Proceed(q, IF WithinRate(Cardinality(LiveAt(stamp[q]))) THEN "allowed" ELSE "denied_rate")
  /\ UNCHANGED <<clock, stamp, unchecked, budgetVars>>

\* Redis drops the user's key 60 s after its last renewal.
RateKeyExpires ==
  /\ entries # {}
  /\ clock >= lastAdd + Window
  /\ entries' = {}
  /\ UNCHANGED <<clock, progress, stamp, rated, lastAdd, unchecked, budgetVars>>

-----------------------------------------------------------------------------
(* The daily budget *)

\* The script: reserve the estimate if it fits.
Fits(d) == reserved[d] + Cost <= Cap

Reserve(d) ==
  /\ reserved' = [reserved EXCEPT ![d] = @ + Cost]
  /\ granted' = [granted EXCEPT ![d] = IF DayOf(clock) = d THEN @ + Cost ELSE @]
  /\ renewed' = [renewed EXCEPT ![d] = clock]

CheckBudget(q) ==
  /\ progress[q] = "budgeting"
  /\ LET d == DayOf(stamp[q])
     IN  \/ Fits(d) /\ Reserve(d) /\ Proceed(q, "admitted")
         \/ ~Fits(d) /\ Proceed(q, "denied_budget") /\ UNCHANGED budgetVars
  /\ UNCHANGED <<clock, stamp, rateVars>>

\* An expiry as short as the rate window's.
BudgetKeyExpiresEarly ==
  \E d \in Days :
    /\ reserved[d] > 0
    /\ clock >= renewed[d] + Window
    /\ reserved' = [reserved EXCEPT ![d] = 0]
    /\ UNCHANGED <<clock, progress, stamp, rateVars, renewed, granted>>

\* Redis drops a day's key 86400 s after its last renewal.
BudgetKeyExpires ==
  \E d \in Days :
    /\ reserved[d] > 0
    /\ clock >= renewed[d] + Day
    /\ reserved' = [reserved EXCEPT ![d] = 0]
    /\ UNCHANGED <<clock, progress, stamp, rateVars, renewed, granted>>

-----------------------------------------------------------------------------
\* Both guards fail open; the command may have taken effect all the same.
FailsOpen(q) ==
  /\ RedisMayRaise
  /\ \/ /\ progress[q] = "rating"
        /\ Proceed(q, "allowed")
        /\ RateTransaction(q) \/ UNCHANGED <<rated, entries, lastAdd>>
        /\ unchecked' = unchecked \cup {q}
        /\ UNCHANGED budgetVars
     \/ /\ progress[q] = "budgeting"
        /\ Proceed(q, "admitted")
        /\ LET d == DayOf(stamp[q])
           IN  (Fits(d) /\ Reserve(d)) \/ UNCHANGED budgetVars
        /\ UNCHANGED rateVars
  /\ UNCHANGED <<clock, stamp>>

\* Time passes while no command is older than Delay.
Tick ==
  /\ clock < MaxClock
  /\ \A q \in Attempt : progress[q] \in {"rating", "budgeting"} => clock < stamp[q] + Delay
  /\ clock' = clock + 1
  /\ UNCHANGED <<progress, stamp, rateVars, budgetVars>>

GuardNext ==
  \/ Tick \/ RateKeyExpires \/ BudgetKeyExpires
  \/ \E q \in Attempt : ReadTime(q) \/ CheckRate(q) \/ CheckBudget(q) \/ FailsOpen(q)

GuardSpec == GuardInit /\ [][GuardNext]_guardVars
-----------------------------------------------------------------------------
(* Properties *)

\* Requests the rate guard let pass after counting them.
PassedRate == {q \in Attempt \ unchecked : progress[q] \in Decided \ {"denied_rate"}}

\* The requests of S stamped in the given stretch of time.
Stamped(S, after, upto) == {q \in S : after < rated[q] /\ rated[q] <= upto}

\* The window holds although commands overtake one another between replicas: no
\* stretch of 60 s less the longest delay sees more than Rate requests pass the
\* count (rate_limiter.py:79-95), whatever passes besides when Redis fails.  The
\* full 60 s are not promised: a late command counts after a later one pruned.
RateHeld ==
  \A q \in PassedRate :
    Cardinality(Stamped(PassedRate, rated[q] - (Window - Delay), rated[q])) <= Rate

\* Up to its midnight a day's grants never exceed the cap, although the key that
\* counts them expires and yesterday's commands still arrive
\* (rate_limiter.py:97-129).  A command that arrives after its day's midnight can
\* find the key gone, if nothing renewed it for the whole day.
BudgetHeld == \A d \in Days : granted[d] <= Cap
=============================================================================

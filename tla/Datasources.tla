----------------------------- MODULE Datasources -----------------------------
(***************************************************************************)
(* The datasource adapters of one agent, src/core/adapters.py, and the two *)
(* caches in them.  What collect() gathers is kept in Redis, shared by all *)
(* replicas; the catalogue of an MCP server and the map from the names the *)
(* model sees to the server's own are attributes of an adapter object, one *)
(* per replica, that every request of the replica shares.                  *)
(*                                                                         *)
(* A listing and a collection await their source between the look at the   *)
(* cache and the store, and store whatever they got: an error text, or no  *)
(* tools at all.  All requests ask the same question, so that they meet in *)
(* one key of the cache.  A member of Request is a slot that serves one    *)
(* request after the other.                                                *)
(***************************************************************************)
EXTENDS Integers, FiniteSets, Sequences

CONSTANTS
  Replica, Request,
  Name,          \* names of tools, on either side
  Under,         \* a name with every "-" replaced by "_"
  Hyphen,        \* a name with every "_" replaced by "-"
  Allowed,       \* the allowlist of agent.yaml (tools)
  Listing,       \* what the server may answer to list_tools
  Ttl,           \* cache_ttl, in ticks; 0 disables both caches
  Delay,         \* bound: ticks between a source's answer and its storing
  Horizon,       \* bound: the last tick
  RedisMayFail,  \* whether a Redis command may raise
  Down, None, Refused

ASSUME DatasourcesAssumption ==
  /\ Allowed \subseteq Name
  /\ Under \in [Name -> Name] /\ Hyphen \in [Name -> Name]
  /\ \A n \in Name : Under[Under[n]] = Under[n] /\ Under[Hyphen[n]] = Under[n]
  /\ \A l \in Listing : /\ l \in Seq(Name)
                        /\ \A i, j \in 1..Len(l) : l[i] = l[j] => i = j
  /\ {Ttl, Delay, Horizon} \subseteq Nat
  /\ RedisMayFail \in BOOLEAN
  /\ Down \notin Listing /\ {None, Refused} \cap Name = {}

VARIABLES
  now,       \* time.time(), in ticks
  home,      \* the replica a request runs on
  exposed,   \* what the server lists at present, or Down
  row,       \* the Redis key of the collected text: since when it is true, until when kept
  specs,     \* _cached_tool_specs with _specs_cached_at; asOf is a ghost
  nameMap,   \* _name_map
  pc,        \* where a request is
  asked,     \* when the source it awaits answered
  heard,     \* the catalogue built in a session that is still closing
  offer      \* the tools its loop was given

vars == <<now, home, exposed, row, specs, nameMap, pc, asked, heard, offer>>

-----------------------------------------------------------------------------
(* Catalogues: from the names the model is shown to the server's names *)

Empty == [c \in {} |-> None]

\* The disambiguator register() appends: how many tools with the same underscore
\* form come before; "a_b" is <<"a_b", 0>> and "a_b_1" is <<"a_b", 1>>.
Rank(l, i) ==
  Cardinality({j \in 1..(i - 1) : l[j] \in Allowed /\ Under[l[j]] = Under[l[i]]})

ConverseName(l, i) == <<Under[l[i]], Rank(l, i)>>

\* _build_specs_from_session: the allowlisted tools in the order of the listing.
Catalogue(l) ==
  LET kept == {i \in 1..Len(l) : l[i] \in Allowed}
  IN  [c \in {ConverseName(l, i) : i \in kept} |->
         l[CHOOSE i \in kept : ConverseName(l, i) = c]]

\* A call that skips the allowlist for a name the map does not know.
ResolveTrusting(m, c) ==
  IF m # None /\ c \in DOMAIN m THEN m[c] ELSE c[1]

\* _resolve_server_name and the allowlist check of call_tool: the map, then the
\* name as it is, then its hyphen variant; no allowlisted name has a suffix.
Resolve(m, c) ==
  IF m # None /\ c \in DOMAIN m THEN m[c]
  ELSE IF c[2] = 0 /\ c[1] \in Allowed THEN c[1]
  ELSE IF c[2] = 0 /\ Hyphen[c[1]] \in Allowed THEN Hyphen[c[1]]
  ELSE Refused

-----------------------------------------------------------------------------
Converse == Name \X Nat
IsCatalogue(m) == DOMAIN m \subseteq Converse /\ \A c \in DOMAIN m : m[c] \in Allowed

Loc == {"idle", "collecting", "collected", "ready", "connecting", "closing", "running"}

TypeOK ==
  /\ now \in Nat
  /\ home \in [Request -> Replica]
  /\ exposed \in Listing \cup {Down}
  /\ row # None => row \in [asOf : Nat, till : Nat]
  /\ \A r \in Replica :
       /\ specs[r] # None => /\ IsCatalogue(specs[r].tools)
                             /\ specs[r].at \in Nat /\ specs[r].asOf \in Nat
       /\ nameMap[r] # None => IsCatalogue(nameMap[r])
  /\ pc \in [Request -> Loc]
  /\ asked \in [Request -> Nat]
  /\ \A q \in Request : IsCatalogue(heard[q]) /\ IsCatalogue(offer[q])

Init ==
  /\ now = 0
  /\ home \in [Request -> Replica]
  /\ exposed \in Listing
  /\ row = None
  /\ specs = [r \in Replica |-> None]
  /\ nameMap = [r \in Replica |-> None]
  /\ pc = [q \in Request |-> "idle"]
  /\ asked = [q \in Request |-> 0]
  /\ heard = [q \in Request |-> Empty]
  /\ offer = [q \in Request |-> Empty]

Goto(q, l) == pc' = [pc EXCEPT ![q] = l]
catalogue == <<specs, nameMap>>
loop == <<heard, offer>>

-----------------------------------------------------------------------------
(* collect(): the cache-wrapped collection *)

CacheHolds == row # None

\* A stored text is returned as it is.
CollectHit(q) ==
  /\ pc[q] = "idle"
  /\ Ttl > 0 /\ CacheHolds
  /\ Goto(q, "ready")
  /\ UNCHANGED <<now, home, exposed, row, catalogue, asked, loop>>

\* Caching is off, the key is absent, or the read raised and was swallowed.
CollectMiss(q) ==
  /\ pc[q] = "idle"
  /\ Ttl = 0 \/ ~CacheHolds \/ RedisMayFail
  /\ Goto(q, "collecting")
  /\ UNCHANGED <<now, home, exposed, row, catalogue, asked, loop>>

\* _collect() of every adapter type ends in a text, an error in one too.
SourceAnswers(q) ==
  /\ pc[q] = "collecting"
  /\ asked' = [asked EXCEPT ![q] = now]
  /\ Goto(q, "collected")
  /\ UNCHANGED <<now, home, exposed, row, catalogue, loop>>

\* The text goes on, whether it was stored or not.
Collected(q) ==
  /\ asked' = [asked EXCEPT ![q] = 0]
  /\ Goto(q, "ready")
  /\ UNCHANGED <<now, home, exposed, catalogue, loop>>

\* A store without an expiry.
CollectStoreForGood(q) ==
  /\ pc[q] = "collected"
  /\ \/ Ttl > 0 /\ row' = [asOf |-> asked[q], till |-> Horizon + 1]
     \/ (Ttl = 0 \/ RedisMayFail) /\ UNCHANGED row
  /\ Collected(q)

\* SETEX overwrites whatever is there, with its own expiry; it may raise.
CollectStore(q) ==
  /\ pc[q] = "collected"
  /\ \/ Ttl > 0 /\ row' = [asOf |-> asked[q], till |-> now + Ttl]
     \/ (Ttl = 0 \/ RedisMayFail) /\ UNCHANGED row
  /\ Collected(q)

-----------------------------------------------------------------------------
(* list_tool_specs() *)

\* A catalogue kept as long as it is not empty.
SpecsHoldFilled(r) ==
  specs[r] # None /\ (specs[r].tools # Empty \/ now - specs[r].at < Ttl)

SpecsHold(r) == specs[r] # None /\ Ttl > 0 /\ now - specs[r].at < Ttl

\* The loop of q starts with these tools.
Give(q, tools) == offer' = [offer EXCEPT ![q] = tools] /\ Goto(q, "running")

ListHit(q) ==
  /\ pc[q] = "ready"
  /\ SpecsHold(home[q])
  /\ Give(q, specs[home[q]].tools)
  /\ UNCHANGED <<now, home, exposed, row, catalogue, asked, heard>>

ListMiss(q) ==
  /\ pc[q] = "ready"
  /\ ~SpecsHold(home[q])
  /\ Goto(q, "connecting")
  /\ UNCHANGED <<now, home, exposed, row, catalogue, asked, loop>>

\* list_tools answers; the session is still to be closed.
ListAnswered(q) ==
  /\ pc[q] = "connecting"
  /\ exposed # Down
  /\ heard' = [heard EXCEPT ![q] = Catalogue(exposed)]
  /\ asked' = [asked EXCEPT ![q] = now]
  /\ Goto(q, "closing")
  /\ UNCHANGED <<now, home, exposed, row, catalogue, offer>>

\* The three assignments at the end, with the map m and the tools as of time t.
StoreCatalogue(q, m, tools, t) ==
  /\ nameMap' = [nameMap EXCEPT ![home[q]] = m]
  /\ specs' = [specs EXCEPT ![home[q]] = [tools |-> tools, at |-> now, asOf |-> t]]
  /\ heard' = [heard EXCEPT ![q] = Empty]
  /\ asked' = [asked EXCEPT ![q] = 0]
  /\ Give(q, tools)
  /\ UNCHANGED <<now, home, exposed, row>>

\* The session is closed, or closing it raises: then the specs are dropped and the
\* map is kept.
ListClosed(q) ==
  /\ pc[q] = "closing"
  /\ \E tools \in {heard[q], Empty} : StoreCatalogue(q, heard[q], tools, asked[q])

\* A listing that waits until the server is back.
ListFailsRetrying(q) ==
  /\ pc[q] = "connecting"
  /\ Goto(q, "ready")
  /\ UNCHANGED <<now, home, exposed, row, catalogue, asked, loop>>

\* The server cannot be reached, or raises before it has listed anything.
ListFails(q) ==
  /\ pc[q] = "connecting"
  /\ StoreCatalogue(q, Empty, Empty, now)

-----------------------------------------------------------------------------
\* The loop is over, or its task is cancelled: a CancelledError is no Exception,
\* and nothing is stored.
Finish(q) ==
  /\ pc[q] \in {"ready", "connecting", "closing", "running"}
  /\ Goto(q, "idle")
  /\ asked' = [asked EXCEPT ![q] = 0]
  /\ heard' = [heard EXCEPT ![q] = Empty]
  /\ offer' = [offer EXCEPT ![q] = Empty]
  /\ UNCHANGED <<now, home, exposed, row, catalogue>>

-----------------------------------------------------------------------------
(* The world *)

\* The server is deployed with other tools or in another order, or is gone.
Redeploy ==
  /\ exposed' \in (Listing \cup {Down}) \ {exposed}
  /\ UNCHANGED <<now, home, row, catalogue, pc, asked, loop>>

\* Delay is the time an answer that is stored at all is on its way; no timeout of the
\* code bounds it.  Redis drops what has expired.
Tick ==
  /\ now < Horizon
  /\ \A q \in Request : pc[q] \in {"collected", "closing"} => now < asked[q] + Delay
  /\ now' = now + 1
  /\ row' = IF row # None /\ row.till <= now' THEN None ELSE row
  /\ UNCHANGED <<home, exposed, catalogue, pc, asked, loop>>

\* The process dies with its requests and starts anew; Redis stays.
Restart(r) ==
  /\ specs' = [specs EXCEPT ![r] = None]
  /\ nameMap' = [nameMap EXCEPT ![r] = None]
  /\ pc' = [q \in Request |-> IF home[q] = r THEN "idle" ELSE pc[q]]
  /\ asked' = [q \in Request |-> IF home[q] = r THEN 0 ELSE asked[q]]
  /\ heard' = [q \in Request |-> IF home[q] = r THEN Empty ELSE heard[q]]
  /\ offer' = [q \in Request |-> IF home[q] = r THEN Empty ELSE offer[q]]
  /\ UNCHANGED <<now, home, exposed, row>>

Collect(q) == CollectHit(q) \/ CollectMiss(q) \/ SourceAnswers(q) \/ CollectStore(q)
List(q) == \/ ListHit(q) \/ ListMiss(q) \/ ListAnswered(q)
           \/ ListClosed(q) \/ ListFails(q)
Environment == Redeploy \/ Tick

Next ==
  \/ Environment
  \/ \E r \in Replica : Restart(r)
  \/ \E q \in Request : Collect(q) \/ List(q) \/ Finish(q)

Spec == Init /\ [][Next]_vars

-----------------------------------------------------------------------------
(* No other allowlisted tool has the same underscore form. *)
Distinct(t) == \A u \in Allowed : Under[u] = Under[t] => u = t

(* A name that neither the name itself nor its hyphen variant leads back to. *)
Mixed(t) == t \notin {Under[t], Hyphen[Under[t]]}

(* A loop that calls a tool by the name it was offered gets that tool, although   *)
(* another request of the replica may have replaced the map since; it is refused  *)
(* only when its name mixes hyphens and underscores.  Two tools that differ in    *)
(* nothing else are excepted: those the fallback of _resolve_server_name does     *)
(* confuse.                                                                       *)
OfferedToolCalled ==
  \A q \in Request : \A c \in DOMAIN offer[q] :
    LET t == offer[q][c]
        s == Resolve(nameMap[home[q]], c)
    IN  Distinct(t) => s = t \/ (s = Refused /\ Mixed(t))

(* What the caches may be late by. *)
Staleness == Delay + IF Ttl = 0 THEN 0 ELSE Ttl - 1

(* A catalogue list_tool_specs would serve, the empty one of an outage included,  *)
(* is what the server had at most Ttl and one transfer ago, whichever listings    *)
(* overlapped.                                                                    *)
CatalogueAge ==
  \A r \in Replica : SpecsHold(r) => now - specs[r].asOf <= Staleness

(* The same of a text collect would serve, shared by all replicas: no overlap of  *)
(* slow and fast collections keeps it longer.                                     *)
ContextAge == CacheHolds => now - row.asOf <= Staleness
=============================================================================

# AIgent Squad: a verification project

TLA+ models of the parts of AIgent Squad whose correctness depends on the order
in which things happen: the gateway's worker pool and request handlers, the
Bedrock client with its circuit breaker and semaphore, the agents' tool-calling
loop, the datasource adapters and the pipeline of an agent around it, the
supervisor's orchestration and the history it keeps, the scoring of an
investigation, the alerts that start one and the knowledge base it feeds, the
per-session lock, the admission guards and the session token budget.
TLC checks small instances; TLAPS proves every safety property of the passing
runs for every value of the constants, one of them (an accepted cancellation stays
pending) where Redis answers, and one (no case of an investigation without approval)
where the model answers with confidences of at most 1. Liveness is only model-checked.
Three runs show, by a counterexample, where the code does not do what a sentence of the
repository says of it.

All modules are translated from the Python sources; paths below are relative to
the repository root, line numbers refer to the commit this directory stands
beside.

## 1. The system

```
client --> gateway (N replicas)  --HTTP-->  supervisor (M replicas) --> Bedrock
            auth, rate/budget,               guardrails, routing,       MCP servers
            worker pool, SSE proxy           agents, RCA, history       DynamoDB, Postgres
                  \___________ Redis (flags, windows, locks, counters) ______/
```

| Component | State it keeps | Operations | Interacts with | What is hard |
|---|---|---|---|---|
| Worker pool `src/gateway/worker_pool.py` | semaphore, `_active`, poll tasks; Redis `cancel:<job>`, `job:<job>` | submit, run, cancel | handlers (generator), Redis | check and acquisition in two methods; cancellation at any await; three ways to time out; several replicas |
| Request handlers `src/gateway/main.py`, `supervisor_client.py` | the request's progress, agent-name cache | /query, /v1/chat/completions, cancel | pool, admission, supervisor over HTTP | a check before an await acted on after it; fallback after a failed stream |
| Admission guards `src/core/rate_limiter.py` | Redis sorted set per user, daily counter | check_rate, check_budget | handlers | commands overtaking each other between replicas, key expiry, midnight, fail-open |
| Session lock `src/core/session_lock.py` | Redis `session_lock:<session>` | acquire, release | supervisor endpoints | TTL against slow holders, crashes, fail-open, late release |
| Session token budget `src/core/token_budget.py` | Redis counter, per-replica memory | check_budget, record_usage | supervisor entrypoint, Bedrock threads | concurrent recording, Redis failing half-way, check-then-spend |
| Bedrock client `src/core/bedrock.py` | semaphore, cache-support flag | invoke, converse | breaker, thread pool, guardrail, Bedrock | cancellation while a thread runs, queue of waiters, two kinds of retry |
| Circuit breaker `src/core/circuit_breaker.py` | state, count, last failure | can_execute, record_* | Bedrock client, MCP session pool | concurrent probes, answers that arrive late |
| Agentic loop `src/core/agentic_loop.py`, `agentic_loop_streaming.py`, `truncation.py` | message list, three budgets, a breaker per MCP server | run | Bedrock client, MCP adapters, guardrail | pairing of tool calls and results on every path; budgets |
| Supervisor `src/supervisor/agent.py`, `server.py`, `classifier.py`, `synthesizer.py`, `registry.py` | conversation history | process_request (plain and streaming) | everything below it | fan-out with partial failure, order of history writes |
| Datasource adapters `src/core/adapters.py`, `cache.py`, `tool_schema.py`, `agent_tools.py` | per replica: catalogue cache, name map; in Redis: collected texts | collect, list_tool_specs, call_tool | loop, MCP and HTTP sources, Redis | every request of a replica shares the adapter; a listing awaits between its look at the cache and its store; failures are cached |
| Agents `src/core/generic_agent.py`, `agent_config.py`, `skills.py`, `model_tier.py`, `capability_gate.py` | the request's progress | process_request, process_request_agentic_stream | adapters, loop, safety layers | a stream that breaks off or loses its client at any await |
| Safety layers `guardrail.py`, `input_scanner.py`, `output_filter.py`, `canary.py`, `response_quality.py` | canary escalation counter, per replica | scan, apply, filter | supervisor, agents, Bedrock client | order of layers, what one counts before another refuses |
| OpenAI bridge `src/supervisor/openai_compat.py` | the trace block of one stream | frames of a completion or of step events | agents, client | a stream that ends after any event |
| Investigation `src/supervisor/investigation.py`, `src/core/investigation.py` | evidence of one RCA | collect, correlate, score | agents, knowledge base | partial failure, scoring |
| Alerts `src/supervisor/alert_handler.py` | Redis fingerprints | webhook | investigation, Slack | get-then-set deduplication between replicas, a mark set before the work |
| Knowledge base `src/core/kb/`, `src/supervisor/distillation.py` | Postgres items, monthly counter | distil, review, search | investigation | a budget checked long before it is charged, lost updates, the turn of the month, reviews of any item at any time |
| Store, health | DynamoDB rows; check cache | save/fetch; probe | supervisor | ordering by key; concurrent probes |

The properties that make each modelled component correct are listed with its
module below; `PROJECT.json` lists the hazards line by line.

## 2. Modules

| Module | Models | Composition |
|---|---|---|
| `WorkerPool` | `worker_pool.py`, all of it | several replicas, one Redis |
| `Gateway`, `WorkerPoolProofs` | handlers of `main.py`; the theorems about them and the pool | extends `WorkerPool`; its steps are shown to be steps of the pool |
| `CircuitBreaker` | `circuit_breaker.py` without Redis, as operators on a breaker value | used by `BedrockClient` and `AgenticLoop` |
| `BedrockClient`, `BedrockProofs` | `invoke`, `converse` and their threads | extends `CircuitBreaker` |
| `AgenticLoop`, `AgenticLoopProofs` | `agentic_loop.py`, its streaming twin, `trim_message_history` | several loops, one breaker per server |
| `SessionMutex` | abstract: one request of a session at a time | |
| `SessionLock`, `SessionLockProofs` | `session_lock.py` and its two callers | implements `SessionMutex` |
| `AdmissionGuard` | `rate_limiter.py`, in the order of `_check_admission` | proofs in `BudgetProofs` |
| `TokenBudget`, `BudgetProofs` | `SessionBudgetTracker` and its two callers | `BudgetProofs` covers both kinds of budget |
| `Datasources` | the two caches of `core/adapters.py`, the name map, `_resolve_server_name` | several requests share the adapter of a replica, all replicas share Redis |
| `Specialist`, `SpecialistProofs` | `generic_agent.py`, the scans around an answer and the frames of `openai_compat.py` | extends `Datasources` and is shown to implement it; the loop's budgets and breakers are `AgenticLoop` |
| `Incidents`, `IncidentsProofs` | `alert_handler.py`, `distillation.py`, `core/kb/`, the review endpoints of `server.py` | the investigation between them is `Supervisor` and `Investigation` |
| `Supervisor`, `SupervisorProofs` | `supervisor/agent.py`: both entry functions, and the streaming endpoint that falls back from one to the other | an agent call is its outcome; the loop inside is `AgenticLoop` |
| `Conversation` | the reads of `state_store.py` and `truncate_history_by_tokens` | extends `Supervisor`, over the history it writes; proofs in `SupervisorProofs` |
| `Investigation` | `core/investigation.py` and the conclusion in `supervisor/investigation.py` | the fan-out before it is in `Supervisor`; proofs in `SupervisorProofs` |
| `MC*` | constants and symmetry for TLC | extend the module they instantiate; `MCLimits` and `MCOrchestration` two of them each |

One module of proofs may cover several components, which it then extends together.
That is why `Gateway`, `AdmissionGuard` and `Investigation` name their `Init`,
`Next`, `Spec` and `TypeOK` with a prefix (`Gw`, `Guard`, `Rca`), and why what the
pool calls a job is a request elsewhere and an `Attempt` in `AdmissionGuard`.

### How code becomes actions

Python coroutines interleave only at an `await`; one action is the code a task
runs between two suspensions. In `WorkerPool`, `Submit` is therefore the check
of `submit` together with the first part of `_run` up to its first real
suspension, and `Finish` is the `finally` block up to `_clear_cancel_flag`. A
Redis command takes effect at one instant between being sent and being
answered; where the code catches its failure, the failing action may have taken
effect or not. Bedrock bodies are OS threads: `StartThread`, `Answer`,
`Throttle` and `RejectCache` interleave with the event loop freely.

State and actions per module:

* **WorkerPool.** `pc` is the await the job is suspended at, `item` what the
  inner task of `wait_for` holds, `free` the semaphore, `active` the dictionary,
  `flag` and `status` the Redis keys. `Throw` is the `CancelledError` at each
  await. It relies on two facts of Python 3.11: `wait_for` returns the result of
  an inner task that is already done and drops the cancellation, and an
  exception raised inside an `except` block is not caught by the clauses next to it.
* **Gateway.** `stage` is the handler's progress. The pooled path drives the pool
  with a generator that yields one chunk; the streaming path calls the
  supervisor itself. `PoolRefined` says that every step is a step of the pool or
  leaves it alone.
* **BedrockClient.** `pc` is the coroutine, `thread` its work item, `ahead` the
  waiters it queued behind (the deque of the semaphore), `free` the `_value`.
  `WakeNext` and `Locked` are `asyncio.Semaphore` of Python 3.11, where a woken
  waiter owns its permit before it runs.
* **AgenticLoop.** `pc` is where the loop is suspended, `messages` the Converse
  messages reduced to role, tool-use ids and how often the text was replaced by
  a summary; `uses` and `results` are the turn at work. `AnswerInline` stands
  for every outcome that needs no await (guardrail, unknown tool, capability
  gate, open breaker). The clock has no variable: it is read once per turn, and
  the first reading past the limit ends the loop, so `Exhaust` is always
  possible there. `streak` is a ghost: the calls to a server that failed in a
  row, whatever the breaker was told. The two twins differ in two places only:
  `content_blocks` is bound before the streaming loop starts (`Exhaust`), and
  only the streaming one can be abandoned by its client.
* **SessionLock.** `lock` is the Redis key's token, `Expire` the TTL: with
  `Slow` it can end while its holder works. `bypassed` is a ghost: some request
  has been processed without the key, because Redis failed (fail-open), because
  the key expired under a working holder, or by the streaming endpoint. What the
  lock promises, it promises until then; what it never does (delete another
  request's key) is stated without that condition.
* **AdmissionGuard.** `progress` is where an attempt's call of `_check_admission`
  is, or its verdict. `stamp` is the time read before the command is sent;
  commands take effect up to `Delay` later. `entries` with `rated` is the sorted
  set, `reserved` the daily counters, `lastAdd` and `renewed` the keys' expiries.
* **Supervisor.** `pc` is the await a request is suspended at, `handler` the
  function that serves it, `plan` the agents it is routed to, `calls` how their
  calls stand; `history` is the session's rows in DynamoDB in the order they were
  put, which is the order of their timestamps. `FallBack` is
  `process_request_streaming` returning `None`: the endpoint runs
  `process_request` from the start. `Save` is fail-open, so a request goes on
  without its row (`unsaved`, a ghost). `over` says that the session is over its
  budget; any model call may set it and the key's expiry clears it, which
  `TokenBudget` models in detail. `StreamBegins` tells the first event the
  encoder asks for from a client that is gone before it.
* **Conversation.** `FetchChat`, `FetchAllChats` and `TruncateByTokens` are
  operators on `history`, written with recursive functions: a read changes nothing. A row's key is agent, then
  time, so a session read as a whole comes back agent by agent. A message costs
  a number of tokens that depends on its role.
* **Investigation.** A piece of evidence is reduced to what correlation and
  scoring look at: the pair of agent and signal type, layer, domain, subtype,
  time, trace, lineage, and whether it is an unexplained contradiction. `Unite`,
  `Root` and `Grouped` are the union-find of `count_independent`; `Collect` adds
  a piece, `SynthesizeRca` is `correlate`, `score_confidence` and the lower of their
  two confidences. The parser of the agents' answers sets no layer; the scoring
  functions, and their tests, take evidence with one, so the instance has both
  sorts.
* **Datasources.** `row` is the Redis key of the collected text, `specs` and
  `nameMap` are `_cached_tool_specs` and `_name_map` of the adapter object, one
  per replica. `Collect...` and `List...` are `collect` and `list_tool_specs` cut
  at their awaits; `asked` is when the source answered, so that what is stored
  carries its age (`asOf`, a ghost). A name the model is shown is a pair: the
  underscore form and the disambiguating number `register` appends. `Resolve` is
  what `call_tool` makes of a name with the map as it is at that moment. A
  cancelled listing stores nothing (`Finish`): `CancelledError` is no `Exception`.
* **Specialist.** `stage` and `turn` are where a request is, `frames` what the
  client of a stream has read, `leaks` the `_detection_counts` of the canary guard
  in each replica. `Screened` is the canary, the output filter and the quality
  guard in the order of the code and without an await between them; the streaming
  path has none of them (`Conclude`). `Leave` is a client that goes away,
  `Crash` a replica that dies. A tool call always gives a result, for the loop
  turns every failure into one.
* **Incidents.** `marked` is the fingerprint in Redis, `counter` the monthly
  counter, `kb` the rows of `kb_items`. The Redis client is synchronous, so
  between its GET and its SET no other coroutine of the replica runs (`MayRun`),
  while other replicas do. `Charged` with `ReadCounter` and `WriteCounter` is
  `record_cost`; `NewMonth` is the turn of the month, which changes the key.
  `decide_status` is the validator with its thresholds, on what the model may answer
  (`Delta`: a type and a confidence in hundredths). The ghosts: `approved`, the items
  a person has approved; `paid`, the distillations that have called the model, of which
  `bill` came to be charged and `unrecorded` ended without; `disturbed`, whether a
  failure or a lost update has touched a key. A distillation that finds nothing counts
  as a whole one in `paid`, though it has paid for the extraction only.
* **TokenBudget.** `total` is the shared counter, `memory` the `_usage` of each
  replica, `attached` whether the replica found Redis at startup; `spent` is a
  ghost: what was billed since the key exists. `Crash` is the death of a replica
  between any two steps: between INCRBY and EXPIRE, or while Bedrock works for it,
  whose tokens are then billed and never recorded. Its next life has an empty memory
  and looks for Redis anew. `interrupted`, a ghost, says that this has happened to a
  replica at work or with a loss in its memory, since the key exists.

## 3. Runs

Every property of a passing run is also broken by a mutant of the code it
speaks about (`mutants` in `PROJECT.json`; the mutated operators stand above the
ones they replace).

| Run | Instance | Shows |
|---|---|---|
| `pool` | 2 replicas, 2 jobs, 1 slot each, 1 chunk, Redis may fail | slots, semaphore and `_active` agree; cancellations are attributable; every slot comes back, unless Redis never answers the write of the job's status |
| `gateway` | 2 pooled and 1 streaming request, 1 slot, Redis up | handlers respect the pool although their own check is stale; an accepted cancellation stays pending until it takes effect; every request is answered, unless a Redis call of it never is |
| `bedrock` | 4 calls, 2 permits, 2 threads, threshold 2 | permits accounted and never idle; only faults of the service count towards the breaker |
| `loop` | a streaming loop of 5 turns, of 2 and 1 tool uses in turn, beside a loop of 1 tool use; 1 shared server, threshold 2, window 1 | the conversation stays paired, the verbatim window exact, the overspend within one turn; the breaker opens for a cause; loops end |
| `lock` | 4 requests, one streaming; slow holders, failing Redis, crashes | the lock implements the mutex until it is bypassed; only the holder's release, or expiry, removes a key; dead holders' keys go away |
| `limits` | the admission guards: 3 requests, rate 1 per window 3, delay 1, a day of 4, Redis may fail; beside them the token budget: 2 replicas, 3 requests, 2 at once, 2 calls of up to 2 tokens, budget 3; Redis may fail, replicas may be detached, or die at any moment | the rate holds over Window - Delay; before its midnight a day's grants stay within the cap; where no replica remembers a loss and none died at work the counter is the bill, the overspend is bounded and the counter expires |
| `orchestration` | a streaming and a plain request of one session, 2 agents of which one has tools, a cap of 2, up to 3 named by the classifier; every outcome of every call; pages of 2 rows, windows of 3 tokens; beside them every sequence of up to 4 pieces of evidence of 11 kinds | the history stays paired although a stream may start over; a refusal of any agent wins; what is answered or read is counted once; an agent is shown the most recent of its own messages; every request ends, unless the call of an agent never does; the union-find counts connected components; more evidence lowers the level only for one of four reasons |
| `specialist` | 1 replica, a streaming and a plain request at a time, 5 tool names of which 3 are allowed, a server that is redeployed or down; caches that hold for one tick of three, answers up to one tick late, failing Redis, a restart | an offered tool is the tool that is called; no cache serves what is older than its lifetime and one transfer; the pipeline implements `Datasources`; redacted answers are counted; streams are well formed; every request ends, unless a source it reads never answers |
| `incidents` | 2 replicas, 3 webhooks of one alert, 2 distillations, a budget of 1, 1 item, a certain decision, a delta at its threshold and one below all; failing stores, crashes, a turn of the month | at most one investigation per replica while the mark lives; what the month pays for exceeds the budget by what is in flight and what is never recorded, and is never overcharged; an investigation is given only cases that a person, or the documented confidence of their type, vouches for |

The type invariants are theorems and not part of the runs. `limits` and
`orchestration` each check two components that share no variable: a behaviour of the
instance is one of the first or one of the second (`MCLimits`, `MCOrchestration`), so
that their states add up and do not multiply, and nothing is lost.

The other three runs end in a violation, a disagreement between the code and a sentence
of the repository (quoted under `findings`). None of them needs a failure:

| Run | The repository says | The code does |
|---|---|---|
| `classifier_recent` (`ClassifierSeesRecent`) | history, most recent last | by agent, then by time; the limits cut whole agents |
| `rca_levels` (`ThreeSignalsAreHigh`) | three independent signals: high confidence | the parser sets no layer, so every result has the lowest |
| `alerts_once` (`InvestigatedOncePerWindow`) | duplicate alerts in the window are skipped | two replicas look up before either marks: both investigate |

What the code keeps of the first and the last is the theorem `ClassifierSeesEach` and
`InvestigatedOncePerReplica`. Because of the second nothing reaches the distillation
pipeline at present: `distill_rca` returns at its first test (`distillation.py:20`).
`Incidents` models the pipeline as it is written.

Six more sentences the code does not keep; the properties beside them say how much of
each it does keep:

* "a Redis outage degrades to log-only, never blocks serving", "The local pool never
  depends on Redis" (`worker_pool.py:9-10`, `16-17`): the status write is awaited with
  the slot held, on a client without a socket timeout, so a Redis that is silent, not
  one that refuses, keeps the slot. `SlotReleased` excepts that wait and no other.
* "when a session expires, so does its budget" (`token_budget.py:58-59`): INCRBY
  creates the key and EXPIRE is a second command. A replica that dies in between leaves
  a counter without an expiry. `CounterExpires` excepts the death of a replica at work.
* a failure to record "pins local usage to the maximum, so the NEXT check_budget
  refuses" (`token_budget.py:154-155`): with a Redis client `check_budget` never reads
  the memory that is pinned. `CounterIsBill` uses it as the trace of the loss only.
* "Emit RED metrics on completion OR early close" (`agent.py:420`, `511`): a stream
  closed before its first event is asked for has a generator that never started, whose
  `finally` does not run. `CountedOnce` requires nothing of such a stream (`unread`).
* "Budget cap is a hard stop" (`specs/21-incident-memory-learning/design.md:97`): the
  check comes a pipeline before the charge, and all that are checked before the first
  is charged pass. `MonthlyOverspend` bounds by how much the month ends above the cap.
* "Decision items NEVER auto-approve", "even if confidence > threshold"
  (`specs/21-incident-memory-learning/tasks.md:46`): never is a threshold of 1.01
  (`kb/validator.py:8`) and the model's confidence is not clamped. `CasesVouched` and
  its theorem speak of a model that answers with confidences of at most 1.

Read while modelling and not stated as runs:

* A cancelled Bedrock call gives its permit back while its thread runs on, so
  more calls than "max in-flight Bedrock calls" (`config.py:154`, `bedrock.py:339`)
  can be in flight.
* Two allowlisted tools that differ only in hyphens and underscores can be
  confused after another listing has replaced the map; `OfferedToolCalled`
  excepts them (`Distinct`). A name that mixes both is refused in that case.
* An empty catalogue of a server that was down for a moment is kept for a whole
  `cache_ttl`, as is an error text (`adapters.py:354`); `CatalogueAge` bounds it.
* A failed GET in `record_cost` is swallowed to `None` by `cache.get`, and the
  monthly counter restarts at one cost (`kb/budget.py:32`).
* An alert is marked before it is investigated, so that a failed or crashed
  investigation silences its repeats for the window (`alert_handler.py:61`).
* The streaming path has no canary, output filter or quality guard. An agent
  without tools passes no evidence to the quality guard, so a resource id it
  invents is not looked at.
* `update_status` overwrites any status: an approved item can be rejected, and a
  rejected one approved, in any order (`kb/store.py:107`). `Review` has it so; no
  document says which ruling should win, and no property is about it.
* `wait_for` of Python 3.11 drops a cancellation that meets a chunk already delivered,
  which is then still yielded. The jobs the endpoint can cancel yield one chunk and
  end, so the cancellation comes to nothing only when there was nothing left to stop.
* The daily reservation is not given back when the request is refused afterwards
  (`main.py:164`).
* `init_capability_gate` is called nowhere in production, so nothing is denied by it.
* A server whose tool calls fail at once is never cut off: `McpAdapter.call_tool`
  returns every transport error as a text (`adapters.py:439-440`), so the breaker
  records a success; only the 5 s timeout counts. The design says "open after 3
  consecutive failures" (`specs/37-agentic-tool-calling/design.md:105`). `CallReturns`
  of `AgenticLoop` has it, with the ghost `streak`.
* The streaming endpoint takes no session lock (`server.py:140`), although
  `specs/25-multi-tenant-concurrency/design.md:253` rules out concurrent
  processing of a session's messages; `SessionLock` and `Supervisor` model it so.
* The answers of streams are never saved: the session's history holds their
  questions only (`agent.py:482-514`).
* `fetch_chat` is called after the question has been saved, so an agent's prompt
  shows the question twice (`agent.py:283`, `agent.py:522`).
* `score_confidence` says "Less than 3 independent signals -> LOW" and
  "Unexplained contradiction -> caps at MEDIUM"; the code returns MEDIUM or HIGH
  on track B for the first and LOW for the second.
* `distill_rca` returns before `record_cost` when nothing is extracted, although the
  extraction was paid for (`distillation.py:28`): `unrecorded` in `MonthlyOverspend`.
* `worker_pool.py:65` stores the job timeout and nothing reads it, although the
  class promises an overall backstop.
* A cancel request that reaches another replica than the job's gets 404: the
  pool looks only in its own dictionary (`worker_pool.py:91`).
* Streaming requests and fallbacks run outside the pool, so the HTTP connection
  pool is not bounded by the semaphore; a fallback's second call follows a first
  one that may have been accepted (`gateway/main.py:286`).
* A half-open breaker lets every caller in, against "HALF_OPEN: allow one
  attempt" (`circuit_breaker.py:185`), and a late success closes it from any
  state (`bedrock.py:344`).
* The retry without `cache_control` uses up an attempt (`bedrock.py:248-251`).
* `run_agentic_loop` reads `content_blocks` unassigned if the time is up before
  the first `converse()` (`agentic_loop.py:542`): the state `crashed` of
  `AgenticLoop`. Listing the tools of an MCP server that hangs can take longer
  than the whole duration budget.
* A tool result outside the window is summarised again at every turn, from its
  own summary (`truncation.py:268-291`; `trims` reaches 2 in `loop`).
* "ONE connect+initialize per server per request" (`agentic_loop.py:12`): the
  adapter opens a session per call (`adapters.py:425-435`).
* The lock's TTL of 120 s is not renewed; a holder that takes longer lets the
  next request in (`session_lock.py:85`).
* The rate limiter counts denied attempts as well (`rate_limiter.py:85`).
* `docs/MULTI-TENANCY.md` describes a global rate limit, a budget check per
  Bedrock call, HTTP 402, recording of the actual cost and a Redis-backed
  breaker; the code has none of them in its production wiring. Spec 25 wants a
  second request of a session to wait, the code answers 409.

### Bounds

Two contenders and one resource are enough for every race here, and the larger
instances add one more of each so that a waiter can be woken while another
queues (`bedrock`), an expired holder can meet two successors (`lock`), and two
late commands can meet in one window (`limits`). `MaxChunks` lets a
stream be before, at and after its first chunk. In `loop`, five turns let a
result leave the window and be summarised twice, turns of two uses let one of
them fail and the other not, and the second loop brings a call of its own to the
breaker at any moment of the first; `MaxUses` and `MaxTurnTokens` are bounds of
the instance only, and `MaxUses` is never 0 for the long loop, so that it is the
step budget that stops it. The clock of `limits` runs to
twice the window and past midnight, so that keys expire and are created again.
In `orchestration`, a cap of two agents under three named ones makes the cap cut, and
two requests are enough for either to save, spend or fall back between any two
steps of the other; `MaxMatches` is the one bound. Two rows per page and three
tokens per window make either limit bind on the history two answered requests
leave. Four pieces of evidence are one more than the three
signals that the thresholds speak of, and enough for a chain of derivations to be
joined by a late link; the kinds are chosen so that each rule of the scoring has
evidence that meets it and evidence that does not.
In `specialist`, one replica is enough for two requests to share an adapter, which
is where its races are; the streaming and the plain slot serve one request after
the other. The names are two that the underscore form confuses, one that mixes
hyphens and underscores, and two outside the allowlist; the server lists the three
allowed ones or is down, and every other listing, in any order, is left to the proofs.
`Horizon` lets an entry be stored, expire and be stored again;
`MaxSteps` is one tool per loop. That several replicas add nothing the caches
could confuse, and that any number of tools keeps the stream in order, is proved.
In `incidents`, three webhooks on two replicas are one more than the replicas can
mark; a budget of one distillation and two at work make the overspend bind;
`MaxBill` ends the month's accounts after three: one charged or lost, and two that pass
the check together. The two webhooks of one replica are interchangeable (symmetry).
`MaxCalls`, `MaxTokens` and `Overlap` bound what a session can spend and are
parameters of the bound proved from them (`OverspendBounded`).
Deadlock checking is off: in every module the finite set of requests may all be
done.

### Fairness

Which awaits end by themselves is a question of the clients. The gateway calls the
supervisor and its probe with httpx timeouts; boto3 has timeouts by default; the Redis
of the token budget has a socket timeout of 2 s. The gateway's Redis
(`gateway/main.py:40-44`) and the agents' (`cache.py`) have none, the Kubernetes
calls have no request timeout, and `list_tool_specs` relies on the MCP library. Where
an await of the second sort is on the way, the liveness property excepts waiting
there for ever, and says so.

* `FairSpec` of WorkerPool: an expired timer fires and the event loop runs what
  is scheduled; nothing is assumed of the stream, of Redis or of clients.
  `SlotReleased` excepts a status write that is never answered.
* `GwFairness`: in addition every handler step is taken but those that wait for
  Redis, and `RequestAnswered` excepts a request that waits there (`AtRedis`).
* `FairSpec` of AgenticLoop: every step of a loop is taken, which for the two
  awaits among them, listing and `converse()`, rests on timeouts of the MCP
  client library and of boto3; a call in progress is only assumed to meet the
  5 s timer of `wait_for`, not to be answered.
* `FairSpec` of SessionLock: Redis expires keys, and a request that has its
  answer reaches `__aexit__`. Processing itself may take for ever.
* `FairSpec` of Supervisor: every step of a request is taken but those that end the
  call of an agent, which may collect from a Redis or a Kubernetes that is silent;
  `RequestsEnd` excepts a request that waits for such a call (`Waiting`). The rest is
  DynamoDB and model calls, by boto3, and the end of a stream, which the gateway's
  timeout forces. A client that blocks without a timeout would hold up the event loop
  of the replica with it: for the requests beside it, that it does not is assumed.
* `FairSpecialistSpec`: every step of a request that was taken up is taken but those
  of a collection or a listing that waits for its source; `AnswerEnds` excepts that
  (`AtSource`). Nobody need ask anything, the server need not be up, time need not pass.
  `Tick` keeps answers within `Delay` of being asked for: an assumption of the two ages
  on the network, which no timeout of the code gives.

## 4. Proofs

| Module | Theorem | Rests on |
|---|---|---|
| `WorkerPoolProofs` | `SlotsAlwaysAccounted`, `NeverOverCapacity`, `TypeCorrect` | the invariant `IInv`: types, `SlotsAccounted`, `BoundedConcurrency` |
| | `CancelIsAttributed` | a flag, a signal or a cancelled outcome implies an accepted request |
| | `AcceptedCancelStays` | `Pending`: who holds a slot is watched, and an accepted request is in the key; assumes a Redis that answers |
| | `GatewayImplementsPool`, `GatewayKeepsPoolInvariants`, `GatewayKeepsAcceptedCancel`, `GatewayTypeCorrect` | `GatewayStep`: each step of the gateway is a step of the pool or none |
| `BedrockProofs` | `PermitsAlwaysAccounted`, `NoPermitIdles`, `TypeCorrect` | the semaphore's own argument (lemma `WakeAccounted`) |
| | `BreakerAlwaysMatchesCount`, `OnlyFaultsCount` | the count is compared with the set of calls that ended in an error |
| `SessionLockProofs` | `TypeCorrect`, `ReleaseIsTokenSafe` | no assumption on TTL, Redis or streaming |
| | `WorkerAlwaysHoldsLock`, `LockImplementsMutex` | the ghost `bypassed` in the properties; no assumption on the constants |
| `AgenticLoopProofs` | `TypeCorrect` | `IInv`: types and the shape of the turn at work (`TurnInv`) |
| | `OneTurnOverspent` | `SpendingInv`: length of the conversation against steps, tokens against the last reading |
| | `ConversationStaysPaired` | `RoundsInv`: every finished turn is a pair, on top of the two above |
| | `WindowIsExact` | `WindowInv`: between two requests the window is that of the last one |
| | `BreakersOpenForACause` | `CauseInv`: the ghost count is never behind the breaker's |
| `SupervisorProofs` | `TypeCorrect` | types, and that a request past its routing has a primary agent (`Planned`) |
| | `CountedExactlyOnce` | `CountInv`: the counter is 1 exactly from the step on that counts |
| | `HistoryStaysPaired` | `PairInv`: where a request is tells what of it can be in the history |
| | `RefusalAlwaysWins` | `CallsInv`: nothing goes on to an answer beside a refusal; `UnsavedInv`: what is saved was not refused |
| | `AgentsSeeRecent`, `ClassifierSeesEach` | `PairInv` again (no message is there twice); a prompt is the end of a listing (`Lists`, `Block`, `Truncated`) |
| | `RcaTypeCorrect` | `RcaInv`: types, and that a conclusion is that of the evidence |
| | `DropsHaveCauses` | `ScoreCases`: the level, case by case; `NoCauseNoDrop` |
| | `SignalsComponents` | `Trees`: what the union-find holds after each of its turns |
| `BudgetProofs` | `TypeCorrect`, `CounterCorrect` | a loss leaves its trace in `memory` for good, or dies with it and is `interrupted` (`TraceStays`) |
| | `CounterGoes` | `Unrenewed`: a key without an expiry has a request about to set it; a death that takes such a request with it ends the promise (`IdleCrash` says what the others do) |
| | `OverspendCorrect` | `Room`: what is billed plus what may still be; `Admitted` |
| | `GuardTypeCorrect`, `RateAlwaysHeld` | `Clocks`: a command is at most `Delay` late; `EntriesKept`: no entry leaves the key within the window |
| | `BudgetAlwaysHeld` | `KeyLives`: up to its midnight a day's key counts all that day granted |
| `SpecialistProofs` | `TypeCorrect`, `OfferedCalled` | `Shape` and `Catalogues`: every catalogue, wherever it is kept, leads from a name to an allowed tool of that underscore form |
| | `CatalogueFresh`, `ContextFresh` | `Times`: what is on its way or stored is no older than `Delay` allows |
| | `SpecialistImplements`, `SpecialistCatalogues` | each step of the pipeline is a step of the adapters or none |
| | `PipelineTypeCorrect`, `StreamCorrect` | `Streams`: the shape of what has been sent, by the turn of the loop (`Growing`) |
| | `ProbesLimited` | `Remembered`: every redacted answer is in a count that lives, or was lost with a replica |
| `IncidentsProofs` | `TypeCorrect` | types |
| | `VouchedCases` | active rows and cases at hand are vouched for; assumes confidences of at most 1 (`ApprovedAlone`) |
| | `NotOvercharged` | `Books`: what each distillation at work has read against the counter |
| | `OverspendLimited` | `Spending`: those at work are within the bound already; `Paying`: every one that called the model is charged, lost or at work |
| | `InvestigatedOnce` | `Alone`: one handler of a replica is between its GET and SET; `Investigated`: who has started while the mark lives |

*The pool.* `SlotsAccounted` is inductive only together with the types:
`Submit` needs `HasCapacity`, which counts `_active`, to conclude that the
semaphore is positive, and that is the equality the invariant keeps. The
cardinality lemmas for adding and removing one holder carry each step;
`NeverOverCapacity` follows because the semaphore is never negative. A cancellation
that was accepted is pending because two things hold for a job while it has a slot:
its poll task runs until it has thrown the cancellation, and the key is deleted only
after the slot is given back. Either fails when a Redis command does, so
`AcceptedCancelStays` assumes that none fails; no other theorem of the pool does.
Every handler step leaves the pool's variables alone or is `Submit` or `Reject`, so
the gateway implements the pool and inherits what is proved of it.

*The Bedrock client.* Each step that touches the semaphore is a release, an
immediate acquisition or a wake-up. `WakeAccounted` says once what `WakeNext`
does to "free + holders"; `NoIdlePermit` needs the converse: a release that
finds a waiter wakes one, and a resumed waiter passes a spare permit on.

*The session lock.* Token safety needs only the comparison in the release
script. The refinement needs `WorkerHoldsLock`: since each worker's token is in
the key and the key holds one token, at most one request is inside, and
`Acquire` finds the key free only if nobody is. `bypassed` never becomes false
again, so a behaviour is a mutex up to the first bypass.

*The agentic loop.* The types alone are not inductive: a result takes the next
id of the last message, which exists because that message is an assistant turn
with as many ids as there are uses left and done (`TurnInv`). A finished turn is
a pair because the results then are as long as the ids and agree with them
everywhere (`ResultsComplete`), and trimming changes neither roles nor ids
(`TrimShape`). The window is the delicate part: the code slices, from the end,
the list of tool turns that are not the last one, and does so again every turn
on what it left before. `TrimmedTurns` computes that slice, turn k of n is in it
exactly if k + KeepLast < n, by counting the odd positions above it;
`WindowInv` then carries the verdict of the previous turn over the new one.

*The supervisor.* Only two steps touch the history, so the proof first shows that
every other step leaves it alone and moves its request neither back before its
first save nor past it (`OtherStepsAreStill`); this is where the fall-back of a
stream to a plain request could go wrong, since it starts over. `SaveExtends` and
`AppendPlaces` say what a save adds, also to the messages of the other requests.
No assumption is made on which requests stream.

*What a prompt shows.* `Of` and `Cost` are recursive functions, and the library's
induction theorems cannot be used with these provers. So each such function is
shown to exist (`IterationExists`), to satisfy its equations by definition, and an
invariant of its values is proved by taking the least argument at which it fails
(`LeastNat`). `Of` then lists the places of an agent's messages in order
(`OfLists`); a page of it and what truncation leaves are ends of that list
(`PageIsLatest`, `Truncated`, `LatestOfLatest`), and truncation stops only at a
message that did not fit. The partition read for the classifier is the agents'
listings one after the other (`PartitionRows`), each agent's being one block of it,
and an end of the partition cuts a block at its front (`BlockShowsRecent`). That
needs a roster without duplicates. `AgentSeesRecent` compares messages, not
places: no message is saved twice, which is `PairInv`.

*The investigation.* `score_confidence` is cut into cases (`ScoreCases`), and one
more piece of evidence is followed through each of them. The union-find is proved
with two functions the code does not have: for each piece the root of its tree and
its depth (`Forest`). Depths bound the walk of `Root` (`Climb`, `RootFound`), and
linking two roots makes one tree of two (`LinkJoins`). The two nested loops are one
count of turns (`Cells`, `Turns`). After each turn, every set of pieces that is closed
under sharing a signal is a union of trees (`Sound`), and the pairs seen so far are in
one tree each (`Met`); after the last turn a tree is therefore a component
(`ComponentIsTree`), and counting roots counts components.

*The token budget.* That the bill stays below a bound is not inductive, since the
requests that run may still spend. `Left` is the set of calls that requests
admitted by the shared counter have left, as pairs, so that its cardinality is
what is left to spend in calls: a recorded call takes one pair away and costs
`MaxTokens` at most, an admission adds `MaxCalls` pairs but happens only below the
budget and never makes more than `Overlap` requests run. A request of a replica
without Redis is not in `Left`: its first call ends the promise, by its trace.

*The admission guards.* A transaction of the rate limiter may take effect after one
with a later stamp. `Clocks` says how late, so whatever it removes as too old is
older than Window - Delay for everyone; `EntriesKept` says that the key's expiry takes
nothing with it that is still inside the window. Among the attempts of such a span that were let through, the
last to take effect found all the others in the set (`CountedTogether`), and they were
fewer than the rate. For the budget, `KeyLives` places the renewal of a day's key in
that day, so that its expiry, a day later, comes after midnight.

*The specialist.* A catalogue is good by itself: no request need remember which
map was in force when it was offered, since every map that could replace it agrees
on the names of distinct tools, and so does the fall-back (`OfferedCalled`). The
ages need the tasks on their way as well as what is stored. A stream is either
growing, in which case its last frame tells the turn of its loop, or it is one
that grew and got its ending (`CompletedFrames` says where each frame of that is).
`Counted` is, like `Left`, a set of pairs in place of a sum: a detection each.

*Incidents.* The mark is protected by two things only: a replica blocks between
its GET and its SET, and a handler that marked has started its investigation. The
counter is written back over whatever is there, so `Books` compares with the bill
what was read and not yet written; it says nothing of a month whose counter was
carried over. The overspend is bounded in two steps: `Spending` bounds what is charged
or at work, as long as nothing fails, and `Paying`, which holds whatever fails, adds
those that ended without a charge. A case is vouched for because `decide_status`
agrees with the documented thresholds for every confidence up to 1, a review only adds
approvals, and a row keeps its type and confidence.

The assumptions on the constants are those the modules name (`PoolAssumption`,
`GuardAssumption` and so on): finite sets and ranges, and a few facts of the code.
`Delay` is shorter than `Window`, or a command could arrive when its own window is
over. The roster has no duplicates, being a dictionary (`registry.py:17`). `Unset`
is no layer, as `None` is none. `AcceptedCancelStays` and its copy for the gateway
take a Redis that answers as a hypothesis, as does the run that checks the property;
`VouchedCases` takes confidences within the range the prompt asks for, without which it
is false.

What only TLC checks: liveness (`SlotReleased`, `RequestAnswered`, `KeyGoesAway`,
`LoopEnds`, `RequestsEnd`, `AnswerEnds`), which needs ENABLED and is beyond this
prover. The properties of the runs that end in a violation are those the code does not
have. Every other property of the runs is stated by a theorem.

## 5. Plan

What is left, in order:

1. More of the code under the proved components: the probes of `core/health.py` with
   the callers that meet in their cache (`HealthCache`).
2. The Redis-backed breaker shared by replicas, should production wire it.

## 6. Not modelled

Text: prompts, regular expressions, formatting, summaries. I/O: HTTP, MCP
transport, boto3, asyncpg. Observability. Authentication, which is stateless.
The capability gate is never initialised in production; the choice of a model tier
is a pure function of one classification; the probes of `health.py` are one
nondeterministic outcome in `Gateway`; Slack is behind one HTTP call.
Every part, with its reason, is listed under `components` in `PROJECT.json`.

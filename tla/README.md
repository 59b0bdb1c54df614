# Cuckoo-Echo: a TLA+ model of the customer-service platform

Cuckoo-Echo is a multi-tenant AI customer-service platform: users chat with a
LangGraph agent over SSE or WebSocket, the agent searches a tenant's documents,
calls tools, and hands a conversation to a human admin when it has to; an API
gateway limits requests, and a back office bills, experiments and measures.  This
directory holds TLA+ modules for the parts of it that race, fail and retry, the
TLC runs that check them on small instances, and theorems about them that TLAPS
checks for every instance.

`tlc -config X.cfg M` runs a configuration, `tlapm M.tla` checks a proof module;
`PROJECT.json` lists the runs, the source lines every definition stands for,
mutants for every checked property, the hazards and the theorems.

## Inventory

| Part | State it keeps | Operations | What is hard | Module |
|---|---|---|---|---|
| Chat endpoints (`chat_service/routes/chat.py`, `ws_chat.py`) | Redis lock per thread, a queue per request, the queue attached to `stream_chat_completion` | SSE generator, shielded consumer task, WebSocket loop, billing at the end | await interleavings, disconnects, lock expiry, a module-level attribute shared by all requests | `ChatStream`, `ThreadTurns` |
| Agent graph (`chat_service/agent/graph.py`, `nodes/`, `state.py`) | the channels of `AgentState`, checkpointed per conversation | eight nodes, two conditional edges | channels that survive from turn to turn; failures of LLM, tools, NLI, summarizer | `AgentGraph` |
| RAG search (`nodes/rag_engine.py`) | retries, jobs of the reranker's threads | embed, search, rerank | a time-out that does not stop the thread, full thread pool | `RagSearch` |
| HITL (`admin_service/routes/hitl.py`) | `hitl_sessions`, `hitl_escalation_tasks`, `tickets`, `threads.status` | notify, take, end, message, escalation poller | READ COMMITTED check-then-write, several pollers, crashes | `HitlSessions`, `SessionLife` |
| HITL broadcast (same file) | list of admin WebSockets per tenant | register, unregister, broadcast | a list that changes under its iterator | `HitlBroadcast` |
| Knowledge documents (`admin_service/routes/knowledge.py`, `knowledge_pipeline/worker.py`) | `knowledge_docs`, Milvus, in-memory background tasks | upload, delete, retry, clean-up, worker stages, search and filter | crashes, retries, late inserts, soft deletion | `KnowledgePipeline` |
| Chunker (`knowledge_pipeline/chunker.py`) | none | recursive split with overlap | boundaries: blank pieces, long pieces, overlaps | `Chunking` |
| Billing (`shared/billing.py`, `admin_service/routes/billing.py`) | plans, accounts, usage per month, invoices | get-or-create, check, record, admin of plans and invoices | statements of their own, check and record around a whole answer, constraints of the schema | `Billing`, `UsageLedger`, `Invoices` |
| Rate limit (`api_gateway/middleware/rate_limit.py`) | Redis counter and cached limit, bucket per process | check, refill, update of the limit | INCR/EXPIRE, crash in between, caches nobody invalidates | `RateLimiter` |
| Circuit breaker (`shared/circuit_breaker.py`) | state, counters | call, reset | late results, cancelled half-open probes | `CircuitBreaker` |
| Model calls (`ai_gateway/client.py`, gateway's breaker) | `llm_config`, breaker, streams under way | update of persona and model, stream, fallback | configuration that changes under a call, late answers to the breaker | `ModelGateway` |
| Start-up and tenants (`chat_service/main.py`, `checkpointer.py`) | pool, agent, wired clients, tenant status | lifespan, wiring, authentication | each client may fail; a tenant suspended under a check | `ChatStartup` |
| Orchestrator (`agent/orchestrator.py`, `role_registry.py`) | agents, tasks, metrics | register, execute a workflow, retry | cancellation, re-registration, sharing | `Orchestrator` |
| Sessions (`agent/session_manager.py`) | messages, threads, metadata | add, start thread, context window, budgets | three cuts of one history | `SessionContext` |
| Tools (`agent/tool_registry.py`, `tool_executor.py`) | registry, history | register, enable, remove, run in sequence or parallel | registry changes at an await, errors and time-outs | `Toolbox` |
| Plugins (`shared/plugin_system.py`, `admin_service/routes/plugins.py`) | registry, hooks | register, remove, enable, trigger | list that changes under an event | `Plugins` |
| Experiments (`services/experiment.py`, `routes/experiment.py`, gateway's assignment) | experiments, metrics | create, update, list, delete, results, assign | a row committed before its answer fails | `Experiments`, `ExperimentStats` |
| Feedback (`services/feedback.py`, `routes/feedback.py`) | one row per user and message, cached statistics | vote, statistics | overlapping votes, stale caches | `Feedback` |
| Rollout (`services/rollout.py`, `routes/rollout.py`) | stage, history | advance, roll back, gradual rollout | two writers of one stage | `Rollout` |
| Stream buffers (`services/streaming_optimizer.py`) | buffer, flow flag per stream | push, flush, pause, cancel, split | backpressure | `StreamBuffers` |
| Metrics (`admin_service/routes/metrics.py`) | none of its own | overview, missed queries, sandbox | a join that multiplies rows | `AdminMetrics` |
| Customer health, prompt versions (`shared/`) | health cache, interventions; versions | calculate, detect; create, roll back | caps and weights; numbers by position | `CustomerHealth`, `PromptVersions` |
| Frontend network layer (`frontend/src/network`, `stores`, `lib`) | stores, timers, refresh promise | stream, reconnect, refresh | stale answers, shared refresh | - |
| Webhooks, memory, caches, RBAC, prompts, analytics, ASR, clients, pages, deployment | little, or not reached by a service | single statements, text and I/O | - | - |

How they interact: the gateway authenticates and limits a chat request and forwards
it to a chat-service process, which checks the tenant's plan; its generator takes the
thread's Redis lock and runs the graph in a shielded task; `rag_engine` searches,
`llm_generate` calls the model (the tenant's, or the fallback) and pushes tokens into
the queue that is attached to the shared function at that moment; the generator drains
it and at the end records the usage.  `hitl_node` writes the HITL tables through
`notify_hitl_request`, which admins then change over HTTP and a poller escalates.
`rag_engine` reads what the pipeline worker wrote to Milvus and what the admin service
marked deleted in PostgreSQL.  The admin service changes plans, limits, models and
rollouts while all of this goes on, through the database or through Redis.

What makes each part correct: a chat stream delivers its own answer, ends, and unlocks
the conversation; runs of one conversation do not overlap; a turn that needs a human
and reaches the router gets one; an escalation happens once, and no pending session loses its task; every open admin
socket is registered once and hears of an event once; deleted documents are not shown,
completed ones can be found, pending ones are processed, and their text is in the
chunks; an answer is charged once, to its own tenant; no more requests pass in a window
than the limit; a breaker probes with a bounded number of calls and closes again;
agents come back from their workflows; a vote toggles what its user sees; caches become
fresh again.

## Modules

### ChatStream, ThreadTurns

One action is the code between two awaits.  `gen` is the position of
`event_generator` (or of the WebSocket loop), `run` that of the graph run.  The two
part ways when the client disconnects: the generator goes to its finally block, the
shielded task goes on.  `attached[p]` is `stream_chat_completion._token_queue` of a
process, `captured[r]` the queue `llm_generate_node` picked up when it started, and
`lock[t]` the owner's token under `cuckoo:lock:{t}`.  `HandleUpdate` is the branch of
`_consume_stream` that decides what of a node's update enters the queue.  What a node
puts into an update is any member of `Diffs`.  `expired`, `gone` and `disturbed` are
history variables the properties speak of.

Faults, each enabled by a member of `Faults`: the message limit or its query refuses
(`deny`), the 90 s of a lock run out (`expire`), the client leaves (`disconnect`), the
finally block is cancelled too, or the SET of the lock is in flight when the client
leaves (`cut`), Redis refuses the release (`redis`), a process dies (`crash`), the graph
or the LLM raises (`error`).

`ThreadTurns` is the abstract promise about a conversation's turns: a turn waits, works
and is over; it begins only when every other one at work on its conversation has lost its
client or its time; and it is charged once at most, for what it spent at work, when it is
over or its client has left it.  `Chat == INSTANCE ThreadTurns WITH ...` in `ChatStream`
maps a request onto a turn - at work while its graph runs, whether or not a generator
waits for it, waiting until it has tried the lock - and `TurnsKept == Chat!TurnsSpec` is a
property of `chat_faults` and a theorem.  Lock, queues, streams and processes are not
visible there; a crash ends several turns in one step.  It also says when `AgentGraph`,
which takes the turns of a conversation one after the other, describes the program:
between the losses of a lock.

### AgentGraph

The turns of one conversation.  `ch` is the record of channels; a channel that holds a
text holds the number of the turn it stems from instead.  A request overwrites
`messages` only; every node returns `{**state, ...}`, so `Update` sees all channels
every time - that is what makes old values matter.  `out` is what the turn puts into
its stream, `handed` the turns that ran `hitl_node`.  The classes of a message follow
the router's rules; what the LLM or the NLI model says is a free choice.  `said` is the
request's message and whether its history is long: `preprocess` empties one of fifty
messages and more (`preprocess.py:39-42`), so that the router sees no message at all and
decides for `rag`, whether or not the summary was written.
`HumanIsCalled` therefore speaks of what the router is shown (`SeenByRouter`) or decides.
`ended` is an admin's end of an intervention (`AdminEnds`), which reaches no channel:
`agent_return` is the run about it.

### RagSearch

Inside the node `rag_engine`: the search with its attempts and delays, then the scoring
in the default executor's `Threads` threads.  `query` is where a query is, `job` its
scoring job, which goes on (or waits for a thread) after `wait_for` has given up at
0.5 s; a reranker may never come back, and then holds its thread.

### HitlSessions, SessionLife, HitlBroadcast

`HitlSessions` has one variable per column that matters of four tables.  A handler's
SELECT and its writes are two actions, because READ COMMITTED takes no lock at a
SELECT; the writes become visible at COMMIT.  A poller's row lock (`FOR UPDATE SKIP
LOCKED`) is `ptask`.  Clock ticks stand for the 60 seconds.  Foreign keys appear where
they decide: `tickets.thread_id` references `threads`, whose rows are `ThreadRows`.
Nothing is promised about the end of a pending session: no lifespan starts the poller
(`admin_service/main.py:27-57`), and an overdue task without a `threads` row blocks it.

`SessionLife` is the abstract promise: a call for a human is raised once, waits until it
is handled, is granted only to admins who asked while it waited - all of them, if their
requests overlap - and gets one ticket at most.  `Life == INSTANCE SessionLife WITH ...`
in `HitlSessions` maps the tables and the requests past their check onto it, and
`SessionLifeKept == Life!LifeSpec` is both a property of `hitl_safety` and a theorem.
Who ended a session, tasks, row locks and dying pollers are stutters.

In `HitlBroadcast` a Python list iterator is an index into the list as it is at each
step, so the registry is a sequence and a broadcast keeps an index.  `Reap` removes the
sockets whose sends failed; `list.remove` raises at one that another task has removed.
What a removal leaves (`Without`) is the kept indices in order, by `InOrder` of `Ranks`.

### KnowledgePipeline, Chunking

Every SQL statement is a step of its own, because every `execute` here runs in its own
transaction - the worker's `SELECT ... FOR UPDATE SKIP LOCKED` too, whose lock is gone
at once.  `vectors[d]` counts the insertions of a document's chunks that Milvus still
stores, since ids are fresh every time.  A search is two steps: Milvus, then the filter.

`Chunking` is `split_text` over all texts of up to `MaxText` characters of each kind
(letter, newline, dot, space).  `_recursive_split` is a function of how many separators
are left (`RecursiveSplit`), each level of which is given the level below; its loop over
the parts is a function of how many parts it has seen (`Built`, one step of which is
`Put`).  A character carries its position, so that a chunk shows which letters it has, and
which it repeats.

### Billing, UsageLedger, Invoices

The statements of `get_or_create_account` and of the check are actions of their own
(the connection is autocommitted), as are the upsert of the usage and the statements of
the plan API; the month may end anywhere.  `billing_accounts` has no unique
`tenant_id`, so a tenant has a sequence of rows and a query may find any of them.

`UsageLedger` is the abstract promise: `Charge(a)` charges an answer once to its owner,
and nothing else changes a total.  `Ledger == INSTANCE UsageLedger WITH total <-
[t \in Tenants |-> RunningSum(usage[t])[MaxPeriod]], ...` in `Billing` is the refinement
mapping - the total is the sum over the periods - and `LedgerIsKept == Ledger!LedgerSpec`
is a property of `services` and a theorem: each upsert is one charge, every other step a
stutter.

### RateLimiter, CircuitBreaker, ModelGateway

`RateLimiter` follows one user's requests through several gateway processes: cached
limit, local bucket, INCR, EXPIRE.  At any await the process may die (`Crash`) or the
database or Redis refuse (`BackendDown`); and Redis may perform a command whose reply is
lost (`ReplyLost`), which fails the request too, for the client does not send it again.
`stranded` says that a counter was left without a time to live in one of these ways.
`passed` is the set of requests let through in the present life of the counter.

`CircuitBreaker` is `CircuitBreaker.call` around concurrent callers: the check at the
start and the record at the end are separate, a caller may be cancelled between, and
`cooled` is the recovery time-out having passed.  `probes` counts the calls admitted in
one half-open phase, `wasted` remembers a cancelled one.

`ModelGateway` has the tenant's `llm_config` as its two admin endpoints merge it, calls
that stream from the primary or the fallback model, and the gateway's breaker around
them.  A body is what the endpoint writes: an omitted `temperature` or `persona_name` is
written as its default and so undoes an earlier update, an omitted `fallback_model` is
not.  `newest` is what was last written of each key, `fellBack` the calls whose primary
model failed or timed out, `blamed` those that failed as a whole: only these count for
the circuit, and an answer is of the model its call was routed to at its start.

### Feedback

Votes on one message, statement by statement: look for the user's row, write (which
waits for the uncommitted write of another vote, as PostgreSQL's row and index locks
do), invalidate, commit - in the order each branch has - and reads that fill the cache
under the key `_build_cache_key` gives their parameters: with a message and no
`thread_id` that is the tenant's, whatever message was counted, and no vote deletes it.
`FeedbackIsTrue` is about the entries under a message's own key; of the others only
`StatsSettle` speaks.  `clash` are votes that overlapped another one
of their user, `raced` reads that overlapped a vote.

### Experiments, ExperimentStats, Rollout

`Experiments` has the handlers with the answers a client gets, because that is where
they go wrong: the row is committed, then building the response may fail; and each handler
may fail before or while it writes, for an id that is no UUID, a variant without its keys,
or the database (`broken`, `listing.error`).  `decoded` says whether the driver decodes
JSON.  `ExperimentStats` is the arithmetic: hundred
hash buckets against the variants' weights, and significance by samples and gap.
`Rollout` has the stage, which the API moves and `gradual_rollout` sets.

### Orchestrator, Toolbox, Plugins, SessionContext, StreamBuffers

In-process services whose state changes at awaits only.  `Orchestrator`: agents that
workflows share, with retries, cancellation and re-registration; its lists of tasks are
sets of places in the list.  `Toolbox`: batches of
tools in sequence or in parallel while the registry changes; an error has a text or, as
a time-out, none (`silent`), and only the first kind stops a sequence.  `Plugins`: an event that
calls the hooks of a list while it changes, and the tool that triggers resolve to.
`SessionContext`: sessions and threads of messages, the context shown to the model,
importance scores, token budgets.  `StreamBuffers`: a bounded buffer with a pause flag.

### Ranks

What several modules need of lists: the numbers of a set in order (`InOrder`), the
elements at such places (`Picked`), a stable sort from the highest to the lowest (`Falling`: Python's `sorted(..., reverse=True)`), and
the sums of a sequence's beginnings (`RunningSum`).  They are recursive functions and
counts instead of folds, because nothing can be proved of a fold.  `HitlBroadcast`,
`Chunking`, `RagSearch`, `SessionContext`, `Invoices`, `Billing`, `ExperimentStats`, `StreamBuffers`
and `Orchestrator` use it.

### ChatStartup, AdminMetrics, CustomerHealth, PromptVersions

`ChatStartup` is a process from `down` through the wiring of each client to `serving`
and down again, and the tenant check of each request.  `AdminMetrics` evaluates the
queries of the overview as sets of joined rows, and the missed queries as the lists a cut
to the `MissedLimit` most frequent may leave, ties being open.  `CustomerHealth` computes with whole
numbers, scaled so that the code's weights and halves are exact.  `PromptVersions` has
the list of versions whose length makes the next number.

### Composition

The modules above keep their own variables, and the MC modules put together those that
share a run.  Parts that share no state (they live in different processes or tables)
are checked *side by side*: a rigid variable `part`, chosen at the start, says whose
steps a behaviour is made of, and the others stay in one initial state.  This is the
same as a run of each - the state space is the sum, not the product - and each part
has all its faults.

- `MCHitl`: `HitlSessions`, `HitlBroadcast` and `KnowledgePipeline`: what the admin
  service and the worker write.
- `MCProgress`: `AgentGraph`, `RagSearch`, `CircuitBreaker`, `RateLimiter`,
  `Orchestrator`, `Feedback` and `KnowledgePipeline`, each with its fairness.
- `MCServices`: sixteen services with safety properties.

Some properties are conjunctions over parts, each conjunct of which has a mutant of its
own in `PROJECT.json`:

- `StudiesInv`: experiments, their statistics, rollout;
- `AnswerInv`: tools, plugins, start-up, model gateway, session context, stream buffers;
- `OfficeInv`: metrics, invoices, customer health, prompt versions;
- `TurnsAndQueriesEnd`, `CachesSettle`, `StreamsAndLocksEnd`: the liveness of two parts each.

## Runs

| Run | Instance | Distinct states | What it shows |
|---|---|---|---|
| `hitl_safety` | 2 sessions, 2 conversations (one without a row), 2 admins, 2 pollers, 1 crash; 3 sockets, 2 broadcasts; 1 document, 2 workers, 1 search, all faults, 1 crash | 1 572 060 | `HitlInv`, `PendingHasTask`, `AtMostOneTicket`, `LateTakeRefused`; `BroadcastInv`, `QuietReachesAll`; `DeletedNeverShown`, `CompletedIsSearchable`, `PipelineInv`; and the refinement `SessionLifeKept` |
| `chat_faults` | 1 SSE and 2 WebSocket requests, 1 conversation, 1 process, 1 token, all faults | 1 465 512 | `ChatInv`, `SerialUnlessLost`, and the refinement `TurnsKept` |
| `chat_stream` | 2 SSE requests, 2 conversations, 1 process, 2 tokens, graph errors | 307 662 | `UndisturbedIsExact`, `StreamsAndLocksEnd` |
| `progress` | seven components with their fairness (see below) | 183 671 | the agent graph's, breaker's, rate limiter's, orchestrator's and RAG search's invariants; `TurnsAndQueriesEnd`, `Recovers`, `WindowEnds`, `AgentsReturn`, `CachesSettle`, `DocSettles` |
| `services` | sixteen components (see below) | 1 782 554 | `BillingInv`, `FeedbackIsTrue`, `StudiesInv`, `AnswerInv`, `ChunksInv`, `OfficeInv`, `SoleVoteToggles`, and the refinement `LedgerIsKept` |

Seven runs show a statement of the repository that the code does not keep, each with
a counterexample of a few steps:

| Run | Statement | What happens |
|---|---|---|
| `chat_leak` | `TokensOwn` (chat.py:86) | two conversations in one process: the second stream's queue replaces the first's on the function both use, and receives its tokens |
| `hitl_ticketed` | `TakenNotTicketed` (hitl.py:309) | the poller reads `pending`, an admin takes the session, the poller escalates it all the same |
| `broadcast_skip` | `AllOpenReceive` (hitl.py:24) | a socket leaves during a send, the list shifts under the iterator, and an open socket is skipped |
| `agent_stale` | `OwnReply` (chat.py:7) | the first update of a turn shows the response of the turn before, which is sent as the answer |
| `agent_return` | `AgentReturns` (docs/architecture.md:178) | the admin ends an intervention, the checkpoint keeps `hitl_requested`, and a later turn that asks for nobody goes to a human |
| `pipeline_orphans` | `DeletedIsCleaned` (docs/api.md:276) | a worker inserts the vectors of a document after its clean-up, and they stay |
| `billing_unlimited` | `LimitIsEnforced` (shared/billing.py:163) | the check looks for the key `messages_limit` in a row whose column is `message_limit`, finds none, and lets every message pass |

### Why the bounds are enough

- `chat_faults`: a stale release needs three requests: the SSE request, whose lock
  expires, the next owner, and a third that gets in if the first deletes the key.  Only
  an SSE request can lose its client, attach a queue and be billed, so two of the three
  are WebSocket requests, whose runs may pick up that queue.  Two SSE requests meet in
  `chat_stream` without the faults of connection and Redis, and in the theorems with all.
- `chat_stream`: two conversations share a process or a conversation (all
  assignments are tried); two tokens have an order, and one update of another node may
  come before and after the LLM's.
- `hitl_safety`: two pollers and a crash race for two tasks with two admins; a
  conversation with and one without a `threads` row.  `EscalationDelay = 1`,
  `MaxTime = 2` lets tasks fall due at two different times.  Three sockets are needed
  for one to leave before, at and after the iterator; two broadcasts for a double
  removal.  Two workers on one document is the interesting case, since nothing keeps
  them apart; two attempts are one that is retried and the last (the code has three),
  two tries of the clean-up likewise.
- `progress`: what a turn leaves behind shows in the second turn, and every channel that
  survives is written by the first.  Two queries fill one reranker thread.  Three callers meet
  a breaker that opens after two failures and probes with two calls, so that a probe can
  fail, succeed or be cancelled while another is out.  Two requests in two gateway
  processes are one more than the smallest limit.  Two workflows want the same of two
  agents, each of which may be registered twice (`MaxRegistrations` is per agent).  A vote overlaps another of its user and a
  read.  The document has the two workers and the faults of `hitl_safety`, without a search.
- `services`: two answers of one tenant meet at its account and at its month's row, and
  two tenants show that nothing is charged to the other; three votes of two users and one
  read; two experiments, one batch in sequence and one in parallel over two tools; all
  texts of up to seven characters against chunks of three with an overlap of one (two
  cuts and a rest); two streams with a buffer of two; plans, months, prompts, agents and
  tenants twice wherever two of them can be mistaken for each other.

`MaxTokens`, `MaxUpdates`, `MaxTurns`, `MaxTime`, `MaxCrashes`, `MaxWorkerCrashes`, `MaxPeriod`,
`MaxRegistrations`, `MaxMetrics`, `MaxText`, `MaxHistory`, `MaxNodes`, `MaxTitles`,
`MaxChunks`, `MaxVersions`, `MaxInvoices`, `MaxChecks`, `MaxStarts`, `MaxSamples`,
`MaxGap` and `AdminRetries` bound counters and inputs and appear in
guards; the theorems hold for any values of those their modules have.  `MaxAttempts`,
`CleanupTries`, `max_retries`, `failure_threshold`, `half_open_max_calls`, `chunk_size`
and `chunk_overlap` are the code's own limits.

`CHECK_DEADLOCK FALSE` stands in every configuration because every instance may come to
rest: all requests answered, all turns taken, nobody uploads or votes.

### Fairness

- `ChatStream!FairSpec`: the event loop runs every ready task (each handler, each graph
  run), the LLM call ends by an answer or an exception, and Redis honours a
  time-to-live.  Clients need do nothing.  In `chat_stream` the lock is shown to be
  freed without expiry: it is the finally block that unlocks.
- `KnowledgePipeline!FairPipelineSpec`, and the same conjuncts in `progress`: each worker's
  loop goes on (its process is restarted when it ends, at most `MaxWorkerCrashes` times), and
  queued background tasks run.
- `MCProgress!ProgressSpec` states the fairness of each of its components, for the
  behaviours of that component:
  - agent graph: a started turn goes on; tools and models answer, fail or time out
    (the tool, the NLI model and the reranker run inside `asyncio.wait_for`, the clients
    of LLM, Milvus and embeddings have time-outs of their own);
  - RAG search: a search ends, and the reranker's time-out fires.  That a reranker's
    thread ever returns is *not* assumed;
  - breaker: callers go on calling, their calls end, and the recovery time-out passes.
    Without a call nothing closes a breaker, which is why `Recovers` needs callers;
  - rate limiter: a request's task goes on, and Redis expires the keys that have a
    time-to-live.  A counter left without one is the exception in `WindowEnds`;
  - orchestrator: an attempt ends (it is awaited with a time-out) and so does the pause
    before a retry;
  - feedback: started votes and reads go on; a cached entry expires;
  - knowledge pipeline: as above.

No fairness is assumed of the escalation poller, which nothing starts.

Admins, users and uploads are never fair: nobody has to act.

## Proofs

Eight modules hold 54 theorems that a reader should know of, and their lemmas:

| Module | Theorems |
|---|---|
| `HitlProofs` | `HitlInvariant`, `PendingSessionKeepsTask`, `TicketUniqueness`, `SessionsNeverReopen`, `LateTakesRefused`, `ImplementsSessionLife`; of the sockets `BroadcastInvariant`, `QuietBroadcastReachesAll`; the composition: `EachDeskAlone`, `DeskHolds` |
| `ChatStreamProofs` | `ChatInvariant`, `ThreadRunsSerialUnlessLost`, `UndisturbedStreamsExact`, `QueueDetached`, `BilledOnceAfterRun`; the turns: `TakesTurns`, `TurnsSuffice` |
| `KnowledgePipelineProofs` | `PipelineInvariant`, `FilterHidesDeleted`, `CompletedStaysSearchable` |
| `ChunkingProofs` | `ChunksInvariant` |
| `AgentGraphProofs` | `AgentInvariant`, `HumanAlwaysCalled`, `HitlRequestedNeverReset`, `ReportedUsageBilled`, `HallucinationsCorrected`, `AnswersOnce`; of the orchestrator `OrchInvariant` |
| `ReliabilityProofs` | `BreakerInvariant`, `RateInvariant`, `RagInvariant`; the composition: `ProgressIsSafe` |
| `ServicesProofs` | `BillingInvariant`, `UsageIsALedger`, `FeedbackInvariant`, `SoleVotesToggle`; one for each of twelve services that are only composed, from `ExperimentsInvariant` to `SessionInvariant`, and `RolloutHistory`; the composition: `EachServiceAlone`, `StudiesHold`, `AnswersHold`, `OfficeHolds`, `ServicesHold` |
| `RanksProofs` | lemmas only: sums, orders, sorting, induction, recursion |

They assume the ASSUMEs of the component modules (types of the constants, null values
outside their sets, finitely many requests to count) and nothing else: any number of
sessions, requests, documents, workers, turns, callers and voters, and any set of faults.

- **HITL.** `PendingHasTask` is not inductive: a poller may drop a task because it read
  a status some steps ago.  `PollerShape` says that a status other than `pending` stays
  so, and that a locked task is still there; `TaskShape` that a task means no ticket
  yet, so that an escalation opens the first.  `TakerShape` (a session somebody took
  is past pending) gives `LateTakeRefused`.  `ImplementsSessionLife` adds that an end under
  way is of a session past pending (`RequestShape`), so that it is a stutter of the
  calls; an escalation is the call's first ticket by `TaskShape`.
- **Broadcast.** `QuietReachesAll` speaks of the end of a broadcast, so the invariant has
  to say how far it is: as long as nobody has left, it has served those of its audience
  that its iterator passed (`QuietSoFar`), and they are open (`AudienceIsOpen`).  That no
  socket gets an event twice needs `ServedBefore`: whom a broadcast has served stands before
  its iterator, or has gone.  A removal keeps the order of the rest and moves nobody away
  from the front (`WithoutSome`), so it never brings one back behind the iterator.
  `DeadHaveLeft`: what a broadcast still has to remove is no longer open, which keeps the
  registry exact.
- **Chat.** `SerialUnlessLost` follows from `HoldsLock`: a live run whose request lost
  nothing still owns the key.  That needs `LoopUntilDone` (its generator is still in
  the loop, hence has not released), which in turn needs `EndAfterRun` (the sentinel is
  only queued when the run is over) and `NoRunBeforeLock`.  `WsInline` covers WebSocket
  runs, which have no task of their own.  `BillShape`: only the generator's last step
  writes a usage record, once it has seen usage reported; by `LoopUntilDone` a run that
  is live then has lost its client (`BilledAfterRun`).
- **Turns.** `TakesTurns` maps every step of `ChatStream` to one of `ThreadTurns` or to a
  stutter.  A run that begins found the lock free, so by `HoldsLock` whoever else is at
  work has lost it; `Fresh` (a request not let in yet has lost nothing and owns no key)
  keeps a turn that waits from being lost by expiry, and the charge is `BillShape` with
  `LoopUntilDone`.  `TurnsSuffice` goes the other way, from `ThreadTurns` alone: what it
  promises implies `SerialUnlessLost` and `BilledAfterRun`, so the abstraction has not lost
  what the run used to check one by one.
- **Exact streams.** `UndisturbedIsExact` compares what a client received with the tokens
  of its own run.  Its invariant is about what is received and what still waits:
  `Told(r)` says that the output followed by the queue is exactly the run's tokens so far,
  open while the run is live, closed by the sentinel, then by `[DONE]`.  Foreign tokens
  stay out because two live runs of one process are both disturbed (`Apart`) and a run
  that captured another's queue has disturbed it (`OwnQueue`).
- **Pipeline.** `CompletedIsSearchable` needs `WorkerShape` (a worker about to write
  `completed` has inserted) and `CleanupShape` (only deleted documents are cleaned);
  `DeletedNeverShown` needs that nothing is undeleted (`QueryShape`).
- **Chunks.** `ChunksInv` is about a text and its split, so the work is in the operators.
  A recursive function has no value for the prover before it is known to exist:
  `Recursion` (`RanksProofs`) gives a function from a first value and a step, and with it
  `Built` (`BuiltIs`) and `RecursiveSplit` (`RecursiveSplitIs`, level by level of the
  separators left) satisfy their equations.  The loop's invariant is `Carried`: after `n`
  parts the chunks made and the one being built have the letters of those parts, none too
  long and each with its letters in order, and, if all parts fit, one after the other; a part too
  long is split by the level below, and what was being built, which stays current although
  it has been appended, repeats letters but loses none.  `RecursiveSplitIsRight` is the
  induction over the levels, down to the cuts of fixed size (`FixedSplitIsSound`), which
  overlap but leave no gap because the overlap is below the size.  Letters are positions,
  so that nothing lost and nothing repeated are statements about sets of numbers.
- **Agent.** `HandoverShape` ties every reason for a hand-over to the channel
  `hitl_requested` and keeps `postprocess` for turns without one.  `UsageSeen`, the
  channel's usage is never newer than the turn and reaches the consumer when it is
  this turn's, gives `ReportedIsBilled`.  `HumanAlwaysCalled` is about turns whose request
  the router was shown, which is why `HandoverShape` keeps the message of a turn with a
  short history in `messages` up to the router.  `StreamShape` is about what the consumer has
  received: the model's answer is never sent in one piece, because its channel counts as
  sent from the moment it is written; tokens come before a correction; and a correction
  has been delivered as soon as its channel is this turn's.
- **Orchestrator.** `FlowOK`: a workflow under way has one assigned task at most and
  none pending once it is done.  `HeldOK` ties the agents that are busy to the tasks that
  hold them - for agents registered once, since a second registration resets one that is
  held.  `CountOK`: the metrics count the completed tasks.
- **RAG search.** A search that pauses has an attempt left, and only answered ones have
  scores.  An answer is the beginning of a stable ranking (`BestFirst`): `FallingRanks`
  shows that the sort is a permutation and puts each element before those it beats.
- **Rate limiter.** That no more requests pass than a limit is a counting argument: those
  that passed in this life of the counter, and the one that is about to send EXPIRE
  (`Claimed`), are no more than the counter says, and the counter and the requests that
  have not reached INCR (`Uncounted`) no more than the requests.  A passed request saw a
  counter within its own limit.  Cardinalities of finite sets do the rest, which is why
  the requests are finitely many.  At most one request is to send EXPIRE, and a counter
  without a time-to-live has one, or it is `stranded` (`ExpiryOK`): the process died, the
  command failed, or the reply to the INCR was lost (`LossKeepsInv`).
- **Breaker.** The invariant is inductive as it stands; its flags and its counts are
  proved apart (`Halves`).  The step that matters is a late result, which may find the
  breaker in another phase than the one that admitted its call.
- **Billing.** That an account's plan exists (nothing deletes a plan), that an answer
  has its account before it is checked, and `SuspendedShape`: a tenant suspended before
  an answer's check began is refused.  `LateShape` is the exception, an account inserted
  twice, of which the query may read the active one.  For `UsageIsALedger` the lemma
  `RaisedSum` shows that a sum in which one entry is raised is raised by as much, wherever
  the entry stands: the upsert of any month is one charge.
- **Feedback.** `LockOK`: a user's writes exclude each other until they are committed.
  `CountsOK`: a count made before a commit, or an entry left behind by an invalidation,
  is known to have raced a vote; so what is cached under a message's own key is stale for a
  known reason only.  `SoleOK`: what a vote found is still there if no vote of its user
  overlaps it, hence it toggles what that user sees; `TraceOK` is what that needs of
  votes that do overlap.
- **The other services.** Prompt versions: a version's number is its place.  Toolbox: the
  history has the executions of the batches, once each, and those a batch has begun are the
  first of its calls.  Plugins: what an event ran is the beginning of the list as far as its
  iterator is, and what is due to it is still in the list.  Streams: what was taken is
  what was handed on and the buffer.  Gateway: the configuration is the newest value of each key because a
  merge keeps what a body lacks; an answer's model is that of the routes its call began
  with, the fallback exactly for calls whose primary failed; and the count of failures is
  the number of calls that failed as a whole since the last success.  Start-up: what is wired so far is sound at
  every stage.  Experiments: each row has the request that made it, and
  an update that failed has made its change or met an error.  Statistics: the
  borders of the variants grow, hence each bucket lies between two.  Session context:
  messages have rising numbers, so no two share a place in a context; the sort is then
  strict, and an important message left out has the older ones before it that fill the
  limit.  Metrics: a prefix counted in the
  shorter range is counted at least as often in the longer one, so that it can be cut there
  only by a full list of prefixes as frequent.  Invoices, customer health: an invariant of
  the rows and the arithmetic of what is answered from them.
- **The compositions.** `EachServiceAlone` shows that a behaviour of the composed services
  is, for the `part` that runs, a behaviour of that service, and leaves the others in an
  initial state; `EachDeskAlone` and the first steps of `ProgressIsSafe` do so for
  `MCHitl` and `MCProgress`.  With the theorem of each component - from the safety part of
  its specification where that states fairness - this gives everything safe that
  `hitl_safety` (`DeskHolds`), `progress` (`ProgressIsSafe`) and `services` (`StudiesHold`,
  `AnswersHold`, `OfficeHolds`, `ServicesHold`) check, of the very specifications they run.

The library's induction theorems cannot be used (their parameter is an operator), but
sums and counts need induction over numbers.  `RanksProofs` gets it for sets instead: a
non-empty set of naturals has a least element (`LeastNumber`, from the well-foundedness of
finite subsets), hence a set with 0 and every successor is `Nat` (`Induction`).  The
recursive functions of `Ranks` and of `Chunking` are shown to exist in this way, the sums
to grow, and the chunks to have what their text has.

Only model-checked:

- liveness (`StreamsAndLocksEnd`, `DocSettles`, `TurnsAndQueriesEnd`, `Recovers`,
  `WindowEnds`, `AgentsReturn`, `CachesSettle`), which the prover does
  not handle under fairness;
- the counterexamples of the seven violation runs, which need no proof.

Every invariant and action property of a passing run, and the three refinements, are
theorems.

## Behaviours the code does not prevent

Beyond the seven runs above, the code has these behaviours.  Where a module covers the
part, its properties are stated around them.

Chat and agent:

- A client's disconnect releases the lock while its shielded run goes on: a second
  request works on the same checkpoint (hence `gone` in `SerialUnlessLost`).  If the
  release itself is cancelled or Redis refuses it, only the 90 s unlock the thread.
- The stream that ends first detaches the queue of its process; the answer of another
  is then neither streamed nor pushed as a fallback (hence `disturbed`).
- When the LLM fails before its first token, the apology comes from `llm_generate`,
  counts as streamed and is never sent.
- A request for a human that comes with a history of fifty messages and more is lost:
  `preprocess` empties the messages, the newest too, and the router, which reads nothing
  else, goes to `rag` (`preprocess.py:39-42`, `router.py:121-123`).  `HumanIsCalled`
  leaves these turns out by name (`SeenByRouter`).
- A turn whose LLM call reports no usage is billed for the usage of an earlier one; a
  tool turn is compared with the documents of an earlier retrieval.
- A failed guardrail goes to `hitl`, around `postprocess`, so `unresolved_turns` never
  counts; a failed summary still empties the message list.
- The store's context of the checkpointer is closed before it is used
  (`checkpointer.py:43-49`), and a start that fails after opening the pool leaves it open
  (`main.py:39-48`).  `/health/detailed` calls a function that does not exist
  (`main.py:255`).
- The RAG node's breaker is never told of a failure, and an exception of the reranker
  other than the time-out is not caught.
- `llm_generate` never reads the tenant's persona; a new model without a fallback keeps
  the old fallback, while an omitted temperature or persona name is reset to its default.
- The shares of the token budget add up to 17/16 (`session_manager.py:192-213`); a pause
  before a stream's first chunk is forgotten (`streaming_optimizer.py:92-95`); a tool's
  time-out, or any exception without arguments, has an empty error text, so
  `stop_on_error` does not stop there (`tool_executor.py:53`, `:75`).

HITL and documents:

- Two takes whose checks overlap both answer 200 (`LateTakeRefused` excludes the rest).
  A take racing with the end or the escalation leaves `threads.status` at
  `human_intervention` with no session to end.
- `send_hitl_message` inserts no `tenant_id`, which is NOT NULL: it always fails.  The
  list of sessions selects `created_at`, a column `hitl_sessions` does not have
  (`routes/hitl.py:121-126`): it always fails too.
- A session of a conversation without a `threads` row fails its ticket's foreign key
  at every poll and stays the oldest task, so that no later one is escalated either.  And
  nothing starts `run_escalation_poller`: the safety of the escalations is about a
  deployment that does.
- `hitl_node` runs in the chat service, whose copy of the socket registry is empty:
  `HitlBroadcast` is the admin service's own process.
- Two workers may process one document, doubling its chunks; a worker that dies leaves
  its document in `processing` (the exception in `DocSettles`); the retry endpoint
  resets a document whatever its status.
- No migration creates the table of the knowledge gaps.

Gateway, billing and services:

- The middleware of the API gateway is never attached: it is added in a startup event
  (`api_gateway/main.py:62`), which an application with a lifespan does not run.
  `RateLimiter` speaks of a deployment that attaches it.  The update of a
  rate limit deletes a key that is not the cached one, so the old limit lives on until
  its time-to-live.  A process that dies between INCR and EXPIRE, or a lost reply to the
  INCR, leaves a counter that never expires.
- Two first requests of a tenant give it two accounts.  A cancelled half-open probe
  counts against the probes to come.
- An invoice without a status gets `pending`, which the table's CHECK refuses.
- An experiment is committed before its response is built, and the client of a failed
  response does not know; a 500 to an update may mean that it was made or not; `gradual_rollout` reaches one stage only, where
  tests/unit/test_rollout.py:25-28 expects the target.
- No middleware sets the `user_id` that feedback reads.  Statistics of a message asked for
  without its thread are cached under the tenant's key (`services/feedback.py:281-288`),
  served to whoever asks for the tenant or for another message, and deleted by no vote.
- A missed query among the twenty of one day may be missing over thirty days.
- The chat widget loads a thread's history with the admin's token or none
  (`frontend/src/network/axios.ts:52-55`), but the chat service accepts API keys only
  (`chat_service/main.py:205-233`): a 401, after which the refresh is
  refused too (`frontend/src/lib/tokenRefresh.ts:22-26` sends no token, which
  `admin_service/middleware/jwt_auth.py:22-24` demands) and the page goes to `/login`.  A stream that closes without `[DONE]` or is aborted with its widget leaves
  `isStreaming` set, and the input disabled (`sseClient.ts:136`, `:187`).
- `emit_event` of the webhooks builds its delivery without the required `created_at`
  and raises for every webhook it would serve.  Rolling a
  prompt back to an unknown version takes the previous one.  An NPS of 0 counts as 10,
  and declining usage is never found, since the history it is compared with is always
  empty.  `health_monitor` imports names that do not exist; the semantic cache is never
  wired.

## Not modelled, and the plan

Not modelled, with the reason:

- **Row-level security**: the database role bypasses it.  **Listing endpoints** that only
  read, unless their filters are the point (`Invoices`, `AdminMetrics`).
- **Text**: prompts, embeddings, parsing, NLI and model answers are free choices; regular
  expressions of the router are classes of messages.
- **Webhooks**: as written no event gets past the construction of its delivery, so nothing would be
  delivered.
- **RBAC, agent memory and state machine, evaluation, in-memory caches**: no endpoint
  reaches them, or they are single assignments without concurrency.
- **ASR, analytics, clients, tracing, pages, deployment and scripts**: pure I/O, single
  reads, rendering.
- **Frontend network layer**: its races need answers the backend never gives.  The widget
  loads a thread's history without its API key, which the chat service refuses (above),
  and a refresh of the token always fails; reconnects, reconciliation and the switch to
  the WebSocket have no callers.

Next, in this order:

1. A composition of `AgentGraph` and `HitlSessions` over a few turns, and of the end of
   a `ChatStream` with `Billing`: the charge of a turn in `ThreadTurns` as that of an
   answer in `UsageLedger`.
2. Webhooks and agent memory.
3. Frontend: the chat store with the SSE client, once a thread's history can be loaded.

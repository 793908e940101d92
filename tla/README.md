# A verification project for llm_agents

TLA+ models of the stateful core of `llm_agents` (`src/src/llm_agents`), the
TLC runs that check them on small instances, and TLAPS proofs of what holds for
every instance. Paths below are relative to `src/src/llm_agents` unless they
begin with `docs/`.

1. [The system](#1-the-system)
2. [Modules and how they correspond to the code](#2-modules)
3. [Runs: bounds, fairness, what they show](#3-runs)
4. [Proofs](#4-proofs)
5. [Where the code and its documentation disagree](#5-findings)
6. [What is not modelled](#6-what-is-not-modelled)
7. [Plan](#7-plan)

## 1. The system

A Python library of asyncio components. There is no server process of its own
besides a FastAPI app; concurrency is that of one event loop (coroutines give up
control only where they await), of the loop's thread pool, and of several
processes that share a SQLite file or a remote vector store.

| Component | State | Operations | Talks to |
|---|---|---|---|
| Router (`infra/inference_routing`) | policy; per call: candidate, attempt, errors, open spans | `complete` | providers, tracer |
| Batcher, CompletionCache (`infra/cost_latency_optimization`) | none; ordered dict of (response, expiry) | `batch_complete`; `get`, `set`, `clear`, `cached_complete` | Router |
| Dedup stores (`.../_dedup.py`) | set of hashes, in memory or in SQLite | `add`, `add_batch`, `in`, `reset` | Indexer, IngestionPipeline |
| Planners, plan executor (`core/planning`) | a `Plan` mutated in place | `plan`, `execute` | Router, ToolDispatcher, memory, tracer |
| Supervisor, Worker (`core/hierarchical_agents`) | list of workers | `run` | Planner, Router, ToolDispatcher |
| ToolRegistry, ToolDispatcher (`core/tool_orchestration`) | tools by name | `register`, `dispatch` | tools, thread pool, tracer |
| IngestionPipeline, connectors, parsers (`data`) | dedup store | `ingest`, `reset_dedup` | connector, parser, chunker, upsert callback |
| Indexer (`rag/indexing`) | dedup store | `index`, `index_batch`, `reset_dedup` | chunker, embedder, vector store |
| Vector stores (`rag/vector_store`) | vectors by id or a connection flag, a lazily built index, the length of the vectors | `upsert`, `delete`, `search`, `len`, `in` | FAISS, Chroma, pgvector, Weaviate, Elasticsearch |
| Retriever, reranker, RagPipeline (`rag`) | none | `retrieve`, `rerank`, `answer` | vector store, embedder, generator |
| Guardrails, API (`infra/guardrails`, `serving/api`) | list of guards; app state | `run`; `/chat`, `/rag/answer` | Router, RagPipeline |
| Tracing (`infra/tracing`) | context variable, global collector with one export hook | `span`, `traced`, `add` | observability |
| Metrics and bridge (`infra/observability`) | registry of metrics by name | `counter`, `histogram`, `gauge`, `bridge_span` | tracing |
| ModelHub (`infra/model_hub`) | back ends, versions, active version | `register`, `register_version`, `rollback` | version logger (MLflow) |
| FineTuner, trackers, datasets (`training`) | tracked runs; none | `FineTuner.run`, `start_run`, `log_metrics`, `end_run`; `split`, `validate` | MLflow, PEFT |
| Harness, prompt comparison, benchmark runner, detectors (`evaluation`) | none between runs | `compare`, `run`, `detect` | systems under test |
| Memories (`core/agent_memory`) | a bounded buffer with its running total; a list | `add`, `recent`, `search`, `clear` | |
| Chunking, packing, summarizer (`core/long_context`) | none | `chunk`, `pack_to_budget`, `summarize` | Router |
| Replay analysis (`core/replay_analysis`) | none | `replay`, `detect_divergence`, `analyze` | recorded traces |

What is hard about it, and the properties that make each part correct:

* *Router, Batcher*: nested loops around awaits, an `except Exception` that must
  let cancellation through, spans closed at different places. Attempts follow
  the policy in order and in full; errors match attempts; the trace says what
  happened; a batch accounts for every request and leaves none behind.
* *Cache*: any call may run between a miss and the `set` that follows it. It is
  a map with a time-to-live for its readers, within its size, LRU.
* *Plan executor*: an index into a list that is spliced, a plan that may be run
  again. No step is lost or repeated, statuses tell how far it got, it ends.
* *Supervisor*: two delegation modes with different exception and cancellation
  behaviour, and threads that cancellation does not reach. Results tell what
  became of each step, a sequential run never overlaps steps, nothing starts
  after the end.
* *Indexer, Ingestion*: check-then-record on a durable set, with failures and
  crashes in between. What is recorded as seen has been stored.
* *Vector stores*: collections opened lazily by rival clients, calls that fail
  after they took effect, an index built lazily behind mutations. Every back end
  is one map, and a store that takes itself for connected is.
* *API, guardrails, RAG*: guards that block, redact, call out and raise, limits
  at three places. Only a text that no guard objects to gets through, and an
  answer cites the best passages that the limits and the filter allow.
* *Tracing, metrics*: context variables inherited by copy, one process-wide hook
  that everybody may replace, updates that stop half-way. Traces are trees, and
  the metrics add up, also against the replay analysis.
* *Model hub, training*: a log written after the fact, which may fail; one
  active MLflow run for the whole process. Hub and log tell one story, a tracked
  run belongs to one call and is ended with it.
* *Evaluation, summaries*: loops over calls that raise, which must be reported
  where they occurred. *Memory, budgets*: boundaries of what fits.

## 2. Modules

| Module | Models | Built on |
|---|---|---|
| `Completion` | abstract: what a caller of the router is promised | |
| `Router` | `Router.complete`, many calls | refines `Completion` |
| `Batcher` | `Batcher.batch_complete` | EXTENDS `Router` |
| `FreshMap` | abstract: a map with a time-to-live | |
| `CompletionCache` (`MCCompletionCache`) | the LRU cache and `cached_complete` | refines `FreshMap` |
| `PlanExecutor` | `execute` | |
| `Supervisor` | `Supervisor.run`, `Worker.run`, `ToolDispatcher.dispatch`, the thread pool | |
| `Indexer` (`MCIndexer`) | `Indexer.index` over shared stores | |
| `Ingestion` (`MCIngestion`) | `IngestionPipeline.ingest` | |
| `VectorMap` | abstract: one map from ids to entries, searched by rank | |
| `VectorStores` (`MCVectorStores`) | the six vector stores and the servers behind them | refines `VectorMap` |
| `Guardrails`, `Retrieval`, `Metrics` | the guards and their chain; retriever and rerankers; registry and `bridge_span`, as operators | |
| `Serving` (`MCServing`) | the API's handlers, tracing, the export hook, a traced batch | EXTENDS the three above |
| `Lifecycle` | `ModelHub` with its log, `FineTuner` with its trackers | |
| `Budgets` | token counts, `chunk`, `pack_to_budget`, `_percentile` as operators | |
| `Evaluation` | `compare` over `EvalHarness.run`, `BenchmarkRunner.run`, `Summarizer.summarize` | EXTENDS `Budgets` |
| `AgentMemory` | the short-term and long-term memories | EXTENDS `Budgets` |
| `Datasets`, `Grounding`, `Replay` | `Dataset`, the hallucination detectors, replay and divergence as operators | |
| `MCLifecycle` | the work around the agents, one kind per behaviour | EXTENDS the seven above |
| `InferenceProofs` | theorems about `Router`, `Batcher` and `CompletionCache` | EXTENDS the three |
| `VectorStoresProofs`, `ServingProofs`, `PlanProofs`, `IndexerProofs`, `IngestionProofs`, `SupervisorProofs` | theorems about one component each | the modules they name |
| `LifecycleProofs` | theorems about `Lifecycle`, `AgentMemory` and `Evaluation` | EXTENDS the three |

The grain of the asyncio modules is one action per stretch of code between two
awaits of one coroutine. Code that cannot raise or be interrupted in between is
part of the same action. Where code can raise, or another process can act,
between two synchronous calls (the embedder, a store, an upsert callback), each
call is an action. `PROJECT.json` maps each definition to its lines.

**Router.** `pc` is the await a call is suspended at: `calling` (the provider,
`_router.py:86`) or `sleeping` (the backoff, `:105`). `pos` is the pair of loop
variables; `invoked`, `slept` and `spans` record what the call did, `errors` is
`all_errors`, `outer` the routing span. `Start`, `RetryLater`, `Wake`,
`FailOver`, `GiveUp`, `ProviderAnswers` are the ways from one await to the next.
`Cancel` is a `CancelledError` at either await, `CancelUnstarted` one that
arrives before the coroutine's first step. An error is identified with the
attempt that raised it, a delay with its exponent. Closing a span cannot raise,
since the collector catches what its hook raises (`tracing/_collector.py`).
A negative `max_retries`, for which the inner loop never runs, is excluded by
the assumption `MaxRetries \in Nat`.

**Batcher.** Requests are the calls `1..N`; `gather` is modelled from asyncio's
documented behaviour (external): it collects when every child has settled, and a
cancellation of it reaches each unsettled child. The empty batch returns `[]`
without awaiting and is left out.

**CompletionCache.** `store` is the `OrderedDict` as a sequence of entries,
least recently used first. `get`, `set`, `clear` are atomic (no await);
`cached_complete` is two actions around its await. `version` stands for whatever
changes the answers of the model behind the router, so that a stale answer can
be told from a fresh one. `latest` and `recency` are history variables.

**PlanExecutor.** `steps`, `status`, `i`, `budget` are the code's variables;
`pc` is the await (`step` or `planner`). A step keeps the step of the caller's
plan it derives from (`origin`), which is what replanning passes on as the
description. Planners return at least one step: `LLMPlanner` falls back to one.
Tool and LLM steps are one await that ends in success or an error string.

**Supervisor.** The initial state chooses `parallel` and the kind of each
worker: calling the router (`llm`), an async tool, a sync tool (`thread`), or a
tool call that fails before any await (`bad`: unknown tool, refused arguments).
`task` is a step's delegation on the loop and `job` its job in the default
executor, which outlives the delegation if it is cancelled while the function
runs. `Escapes` is a `CancelledError` that a provider or a tool raises by
itself: `gather` turns it into an error result, the sequential loop lets it end
the run.

**Indexer.** Workers are threads that share in-memory stores, or processes that
share the SQLite file and the vector store; a step is what `index` does up to its
next call of the embedder or a store. `counted` is a history of what reports
said. The initial state chooses which stores are `durable`: hashes in SQLite or in
memory, vectors on a server or in memory. Where hashes are durable and vectors are
not, as in an example of `docs/rag/indexing.md:203-221`, a restart keeps the
hashes of vectors that are gone; `lost` is a history of those, and the properties
except them and nothing else. Workers share both stores: processes that share
the hashes while each has vectors in its own memory are not modelled. Threads
are not modelled below the level of a call: each call of a store is atomic.

**Ingestion.** Overlapping runs on one loop, which interleave only at the
connector's fetch; from a fetch to the next the run is alone but may raise, or
the process die, at the parser, the chunker and each upsert. `upserts` and
`aborted` are history variables, cleared with the hashes.

**VectorStores.** The initial state chooses the back end. `InMemoryVectorStore`
and `FAISSVectorStore` run without an await: an operation is a step, and FAISS
keeps `index` (what the built index ranks) apart from `store` with `dirty`
between them. For the remote stores `ready` and `dims` are `_ready` and
`_dimensions` of each user's object, `call` is the call a user is in with the
server call it makes next (`at`), and `server` is what all users share: open,
create, fetch, insert or replace, look, remove, count, query. `ServerCallFails`
loses a call or only its reply (`Writes` says which calls may have been carried
out), `Restart` makes a new store object, `Refresh` is Elasticsearch making
writes visible to searches. The servers are external; what they do is what the
stores' comments and error handling rely on. In `VectorMap` the traits of a back
end say which liberties it takes: searches that lag, operations that look first
and act later, a store only its own process sees. The in-process stores search
exactly (`TopK`). The servers search approximately, by IVFFlat
(`_pgvector_store.py:137-142`) or HNSW (`docs/rag/vector_store.md:17,291,351`):
`Nearby` lets such a search miss any entry, also all of them, and `VectorMap`
promises of it only that the hits are entries of the map, once each, in order and
no more than asked for. How good a server's recall is, nothing here says.

**Serving.** `pc` says where a task is, `open` is its stack of open spans and
`birth` the span it inherited with its context; `collected` and `hook` are the
global collector. A handler runs without an await from the request to the
provider's call (`Chat`), or to its end (`RagAnswer`: the pipeline is
synchronous although the handler is `async`), and is turned away by
`Unconfigured`, `Blocked` or `GuardFails`. `Job` is application code that opens a
span and awaits `batch_complete` for two `Parts`. Retries are left to `Router`:
here each candidate is tried once. Finishing a span calls the hook, which is
`bridge_span` once a `Router` has been constructed (`NewRouter`); `SetHook`,
`ResetCollector`, `ResetRegistry` are what anybody in the process may do in
between. A guard is what it looks for; what a scorer or the NeMo rails say is
chosen freely, also that they raise.

**Lifecycle.** The hub is `backends`, `versions`, `builds`, `active` (its four
dicts) and `changes`, what the logger was told. `pc[t]` is the next call that a
`FineTuner.run` makes of the trainer or the tracker; `mine` is its `run_id`,
`current` MLflow's active run, to which `MLflowTracker` writes whatever run it is
told. `excused` marks runs that MLflow left open by raising in `start_run` after
opening or in `end_run` before closing, which no caller can repair.

**Evaluation, AgentMemory.** One step per answer of the model, by kind of job;
`calls` is a history of the answers. `compare` evaluates the variants one after
the other with the same harness. The memories have atomic operations; `added` is
a history. Scores of a search are fractions, compared by cross multiplication,
where the code has floats. A query may hold words that no item has.

**Budgets, Datasets, Grounding, Replay** are pure. A word is its length, a text a
sequence of words, a sentence a set of tokens; a list sorted by Python is sorted
stably. `MCLifecycle` states what they compute as named assumptions, which TLC
evaluates over all small inputs: `PackIsLongestPrefix`, `PercentileIsNearestRank`
(n to 60, all percentiles), `SplitKeepsExamples`, `IssuesAreComplete`,
`ProdigyTellsAnswers`, `GroundingIsMonotonic`, `JudgesAreClamped`,
`DivergesUnlessReplayed`, `RecencySurfaces`.

## 3. Runs

| Run | Instance | Shows |
|---|---|---|
| `batcher` | 3 requests, 2 candidates, 2 retries | order and completeness of attempts and backoffs, trace, results, silence after cancellation, refinement of `Completion` with its liveness, termination |
| `cache` | 3 keys, 2 clients, size 2, TTL 1, time to 2, 2 versions | size, LRU eviction, no needless miss, refinement of `FreshMap` |
| `plan` | 2 steps, 2 replannings of up to 2 steps, 2 executions | statuses, no lost or repeated step, span, decreasing measure, termination |
| `supervisor` | 3 steps, 2 workers, 1 pool thread | results, no overlap, nothing afterwards, termination |
| `indexer` | 2 workers, documents `<<A, B>>` and `<<B>>`, each store durable or in memory | recorded and reported chunks are stored and stay, but for what a restart takes where only the hashes are durable |
| `ingestion` | 2 runs, feed `<<A, B, A, Empty>>`, A of 2 chunks, durable store | at most one upsert per chunk, completeness unless cut short |
| `stores` | six back ends, 2 users, 2 ids, vectors of two lengths and two similarities, `top_k` to 2 | refinement of `VectorMap`, with exact searches in process and approximate ones of a server; connected means there is a collection |
| `serving` | 1 client, a job of 2 parts, 2 models, 5 set-ups of guards, pipeline and reranker, 2 interferences | only cleared text is sent, the audit is true and refusals have a reason; answers cite the best passages; traces are trees; metrics add up |
| `lifecycle` | 2 names, versions, back ends and tuners, 3 hub operations, 2 tracked runs; comparisons of up to 3 variants and 6 calls, benchmarks of 3 tasks, texts of 4 words; 5 items in short-term and 3 in long-term memory, queries of up to 2 and of 20 to 22 words | hub and log agree, tracked runs end; evaluations and summaries tell every call; memories keep the latest and find the best |
| `indexer_revised`, `ingestion_seen`, `cache_refresh` | small; the last as `cache` | the three divergences of section 5 |

**Bounds.** Two candidates with three attempts each have all the transitions of
the loops (first, middle and last retry; failover; last candidate), and three
requests let one fail, one succeed and one be cancelled at the same time. A cache
of two with three keys evicts, and has an entry that is neither the oldest nor
the newest; the clock goes one past the expiry of an entry. Two replannings of a
two-step plan splice into and after a splice; a second execution starts from
every end of the first. One thread makes sync tools of a parallel run queue. The
documents of `indexer` share a chunk, so two workers race for the same hash
under different ids, and the two-chunk text gives short embeddings something to
drop. The feed of `ingestion` repeats a content and holds one without chunks.
Named bounds in guards: `MaxTime` and `MaxVersion` (cache), `MaxNew` and
`MaxRuns` (plan), `MaxSteps` (supervisor), `MaxChunks` (indexer), `MaxK`
(stores), `MaxMeddling` (serving), `MaxOps` and `MaxRuns` (lifecycle),
`MaxVariants`, `MaxRepeat`, `MaxCalls` and `MaxTasks` (evaluation), `MaxShort`
and `MaxLong` (memory).

Two users are enough for a store's races, which are between one that looks and
one that acts; two ids give rankings an order and a tie-break, two lengths of
vectors the refusals. In `serving` the request overlaps with both parts of the
batch; a second client would only repeat what a part does, since the handlers
themselves do not await between the guards and the provider. The five set-ups
hold each type of guard, reranker and limit at least once, the passages a filter
that bites inside `top_k` and a reranker that disagrees with the store. In
`lifecycle` the second tuner and the version log compete with the first for
MLflow's one active run; five items of 1 to 6 tokens in a budget of 5 need the
eviction of none, one, several and all; three long-term items with two
timestamps and two words tie in either, and among 22 words of a query one is worth
less than the lead of the newest item. The three kinds of work share no state,
so a behaviour does one of them.

`SYMMETRY` is used in `cache`, `stores`, `serving` and `lifecycle`, whose
properties are all safety properties and treat the permuted values alike.
State counts: `serving` 372 000, `stores` 375 000, `lifecycle` 758 000; each
takes about a minute with two workers.

**Fairness.** Assumed of the event loop (a ready task is resumed, a due timer
fires), of the thread pool (a queued job is taken when a thread is free) and of
the outside world (a provider, tool or planner returns or raises). The last is a
real assumption: neither the router nor the dispatcher sets a timeout. No
cancellation, crash or clock tick is ever required to happen. `Batcher` has weak
fairness per request, since tasks are scheduled independently; `PlanExecutor` on
the progress of its one coroutine; `Supervisor` per delegation, per pool job and
on the supervisor's own coroutine.

**Deadlock** is checked in every run but `lifecycle`; the actions `BatchDone`,
`NoMoreRuns`, `Finished` and `Terminated` mark the states in which the program
has really come to its end. In `lifecycle` the end is that of the bounded
operations, and a finished evaluation has nothing left to do.

`TypeOK` of `CompletionCache`, `Supervisor`, `Indexer`, `Ingestion`,
`VectorStores`, `Serving` and `Lifecycle` documents the variables and is not an
invariant of a run; it is a theorem for all of them but `Supervisor` and
`Lifecycle`, whose proofs use the part of it that they need (`Typed`,
`HubTyped`).

Each property of a passing run has a mutant in `PROJECT.json`: an alternative
definition in the module, commented `Bug:`, under which TLC finds that property
violated.

## 4. Proofs

All proofs are for every value of the constants that satisfies the assumptions
named `...Assumption` in the modules (one or two in each; TLC evaluates them in
the runs). They say what kind of thing a parameter is and, where a proof needs
it, that the values which stand for nothing (`None`, `Nothing`, `NoSpan`) are not
confused with others. None restricts how the components are deployed or how long
a query, a text or a suite is. What they exclude is arguments out of range: negative
numbers of retries, replannings, results or tokens, a chunk limit of 0, and a
serving policy, a supervisor or a thread pool with nothing in it.

The pattern is the same throughout: an invariant that implies the property and
is inductive, one lemma for each group of actions, a temporal step at the end.
What makes the invariant inductive is what is told here.

* **`InferenceProofs`**, router. `TypeCorrect`: types, with `TypeInv` adding what
  the proof needs about positions. `AttemptsInOrder`: the
  inductive invariant `OrderInv` numbers the attempts of the policy (`Position`)
  and says that the k-th provider call of a request is the k-th attempt, that the
  current one is the last made, and that the errors are the calls before it;
  order and accounting are read off from that. The property alone
  is not inductive, since it says nothing of the attempt in hand.
  `RaisesOnlyExhausted` needs the backoffs too: `BackoffInv` says that the number
  of completed sleeps is a function of the place of the attempt in the policy,
  and what each exponent is (`BackoffPlace`); that a call which raises has come
  to the last place then gives the errors and the delays at once.
  `TraceTellsOutcome`: on top of `OrderInv`, each call has one finished span per
  provider call but the one in flight, and closing that one brings the trace level
  with the calls (`SpanInFlight`), whichever way the attempt ends.
  `RouterImplementsPromise`: from the same invariant each step maps to an
  attempt, a settlement or a stutter of `Completion`, the only arithmetic being
  that the position never exceeds the budget.
* **`InferenceProofs`**, batcher. `BatchIsRouter`: a batch only does steps of the
  router, so the theorems above hold of it. `BatchTellsEveryRequest`: the
  invariant adds that a settled request stays settled with its outcome once the
  list exists. `CancelledBatchIsSilent`: the action property, by cases on the step.
* **`InferenceProofs`**, cache. `CacheIsBounded`, `CacheEvictsLeastRecentlyUsed`,
  `CacheMissesAreNeeded` and `CacheIsFreshMap` (the refinement) share
  `CacheInv`: keys are distinct, entries stand in the order in which the history
  `recency` names their keys (`OrderedBy`), and each holds what was last set for
  its key (`StoresLatest`). The size alone is not inductive, because replacing an
  entry keeps the length only if its key occurs once; what `OrderedBy` says makes
  the first entry the least recently used. `CacheMissesAreNeeded`: when a set pushes
  an entry out, the `max_size` entries that stay were used since; the keys used
  since only become more until the key is used again (`SinceGrows`).
* **`VectorStoresProofs`**. `ConnectedStores` and `StoresKeepThePromise`, the
  refinement of `VectorMap` by all six back ends. `IndInv` says at which server
  call each kind of operation can be and whether its user is connected there
  (`CallsFit`), that FAISS's index is that of its store or marked (`IndexUpToDate`),
  that all but Elasticsearch show what they hold (`ShownIsStored`), that a
  connected user has a collection (`ReadyExists`), that FAISS holds vectors of one
  length and that what is stored is finite, so that the best entries exist.
* **`ServingProofs`**. `TracesStayTrees`: the invariant `TreeInv` says of each task,
  by the place it is at, which spans it has open, where they hang and from which
  span its context came; and of a finished span, that its task is past it. The
  parts of a batch are the point: their root is a span of another task, which
  stays open while any of them runs. `ResponsesJustified`: `JustInv` adds the
  types (`ServingTypes`) and that what a client was sent, cited and told fits the
  outcome of its chain of guards. A chain is a recursive function; that a
  result of k guards comes from one of k - 1 (`RunOfChain`, `ChainFacts`) is by
  induction. `AnswersStayGrounded`: `GroundInv` adds that what is cited is what the
  pipeline computes for the question; that this is grounded is about operators
  only, first what the filter leaves of the hits (by induction on them), then what
  each reranker and each limit makes of that. A reranker sorts, see below.
* **`ServingProofs`**, metrics. `MetricsAddUp`: `MetricInv` joins `TreeInv` with
  what the registry holds, said through `Tally(reg, W)`, the sum of the counters
  whose keys are in W: the counters agree with each other (`Adds`), and while nobody
  meddles they count the collected spans (`Tells`). `OnwardCounts` is one update of
  a key, `BridgeCounts` the up to seven of one span, also when the bridge
  stops at a bad attribute, and `ExportCounts` with or without a hook. Spans
  can be counted because none is collected twice, which is `TreeInv`: who
  finishes a span had it open. `MetricInvAddsUp` relates tallies over keys, tallies
  over spans and the sums over traces of the property by
  reading each as the size of a union of disjoint sets (`SizeOfCells`,
  `SumOverTraces`); traces partition the spans (`TracesPartition`).
  `ServingAssumption` says for it that a token count is a natural number or
  `Malformed`, since `Counter.inc` is for values that are not negative.
* **`PlanProofs`**. `IndInv` joins the types, `StatusTellsProgress` and
  `SpanTellsOutcome` with `LoopPosition`: while `execute` runs, the plan is
  running and the index is inside it, without which the statuses at the index
  mean nothing. `BeginStepFacts` shows once that the head of the loop
  establishes the invariant; `ConcatThree` and `SpliceFacts` say where the steps
  are after a replanning. `DoneWorkStays` and `LoopsUseFuel` follow by cases on
  the step; with `FuelIsNatural` the latter bounds every execution by a number
  known at each of its points, so that `ExecutionEnds` needs only that awaited
  calls return. `NoStepIsLost`: the steps' origins stay onto and in order
  (`InOrder`), because the map of a spliced plan to the old one (`Before`) is
  monotonic and onto.
* **`IndexerProofs`**. `RecordedIsStored`, `ReportedIsStored`,
  `StoredChunksStay`: `IndexInv` says that a chunk id holds the content its
  document has there or nothing, that what is recorded, counted or held in
  `new_hashes` is stored or in `lost`, and that each worker's pending chunks are of
  the text it indexes. Stable documents make upserts of rival workers agree. The
  theorems are of every deployment; that `lost` is empty unless durable hashes go
  with vectors in memory is part of `SeenIsStored`.

* **`IngestionProofs`**. `NoChunkTwice`, `RecordedIsComplete`: neither property
  says how far the document at hand is. `OneHandles` says that one run at most is
  between two fetches, `AtHandOK` that exactly the first `chunk` chunks of its
  document have been upserted, once, and `UnseenUntouched` that what is not
  recorded has no upserts, so that recording it starts from zero. `Moves` treats
  the steps of runs that handle nothing together.
* **`SupervisorProofs`**. `StepsDoNotOverlap`, `ResultsAreTrue`, `OverIsOver`
  share an invariant: `InOrder` (a sequential run begins a step only when those
  before it have ended by themselves), `JobsFollowTasks` (a job is queued only
  while a worker awaits it, and ends as its worker does), `Phases` (what steps
  can be in each phase of the run) and `Returned`. `TaskMoves` covers all the ways
  in which one step goes on; that no queued job is left when the run is over
  comes from `Phases` and `JobsFollowTasks` together.
* **`LifecycleProofs`**, training and hub. `TrackedRunsEnd`: `RunsHaveOwners` adds
  that an idle tuner has no run and that only MLflow has an active one;
  `TargetIsMine` is the core: although `MLflowTracker` ignores the run's id, it
  writes to the caller's. `HubTellsOneStory`: `HubAndLogAgree` is inductive with
  the types; the work is in what one change more makes of the log of its name
  (`LogOfChanged`) and of all others (`LogOfOthers`), in any order of registrations,
  rollbacks and logger failures.
* **`LifecycleProofs`**, memory. `MemoryKeepsTheLatest`: `HoldsTheEnd` says that the
  buffer is the end of what was added, `FitsAndIsFull` that it fits, as far as a
  single item can, and that each longer end does not: the property names only the
  longest end that fits, which does not say that an item evicted earlier will not
  fit again. That `add` evicts exactly enough (`EvictsEnough`) is the least-number
  principle; the running total is right because sums of parts are differences of
  sums of beginnings (`SumOfParts`).
* **`LifecycleProofs`**, summaries. `SummaryIsOfTheText`: `Collected` describes what
  `chunk` has after n words, for every n: its chunks and the current one are the
  first n words, none too large unless it is one word and none that the next
  word would have fitted into. `AsksInOrder` carries that through the calls of
  `summarize`.
* **`LifecycleProofs`**, evaluation. `ReportsAreOfTheCalls`: `CompareInv` relates the
  reports so far, and the results collected for the next, to the calls so far: the
  k-th run of the v-th variant is call (v - 1) n + k, where n is the number of
  runs, and `OneMoreCounts` is one call more. `BenchInv` does the same for a
  benchmark; its percentile is one because at least as many latencies as the rank
  are at most the value at the rank, and fewer are below it (`RankCounts`).
* **`LifecycleProofs`**, searches. `SearchIsOfTheBest`: `LongInv` says that nothing is
  forgotten, the rest is about `Search`. Its scores are fractions, which cross
  products order (`FractionsAreOrdered`), and that recency is worth less than a tenth
  of a query of any length is an inequality about such products
  (`RecencyIsWorthATenth`). Two sorts and a selection compose to an injection from the hits to the memory (`SearchIsOrdered`),
  from which the copies of equal items are counted (`SearchIsBest`).
* **Sorting.** `SortedAt` defines Python's stable sort by places: that of an element
  is the number of those that come no later. For a strict total order these places are 1
  to n, each taken once, since they make an injection between sets of one size
  (`PlacesAreTaken`), so that the sort permutes and orders (`PlacingSorts`).
  `ByScore`, `Ranked`, `ByTime`, `Filtered` and the percentile are instances; their
  orders are made total by the position, which is what stability means.

**Induction over data.** The library's induction theorems take a predicate as
parameter, which none of the provers used here can instantiate. `SetInduction`
(in `ServingProofs` and `LifecycleProofs`) takes a set instead: it follows from
the well-foundedness of the naturals, and a predicate over them becomes the set
of the numbers for which it holds. With it, sums, chunks, flattened sequences and
chains of guards, written as recursive functions, are reasoned about for any
length. The function that such a definition denotes is first shown to exist.

**Only model-checked:** liveness (`BatchEnds`, `ExecutionEnds`, `RunEnds`, the
fairness part of `PromiseSpec`), which the prover does not do. Each invariant
and each action property of a passing run is a theorem. The pure helpers are
checked as named assumptions of `MCLifecycle` only, and the properties of the three
runs that expect a violation are not theorems, of course.

## 5. Findings

* `ingestion_seen`: `data/ingestion/_pipeline.py:105` records the hash before the
  document is chunked and upserted. After an exception there, every later run
  skips the document, though its chunks were never upserted; the docstring at
  `:43-44` says of `upsert` "Called once for each non-deduplicated chunk."
  `Indexer` has the order right: it records after the upserts.
* `indexer_revised`: `rag/indexing/_indexer.py:133` skips a chunk by content
  alone. A document changed from A to B and back keeps the vector of B;
  `docs/rag/indexing.md:112`: "This is critical for correctness when content is
  updated: the old vector is simply replaced in-place."
* `cache_refresh`: `infra/cost_latency_optimization/_cache.py:114` stores whatever
  the await returns. An ordinary call that missed before a `force_refresh` began
  may answer after it and overwrite the refreshed entry with an older model's
  answer, which later callers get until it expires.
  `docs/infra/cost_latency_optimization.md:199`: "Allows callers to obtain a
  guaranteed-fresh response (e.g., after a model version change) while still
  populating the cache for subsequent callers"; the tradeoff it names is that of
  two concurrent refreshes only.

Other places where the code and a description of it part, which no run shows
separately because they are single assignments or outside the models:

* `rag/vector_store`: a remote store answers searches with nothing and `len` with
  0 until its first `upsert`, also after a restart with a full collection
  (`_pgvector_store.py:236` and its siblings). `VectorMap` allows it, as `met`.
* The remote stores remember `_dimensions` before the first call of the server
  succeeds, so a failed first upsert of a wrong length refuses all later ones.
  The pgvector store never rolls back a failed transaction; `broken` models it.
* `infra/model_hub/_hub.py`: after `register_version`, `register` changes what
  `get` returns but not the active version; `plain` excuses those names.
* `FineTuner._register_artifact` is documented to register with the hub; it never
  calls it.
* `rag/pipeline/_pipeline.py:53-54` documents a default for `top_n` that `:92`
  leaves to the reranker.
* `RedactFilter` is said not to block, but the chat route answers 400 to a
  redacted text, as to a blocked one. Guards "must never raise"
  (`docs/infra/guardrails.md`), yet `EmbeddingFilter` and `NeMoGuard` pass on what
  their back ends raise.
* Token counts that are no numbers end `bridge_span` half-way, make `analyze`
  raise, and turn a chat response into a 500.
* The RAG handler is `async` but calls a synchronous pipeline: other requests
  wait for it (`serving/api/_routes.py:127`).
* With a threshold of 0, `EvalHarness` counts a call that raised as passed; the
  benchmark runner does not.
* `Dataset.from_prodigy` keeps ignored annotations, and rejected ones that have a
  label, with that label. `split` keeps examples apart, not equal texts.
* `core/planning/_executor.py:82` does not reset `error` when a step of a plan that
  failed before succeeds; `core/planning/_models.py:46`: "error: Error message on
  failure, else ``None``."
* `evaluation/benchmarking/_runner.py:122` computes the percentile for a suite of
  any size but an empty one; `_models.py:129`: "95th-percentile latency (0.0 if fewer
  than 20 tasks)." `docs/evaluation/benchmarking.md:177` calls that a convention and
  admits that the code does not enforce it. `EvaluationTellsEveryCall` is about
  what the code does and `:156` says, the nearest-rank percentile. The suites of
  the run have at most three tasks, for which that is the slowest; ranks up to 60
  are in `PercentileIsNearestRank`, and `ReportsAreOfTheCalls` is of any size.
* `docs/rag/indexing.md:203-221` shows hashes in SQLite with an
  `InMemoryVectorStore`. A restart keeps the hashes and loses the vectors, and every
  later call skips the chunks as indexed, although
  `docs/infra/cost_latency_optimization.md:203` speaks of "ensuring the two writes are
  consistent". `lost` in `Indexer` is what such a restart hides.
* `docs/core/agent_memory.md:117`: in a search of long-term memory "recent items with
  even partial keyword matches can surface over older but more complete matches".
  They can in queries of more than ten distinct words only: the weight of recency is
  at most 0.1, a word of the query is worth 1/|query|. `SearchFindsTheBest` says
  how far it goes, `RecencySurfaces` that it happens.

## 6. What is not modelled

* Text: prompts, messages, parsing, formatting, serialization of traces and of
  metrics. Costs, standard deviations, gauges and running sums (`BudgetTracker`).
* Similarity scores other than their order, which for equal scores of floats may
  differ from that of the fractions in `AgentMemory`; the recall of an approximate
  search, which may miss anything; processes that share durable hashes while each
  keeps vectors in its own memory; external libraries beyond what the callers see of them.
* Memory models of threads: a call of a store is atomic, and the hub, the
  registry and the memories, which have no locks, are used from one thread.
* Custom planners that return an empty plan, and custom workers that raise other
  than by cancellation, which their protocols forbid.
* File and subprocess I/O: loading traces and datasets, DVC, configuration.
* The built-in benchmark suites, which are data; model back ends, embedders,
  parsers and prompt templates, which their users see as a nondeterministic
  answer, refusal or failure.
* Two hazards have no property: a provider that never answers (no timeout exists
  to be modelled) and the trailing chunks of a document that shrinks (nothing
  says that they should be deleted).

## 7. Plan

Done: the router, batcher, cache, plan executor, supervisor, indexer and
ingestion; the vector stores as one map; API, guardrails, RAG, tracing and metrics
together; model hub and training; evaluation, memories and the pure helpers;
proofs of every safety property of every passing run, and of the refinements.

Left, in order of importance:

1. Compose `VectorStores` with `Indexer`, whose `store` is an atomic map so far.
2. Liveness of a remote upsert under a server that answers in the end.
3. `BudgetTracker` and the registration of tools during a run.

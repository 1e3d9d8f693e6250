# TLA+ models and proofs of the sales bot

The sales bot is a FastAPI service that answers Azerbaijani product and policy
questions with an Azure OpenAI model, typed tools over a Qdrant index, a JSONL
catalog, PostgreSQL for conversations, and a Next.js chat page. This directory
holds TLA+ modules of its core, TLC configurations that check them on small
instances, and TLAPS proofs of the results that matter most. Paths such as
`app/db/repositories.py` are paths of the repository.

## 1. Inventory

| Component | State it keeps | Operations | Talks to | What makes it correct |
| --- | --- | --- | --- | --- |
| Session locks `app/agent/locks.py` | one `asyncio.Lock` per session id, per process | `acquire` (refuses instead of waiting), release on every exit | chat route | a lock is taken exactly while one request of the process is inside its turn |
| Chat and session routes `app/api/routes_chat.py`, `routes_sessions.py` | none (locals of a request) | `POST /v1/chat`, `POST /v1/sessions` | input gate, locks, repository, runtime | the HTTP status tells the outcome; every accepted request ends |
| Conversation repository `app/db/repositories.py`, `models.py` | `chat_sessions`, `agent_runs`, `chat_messages` | create/get/scrub session, `start_run`, `get_final_history`, `store_tool_exchange`, `complete_run`, `fail_run`, `get_debug_run` | PostgreSQL | one running run per session, dense sequence numbers, whole turns, no lost memory, atomic completion |
| Lifespan and scrubber `app/main.py` | application state, one background task per process | startup checks, startup scrub, periodic scrub | repository, indexes | the context of a lapsed session finally disappears; a stale index is never called ready |
| Agent loop `app/agent/runtime.py` | locals of a run: rounds, tool count, transcript, last results | `run`, `_execute_tool`, answer guards, `_mark_failed` | repository, model, tools, plan cache, memory | budgets, paired transcript, always ends with an answer or a recorded failure, answer agrees with the evidence |
| Semantic plan cache `app/agent/runtime.py` | an `OrderedDict` of 256 plans shared by all sessions of a process | lookup, insert, evict, prune | agent loop | no plan of another session, of an expired one or an older one of the same key is replayed |
| Session memory `app/agent/memory.py` | the memory JSON in `chat_sessions.context` | load, merge, replace, preserve, fit into 8192 bytes | agent loop | bounded, a revision per semantic change, nothing unverified |
| Explanation, presentation, prompt `app/agent/explanation.py`, `presentation.py`, `prompt.py`, `context_builder.py` | none | pure formatting of a run's results | agent loop | - |
| Tool registry and tools `app/tools/*` | registered tools, readiness | `specs`, `execute_with_trace` with timeouts, argument schemas | retrieval | typed errors, a timeout never blocks the loop |
| Product retrieval `app/retrieval/qdrant.py`, `semantic_plan.py`, `app/tools/catalog.py` | the loaded catalog | plan validation, filter compilation, lanes, ranking, alternatives | vector store, embeddings | hard constraints are never weakened, fallbacks in order |
| Document retrieval `app/retrieval/documents.py`, `app/documents/*` | corpus, baseline | search, threshold, readiness | document store | not found and unavailable are never conflated |
| Vector stores and indexing `app/vectorstores/*`, `app/indexing/*` | Qdrant collections and an alias | build, check, promote, document sync | Qdrant | the alias is only moved to a checked, complete collection |
| Model and embedding clients `app/llm/*`, `app/embeddings/*` | an embedding cache file | one retry, validation, cache | Azure | a retry never duplicates a result, the cache never answers for another model |
| Health and debug routes `app/api/routes_health.py`, `routes_debug.py` | none | read only | all | - |
| Frontend `frontend/components/ChatApp.tsx`, `frontend/lib/*` | chats in `localStorage`, the pending request | send, new chat, switch, load | backend | an answer lands in the chat it was asked in; storage limits hold |
| Catalog generation, evaluation `app/catalog_generation.py`, `app/evals/*` | files | offline tools | - | - |
| Migrations `alembic/` | schema | upgrade | PostgreSQL | - |

The behaviours that are hard here: several server processes share one database
and nothing else, so the in-process lock says nothing about the other process;
a turn spans many transactions with provider calls between them; the session
may lapse in the middle of a turn; a process may die in the middle of a turn;
a commit may succeed while its caller sees an error.

## 2. Plan

Modules in the order they are written; a later one builds on the earlier.

1. `Conversation`, `ConversationStore`, `StoreTransactions`, `ChatService`:
   the conversation store and the chat endpoint (done).
2. `StorageProofs`: of the store, type correctness, the running-run check, the
   sequence numbers, contiguous turns, no lost memory, refinement;
   `ChatServiceProofs`: locks, owners of runs, refinement of the chat endpoint,
   what a reply tells, the history of the model (done).
3. `Evidence`, `AgentTurn`, `AgentLoop`: rounds, tool budget, protocol repair,
   guards, cards (done, proved in `AgentProofs`).
4. `PlanCache`: the shared LRU of semantic plans under concurrent sessions
   (done, proved in `AgentProofs`).
5. `SessionMemory`: merge, replace, preserve and fit of the memory (done, proved
   in `AgentProofs`).
6. `VectorIndex`: building, checking and promoting an index next to running
   servers; document sync (done, proved in `StorageProofs`).
7. `Recursion`, `Lists`, `Expression`, `Catalog`, `SemanticPlan`,
   `PlanCompilation`, `ProductRanking`, `ProductRetrieval`: product plans, what
   they compile to, the calls to Qdrant, ranking and alternatives (done);
   `ExpressionProofs`, `PlanProofs`, `ProductRetrievalProofs`: what is searched
   for was said, what is shown meets the conditions, what is compared is shown
   (done).
8. `EmbeddingClient`, `ToolExecution`: timeouts, threads that go on after their
   timeout, retries, the cache of vectors on disk (done, proved in `ClientProofs`
   but for the liveness of calls). The retry of the model client is
   `RetryRequest` of `AgentLoop`.
9. `BrowserChat`: the page, its storage, two tabs and the requests in flight
   (done, proved in `ClientProofs`).

Abstract specifications: `ConversationStore` for 1, `AgentTurn` for 3; for 7,
the set of products that satisfy the filter of a plan (`Matches`), against which
the searches are checked.

## 3. Modules

### Conversation

The data the other modules share. A chat request and the run it creates are one
identity (`Runs`): the route draws one `request_id` and `start_run` inserts at
most one row for it. A memory is its revision and the run that wrote it. The
context is the memory and the run whose ids are in `last_product_ids`. A
message row is its run and its kind.

### ConversationStore

What the store promises: turns one after the other. `StartRun`,
`StoreToolExchange`, `CompleteRun`, `FailRun`, `CreateSession` and `Expire` are
atomic. `CompleteRun` may only store a memory that continues the one it
replaces, or overwrite a context that was scrubbed meanwhile.

### StoreTransactions

The same calls at the granularity of SQL statements under READ COMMITTED:

| Code | Action |
| --- | --- |
| `get_session` in `start_run` | `Preflight` |
| `now = datetime.now(UTC)` before the transaction | `ReadClock` |
| `SELECT ... FOR UPDATE` | `LockRow` |
| expiry and running-run checks | `Check` |
| `_next_sequence` | `NumberRows` |
| inserts and commit | `CommitStart`, `CommitExchange`, `CommitComplete` |
| any exception inside | `Rollback` |
| `fail_run` | `MarkFailed` |
| the scrubbing `UPDATE` | `Scrub` |

There is no in-process lock: the requests stand for different processes.
`Inserted` and `Fresh` model the unique index, so that a collision would block
the insert and show up in `DenseSequence`.

### ChatService

The endpoint with its processes. Each repository call is one step, which
`StoreTransactions` justifies. `AcquireLock` is `SessionLockManager.acquire`;
`Answer` is the end of the route, where the context manager releases the lock;
`Refuse` is an answer without the lock. `Faults` selects what may go wrong:
`crash` (a process dies; its locks and requests are gone, its rows stay),
`database` (a call fails and rolls back), `lostAck` (a call commits and its
caller sees an error), `provider` (the loop raises). `Restart` scrubs once and
repairs no run, as `lifespan` does.

### Evidence, AgentTurn, AgentLoop

`Evidence` classifies tool results and answers as the runtime tells them apart.
A comparison of no entities answers `matching_products` with no item; that is the
result `empty`, which passes for a match until cards are made and a sentence is
chosen: there is nothing to show, and the degraded answer says so. `AgentTurn` is
the promise: evidence is gathered within a budget and on record before the
answer, and the last word of each tool decides what the answer may be.
`AgentLoop` is `AgentRuntime.run` between its awaits:

| Code | Action |
| --- | --- |
| history and context before the loop | `LoadContext` |
| an attempt of `llm.chat` that is repeated | `RetryRequest` |
| a reply in words | `AnswerDirectly` |
| a reply that breaks the protocol | `BreakProtocol` |
| the retry without tools | `Repair`, `Degrade` |
| one tool call, counted | `CallTool` |
| `_execute_tool` and what the loop remembers of it | `ExecuteTool` |
| `store_tool_exchange`, next round | `StoreExchange` |
| `complete_run`, product cards | `CompleteRun` |
| an exception of the provider or of the database | `ProviderError`, `RepositoryError` |
| `_mark_failed` | `MarkFailed` |

The model may reply anything, whatever tools it was offered. Three error paths
of the code cannot be taken: `model_round_limit` (that is `NoRoundLimit`), the
budget check before a tool call, and the protocol error at `runtime.py:441`,
whose condition the protocol repair has already excluded. The session memory
and the plan cache have modules of their own; the explanation and the debug
trace are data.

### PlanCache

One process, its `OrderedDict` and several sessions with one run each (the row
lock allows no more). A lookup, the awaited product search and the insertion
are separate steps, so the runs of other sessions come in between. The
dictionary is a set of entries and the order of their keys as a set of pairs
(`older`): `Use` is `move_to_end`, `Insert` an assignment with the eviction of
the oldest key. An entry is its key, its owner and its plan; it carries the
expiry of its owner's session, which never changes. `latest` is a history
variable: the plan each session was last answered from, by key. That the cache
never exceeds its limit is how `Insert` is written, not a property.

### SessionMemory

The memory over the turns of one session. `ProductTurn` merges, replaces or
preserves; `DocumentTurn` touches the topic only; `OtherTurn` keeps the memory.
`Fit` trims in the order of `_fit_memory`, and `Update` is the runtime's reaction
to an update that cannot be built. `Active` is the state that a merge continues:
the pending intent if there is one, else the confirmed state. A turn may name
any id for removal that the model was shown (`Removable`), those of fact
questions and of the pending intent included, although a merge only removes
what `Mergeable` lists. Text is measured, not kept: a summary is its
length and the serialized size counts items. A range is two conditions on one
field, and a fallback may name a condition twice. `questions` stands for
`fact_questions` and `last_fact_fields`, which are treated alike. Left out: what
is only copied along with a state (operation, ids on display, names). Lists are
filtered by choosing positions (`Chosen`): `Kept`, `MergeByField` and `Union`, the
dictionary filled from both lists, say which positions stay. `PlansAssumption`
says that a plan is seven lists, `MemoryAssumption` that the validated plan of a
turn keeps to the limits, as `ProductQueryPlan` does before the memory sees it.

### VectorIndex

The Qdrant collections, the command line tools and the startup of servers. A
release is one state of catalog and documents on a disk; a point is the release
it was written for, which stands for the versions and checksums in its payload.
Qdrant and the tools share nothing but the collections, so every remote call is
a step:

| Code | Action |
| --- | --- |
| `index_catalog`, `index_documents` up to the vectors | `StartIndex` |
| one `upsert` of a batch | `Upsert` |
| a page of `_all_records`, the `delete` of stale chunks | `ListPage`, `DeleteStale` |
| a page of `status` in `index`, `promote` and the calibration | `CheckPage` |
| `promote`: the check, `update_collection_aliases` | `StartPromote`, `SwapAlias` |
| `document_retrieval --update-baseline` | `StartCalibrate`, `WriteBaseline` |
| a tool that dies, a call that fails | `Abort` |
| `lifespan`: both checks page by page, the baseline | `StartServer`, `ScanProducts`, `ScanDocs`, `LoadBaseline` |
| a check that times out or fails | `NoProducts`, `NoDocs` |

A scroll goes through the points in the order of their ids, so a page is a
range of items and may end anywhere. A collection that does not exist and an
empty one are the same to every check. What a server finds at startup is what
`/health/ready` reports for as long as it lives. Document search is enabled;
without it the document steps do not happen.

A tool is given a collection name or works on the configured one, by default the
active alias (`config.py:41`), as the servers do. Qdrant resolves a name at every
call (`Where`), so `index` without `--collection-name` writes in place into
whatever the alias names at that moment, for any release, next to servers and
promotions; where nothing answers to the name it creates a collection of that
name, after which no promotion gets its alias. Products are never swept, so a
collection may hold points of several releases; documents are indexed in place
and swept. `IndexAssumption` rules none of this out: it gives the constants their
types and keeps the names apart.

What may be promised next to such jobs is said in the properties, with history
variables. `promoted` is the release of the last promotion, until a job for
another release writes in the collection it made active. `undisturbed` says that
since a promotion or a document job began, or a server started, no job for
another release has written in the collection it relies on, and, for a server,
the alias has not been moved for another release. Jobs for the same release may
write there at any time, and any job may die half way. `Targets` (the releases
indexed under a name) and `Calibrated` (those the baseline is calibrated for)
bound the instance.

### Recursion, Lists, Expression, Catalog, SemanticPlan, PlanCompilation

A function of the code that calls itself on the kids of an expression, or loops
over a list, is an instance of `Recursion`: its step is written down, and the
theorem `Unfolds` says that its values follow the step (section 5).
The path of a product query plan from the model to search arguments, as
operators. `Expression` is the filter language with its two readings: `Matches`
is `expression_matches`, which looks at a product of the catalogue, and
`Condition` is the filter that Qdrant is given. `Catalog` is what the loaded
catalogue says of a text: the value of a facet, the product or the facet an
entity names, with prefixes, words and words one edit away. `SemanticPlan`
grounds the values of a plan and tells which entities, numbers, pieces of
evidence and references to the memory it may not use. `PlanCompilation` drops
what is not needed, turns the first objection into a question, and the rest
into search arguments: one per branch of a fallback, or one per entity compared.

| Code | Definition |
| --- | --- |
| `ProductQueryPlan.validate_plan` | `WellFormed` |
| `resolve_predicate_value`, `resolve_entity`, `resolve_facet_namespaces` | `Catalog` |
| `_ground_plan_predicates`, `_resolve_plan_entities`, evidence and memory checks | `SemanticPlan` |
| `_fallback_branches` | `FallbackBranches` |
| `expression_matches`, `_semantic_condition` | `Matches`, `Condition` |
| `compile_semantic_plan` | `Compile` |

A text is a model value with a normal form and a set of words. Left out: units
and their conversion, fields with lists of values, dimensions, the aliases of
field names, `eq` with a list, empty texts, a `prefer` inside a hard filter and
duplicate objectives. A value of the wrong type is a text where a number
belongs.

### ProductRanking, ProductRetrieval

`ProductRanking` is what Qdrant answers and how hits are put in order: lookups
with and without filters, the nearest points, the points by a field, percentile
scores and their weighted sum, the stages of relaxation and the conflicts of a
product. Scores are integers, shares of `Unit`. `ProductRetrieval` is one
search. Each call to Qdrant is an action, an indexing job adds and removes
points between them (`EditCollection`), and each may fail (`CallFails`):

| Code | Action |
| --- | --- |
| `_search_semantic_plan` up to the first call | `StartPlan` |
| `_search_flat_with_trace` up to the first call | `StartFlat` |
| `_semantic_entity_resolution`, one entity | `ResolveBySimilarity` |
| `count_candidates` | `CountCandidates`, `CountStage` |
| `exact_candidates` without and with the filters | `LookUpLoosely`, `LookUpStrictly` |
| `search_candidates` | `SearchCandidates` |
| `ordered_candidates` of one lane | `SearchLane` |
| a stage of `_search_alternatives` | `SearchAlternatives` |
| the loop over branches, `_execute_comparison` | `EndSearch`, `NextCompared` |

Merged or cut: the embedding of a query and its search are one call, and so are
the lanes of a stage of alternatives; the lookup of ten candidates and the
scroll limit of 50 are above any instance TLC can enumerate. `always` is a
history variable: the points present ever since the search began, the only ones
a search can be held to.

### EmbeddingClient, ToolExecution

`EmbeddingClient` is `AzureEmbeddingClient.embed` on the cache that every
process shares. A job looks its texts up one by one, asks for the missing ones
in batches, and stores what a batch brings text by text. A key is a text with
its version, and a vector is the key it was made of, so `VectorsBelong` says
that no vector is stored or returned for another text. `ToolExecution` runs
such jobs: tool calls in threads of a pool, index commands in processes.

| Code | Action |
| --- | --- |
| `cache.get`, one text | `LookUp` |
| `_request_batch`: an answer; a status or an error that is repeated; any other | `RequestBatch`, `RetryRequest`, `RequestRefused` |
| `cache.put`, one text | `StoreVector` |
| `execute_with_trace`: `asyncio.to_thread`, `wait_for` | `ExecuteTool`, `ToolTimeout` |
| a thread of the default executor | `StartThread`, `ThreadStep`, `ThreadReturns` |
| an index command, also one that dies | `StartIndex`, `IndexStep`, `IndexCut` |

A call that times out while it is queued is never run; one that has its thread
goes on, writes to the cache, and answers nobody. The client of the tools makes
one attempt (`main.py:152`), the index commands repeat theirs. The service
answers in any order, with too few items, with an index twice, or with a vector
that is none. Rows damaged by someone else are left out.

### BrowserChat

Two tabs of one browser. Each keeps the list of chats it loaded and writes all
of it after each change.

| Code | Action |
| --- | --- |
| `submitMessage` up to the first await | `SubmitMessage` |
| `salesBotApi.createSession` has answered | `SessionCreated` |
| `salesBotApi.sendMessage` has answered; either call has thrown | `MessageAnswered`, `SubmissionFailed` |
| `handleNewChat`, `selectSession` | `HandleNewChat`, `SelectSession` |
| a reload and the effect that loads the chats | `Reload` |
| `commitSession`, `saveSessions`, `loadSessions` | `CommitSession`, `Trimmed`, `loadSessions` |

A submission goes on with its own copy of the chat (`Flight`). A reload drops
what the page was waiting for. A chat is named by its first message. Of replies
only two kinds are told apart, those the validation of `loadSessions` accepts
and those it does not. `Array.sort` is stable: `ByRecency` ranks the chats by
`Before`, newer first and equal times in the order of the list. Left out:
titles, drafts, the debug drawer, and a `setItem` that fails for want of space.

## 4. Runs

| Run | Shows |
| --- | --- |
| `store_transactions` | 3 requests, 1 session, one tool exchange each. The row lock alone gives at most one running run, dense sequence numbers, contiguous turns and no lost memory, and the committed rows refine `ConversationStore`. |
| `chat_service` | 3 requests for 1 session, two of them through one process and one through another, with crashes, restarts and lost acknowledgements. |
| `chat_service_scrub` | 2 requests, 2 processes, every fault: contexts finally disappear, requests end. |
| `agent_loop` | 5 rounds, 3 tool calls, both tools, every reply, result and failure: costs, the last round, cards, the refinement of `AgentTurn`, and the end of every run. |
| `plan_cache` | 2 sessions that lapse at different times, 3 keys, 2 entries: the owner, the age and the freshness of what is replayed. |
| `session_memory` | limits 2 and 1, 6 items, 3 revisions: limits, the latest word on each field, what may change the confirmed state, what a turn carries on of the active state, removals. |
| `vector_index` | 2 jobs that index, promote and calibrate, 1 server, 2 releases: the alias names a complete collection of the release promoted and an enabled server is backed by one, each until a job for another release writes there; indexing the documents again repairs them. |
| `product_retrieval` | 405 requests and collections (plans and flat searches on three collections), 2 changes of the collection during a search: what is shown satisfies the filter, what was there is found, fallbacks in order, conflicts explained, nothing searched for that nobody said, no product shown first that another beats. |
| `tool_execution` | 2 calls on a pool of one thread, an index command of 4 texts in batches of 2 that is run twice: vectors belong to their texts, a cut run resumes, every call gives up its place in the queue or the pool. |
| `browser_chat` | 2 tabs, lists of 2 chats of 3 messages, 3 messages sent, a reload per tab: copies of a chat stay one conversation, a tab takes nothing back, the open chat is saved. |
| `memory_limit`, `browser_restore` | Two places where the documentation and the code part (section 6). |

Bounds. One session is enough for the properties of a session: the model has no
step that reads two sessions, except the scrubber, which treats them alike.
Three requests are the least that let a third one observe what two others did.
`MaxExchanges = 1` gives a turn an exchange or none; a second exchange repeats
the step. `HistoryLimit = 2` is below the number of final messages, so the cut
happens. In `agent_loop` the budget is below the rounds, so that a run meets the
exhausted budget and the last round, and three calls let a later result of a
tool hide two earlier ones. In `plan_cache` there are more keys than entries, so
entries are evicted, and four plans let each session replace its plan once. In
`session_memory` the limits are those that the plans of `MCSessionMemory` reach:
two hard constraints fill `Limit`, two entities exceed `EntityLimit`, and at
`MaxSize = 6` every stage of the trimming happens, also the one where trimming
is not enough. In `vector_index` the later release has an item more, so that an
index job adds points, the sweep of documents for the earlier release removes
one, and a check of two items has a page boundary in the middle; two jobs are
the least that interleave, and they are symmetric. The earlier release is also
indexed under the active name, so that it overwrites the collection of the later
one below a promotion and a server, and leaves it mixed; documents are indexed
for both; the baseline is calibrated for one release, which a server of the
other has to refuse. In `product_retrieval` the limits of candidates are below
the number of products, so that the cut by similarity and by field happens, one
point belongs to no product of the catalogue, and the plans take every turn of
the compilation: every kind of filter, values unknown, misspelt, ambiguous or
contradictory, numbers and references with and without a source, entities of
every resolution. Two changes of the collection let a product go between two
calls and another come. In `tool_execution` the index command embeds the texts
of both calls and one of them twice, and its texts exceed a batch. In
`browser_chat` three messages fill a chat in the middle of a pair, or open one
chat more than the list holds.

TLC checks deadlock where a process serves. `store_transactions` may stop when
every request is over and the session is scrubbed, `plan_cache` when every
session has lapsed and the clock has reached its bound, `product_retrieval`
with the answer, `tool_execution` and `browser_chat` when calls, messages and
reloads are used up; `session_memory` never stops. The symmetry of `plan_cache`
is over keys and that of `browser_chat` over tabs, which no action tells apart;
neither run checks liveness.

Fairness of `ChatService` (`FairSpec`). `WF(RequestStep(r) \/ Fault(r))`: an
await of a request ends, so a request inside its turn moves on, to a result or
to an error. The model has 30 s and a tool 10 s; for the database this rests on
what surrounds the code: `db/session.py` sets no timeout, so the pool's default
bounds the wait for a connection, and it is the server and the network that
must end a statement, a row lock being held for one short transaction only.
`WF(Scrub)`: the scrubber sleeps and loops in every process and survives its
own exceptions (`main.py:61`). `WF(Restart(w))`: a supervisor restarts the
process; without it no liveness property could hold. Nothing is assumed about
new requests. Fairness of `AgentLoop`: `WF(Step)`, for the same timeouts; no
choice between replies, results and failures is assumed fair. Fairness of
`ToolExecution`: a free thread takes the next call of the queue
(`WF(StartThread)`), and the step a thread is at ends
(`WF(ThreadStep(c) \/ ThreadReturns(c))`): a lookup or a row in the local cache
file, or a request, which httpx ends by an answer or by a timeout of its own. A
service that sends a byte now and then could hold a thread for longer than any
bound; that is excluded here. Nothing is assumed of callers, of index commands
or of what is answered.

## 5. Proofs

### The conversation store

`StorageProofs` proves, for any sets of sessions and requests, any
`SessionOf` and any tool budget:

* `TypeCorrect` (no run checks `TypeOK` alone: it is part of the invariant),
  `AtMostOneRunning`, `SequenceDense`, `NoLostMemory`, `TurnsTogether`: the
  invariants `TypeOK`, `OneRunning`, `DenseSequence`, `SnapshotCurrent`,
  `TurnsContiguous`;
* `Refinement`: `Spec => ImplementsStore`.

None of the invariants is inductive alone. `IndInv` adds: `Phases` (a request
and its run move together), `Locks` (a transaction past its `SELECT ... FOR
UPDATE` holds the row), `Admitted` (what `start_run` checked under the lock
still holds), `Logs` (a log is a sequence of entries). `Locks` is what makes
`Admitted` and the computed sequence number survive the steps of the others,
`Admitted` gives `OneRunning` at the commit of `start_run`, and `OneRunning`
gives `SnapshotCurrent` at the commit of `complete_run`: a second open turn in
the session would be a second running run. For `TurnsTogether` the invariant
`TurnInv` adds that a run without a row in `agent_runs` has no message and that
the turn of a running run is the last of its log: what such a run appends then
stays with its turn (`CommitTurns`). The refinement uses `IndInv` in each
step: `DenseSequence` turns the insert at `nextNo` into an append,
`SnapshotCurrent` gives the guard of the abstract `CompleteRun`. The
assumptions are the three named ones of `Conversation` and `StoreTransactions`,
all of which TLC evaluates.

### The chat endpoint

`ChatServiceProofs` proves, for any processes, sessions and requests, any
assignment of requests to them and any set of faults:

* `LocksDisciplined`, `RunningRunsOwned`: the invariants `LockDiscipline` and
  `RunningRunHasOwner`, which are inductive together with the ranges of the
  control variables (`ControlOK`);
* `Refinement`: `Spec => ImplementsStore`;
* `RepliesTellOutcome`, `HistoryStaysCurrent`: the invariants
  `ReplyTellsOutcome` and `HistoryCurrent`.

The refinement needs more: `InStep` (a request has no run before `start_run`
committed, and one that may still be failed at `_mark_failed`), `OneOpenTurn`
(the count of `start_run`) and `Current` (the memory the turn was given is the
one in the row, or the row was scrubbed). `Current` is what permits the abstract
`CompleteRun`; it survives the others' steps because a second request inside its
turn in the session would have a second running run, and an expiry can only
empty the context. Every way a commit may be lost (`LostAck`) is a commit to the
store, and `fail_run` after it is the abstract `FailRun` of a completed run. The
lemmas `StoreStep` and `MoveStep`, `AnswerStep`, `RefuseStep` state once what a
step may do to the requests it does not serve.

What is said to the client rests on all of this and on `Told`: a run that does
not exist has no message, a request that has committed its answer, or was
answered 200, belongs to a completed run whose answer is the last message of its
turn, a refused one to no run, and a request in the loop was given the history
the log still yields. Others append rows of their own runs only, which leaves
the last message of a turn alone (`OthersRows`); rows of the own turn are
excluded from the history (`OwnRowsHidden`); and two requests are never in the
loop in one session (`AloneInLoop`), so no other turn adds to the history of one
that is. The assumptions are the three of `Conversation` and `ChatService`.

### The agent loop

`AgentProofs` proves, for any number of rounds, any budget and with or
without the document tool:

* `TypeCorrect`, `RoundLimitUnreachable`, `CountersCorrect`, `CostBounded`,
  `CardsMatchAnswer`: the invariants `TypeOK`, `NoRoundLimit`,
  `CountersMatchRecord`, `ProviderBounded`, `CardsAgree`;
* `Refinement`: `Spec => ImplementsTurn`.

The inductive invariant `IInv` ties the locals of the loop together. `Counters`
counts tool calls and rounds by the exchanges stored, one more while a call is
in hand; the round in which a tool was called is below `MaxRounds`, because the
last one offers none, which is why the loop cannot run out of rounds. `Costs`
bounds model calls by rounds and requests by calls. The last results the loop
keeps are the last words of their tools in the stored exchanges
(`Turn!LastWord`), so the guards decide from what is on record; `Answering` says
that a chosen answer is a guarded one. From these the cards agree with the
answer, and the answer is one that `AgentTurn` permits. The lemma
`GuardedAnswers` states what the two guards return, and that the sentence for no
information goes with a result that has no item to show. The assumption is
`LoopAssumption`, which TLC evaluates.

### The vector index

`StorageProofs` also proves, for any names of collections, releases, items, jobs
and servers, and whatever is indexed under which name:

* `IndexTypeCorrect`, `AliasCorrect`, `ReadyCorrect`, `RerunCorrect`: the
  invariants `IndexTypeOK`, `AliasComplete`, `ReadyBacked`, `RerunRepairs`.

The assumption is `IndexAssumption`, types and distinct names. A write is of one
of two kinds. A job for the same release only helps: what agreed with the
release before agrees afterwards (`Writes`, `HelpedAgree`). A job for
another release clears the flags of all who rely on the collection
(`DisturbStep`), of which nothing is claimed from then on. So what an
undisturbed promotion or document job has read so far (`Working`, as far as the
page it is at: `AgreeBefore`), and what an undisturbed server has (`Searching`),
still agrees with the collection when the next page is read, and at the last
page the collection is complete (`CompleteIfAgree`). For a document job
`Working` also follows the batches written and the points listed for deletion: what was
found in between is either of the release or on the list. A swap is where the
three meet (`SwapStep`): an undisturbed promotion makes a complete collection
active, so the servers of its release, whose pages may come from two collections,
go on with a complete one, and those of other releases are disturbed. The
in-place jobs add the case that two names are one collection, which `Where`
resolves in every lemma. `AliasInv` is `AliasComplete`, and that there is an alias.

### The plan cache

`AgentProofs` also proves, for any sessions, keys, capacity and bounds:

* `CacheTypeCorrect`: the state keeps its types and the order of keys is one of
  the keys in the cache;
* `ReplayCorrect`, `ExpiryRespected`: the properties `ReplaysOwnLatest` and
  `NoReplayAfterExpiry`.

The invariant `CacheInv` adds `EntriesLatest`: an entry in the cache is the plan
its owner was last answered from under that key. A replay needs it at the
lookup, and it survives the awaited search because only the owner's own run
changes what the owner was answered from, and a session has one run. The lemma
`Left` says what an eviction may do: remove entries, never change one.
`CacheAssumption` is all that is assumed; TLC evaluates it.

### The session memory

`AgentProofs` also proves, for any plans, any limits and any number of turns:

* `InvAlways`, `AlwaysBounded`: the memory keeps its types and `MemoryBounded`;
* `LatestWordStands`, `RemovedStaysGone`: the invariants `LatestWordOnField` and
  `RemovedGone`;
* `OnlyFoundConfirms`, `ActiveStateCarriedOn`: the action properties
  `ConfirmedVerified` and `ActiveCarriedOn`.

`Inv` bounds what is stored: both states by the limits, the whole by its size.
The bound on a list after a merge is that of `LastItems`, and holds for entities
and ranking objectives because their limit is not 0; for constraints and
preferences it is the validator that keeps them, as `memory_limit` shows that
the merge does not. The lemmas go along the code. `ChosenItems` says that a
filter leaves items it passes: positions are ranked, and the ranking is a
bijection. `MergedById`, `MergedByField` and `KeptItems` follow from it, and
`Merged` collects what a merge says (`LastWord`) and no longer says (`Gone`).
`Fitted` says what `_fit_memory` gives up in all its stages: the ends of
preferences, ranking objectives and of what no property looks at, never a
constraint, an entity or the pending intent (`Trimmed`). `ShorterSays` carries
`LastWord` and `Gone` over to what is left. The last turn is settled at the step
that takes it, so `LatestWordOnField` and `RemovedGone` need no history
(`Settled`). The assumptions are `MemoryAssumption` and `PlansAssumption`.

### Embeddings

`ClientProofs` proves, for any jobs, texts, batch size, attempts and pool of
`ToolExecution`:

* `EmbedInvAlways`: every job keeps its place in step with its texts;
* `VectorsAlwaysBelong`, `AlwaysResumable`: the invariants `VectorsBelong` and
  `Resumable`.

A job looks at the cache that the others write. What it needs of them is that
rows are only added and only under their own key, so the invariant speaks of one
job at a time (`OwnOK`) and of the cache (`AlmostCached`: what the job was
answered is cached but for the batch at hand, hence at most `BatchSize` vectors
are lost when it is cut off). `WholeAnswer` is the heart: an answer of as many
items as were asked for, each index once and in range, is after sorting the list
of the texts asked for, in whatever order it came; the check by number of items
alone, which a mutant makes, does not say so.

### The browser

`ClientProofs` also proves, for any tabs and any limits of lists and chats:

* `InvAlways`: every copy of a chat is one the page can have (`KnownChat`), and
  no list holds a chat twice;
* `OneConversationAlways`, `ActiveAlwaysKept`: the invariants `OneConversation`
  and `ActiveKept`;
* `NothingIsTakenBack`: the action property `NothingTakenBack`.

`TabOK` ties a tab together: the chat on its screen is in its list, it has one
submission at most, and that one works on the chat on the screen, which is the
newest of the list (`FlightOK`). This is why cutting the list to its limit keeps
it: `Sorted` says that a stable sort puts each chat in one place and leaves the
first one first if none is newer. `OneOwner` says that chats with the same
backend session are copies of one chat, in whatever tab: a session is opened by
one submission, and lists are only copied between tabs. The assumptions are the
bounds of `BrowserChat` and `NoBackendAssumption`, that the mark of a chat
without session is no number of a session.

### Recursion on expressions

The code calls itself on the kids of an expression in a dozen places, and the
provers have no induction over trees. `Recursion` therefore defines the value of
an argument from scratch: it is what a function on the parts of the argument
says, if the function follows the step (`Value`). `Unfolds` proves that the value
of an argument is the step of the values of its kids, wherever some number gets
smaller from an argument to its kids; the argument is by the least number for
which it fails (`LeastOne`). `Lists` takes the loops over lists from it, with the
number of elements done as the argument, and `Expression` the functions on
expressions, with the height. For that the height has to be bounded, which the
code does: a plan has six levels at most (`schemas.py`), grounding may add one,
each of the two conjunctions before the branches and the one after them another,
so that `MaxDepth`, 10, is never exceeded. `ExpressionProofs` keeps an account of the
levels in every lemma (`Tree`).

### The product search

`ProductRetrievalProofs` proves, for any catalogue, memory, well-formed plans,
points that come and go, scores and limits:

* `NothingMadeUp`: the invariant `OnlyGrounded`;
* `ProductsCompared`: the invariant `ComparedShown`;
* `ItemsMeet`: the invariant `ItemsSatisfyFilter`.

For `NothingMadeUp` the state matters little: the search arguments are a
compilation of the plan proposed, for some products found by similarity
(`Prepared`). What matters is the compilation (`PlanProofs`). `Sound` says what
is known of a compilation that may run: it passed the checks of evidence,
memory and numbers, each of its conditions is one of the plan proposed, with its
evidence and with the values the catalogue reads for its words (`Traced`), and
its arguments say nothing but its conditions and its entities (`StandsFor`). The
lemmas follow the code, `GroundFacts`, `ResolveFacts`, `ProjectFacts`,
`ArgumentsSay`, and `CompileFacts` collects them: grounding, the pruning of
entities, the conjunctions and the branches of fallbacks add no condition
(`PrunedFacts`, `ConjoinFacts`, `BranchesFacts`).

For `ProductsCompared` the invariant `Comparing` follows the series of lookups.
A comparison only ever looks products up by their ids (`AtEntity`), the lookup
without filters finds the product if it has been there all the time, and what it
finds is not forgotten until the search for this entity ends (`FoundLoosely`).
When it ends, the entry shows that product: the strict lookup finds it too, or
else it is shown as the one asked for. Every entry made so far does (`Entered`),
and nothing of this is lost when other points come and go (`FewerThere`). At the
end three products are shown and three entities are compared at most, and
ranking neither loses nor adds a hit (`RankHitsFacts`): a list of positions by
their keys is a permutation because scores, places and positions are numbers
that tell the hits apart (`OrderedFacts`).

For `ItemsMeet` the invariant `Collecting` says that the hits collected for the
search under way, the products picked for a comparison and those shown at the
end meet what the search may never relax (`Meeting`): filter, category, budget,
stock and the fields the user requires. Every stage, alternative and lane keeps
these, whatever else it gives up (`Kept`, `StagesKept`), and ranking, pooling and
the nearest points by similarity or by field only choose among the points that
the query accepts (the lemmas on lists and ranking at the end of `PlanProofs`).
Points that come and go between the calls do not matter: what a call accepts it
accepts by the values of the product. This leaves a static question, which
`ArgumentsMeet` in `PlanProofs` answers: the arguments say the filter and the
selection of the plan to Qdrant (`Condition`), and a product that Qdrant accepts
satisfies the plan (`Matches`). By induction on the height, condition by
condition (`PredicateAgrees`), it does for expressions that are `AskedInFull`:
those with no fallback under a negation (section 6), no part that is only a wish
or names an entity, which a filter leaves to ranking and to lookups, and no
comparison of names, which the payload has as they are written while the plan
compares them in normal form. For flat searches, which have no plan, the claim is about the
arguments that are never relaxed (`MeetsRequired`), for arguments of the form
the tool fills in (`IsFlat`). A comparison shows what it was asked for and makes
no such promise.

The assumptions are those on the catalogue, the ranking, the memory and the
requests, all of which TLC evaluates. `TextAssumption` and `CatalogAssumption`
give products the types of their fields; category and colour codes are stored in
normal form. `WellFormed` is the validator of plans: among others, a list of
several values goes with `in` and `not_in` only, and no list is empty.

### What stays with TLC

Of the product search, `StableMatchFound`, `FirstOptionFirst`,
`ConflictExplained` and `NotDominated` are model-checked only. The first three
need the converse of `ArgumentsMeet`, that what satisfies a filter is accepted
by the conditions sent to Qdrant, which holds for fewer expressions and depends
on how values are normalised (`ConflictExplained` compares colours and memory
sizes as they are stored in one place and normalised in the other); the last one
would need the arithmetic of weighted percentiles. So is
liveness under fairness (`Terminates`, `RequestsEnd`, `ContextFinallyScrubbed`,
`QueueMoves`), which is out of the prover's reach. Every other property of a
passing run is a theorem. The provers know nothing of SelectSeq, SortSeq and
folds, so the modules with proofs choose positions of lists and rank them
instead.

## 6. Where the documentation and the code part

Two have runs that show them:

* `memory_limit`: with the limit of constraints exhausted, the merge of
  preferences slices `[-0:]` and keeps them all, and the whole update of the
  turn is dropped (memory.py:959 against memory.py:84).
* `browser_restore`: an answer with a comparison and no recommendation is sent
  without that field (presentation.py:88, routes_chat.py:33), the validation
  of stored chats demands it (chatStorage.ts:54), so the chat is stored and
  never restored (README.md:104 says recent chats are restored).

Others were met while modelling and have no run of their own.

The conversation:

* `get_final_history` does not look at the status of the runs
  (repositories.py:180; README.md:162 says it loads completed history only).
* After a crash the session answers 409 "another request is being executed" for
  the rest of its life (routes_chat.py:74).
* `fail_run` overwrites any status, so after a lost acknowledgement of
  `complete_run` a failed run has stored its memory (repositories.py:329;
  README.md:243 says it preserves the previous one).
* The product guard looks at the last product search only, so one that errs
  hides an earlier one that found nothing (runtime.py:946; README.md:169 says
  the guards let no answer contradict a tool result).
* A turn that preserves the memory while an intent is pending does not preserve
  the intent: if it finds nothing, a copy of the confirmed state takes its place
  (memory.py:421, 429), if it finds products, the intent is closed (memory.py:473).
  README.md:239 says that the pending intent is preserved until clarification,
  schemas.py:482 that the active state is not changed. `ActiveCarriedOn` therefore
  speaks of a preserve only when no intent is pending.
* The ids of fact questions and of the pending intent are shown to the model
  (memory.py:209) and accepted for removal (semantic_plan.py:1264), and a merge
  removes neither (memory.py:641, 667).
* Readiness looks at the document collection, not at the baseline without which
  document search is off (routes_health.py:65; README.md:578 says stale or
  missing metadata makes readiness fail).

The index:

* `index` as README.md:334 gives it, without `--collection-name`, writes into the
  active collection batch by batch, below running servers and below a promotion
  that has checked it. Servers that started before stay ready on a mixed index
  (README.md:103 says that a stale index is never treated as healthy).
* Products are not swept. After a release that drops a product, every `index`
  into that collection writes all of its points and then fails its own check
  (indexing/products.py:73); only a new collection helps. `RerunRepairs` is
  therefore said of documents only.

The product search:

* A comparison reports `exact_match` although an entity conflicts with the
  filters (README.md:212), and one of no entities answers `matching_products`
  with no item, hence an answer without cards (presentation.py:34).
* A flat search that relaxes the colour may offer the product asked for as an
  alternative to itself (README.md:204); the plan path filters it out.
* A negated fallback is split into branches that each say less than the filter,
  so its first branch may show what the filter excludes.
* A selection `not(entity_ref)` with one entity looks that entity up
  (README.md:191).
* A failing `ordered_candidates` in the first search is not under a handler and
  becomes `tool_failed` (README.md:219).
* An `any_of` drops a negated value that no index knows instead of asking.
* When the collection changes during a search, `not_found` may come with a
  positive total, and a product removed between the two lookups is called an
  exact conflict without a reason.

## 7. Not modelled

`session.status = 'closed'` exists in the schema and is never assigned, so
`SessionClosedError` is left out. Timestamps, token counts, latency and debug
traces are data no property looks at. The lock table of `SessionLockManager`
never shrinks; only its locked entries are modelled.

The input gate, the debug route and the debug drawer read and decide nothing
that is kept. The wording of explanations, prompts and cards is formatting;
only which cards accompany an answer is modelled. The evaluations, the catalogue
generator, the migrations, the configuration and the development server are
offline tools or plain input and output. The ranking of document chunks
is a lookup with a threshold; its outcomes are those of the document tool in
`AgentLoop`, and its index is in `VectorIndex`. `PROJECT.json` lists every
component with its status.

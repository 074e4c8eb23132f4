# A TLA+ model of Centag's gateway core

Centag is a gateway between clients and language-model backends. A request is
executed as a *pipeline* of nodes; a node calls a backend with one of the
backend's API keys; circuit breakers keep traffic away from backends that fail.
This directory models the parts in which requests share state, fail, retry and
race: the circuit breakers, the account pools, the pipeline engine, the limits
of an API key, the answer cache, the synchronisation of the configuration, and
the delivery of an answer as a stream.

`PROJECT.json` maps every definition to the source lines it stands for, and
lists the runs, the faults each property was tried against, the divergences
found, the hazards of the code and the theorems.

## 1. The system

### Components, their state and their operations

| Component | State | Operations | Interacts with |
|---|---|---|---|
| **Circuit breaker** `scheduler/circuit_breaker.go` | state, three slices of timestamps, time of last change, configuration | `Allow`, `RecordSuccess`, `RecordFailure`, `RecordRateLimitFailure`, `Snapshot`, `Reset` | asked by the engine before a node calls its backend and by the fallback filter; told the outcome afterwards |
| **Breaker manager** `CircuitBreakerManager`, `circuitbreaker/global.go`, `server/circuit_breaker_hook.go` | map of breakers, configuration, weight of a rate limit; the settings in memory and in the database | `Get`, `UpdateConfig`, start-up and hot reload from saved settings | all of the above go through `Get`; the configuration handler sets the memory, saves, and calls the hot reload |
| **Account pool** `backend/account_pool.go` | counters, rests (`disabledUntil`), session bindings; shared by all requests to a backend | `SelectAccountForRequest`, `DisableAccountTemporarily` | called by the forwarding node |
| **Forwarding node** `pipeline/transparent_forward_node.go` | per request: attempt, tried accounts, last answer | key rotation in `Execute`, fallback model | run, and run again, by `executeWithRetry` of the engine |
| **Pipeline definition** `pipeline/pipeline.go` | nodes, dependencies, next nodes, fallback groups | `Validate` with `detectCycle` | its graph is built again, differently, by the engine |
| **Pipeline engine** `pipeline/engine.go`, `fallback_circuit.go`, `errors.go` | per execution: node status and error, results, current node, log | `LayeredTopologicalSort`, layers in parallel, `executeLayerNode`, fallback groups | runs nodes, asks breakers, retries |
| **Streaming** `executePipelineStream`, `streamEmitter`, `pipeline/stream_adapter.go`, `thinksplit`, `proxy/mode_dispatcher.go` | per request: two channels, the splitter, what was written, the context | `Adapt`, `Feed`, `Flush`, `writeStreamResponse`, `executeStreamToOutput` | the adapter feeds the engine's goroutine, and that the handler |
| **Key admission and usage** `auth/ratelimit.go`, `auth/budget.go`, `auth/middleware.go`, `proxy/token_usage_record.go`, `tokenusage/service.go` | the key's row; a bucket in memory or windows in Redis; goroutines that record usage | `checkAPIKeyLimits`, `Allow`, `RecordUsage`, `UpdateAPIKey` | before a pipeline runs, and after it, from the pipeline or the proxy |
| **Exact cache** `cache/exact.go` | a map, a key-value store, goroutines that change the store | `Get`, `Set`, `Delete`, `Clear`, clean-up | cache nodes and the proxy |
| **Configuration sync** `configsync/scheduler.go`, `appliers.go`, `provider_catalog.go`, `entrypoint_full.go` | the last snapshot, its file, the rows six appliers keep | `SyncNow`, `doSync`, `OnUpdate` | pulls from mirrors; feeds prices, rules, features, templates |
| Fallback policy, loops, subgraphs, remote node plugins, storage, plugin registry, proxy modes, updates, wrap, launcher | see PROJECT.json "components" | | around the core |

### What is hard in it

* **Late and lost outcomes.** A breaker is told the outcome of a request in
  whatever state it is by then; some outcomes are never recorded.
* **Locks dropped and taken again.** `Get` of the manager, the expiry of a rest
  in the pool, the choice and the counting of an account, `SetResult` and
  `SetCurrentNode` all decide under one lock and act under the next.
* **Shared pools.** The accounts that are healthy change under a request that
  is going through them.
* **Retries inside retries.** Keys, the engine's retries and fallback nodes
  multiply unless "exhausted" is recognised.
* **One save in steps.** Settings go to memory, then to the database, then to the
  breakers; a step may fail, and another save may come between.
* **Two readings of one input.** Settings become a configuration in two places
  (start-up, hot reload); a pipeline becomes a graph in two places (validation,
  execution).
* **Failure that is put off.** A primary's failure is dealt with after the last
  layer, when nodes that depend on it have run.
* **Effects nobody waits for.** Usage is written, and the cache's store changed, by
  goroutines that start when the request is over: they may come late, in any
  order, fail, or end with the process.
* **Checks on what was read before.** A budget is compared with a row that others
  are about to change; a Get inserts what the store held a moment ago.
* **Parts of a whole.** A configuration comes in several requests, each of which
  fails or is answered by another mirror; an answer comes in chunks that may end
  inside a tag.
* **Bounded channels.** The adapter, the engine and the handler wait for each other.

### What makes each component correct

* Breaker: a failing backend is not left at or over its threshold; once open it
  rests for its timeout whatever comes in late; it is never locked out for good.
* Manager: one breaker per backend up to a bounded race; what a save that went
  alone brought is what runs, before a restart and after it.
* Pool and rotation: exhausted means every account was tried; no account is
  used twice for one request without need; load follows weights; sessions
  stick; every request ends.
* Graph: rejected exactly for cycles; layers follow the edges.
* Engine: order is kept; no failure is lost, none is made up; executions end.
* Key admission: a budget is overspent by no more than what is under way; limits
  hold over any window; usage is charged once.
* Cache: what nothing overlapped is not undone; the size is bounded; what is over
  its time leaves.
* Configuration: nothing invalid or disabled is applied; the appliers have every row
  the snapshot enables, and the file is the snapshot, or they have failed; a gateway
  that polls catches up.
* Streaming: the client sees what it would have seen without a stream, with the
  exceptions of section 3; nobody waits for ever.

## 2. Modules

| Module | What it is |
|---|---|
| `BreakerOps` | the breaker's methods as operators from a breaker to a breaker (each runs under the mutex, so each is atomic) |
| `CircuitBreaker` | one breaker under the gateway's traffic; EXTENDS `BreakerOps` |
| `CoolDown` | the abstract promise: suspended for the timeout, and not for ever; `CircuitBreaker` implements it (`Promise`) |
| `BreakerManager` | the map of breakers, `Get`, and saves through memory, database and breakers, two at a time; restarts |
| `KeyRotation` | the account pool, the forwarding node and the engine's retries, several requests at a time |
| `PipelineOps` | predecessors, in-degrees and layers of a pipeline |
| `PipelineGraph` | `detectCycle` and `LayeredTopologicalSort`, step by step; EXTENDS `PipelineOps` |
| `PipelineEngine` | `executePipeline` and `executeFallbackGroup`; EXTENDS `PipelineOps` |
| `Ledger` | the abstract promise of a prepaid key: reserve while below the budget, then charge once or release; `KeyAdmission` implements it (`Promise`) |
| `KeyAdmission` | requests of one API key, both rate limiters, the budget, edits, and usage recorded by two places |
| `ExactCache` | the cache's map and store with the steps of `Get` and the goroutines of `Set` and `Delete` |
| `ConfigSync` | `SyncNow` with its requests, the file, the appliers row by row, and restarts |
| `ThinkSplit` | `Split` and the `StreamSplitter` as operators |
| `StreamDelivery` | adapter, engine and handler with their channels; EXTENDS `ThinkSplit` |
| `*_proof` | theorems and their proofs |
| `MC*` | the instances TLC checks |

Definitions that end in `Fault` are not part of the model. Each is a
plausible mistake in the definition that follows it; PROJECT.json pairs it with
the property that must notice it.

### How the code appears in the modules

**Time.** A breaker's timestamps are slots with an age in ticks; ages stop
growing at `Horizon`, which is past every timeout and window. The pool has a
clock `now`, since it compares stored deadlines with a time that was read once
per selection.

**Requests to a breaker.** `Admit`, `Refuse` and `Overrule` are a node asking
(fixed-egress nodes ask but send anyway), `AskOnly` is the fallback filter
asking for a node that never runs, and the `Record*` actions and `Forget` are
its outcome. Nothing relates the moment of the outcome to that of the question.

**Get.** `Miss` and `Create` are its two critical sections; a `Get` that finds an
entry changes nothing.

**A save of settings** is `BeginSave` (the request's proxy settings replace the
memory's), `Capture` and `Write` or `WriteFails` (`SaveConfig`), `ReadBack` and
`Apply` (the hot reload, if the request had breaker settings). `BeginOther` is any other
handler that saves the configuration, and so writes what the memory has by then. No lock
spans two of these. `memory`, `saved` and the breakers' configurations are kept apart.

**A selection from the pool** is `Begin` (the time is read), `Look` and `Clear`
for each account (its record is read under one lock and deleted under another),
`Pick` and `Count`. `SelectAgain` is `selectUnusedPoolAccount` going round
again, `Answer` an answer of the upstream with the rotation that may follow, and
`Settle` what the node and then the engine make of the last one. Answers are
classes the code tells apart, listed at the head of the module; a 402 is one of two, as
the engine executes again what has no word on billing in its text.

**A node of the engine** waits for the semaphore, runs, and stores its result
and its name in two steps, as the code takes the lock twice. Its outcome is
open: success with a usable or empty output, failure, or (with a condition)
skipped. A node with a `RouteConfig` is a branch; `selects` is what the result of its
router names. The filter of the layer (`Kept`) decides before the layer starts, the
node (`NotRouted`) once more when it runs. Fallback groups start when the last layer is
done.

**A request of a key** reads the row (`ReadKey`), is admitted or refused
(`CheckLimits`), runs its token_usage node or not (`NodeRecords`) and ends
(`Finish`, `Fail`); each recording is a step of its own (`Record`, `RecordFails`)
at any later time. The limiter's clock is `Tick`, `Window` of which are 60 seconds,
and a bucket counts in parts of a token so that numbers stay whole. A sorted set of
Redis is kept as the number of its members that are no older than each age.
As a `Ledger`, a request reserves when it reads a row below its budget: one ticket for
its node and one for the proxy (`Open`).

**A Get of the cache** reads the map (`Begin`), then the store (`Load`), then
inserts (`Insert`), and only then looks at the time (`Hit`, `Forget`, `Erase`), as
the lock is dropped in between. An entry is the number of the `Set` that wrote it.
`Change` is what `Set` and `Delete` have in common: a goroutine, `Persist`, is started.

**A sync** goes through `Begin`, one `Fetch` or `FetchFails` per request, `Judge`,
`Write`, `Note` and one `Apply` for each applier. A document of the mirrors is a
number with the parts it has and the rows it enables; a snapshot says of which document
each of its parts is, and a store says that of each row. `Apply` adds and replaces the
rows that are enabled (`On`, `Upsert`) and leaves all others; one that fails has done a
part of it. The rules are written to the database by their own step, too (`WithRules`),
and a restart fills the features with all the database has (`Restart`).

**An answer as a stream** is a sequence of symbols in which a tag is two, so that a
chunk can end inside it. `Adapt` and `AdaptStops` are the adapter, `Execute`,
`TakeChunk`, `TakeOutput` and `Send` the engine's goroutine, the rest the handler.
An output that is raw, or looks like a backend's event stream (`LooksLikeSSE`), is
written whole behind the chunks (`WriteOutput`).

## 3. Runs

These runs pass:

| Run | Instance | What it shows |
|---|---|---|
| `breaker` | 4 timestamps, 2 requests in flight, three configurations swapped at will: timeout shorter than the window, longer with an error rate, and the zeros of a partial reload; the threshold is 2 | types; counts stay consistent; never closed at the threshold; the cool-down only advances; implements `CoolDown`; never locked out |
| `manager` | 2 backends, 2 threads, 2 operators, complete, partial and missing settings, writes that fail | the race in `Get` is bounded; the manager's own threshold is never zero; after a save that went alone and did not fail memory, database and breakers agree |
| `keys_answered` | 2 accounts, 2 requests that rest them under each other, every HTTP answer but those the engine executes again, a retry, rests of 2 ticks | no account is used twice for a request; exhausted means all tried |
| `keys_balance` | 3 accounts of weights 2, 1, 1, seven requests, two at a time | the balance is off by no more than the race |
| `keys_ends` | one session, 2 accounts, answers that are lost, cut off or misread, a retry | racing requests of a session stick to its account; every request ends |
| `graph` | every pipeline of 3 nodes with at most 4 references | cycles of next nodes are found exactly; layers are right; both loops end |
| `engine` | 1024 pipelines of 4 nodes (all dependencies on earlier nodes, 4 sets of groups, bypass or not, limits 1 and 2) and three with next nodes, a diamond and longer groups; 18 with one router or two, their branches in one layer or in two | order kept, no failure lost or made up, the branches a router names run and no others, every execution ends |
| `admission` | 2 requests at a time, limits of 2 and 1, windows of 2 ticks, memory and Redis, edits and restarts | implements `Ledger`; the budget is overspent by no more than what is under way; limits hold; reported usage is charged once |
| `cache` | 2 keys, 2 readers, a size of 1, 2 changes, failures of the store, restarts | a change nothing overlapped is not undone; the size is bounded; what expired leaves |
| `configsync` | two callers, two mirrors, a row of each kind, three documents with different parts: one invalid, and the last without the rules that the first enables; a failure and a restart | invalid and disabled rows are never applied; every row the snapshot enables is in its appliers, and the file follows; the rows of the last document reach every applier |
| `stream` | every answer of up to five words, blanks and tags, those of up to four that have `data:` in some place, and two long ones; chunks of five symbols, channels of one | the stream shows the words `Split` leaves, and those that look like SSE once more; every stream ends |

### Where the code and what is written of it differ

`stream_leak` checks one sentence of a comment, and TLC finds a behaviour of the
code that contradicts it: a chunk that ends inside `<think>` is shown, with the
piece of the tag that it has, and the reasoning after it as text. The quotation
and the lines are in PROJECT.json "findings".

Seen while modelling, without a run of their own. In the modules:

* Half-open counts outcomes, not probes: any number of requests may go out before
  the first outcome, although `circuit_breaker.go:86` says that only
  SuccessThreshold are let through (`BreakerOps!ProbesUsedUp`).
* The settings take effect "热生效" (`config.go:371`, `global.go:94`). But parameters that
  a save leaves out are zeros in a hot reload and the defaults after a restart;
  `rate_limit_weight` is read by the hot reload and not at start-up, so that a restart
  takes it back to 2; `error_rate_threshold` and `min_requests_in_window` are read by
  neither, and the requests an error rate would need are 10 after a start and 0 after a
  reload (`Reloaded`, `Built`).
* A save whose write fails leaves its settings in memory, where the next save of
  anything finds them and writes them (`WriteFails`, `BeginOther`); of two saves at a time
  the database may keep the one and the breakers the other (`Write`, `Apply`).
* A request that finds no account after a rejection ends with an empty result that
  passes as a success (`NoAccount`); `transparent_forward_node.go:288` says that the last
  result is used.
* A network error on the last key, or a body that breaks off, is a plain error, which the
  engine retries with every key (`Errors`, `Settle`); `engine.go:2360` says that an
  exhausted pool is not.
* A 402 is not rotated, and one without a word on billing counts as an HTTP error that
  is retried with every key, the same one included ("misread" in `IsRetryable`):
  the multiplying of requests that `transparent_forward_node.go:460` means to avoid.
* Nodes that depend on a failed primary run before its group has given it a result
  (`LeaveLayer`); `engine.go:1344` says the results of dependencies are there.
* The route filter keeps a default as a catch-all, which the node then skips when its
  router has no result or one without metadata (`Kept`, `NotRouted`). With branches of
  two routers in one layer the branch one of them names keeps the other's from running
  (`Kept`, the last line of `RoutesFollowed`). A router that is bypassed takes over the
  metadata of the last output, and so may name a branch by an older selection
  (`Selections`).
* The map of the cache exceeds `MaxSize` ("最大缓存条目数", `cache.go:121`) by what
  `Get` loads (`Insert`). A slow `Get` replaces a newer entry by an older one or
  brings a deleted one back (`Insert`); the goroutines of two changes may overtake each
  other (`Persist`); `Clear` leaves the goroutines of earlier changes running.
* The TPM limit counts requests (`MemoryAllow`, `RedisAllow`); a request that is
  refused by TPM or by its budget has used up RPM (`CheckLimits`); a full bucket lets
  nearly twice the limit through in a minute (`RateBounded`).
* Usage that no node reported is charged by the node and by the proxy
  (`Delegated`), against the comment at `token_usage_record.go:16`; a pipeline that fails
  is not charged by the proxy (`Fail`); concurrent edits of a key lose fields (`Edit`).
* No applier removes a row: what a newer document disables or no longer has stays in
  force as an older one had it, in the database over restarts as well, and after a restart
  the features have it again (`Upsert`, `Restart`).
* Pipeline templates are not validated (`Rejected`); a sync in which templates or
  backends could not be fetched replaces a snapshot that had them (`FetchFails`); after a
  restart without a mirror the catalog and the rules stay empty (`Restart`); the file is
  not written atomically (`Write`, `Cut`).
* A text with a line that starts with `data:` is taken for the raw stream of a backend
  (`mode_dispatcher.go:915`) when its chunks have been shown: it is written once more, as it is,
  with its tags and outside of any event, and what the splitter still holds is not
  (`WriteOutput`, `StreamShowsSplit`).
* An answer that is all reasoning is shown with its tags, for want of anything
  visible (`Finish`); the reasoning in a last chunk that shows nothing is dropped
  (`Skipped`); a handler that stops at `MaxBytes` leaves the engine's goroutine at a full
  channel for good (`Gather`, `Send`); a client that leaves while its answer is gathered
  leaves a truncated one that counts as complete (`AdaptStops`, `FinishGathering`).

And outside of them: in `apps/launcher/supervise.go` the loop that watches the
server never tries again once a restart has failed, as there is no process left to
wait for, though `apps/launcher/README.md:61` promises retries.

Smaller ones: records from before a trip count
as probes and towards closing (`BreakerOps!ProbesUsedUp`, `Succeeded`);
`RecordFailure` does not evict (`Failed`); a trip may be due to records older
than the window that no `Allow` has evicted yet (`ShouldOpen`); a breaker that has counted can be
replaced (`Create`); a fresh rest can be deleted as an expired one (`Clear`); a
temporary limit changes keys (`Rotatable`); a cycle of dependencies passes
validation and fails when sorted (`Accept`, `AddLayer`); a skipped primary counts as
served (`NothingToDo`); `max_attempts` counts the primary (`TryFallback`); the log
entry of a failed first fallback node stays (`FallbackDone`).

### Bounds and why they are enough

* *Breaker*: four slots hold a full failure window and a full probe budget side
  by side, so trips, probes and leftovers of the window occur together;
  `Horizon` only cuts off what the code no longer tells apart.
* *Manager*: two threads make the race of `Get`, two backends keep its parts apart, and
  two operators are a save with another one beside it; the proof covers any number.
  The settings have each parameter set, missing, and with a second value. Backends,
  threads and operators are each interchangeable (`Symmetry`); no property is a liveness one.
* *Pool*: two requests are enough for every race on one record, as a race is
  between a reader and one writer; weights need three accounts, and the proofs
  cover any number of accounts and requests. `MaxTime` lets a rest end at least
  once while another begins (in `keys_ends`, one tick is the length of a rest); `MaxRequests`
  ends the run (`Idling`).
* *Graph*: three nodes give self-loops, two-cycles, three-cycles, diamond sides
  and edges that are given twice.
* *Engine*: four nodes are a diamond, or a primary with two fallback nodes and a
  dependent, or a router with three branches, or two routers with one each. Two permits against layers of up to four nodes make nodes wait.
* *Key admission*: two requests can both pass a budget that is nearly spent; their
  four recordings are the most that can be outstanding. `MaxCost`, `MaxBudget` and the
  limits are small; the proofs cover any.
* *Cache*: two keys and a size of 1 make every `Set` evict; two readers can hold what
  they loaded while the two changes overtake each other. `MaxOps` ends the changes.
* *Configuration*: two callers race for a sync; with two mirrors one sync mixes
  documents; a row of each kind is enough, as appliers treat the rows of a kind alike; one failure and one restart, in any order, are what
  there is to recover from; the proofs cover any number of both.
* *Streaming*: with chunks of five symbols and channels of one, answers of five words
  take up to three chunks, so every party waits for every other; a tag can be cut
  at any place; the long answers exceed `MaxBytes` and all the buffers together. Four
  pieces put `data:` at the start, behind a newline, or where it means nothing, with tags
  before or behind it.

### Fairness

* `CircuitBreaker!FairSpec`: only time passes. No answer has to arrive, and
  nobody has to ask.
* `KeyRotation!FairSpec`: each request's goroutine goes on; a call to the
  upstream ends because the HTTP client runs under the node's timeout. No lock
  is held over a call. Arrivals and the clock are not fair.
* `PipelineGraph!FairSpec`, `PipelineEngine!FairSpec`: the code goes on; every
  node is run under its timeout. `WF(Next)` is enough as each step is progress
  (`StepsUseUp`).
* `KeyAdmission` has only safety properties and assumes no fairness.
* `ExactCache`: the clean-up loop runs on a ticker, and a `Get` that was called goes
  on. Goroutines may never reach the store.
* `ConfigSync`: syncs are begun for ever, requests end by their timeout, and mirrors
  are brought up to date. The shipped gateway syncs once after its start
  (`entrypoint_full.go:352`, `RunOnce`) and then when an operator asks, so `CatchesUp` speaks
  of the scheduler's polling mode; nothing else here depends on it.
* `StreamDelivery`: the three goroutines go on, and the server ends the context of a
  handler that has returned. No client has to leave or to stay.

## 4. Proofs

Checked by TLAPS for every value of the constants that satisfies the named
assumptions of the modules.

* **`CircuitBreaker_proof`** (from `SlotsAssumption`, `BoundsAssumption`,
  `ConfigsAssumption`): `TypeCorrect`; `CountsConsistent`, with the inductive
  invariant that failures and successes are disjoint sets of requests (each
  operator of `BreakerOps` has its lemma); `NeverClosedAtThreshold`, for configurations of one threshold: eviction
  and outcomes keep a closed breaker below it; and
  `CoolDownOnlyAdvances`. `RefinesCoolDown` shows that each step, with hot
  reload and late answers, is a step or a stutter of `CoolDown`; only the type
  invariant is needed. `WaitIsUsedUp` is about what `NeverLockedOut` promises: while a breaker
  refuses, what it waits for (`Waiting`: the rest of its timeout if it is open; if it is half-open, the ticks
  until its failures are out of the window, then those until its successes are) gets no longer
  with any step, and shorter with every tick. The key is that a half-open breaker which
  refuses with no failure left in the window closes at one more success (`WhatLocks`).
* **`BreakerManager_proof`** (from `SettingsAssumption`): `IInv` adds to the
  types that the map leads to the latest breaker of a backend (`LatestInMap`) and that the
  breakers made for a backend plus the threads about to make one are at most the
  number of threads (`FewMade`). The last is what makes `GetRaceIsBounded` inductive: a
  thread is about to create one only while the backend had no entry.
  `ManagerCanTrip` holds whatever is saved. `CompleteSavesTakeEffect` is about memory,
  database and breakers after a save that went alone and did not fail. Its invariant
  (`InEffect`) says of such a save where it is (`Halfway`): what it is about to write or to
  apply is what the memory has, and once written the database has it; a save of something
  else leaves the breakers as they were in agreement with the memory (`Agrees`). The manager's
  own configuration is part of that, for the breaker a thread is about to make. The weight is
  not, as start-up does not read it.
* **`KeyRotation_proof`** (from `PoolAssumption`): the invariant counts. While a
  request selects, it has tried as many accounts as it made attempts, and one
  more from the moment it sends; at the end of the loop a rotatable answer means
  that the attempt was the last. So the N accounts were all tried, whatever the
  other requests did: `PoolExhaustion`.
  - *Uses of a key.* Within an execution the keys called are those tried, less the one
    about to be sent (`Called`), so a key is called once for each execution:
    `KeyUsesAreBounded`, for all answers. With the hypothesis `NoneRepeated`, that no answer is
    one the engine executes again (`Repeated`: lost, cut off, empty or misread), an execution
    that tried a key is never followed by another (`Earlier`), and `KeysUsedOnce` is
    `AnsweredOnceEach`. Each of the four breaks it, as section 3 says.
  - *Load.* With the hypothesis `Restless`, that no answer rests an account and requests
    go by weight, every selection finds every account healthy (`Calm`). `Even` then bounds
    how far one account is ahead of another, by weight, by the requests that have picked it
    and not counted themselves yet; it is kept when one picks by old counters and when one
    counts. `WeightedLoad` follows, as a set of such requests is no larger than `Requests`.
  - *Sessions.* Until the first rest can have run out (`Rests`), an account that a selection has left
    out is one that rests (`Reading`). So a request of a session has the account that is
    bound, or one that rests by now (`StickyOf`), also when another request of the
    session binds it anew in between: `SessionsKeepTheirAccount`.
  - *Ends.* Each step of a request, and none of another, lowers what it has left, in the order of
    executions, attempts, selections and the way through one of them: `StepsUseUp`. It is
    never stuck (`NeverStuck`, if there are answers at all), as exactly one healthy account is the
    one to pick (`PickIsDetermined`: the least used by weight, and of equals the first; or the bound one).
* **`PipelineGraph_proof`** (from `NodesAssumption`, `PipelinesAssumption`): for any
  finite set of nodes. The search keeps that the finished nodes (visited and not on
  the stack) are closed under next nodes and without a cycle, and that the stack is
  a path whose nodes have left only what is not finished (`Searching`). A next node that is on
  the stack so closes a cycle with what lies above it, and a stack that is empty at last leaves
  none: `SearchFindsCycles`. The sort keeps that each count is the number of edges from
  nodes not yet processed (`Counted`), which `CountingOff` shows of a layer that is
  taken off; a count is zero exactly when nothing is left (`NothingLeft`). So the layers are those
  of the graph (`LayersFound`), processed nodes are closed under predecessors (`Below`),
  which gives `LayersKeepOrder`, and without a layer the rest contains a cycle.
  Both loops end (`StepsUseUp`): a step of the search visits a node, shortens the stack or
  takes a next node off its top, and a round of the sort adds nodes or fails.
* **`PipelineEngine_proof`** (from `NodesAssumption`, `EnginePipelines`,
  `EngineConstants`): what runs is
  active, and in a group it is a fallback node (`Stages`). `Order` says of the layers
  that what an active node comes after is processed, is not active itself and has left
  its first state: `LayersKeepNodesInOrder`. `Failures` says that what counts as a failure is one, and
  that a group that has begun has a primary that failed; `NoFailureMadeUp` follows. For
  `NoFailureLost`, each failed node outside the fallback nodes has a log entry of success, or is
  still answered for (`Pending`): by the end of its layer, which fails the execution or finds it a primary,
  or by a group that is yet to come. `EngineTypes` includes that a group's attempts and
  candidates together do not exceed its nodes.
  `BranchesFollowRoutes` is about the filter of a layer, which looks at the results of routers, and
  the node, which looks again when it runs. Both see the same: a router that comes before a
  branch is in an earlier layer, and what is processed and not active keeps its result and its
  selection (`Settled`). `Layered` says further that branches of one router with the same
  predecessors enter together, so the filter has seen all that lie beside a default.
  `Routed` follows each branch from its entry to its end. Fallback nodes, which run after all layers,
  and branches that do not come after their router are outside the property.
  An execution ends: `StepsUseUp` has layers, groups, nodes to process, attempts of a
  group and steps of the active nodes, the coarsest first; `NeverStuck` finds in every state that
  is not final what the next step needs. Of it the semaphore is the part that is not plain:
  a node that waits has room, or another holds a place and can step.
* **`KeyAdmission_proof`** (from `LimitsAssumption`, `BudgetAssumption`): `TypeCorrect`, and
  - `UsageMeteredOnce`, by counting the recordings due and done for each request (`Sharing`).
  - `RefinesLedger`: each step of the gateway is one step of `Ledger` or none (`MapStep`).
    Reading a row below its budget reserves, and nothing else does; a recording that is
    committed charges a ticket that is not reserved again, as the node has run by then and the proxy
    only records at the end (`RecordCharges`, from `Sharing`); everything that ends a
    request or loses its recording releases; an edit amends the budget.
  - `BudgetOverspendBounded`, from that refinement. What is spent cannot be bounded by itself;
    what is spent plus `MaxCost` for each ticket can (`Spending`). Of the ledger's steps
    (`LedgerSpends`) only a reservation adds to that sum, and after it the sum is at most the budget less
    one and two recordings for each slot.
  - `RatesBounded`: with Redis the window counts everything let through in it
    (`WindowInv`). With the bucket (`BucketInv`), what passed in the last `a` ticks and what the bucket
    holds are together at most a full bucket and `a` refills, for every age `a`; that
    is kept by a refusal of either limit, although the refusal has refilled one of them
    (`HoldsOn`), and by time (`HoldsOlder`).
* **`ExactCache_proof`** (from `SizesAssumption`, `KeysAssumption`): for
  `CalmCacheChangesHold` the invariant `Calm` adds, for a key whose last change nothing
  overlapped, that what is on its way to the store is that change, and that a `Get`
  which missed the map reads the store only after it.
  `CacheSizeBounded` follows a map through eviction and insertion.
  `ExpiredReturnsUseUp` is about what `ExpiredLeaves` promises: an expired entry comes back only by a
  `Get` that read the store before the entry's time was over, once by each, and no other
  joins them. It needs that no entry expires before it is written (`Started`).
* **`ConfigSync_proof`** (from the three assumptions of the module): the invariant
  says that one caller syncs at a time (`Alone`), that what it keeps was judged, and
  which appliers have the rows the snapshot enables, and whether the file agrees, at each
  step of its sync (`Following`, `Filing`). The step of the rules also writes to the database
  (`AfterFacts`), which is why the database comes after it in the order. Between syncs that is what `SyncedRowsAreValid`,
  `AppliersFollowSnapshot` and `FileFollowsSnapshot` state.
  Three theorems are about what `CatchesUp` promises. Every sync ends (`SyncsUseUp`). Once the mirrors
  agree on the last document, a sync that begins is `Clean`, and remains so until all
  appliers have the rows it enables (`Steady`), unless something fails or the process ends:
  `OneCleanSyncSuffices`, whose hypothesis `LastIsWhole` says that the last document is valid and the
  requests ask for all of it. `LastDocumentStays`: later syncs take nothing back, failures included.

*Towards liveness.* The last paragraphs of six modules prove the part of each liveness property that is
not about fairness. The measure is a tuple of natural numbers and the order
lexicographic (`Smaller`), so that one part may grow when a coarser one shrinks. `NoEndlessDescent`
says, from the library's theorems, that this order has no endless descent, and `StepsUseUp` or
`WaitIsUsedUp` that steps descend; the steps of one sync lower a single number. For
requests and executions `NeverStuck` adds that some step is always there to be
taken, stated by its guards, as ENABLED is out of the prover's reach.

Only model-checked: the liveness formulas themselves (`Ends`, `Decides`, `EveryRequestEnds`,
`NeverLockedOut`, `CatchesUp`, `ExpiredLeaves`, `EveryStreamEnds`, and the liveness half of
`ImplementsCoolDown`). For the first six, the step from the theorems above to the
formula, by fairness and well-founded induction, is TLC's, as the prover does not reason about
fairness and ENABLED, and the theorem of well-founded induction takes an operator as a
parameter. Nor is `StreamShowsSplit` proved: it is about a
recursive function of the answer and would need induction over it. Every other
property of a run that passes is stated by a theorem, `AnsweredOnceEach` and
`LoadFollowsWeights` under the hypotheses named above, which the constants of their runs satisfy.

Theorems only, and no property of a run: the types of `PipelineGraph` (`GraphTypes`) and
of `KeyAdmission` (`TypeCorrect`), `KeyUsesAreBounded`, and the theorems towards liveness,
as each follows a state through a step where a run has the whole promise.

## 5. Abstractions, and what is not modelled

* The window and the timeout of a breaker are small numbers of ticks; the parameter
  `window` of `BreakerManager` stands for three that the code treats alike. Its `weight` is
  kept, but `RecordRateLimitFailure`, which would use it, has no caller in the gateway;
  `CircuitBreaker` has it as an action all the same.
* Redirects, wire formats, streaming inside the forwarding node; a pool that is
  edited while requests hold its selector.
* The node deadline in `KeyRotation`: a deadline that expires is a lost answer.
* Loops, subgraphs, hooks, and fallback policies, which turn a failure into a
  success. How a router chooses, and two branches that share a route value (a
  result names one branch).
* Duplicates in a list of dependencies (the model has sets).
* Prices and the estimate of tokens (a recording costs anything up to `MaxCost`),
  the expiry of keys, model whitelists, the quotas of tenants.
* The semantic cache; hit counters (the manager records a hit twice); that `Clear`
  empties the whole key-value store and not only its own name space.
* Delays and back-off between syncs; the contents of rows, which are valid or not.
  Prices that an operator has set by hand (`Manual`) do not change. A kind stands for its
  rows' keys, and a document has a row once.
* Wire formats of the streaming clients (the client is one of OpenAI's protocol; for
  others an output that looks like SSE is not written raw), an upstream's own chunks, and `input.Stream = false` in
  `streamEmitter`. The layers of `executePipelineStream` are one step.
* All other components: see "components" in PROJECT.json for each and why. Most are
  conversions, drivers, user interface, or state behind one lock.

## 6. Plan

Done, in this order: breaker, its abstract promise and proof; manager and proof;
key rotation and proof; graph; engine; key admission, exact cache and configuration
sync, each with its proof; the delivery of streams; the key as a `Ledger`, the proofs of
all safety properties but one, and the steps towards liveness; then saves of breaker
settings in steps, the rows of a configuration, and outputs that look like SSE.

What would come next: the loop controller of the engine; breaker, key rotation and
engine composed, for the product of their retries; the wrap's snapshot of system
settings across a crash; the launcher's supervisor; roll-back of updates.

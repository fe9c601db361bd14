# CrawlerAI in TLA+

TLA+ modules of the concurrent parts of CrawlerAI: how a crawl run is started,
controlled, executed, recovered and shown; how enrichment jobs are dispatched and
recovered; and the services a run leans on, the browser pool, the books kept in
Redis and the learn-once recipes. TLC checks them on small instances,
TLAPS proves what matters most of them for every value of the constants.
`PROJECT.json` maps each definition to the lines it translates, and lists the
runs, the mistakes each property detects, the hazards and the theorems.

Paths below are relative to `src/backend/app` unless they start with `src` or `frontend`
(`src/frontend`).

## 1. Reading guide

| Module | What it is |
|---|---|
| `RunLifecycle` | one run: its row, API requests, dispatch, broker, executors, faults |
| `MCRunLifecycle` | instance for TLC (2 slots, 2 request slots, 1 or 2 URLs, symmetry) |
| `RunLifecycleProofs` | theorems about `RunLifecycle`: both modes, local dispatch, and a Celery run no operator touches |
| `BatchContract` | what the parallel URL loop promises its caller (abstract) |
| `BatchExecution` | the parallel URL loop: workers, bounded queue, checkpoints, cancellation |
| `MCBatchExecution` | instance for TLC |
| `BatchExecutionProofs` | its invariants, and that it implements `BatchContract` |
| `RunEventStream` | Run Events from the transaction that records them to the page |
| `MCRunEventStream` | instance for TLC |
| `RunEventStreamProofs` | the numbering of events, and no hole on the page |
| `JobDispatch` | enrichment jobs: request, dispatch, executions, orphan sweep, faults |
| `MCJobDispatch` | instance for TLC (2 jobs over overlapping records) |
| `JobDispatchProofs` | one execution per job; what an ended job leaves behind |
| `BrowserPool` | the browser runtimes of a process, and the life of a page on one |
| `BrowserPoolProofs` | launching, recycling, retiring, and the context slots |
| `SharedRedis` | Redis and the fail-open breaker of each process, extended by the next modules |
| `HostPacing` | the schedule of fetches per host |
| `RequestWindow` | the sliding-window limits of the API |
| `LlmCircuit` | the circuit breaker before an LLM provider |
| `RedisLimitsProofs` | slots are spaced and blocked hosts rest, no book admits too many, enough failures open the circuit |
| `RecipeLearning` | the learn-once recipe of a scope: claim, compile, replay, drift, suspend |
| `RecipeLearningProofs` | one compilation at a time; what a drift counter and a learned recipe may do |
| `Services` | the pool, pacing, windows, circuit and recipes together, over one Redis |
| `MCServices` | instance for TLC of `Services`, one service in focus at a time |
| `ServicesProofs` | the composition implements each service, so all limits hold together |

In each module: constants and assumptions, variables, state and `TypeOK`, one
action per handler or step between two awaits or commits, `Next`, fairness,
properties. Operators whose comment says *mistake* are not part of the
specification: they are plausible bugs in the definition that follows them, kept
beside it to show which property would notice (`mutants` in `PROJECT.json`).

## 2. Inventory

State, operations, what is hard, and what makes the part correct. "Left out" refers to
section 7.

**Run row, claim and lease** (`models/crawl_run.py`, `models/crawl_domain.py`,
`crawl/state.py`). One row per run: `status`, the JSONB `result_summary` (dispatch
token, control request, verdict, progress), `queue_owner` and
`lease_expires_at`, `last_heartbeat_at`, `run_event_sequence`. `claim_run`,
`renew_run_lease`, `release_run_lease` are conditional UPDATEs; the status
machine is `_ALLOWED_TRANSITIONS`. Hard: three kinds of writers (conditional
UPDATE, ORM flush of changed columns, whole-column JSONB write) that do not lock
alike. Correct when the claim columns agree, only whoever has tried the whole list completes a
run, and no transition leaves a terminal status. *RunLifecycle.*

**Crawl run lifecycle** (`crawl/service.py`, `crawl/batch_runtime.py`,
`crawl/pipeline/runtime_helpers.py`). Pause, resume, kill, recovery of stale local
runs, dispatch; `process_run` claims, seeds progress, loops over URLs with
checkpoints, finalizes or records a failure. Hard: every request and the executor
act on copies of the row read in earlier transactions, and a cancelled task goes on until the
cancellation reaches it, or for good if a browser attempt suppresses it. Correct when one execution
works, a pause holds, completion covers the list, and a run is never left RUNNING
by everybody. *RunLifecycle.*

**Dispatchers and worker process** (`workers/`, `tasks.py`,
`core/celery_app.py`). The local dispatcher keeps one asyncio task per run in a
registry; the Celery dispatcher enqueues under a token committed before. The
task is acknowledged late, may be redelivered, and is terminated by signal.
*RunLifecycle*; the broker is external. The task of an enrichment job is in
*JobDispatch*.

**Parallel URL loop** (`_ParallelRunState` in `crawl/batch_runtime.py`). Worker
tasks take URLs from one iterator, put results on a bounded queue; one consumer
records them and polls the row. Hard: cancellation, a full queue, timers that race
with arrivals, errors on either side. Correct when what `execute` reports is what
happened and nothing works on after it. *BatchExecution.*

**URL worker and progress** (`crawl/pipeline/url_worker.py`,
`url_failure_recovery.py`, `run_progress.py`). One URL in its own session with a
deadline; the commit gate; the seed of a re-entry. *A step with its possible
outcomes in RunLifecycle and BatchExecution*; aggregate counters are left out.

**Run creation and deletion** (`crawl/crud.py`, `crawl/ingestion_service.py`).
Insert, dispatch, delete of terminal runs. *RunLifecycle.*

**Run event timeline and stream** (`crawl/run_events.py`,
`crawl/run_event_stream.py`, `api/crawls.py`). Numbered events in the run's
transactions; a WebSocket handler that reads pages of them and closes after a
terminal run. Hard: numbers allocated before they are visible; the order of the
two reads. *RunEventStream.*

**Frontend run screen** (`frontend/components/crawl/use-run-event-stream.ts`,
`use-run-polling.ts`, `shared.tsx`). Merges REST answers and socket messages,
resumes from a cursor, refetches at the end. *RunEventStream*; the rest of the
frontend is rendering.

**Enrichment jobs** (`enrichment/service.py`, `api/data_enrichment.py`,
`core/celery_app.py`, `tasks.py`). A job over saved records, dispatched to Celery with a
fallback into a task of the API process, and recovered by the next execution, which
judges jobs by the age of their row and the state of their task. State: the job's
status and task id, one product per record, the record's own status. Hard: no row is
locked, a live job may be taken for an orphan, a redelivery meets the same task id, two
requests take the same record. Correct when one execution works on a job, a job ends,
what it says is true of its products, and its records are free afterwards.
*JobDispatch.*

**Product intelligence jobs** (`intelligence/service.py`,
`intelligence/candidate_polling.py`). Dispatched, redelivered and swept by the same
code; their own part polls candidate crawls to a deadline. *Left out.*

**Browser pool** (`acquisition/browser_pool*.py`, `browser_runtime_lifecycle.py`,
`browser_context_lifecycle.py`, `browser_background_tasks.py`). A keyed cache of browser
runtimes, each with a semaphore of context slots, a lock, and a browser that is launched
on demand and recycled by age, by use, and after a lost driver. Hard: eviction, shutdown
or recycling against callers that already hold the runtime; capacity given back on
every path, also from a callback after a close that outlived its limit. Correct when no
open browser is overwritten or forgotten, recycling spares pages in use, and no slot is
lost or made. *BrowserPool.*

**Host pacing and protection memory** (`acquisition/rate_limiter.py`,
`host_protection_memory.py`). The next allowed start of a host in Redis, or in the
process while Redis cannot be used; blocked hosts are pushed out. Hard: a reply lost
after Redis has carried the command out, processes that disagree on whether Redis is
there, a trimmed cache. Correct when the slots of a book keep their distance and a
blocked host rests. *HostPacing*; the memory of protected hosts is left out.

**Circuit breakers and rate limits** (`core/redis.py`, `core/rate_limit.py`,
`connectors/llm/circuit_breaker.py`, `budget.py`). Counters in Redis that fail open into
counters in the process. Correct when no book admits more than its limit in a window,
and enough failures in a row open a provider's circuit. *SharedRedis, RequestWindow,
LlmCircuit*; the LLM budget is left out.

**Extraction memory** (`persistence/extraction_memory*.py`,
`crawl/pipeline/learn_once.py`). Templates and recipes of a scope (domain, surface,
route); the release of a run freezes the active ones. A page where nothing was extracted
has a recipe compiled once by a model call; later runs replay it; replays that find
nothing suspend it. Hard: the check for a recipe is made on the frozen release, pages of
many runs count drifts in one JSON value, parts of it run in a savepoint whose error is
dropped. Correct when the model is called by one page at a time, a learned recipe is
lost only to drifts in a row, and those do suspend it. *RecipeLearning.*

**Record and URL result persistence** (`crawl/pipeline/persistence.py`,
`persistence/url_results.py`). Savepoint flushes, identity of records. RunLifecycle
uses only that a URL's outcome commits in one transaction.

**Left out**: fetch planning, browser page driving, the extraction engine, record
normalisation, URL discovery, LLM connectors, cookie storage, authentication, exports, evaluation, observability, the MCP server. They are either
pure functions over documents (tested with corpora), I/O against external services
whose result is a choice in the models, or single-row writes without concurrency.

**Interactions.** The API writes the row and calls the dispatcher; the dispatcher
starts an execution through the registry or the broker; the execution and the API
meet only in the row (claim, control request, status) and, locally, in the
registry; the URL loop runs inside an execution and looks at the row between
results; every writer of the row also records events under the row's lock; the page
reads the row by polling and the events by socket and polling. A URL's worker takes a slot
of its host, a runtime and a context from the pool, and reads or writes the recipes of
its scope; API requests pass the sliding windows; model calls (recipes, enrichment) pass
the circuit. These services share nothing with each other but Redis. An enrichment job
starts from the records of ended runs.

## 3. How the models correspond to the code

### RunLifecycle

*Transactions.* The sessions use `expire_on_commit=False` and `autoflush=False`
(`core/database.py`) under READ COMMITTED, so a request or an execution works on a
copy that may be old when it is written. A read and the write that relies on it
are two actions (`Request`/`Pause`, `Claim`/`Seed`, `FailLoad`/`FailWrite`, ...)
unless the code takes the row's lock before reading (`ApplyControl`, `RecordUrl`,
`Finish`: a conditional UPDATE comes first). `Flush` writes the changed columns and,
if any key of `result_summary` changed, that whole column: a key somebody
else wrote meanwhile is lost.

*Actions.* `Request(c, op)` loads the run; `Pause`, `Kill`, `Resume`, `Delete`
are `_run_control_update` and its callers; `ControlFails`, `ClientAborts`,
`EnqueueFails` are their error paths. `Refresh`, `SweepSelect`, `SweepClear`, `SweepCommit`,
`DispatchRefused`, `Dispatch`, then `Enqueue` or `Launch`, are `dispatch_run` with the recovery
of stale local runs that precedes it; `RecoverSelect`, `RecoverClear`, `RecoverLoad`,
`RecoverCommit` are that recovery when another run's dispatch or the backend's start triggers it.
What lies between its SELECT, the cancellation of the task, the load and the commit are awaits, so
each is a step of its own. `Receive`, `Discard`, `Load`, `Claim`, `Resolve`, `Merge`, `Seed` are
`process_run_task` and `process_run` up to the loop; `Checkpoint`, `ApplyControl`, `SetStage`,
`ProcessUrl`, `RecordUrl` the loop; `FinalCheckpoint`, `Finish` the
finalization; `Breaks`, `FailLoad`, `FailWrite` the failure path, which is tried
at most twice; `Exit` the end of the task.

*Cancellation of a local task.* `clear_local_run_task` drops the task from the registry and calls
`task.cancel()`; nobody waits for it (`workers/local_dispatcher.py:49-59`). `CancelLocal` therefore
only marks the execution `asked`. An asked execution ends where it stands (`CancelLands`), or its next
step does no more than the commit that was already on its way (`Become`), or, inside a URL, a browser
attempt that waits for its own timed-out fetch suppresses it (`CancelSwallowed`,
`fetch/browser_attempt.py:69-70`): from then on it runs beside whatever is launched next, a *stray*
that no registry knows. `strayed` remembers that an execution wrote the row or a URL after its
cancellation. The commit of an asked execution may come later here than it could: in the database its
row lock keeps the other writers waiting, which the model leaves out (it allows more). `abandoned`
remembers a request or sweep that cancelled the task and then left the row as it was, and an execution
that left the run to a live lease. `revived` marks an execution that a checkpoint stopped and that a
resume has overtaken since.

*Faults.* `WorkerLost` (container stop: the message is restored), `Redeliver`
(visibility timeout), `Terminated` (revoke with SIGTERM; the solo pool may be busy
and never read it, hence without fairness), `BackendCrash`, `EnqueueFails`,
`Breaks`. `ExpireLease` is Celery only and `AgeHeartbeat` local only, because
nothing else reads them. `Stalls` says whether an execution may outlive its
own lease: by default it may not (`run_claim_lease_seconds` 1200 is two
URL timeouts of 600).

*Abstractions.* URLs are model values; `ProcessUrl` chooses its outcome. The
record limit is the choice `limited`. The first `set_stage` writes what is
already in the summary and emits no UPDATE (`gated`); afterwards the commit gate,
a timer, may or may not be due. Only the sequential loop is here: with local
dispatch the concurrency is always 1 (`crawl/pipeline/url_worker.py`).

### BatchExecution and BatchContract

All of it runs on one event loop, so the code between two awaits is one step: a worker puts
a result and takes its next URL in one step (`Put`), `execute` finds the queue
empty and cancels in one step (`Join`). `Drain` is `drain_results` with
what each of its three callers does next; `Head`, `Arrive`, `Tick`, `Record`,
`Check`, `JoinReturns`, `Apply`, `AbortReturns` are the consumer's awaits, the
`...Fails` their errors; `ExecuteCancelled` is the cancellation of `execute` itself, which may
reach it at any of these awaits (`except BaseException`), a commit of the control checkpoint carried
out or not. The cancellation of a worker is a flag that lands at the worker's
next resumption (`CancelLands`), or is swallowed by the `suppress` around a timed-out
browser attempt's cleanup (`CancelSwallowed`, `fetch/browser_attempt.py`): this is
why `stop_and_join` drains before and after it gathers. The timer of the tick
may win although a result has arrived (`Tick` has no guard on the queue).
`except TimeoutError` around the loop's body also covers the recording of the result:
a database connection that times out there is taken for a tick and the
result is dropped (`RecordTimesOut`).

The row's other writers (`RowStep`) are control requests, a status written by the
API, a takeover by a newer dispatch, and deletion. `enough` stands for
`record_count >= max_records` and may become true with any record. The queue is a set: no property
depends on the order in which results are recorded.

`BatchContract` has three variables: how many URLs were started, which are under
way, how `execute` ended. The mapping `UnderWay` collects the URLs held by busy
workers, on the queue and in the consumer's hands.

### RunEventStream

An event is its number. `Record` is `_insert`, whose UPDATE ... RETURNING of the
counter holds the run's row to the end of the transaction; `Commit` publishes the
events together with a status written in the same transaction; `Rollback` gives the
numbers back. `ReadEvents`, `SendRows` are the handler's loop: events first, then
the run. `Fetch` is the REST query (always the oldest rows from the start), `Connect`,
`Receive`, `ReceiveClose`, `Break` the socket, `RunEnds`, `Sync` the
end as the page hears of it. Deleted runs, access checks and failing requests are left out.

### JobDispatch

Rows are read and written without locks, so what an execution read before an await and
what it writes after it are two actions: `Load` sees PENDING, `Claim` writes RUNNING.
`Choose`, `Create`, `RecordTaskId`, `Enqueue` or `EnqueueRaises` are the request
(`RequestStep`), `StartInProcess` its fallback. `TakeMessage` and `Entry` start an
execution with what its sweep selected (`Doomed`), `Sweep` fails those jobs; `Load`,
`Claim`, `StartRecord`, `FinishRecord`, `Complete` are the job, `Breaks` and `FailOwn` its
error handler. `FailStuck` is one step: it reads and writes a job's products and records in
one transaction. Faults are `WorkerLost`, `Redeliver` (the visibility timeout),
`ApiRestart`, an `apply_async` that raises although the message was sent, and errors of the
database. Time is the age of a row in two steps, past the thresholds of RUNNING and of
PENDING jobs (`Ages`). History variables record what the code cannot see: a job whose
message was there twice (`doubled`), one failed while it was alive (`misjudged`), a record
two jobs took (`stolen`), a job whose error handler raised (`dropped`).

### BrowserPool

One event loop, so an action is what happens between two awaits that can suspend.
`GetPooled` and `GetNew` are `get_browser_runtime` with its eviction (`Evicted`, `Retire`);
`TakeSlot`, `SlotTimeout`, `SlotCancelled` the semaphore; `Ensure`, `LockAndCheck`,
`StartClose`, `Renewed`, `Launch`, `LaunchFails` and `LaunchAborted` (before and after the close that
a failed launch awaits) launching and recycling under the
runtime's lock (`LockFree`), `RetakeSlot` the caller that gave its slot back to let others
finish before the recycling; `OpenPage`, `Disconnected`, `Recycle`, `Recycled`, `OpenFails`
the opening with its one retry; `FinishPage`, `ContextClosed`, `ContextCloseLate`,
`LateCloseDone`, `CloseCancelled` the release of capacity. `CloserLocks` and `CloserDone` are
the background close of a popped runtime, `Shutdown` the end of the pool, `Crash` a browser
that ends by itself. A close whose caller is cancelled goes on in the background, its browser still
connected: it dies some time later (`Disconnects`). Which idle entry is the oldest is left open; contexts are counted up
to the recycling threshold.

### SharedRedis, HostPacing, RequestWindow, LlmCircuit

Each limit is kept in several *books*: Redis and one per process. A command has three
ends: `Answered`, `NotCarriedOut`, and `ReplyLost`, where Redis did it and the process does
not know; the last two disable Redis for that process for a cooldown (`BreakerOpen`), and
the process goes on with its own book. The failed calls of other users of Redis in the process open
the breaker as well (`OthersDisable`). A Lua script is atomic, and so is a local branch (one event loop);
between asking and the answer others run.

*HostPacing*: `RedisGrants` and `LocalGrant` give a slot, `Wake` ends the sleep, `Blocked`
and `FetchedWell` the fetch; `RedisBacksOff`, `LocalBackoff`, `BackoffFails` push the host
out; `Trimmed` is the bound of the process's cache; `ResetLocal` and `ResetShared` are the
two halves of a reset. The expiry of Redis keys is left out: what expires lies in the past.
*RequestWindow*: the sorted set and a bucket are sets of arrivals, a time and a token that tells
arrivals of one tick apart (`Arrival`); the script (`Recent`, `HasRoom`, `SharedCount`), its parsing
that fails open (`WindowFails`), the buckets of a process (`LocalCount`) and the order in which
they were used (`Used`), by which one is thrown away. *LlmCircuit*:
`CheckCircuit` to `Verdict` combine both books; a success resets the failures and deletes
the open key in two commands (`ResetFailures`, `DeleteOpenKey`), each of which may lose its reply
and with it the commands that should follow; `hincrby` and `expire`, which change nothing the gate
looks at, only count as places where that happens (`RecordFails`).

### Services

`Services` lets the steps of all five services interleave; pacing, windows and circuit share the
variables of `SharedRedis`, so one clock, one server and one breaker per process serve all three, as
in the code. Each of the three modules has the others as environment in `RedisStep`: time, outages,
and failed calls of other users. That this is enough is a theorem (`TogetherImplementsEach`, section
5): every call one service makes looks to the others like a `RedisStep` or like nothing. The steps of
the pool and of the recipes touch no Redis.

### RecipeLearning

One scope. A page belongs to a run whose release is frozen at `StartRun`. `Extract` says what the
page gave: nothing (`empty`), records of the deterministic tiers (`filled`), records by the selector
rules of a template (`matched`: the collector `css_recipe`, which `extraction/engine.py:110` counts
as the recipe tier too, whatever template had the rules), or a replay of the released recipe
(`replayed`). An empty page whose release has no recipe claims (`ClaimRecipe`, `ClaimTimesOut`), calls
the model and ends in `Compiled` or `CompiledNothing`; when the release has one, in `NoteDrift`. The
claim commits before the model call; what drift and recording write stays in the page's fields until
its transaction commits (`CommitDrift`, `CommitPage`, both through `Written`) and is forgotten by
`PageFails`. `locker` is the page whose open transaction holds the locks of template and recipe.

`_record_extraction_memory` is one savepoint in three steps: `RecordPage` writes the page's template,
`Sentinel` (matched pages only) what the comparison with the generic extraction found, `ResetDrift`
(recipe tier only) resets the counter, each waiting for the locks it needs. A confirmed sentinel may
suspend the scope's own template (`bars`) or another of the route. `RecordingFails` rolls the savepoint
back, keeps what was noted before it, and drops the error (`swallowed` if a reset was still to
come). Recording a page also leaves a template of the page's own structure under the same route; the
*sibling* stands for all of these, because `_locked_active_executable_recipe` selects by route and
raises when two are active. A URL ends by its deadline (600 s) before a learn-attempt marker runs out
(900 s): hence the guard of `AttemptAges`. All confidences are equal (0.75).

## 4. What the runs check

| Run | Instance | Distinct states | Shows |
|---|---|---|---|
| `run_local` | local, 2 URLs, 3 requests or sweeps, 1 fault | 4.72M | whoever runs uncancelled is the tracked execution; no URL crawled twice; a paused run is quiet; completion covers the list |
| `run_local_live` | local, 1 URL, 3 requests or sweeps, fair | 875k | a run never stays PENDING or RUNNING, but for the named cases |
| `run_redelivery` | Celery, nobody interferes, 5 faults | 17.0k | one execution per token; re-entry crawls what is missing; terminal stays; completion covers the list |
| `run_celery` | Celery, 2 requests, 2 faults | 5.23M | claim columns agree; completion covers the list, with several dispatches and executions at once |
| `batch` | 2 workers, 4 URLs, queue of 2, 1 fault or cancellation, fair | 1.88M | what `execute` reports is what happened, nobody works after it, no queued result is lost, a stop takes no further URL, it ends, it keeps the contract |
| `events` | 2 sessions, 6 events, pages of 2, 3 shown, 2 breaks, fair | 103k | numbering, no hole on the page, the last events arrive |
| `services` | five services, one at a time (see below) | 1.32M | browsers are launched, recycled and retired cleanly, slots conserved; every book keeps its limit or its distance; a recipe is compiled once and lost only to drifts in a row, which do suspend it |
| `jobs` | 2 jobs over records {1, 2} and {2}, 2 executions, 1 fault, fair | 270k | one execution per job; an ended job's records are free; what it says is true; a queued job ends |
| `lost_control` | local, 1 request | | finding 1 |
| `live_run_recovered` | local, no fault | | finding 2 |
| `stopped_writes` | Celery, 2 requests | | finding 3 |
| `lost_worker` | Celery, 1 fault, fair | | finding 4 |

*Bounds.* Two executor slots are an old and a new execution, or a stray and its successor; two request
slots let a request or sweep overtake another, and three requests make pause, resume and a sweep
overlap. Two URLs give a first, a later and a last one, which the code treats differently. Five faults
let a delivery be lost, redelivered, fail and be redelivered again. A local launch waits for a free
slot, which the code does not: a third execution beside two that have not ended yet is outside the
runs. With three slots and one URL both local instances pass as well (1.36M and 2.27M states), and the
theorems of section 5 hold for any number of slots. In the batch, four URLs with two workers and a queue
of two let the queue be full while both workers still hold results. Events: six numbers are twice the
page's window and three snapshots, so that both trims and a resumed cursor happen. All bounds are constants
(`MaxRequests`, `MaxFaults`, `MaxEvents`, `MaxBreaks`) in guards. `MaxRequests` and `MaxFaults`
limit disturbances, not the program. With `Stalls = TRUE` the `run_celery` instance
has 17.1M states and passes too; it is not kept as a run.

*The run `services`.* The browser pool, pacing, windows, circuit and recipes share no
variable but Redis's, which one of them uses at a time. `MCServices` chooses the service in
focus at the start and lets the others rest: the run is the union of five runs, not their
product. This loses nothing of safety: each of the five has the others in its environment
(`RedisStep`), and `TogetherImplementsEach` proves that their product adds no behaviour to any. The pool has 2 callers, 2 keys, 1 slot, 1 entry, 2 runtimes and 1 fault, so that
two callers compete for a slot, an entry is evicted while another caller uses it, and a
crash falls anywhere. Pacing, windows and circuit have 2 processes with a task each, 2 hosts
or clients, a cache of 1 entry (it overflows), 1 disturbance (for pacing: or 1 reset), and a clock of 3 ticks (2 for
pacing) against a cooldown and intervals of 1 and 2. Recipes have 2 pages, so that each step of one
falls between any two of the other, and the threshold is 3. Larger instances pass as well and
are not kept as runs: the pool with 3 callers (1.01M) or 2 faults (1.09M);
pacing with 2 entries, 2 disturbances and 2 ticks (1.44M); recipes with 3 pages (224k); the safety of
jobs with 2 faults (1.75M).

*Deadlock.* Every instance may stop (a run ends, `execute` returns, the
last event is shown), so deadlock is not checked; the liveness runs say what must not get stuck.

*Fairness.* Weak fairness of a request handler's, an execution's, a worker's, the consumer's
and the page's next step: the event loop runs every ready task, awaits on the
database and the network end or raise, a URL ends by its deadline
(`url_worker.py`, `max_url_process_timeout_seconds`), page timers fire. The broker delivers what it
holds and a lease runs out. Requests, faults, revocations and breaks are never forced.
For jobs (`JobFairness`): weak fairness of a request's and of an execution's next step, for the
same reasons, and strong fairness of taking a message and of starting the fallback task, since
all executions may be busy again and again: a free worker takes a message that waits, and the
API process starts its task at once. The services have safety properties only.

### Limits of the checked properties

- `CompletedCoversWork` has one exception, the execution that a checkpoint stopped and that a resume
  overtook before it was through with its end (`stopped` and `revived`): it completes the resumed run,
  which is finding 3. Stray executions need none: they work on their own list, and a URL saved by
  another is one more that is done.
- `FreshWork` and `PausedIsQuiet` speak of executions that nobody has cancelled, and until a cancelled
  one has written the row or a URL (`strayed`). A stray saves a URL that its successor still has in its
  list, and is inside a URL while the run is paused: section 6.
- `SingleLocalExecution` claims no more than the registry can give: who is not tracked has been
  cancelled. That a cancelled execution has ended is not claimed, because it is not so.
- `FreshWork` is claimed for local dispatch and for a Celery run without operator requests,
  `OneExecutionPerToken` for the latter. With requests under Celery they fail: a stale summary write can
  put an old dispatch token back. `TerminalStays` is claimed only without requests, for a similar
  reason (a resume's write after a kill).
- `RunSettles` is claimed for local dispatch, but for runs whose task was cancelled by a request or sweep
  that then left the row alone, or that were left to a lease taken for live (`abandoned`), and for runs
  on which a stray wrote (`strayed`). Such a run waits for the next sweep, which the spec need not bring.
- `ExecuteEnds` excepts `Wedged`: the error path of `execute` cancels and gathers without draining, so a
  worker that swallowed its cancellation while the queue is full waits for room for ever.
- `FinishedCoversWork` excepts results whose recording timed out.
- `LastEventsReached` speaks of the first 2000 events of a run. Beyond, polling and the final refetch
  bring only the oldest 2000, and after a break the page depends on the socket alone.
- `OneExecution` excepts jobs whose message was there twice (`doubled`): nothing locks the row
  between PENDING and RUNNING. `EndedReleases` and `EnrichedMeansAll` except those, jobs failed while
  alive (`misjudged`) and records taken by two jobs (`stolen`). `QueuedJobEnds` excepts jobs whose
  error handler raised (`dropped`): they wait for the sweep of a later execution.
- `SlotsConserved` names the one step that makes a slot, `RetiredIsClosed` excepts runtimes popped
  while in use (`held`): see section 6.
- The limits hold per book. A lost reply, or processes that disagree about Redis, may let the sum of
  the books exceed them; this is what failing open means. A host that a trim drops is unpaced from
  then on in that process.
- `FailuresOpen` excepts an open key of newer failures that a success deletes (`overtaken`).
- `DriftSuspends` and `LearnedIsKept` except counts whose error was dropped (`swallowed`), the former
  also templates an operator owns. Without the first exception TLC finds both violated. A *success* is
  what the code takes for one: a page matched by selector rules counts (section 6).

## 5. What is proved

All theorems hold for every value of the constants that satisfies the named assumptions.

**RunLifecycleProofs** (both modes, any number of slots, requests, URLs, faults).
`TypeCorrect` by one lemma per group of actions. `LeaseOwnership` (`LeaseHasOwner`) from `OwnerInv`: an owner
and a lease time come and go together, *and* no execution that claims or holds works under the empty
token (`HasToken`); without the second part a claim under `NoToken` would break the first.

For local dispatch: `OneTrackedTask` (`SingleLocalExecution`) from `LocalInv` (nothing queued, an execution that runs
uncancelled is the tracked one); `PausedRunIsQuiet` from it and from which steps enter a URL (`UrlSteps`), since whoever pauses
is the tracked execution at a checkpoint, has none, or has been cancelled and then counts as a stray's write;
`LocalFreshWork` (`FreshWork`) from `LocalInv` and `FreshItems` (the items of an execution are unsaved), where a cancelled
execution that saves a URL ends the claim.

For both modes, any number of strays and with stalls: `CompletionCovers` (`CompletedCoversWork`). `CoverInv` says that an execution in the
finalization has tried its items, reached the limit or was stopped (`LoopOver`), and that one that was stopped has been revived by
a resume or the run is no longer active (`StoppedInactive`). The second part is what makes it inductive: `Finish` needs an active run, and a
step that makes a run active again is a resume, or the work of an execution (`CoverSteps`), which starts from an active one.

The rest of the module assumes `Unattended`: Celery, no stalls, no operator requests. `UnattendedInv` has
four parts: the creating request dispatches once (`DispatchOnce`), every message and execution carries that one token
(`OneToken`), at most one execution is past the claim and while there is one the row is RUNNING, owned and live
(`OneWorker`), its items are unsaved (`FreshItems`). It gives `RedeliveryRunsOnce`, `RedeliveryFreshWork`
and `RedeliveryTerminalStays`, for any number of losses and redeliveries.

**BatchExecutionProofs** (any finite pool, list, queue size). The invariant `IInv`: what a worker holds was taken, and one that ran to its end
holds nothing (`HandsInv`); while `execute` still judges arrivals nobody is cancelled, afterwards the stop event
is set (`StopInv`); a taken URL is recorded, dropped, queued, in the consumer's or in a worker's hands
(`PlacedInv`); past the gather all workers have ended and at an orderly end the queue is empty (`EndInv`). `StopInv` is what makes
"all workers ended" mean "the list is exhausted" at the loop's exit. Each move of the consumer (abort, judge, take, join,
leave, drain) is a lemma, composed per action; the six worker actions share `WorkerMoves`.
Theorems: `TypeCorrect`, `Quiet`, `FinishedRunIsCovered`, `NoResultDiscarded`, `StopIsFinal` and the refinement
`ImplementsContract`.

**RunEventStreamProofs**. `NumberingInv`: open transactions hold a block of numbers right after the committed ones, and
only one session does. `NumbersAreComplete` follows. `StreamInv` adds the types, the shapes of what is on its way (`Shapes`),
that a page's REST rows are a prefix of the sequence and its socket rows a stretch up to the cursor that overlaps or meets that
prefix, unless it fills the window (`PageInv`), and that what is on the wire, then what the handler has read, continues from the
cursor without a gap (`WireInv`). `PageHasNoHole` (`NoHole`), `StreamTypeCorrect`.

**BrowserPoolProofs** (any keys, finite set of callers, capacity, thresholds). `SafeInv` is `TypeInv` (types, and the
runtime a phase implies), `LockInv` (one holder of a runtime's lock, and never the background closer beside it),
`LaunchInv` and `RenewInv`. Neither of the last two is inductive without the lock: another caller, or the closer, could launch
or close between the check and the step. `LaunchIsSafe`, `RenewIsSafe`; `RetiredStaysClosed` from `RetireInv`: nobody uses a
runtime that is in no pool and not `held`, and it is closed or being closed. `SlotsAreConserved` speaks of two states and counts
callers: a step changes the set of callers that hold a slot by one at most, and cardinality lemmas say what this does to the sum.

**RedisLimitsProofs** (any processes, hosts, clients, calls, bounds; shared lemmas on what a call to Redis leaves behind).
*Pacing.* `ScheduleInv`: the schedule of a book lies at least the interval past the last slot, and the protected interval past the last
block, that the history remembers. `SpacedSlots` and `BlockedHostsRest` follow, since a grant starts no earlier than the schedule.
*Windows.* `WindowInv`: what a book counts inside the window is within the limit *and* contains what the book admitted inside it (`Counted`), and
a client with arrivals has a bucket. The limit alone is not inductive: a book that lost an arrival would admit one more. The window
only moves forward (`WindowMoves`), and counting one more arrival needs its token to be new (`ArrivalIsNew`, a pigeonhole on
the tokens of one tick). `NoBookAdmitsMore`, `WindowTypeCorrect`. *Circuit.* `CircuitInv`: types, `ClockInv` (no failure
was counted ahead of the clock), and `FailuresOpen`; `FailuresOpenCircuit`.

**RecipeLearningProofs** (any pages, any threshold). `LearningInv`: what a page holds uncommitted belongs to the holder of the row locks
(`PageInv`), a drift that waits counts one more than the committed counter and suspends at the threshold (`PendingDrift`), a success that
waits resets it (`PendingReset`), a run has the recipe only once it was active (`ScopeInv`), the page that compiles is alone, under a fresh
marker and with the recipe provisional (`CompileInv`), the counter is the number of drifts in a row unless the template is suspended or a count
was dropped (`CounterInv`). The stages of a recording are one lemma each, which leave what other pages hold alone (`Records`).
`ModelIsCalledOnce`, `DriftsInARowSuspend`, and `LearnedRecipeIsKept`, whose only step that loses a recipe is a commit (`CommitWrites`).

**ServicesProofs** (all constants of the five). `TogetherImplementsEach`: `TogetherSpec` implies the specification of each service. A call to Redis is, for
every other user, a `RedisStep` or a stutter (`CallSeenByOthers`), and each service's steps are such calls or leave Redis alone. Hence
`ServicesKeepTypes` (`ServicesTypeOK`) and `LimitsHoldTogether`: every invariant and action property of a service holds while all run.

**JobDispatchProofs** (any jobs, records, selections, executions, both dispatch modes, any number of faults). `OneExecutionPerJob` from
`SingleInv`: for a job not `doubled`, a message and an execution exclude each other, there is one of either at most, and none before the
request is over. `EndedJobsRelease` and `EnrichedIsComplete` from `ReleaseInv`: what a phase of an execution has in hand (`HandsInv`), that
those records' products are its job's (`HeldInv`), that the job of an active execution says RUNNING (`RunningInv`), that what an execution has behind it has its outcome
(`SettledInv`), that a record follows its product (`RecordInv`), and that an ended job has settled all (`EndedInv`).

**Only model-checked**: the liveness properties (`RunSettles`, `ExecuteEnds`, `LastEventsReached`, `QueuedJobEnds`), because the prover does
not reach fairness and ENABLED. Every invariant and action property of the passing runs is the subject of a theorem.

## 6. Findings

1. `lost_control`. "Merge into a freshly read summary so externally written control keys are preserved."
   (`crawl/batch_runtime.py:725`): the refresh takes no lock and the summary is written back in a later
   statement; a pause committed between them is overwritten. `set_stage` does the same from a copy it does not refresh.
2. `live_run_recovered`. The sweep before every local dispatch fails a RUNNING run as "interrupted by backend restart or process
   termination" when its heartbeat is older than 120 s; a live execution renews it only between URLs, and one URL may take 600 s.
3. `stopped_writes`. "stop without writing further state; the owning writer of that status finalizes it" (`models/crawl_run.py:169`):
   an execution stopped by PAUSED goes on into the finalization, and completes the run if it was resumed meanwhile. With
   local dispatch it takes three overlapping requests (a sweep that commits FAILED late, and two resumes).
4. `lost_worker`. After a worker is lost its message is delivered at once, the claim is refused because the dead owner's lease is
   live, the message is acknowledged, and nothing looks at the run again: it stays RUNNING although re-entry is documented
   (`crawl/pipeline/run_progress.py:394`).

Divergences met without a run of their own: a test's "In-flight URLs run to completion after the stop is observed."
(`src/backend/tests/regression/test_batch_controls_quality_and_policy.py:84`) against `cancel_workers`; "Timeline persistence failure does not change crawl state or
verdict" (`src/docs/backend-architecture.md`) against the completion event whose failure makes the run FAILED (`crawl/batch_runtime.py:649`); "polling fills the disconnected interval"
(`src/docs/frontend-architecture.md:67`) against a fetch that is always the oldest 2000 events.

Met while modelling the run, where the properties carry the exception:

- A local execution that suppressed its cancellation goes on untracked beside the one launched after it: it crawls URLs of its
  list that the other has too, is inside a URL of a run that is paused, and its next summary write puts its old token back
  (`workers/local_dispatcher.py:49-59`, `acquisition/fetch/browser_attempt.py:69`).
- Two resumes at once: the second launch cancels the first one's execution, and its own, loading the run under the same token, finds the
  cancelled one's lease live and leaves the run to it; the run stays RUNNING until a sweep (`crawl/batch_runtime.py:679`).
- A sweep that saw PENDING cancels the task of a run that has been claimed since, and then spares the row, because it is
  RUNNING by now (`crawl/service.py:351`, `:122`): the run stays RUNNING without an execution until its heartbeat is old.

Met while modelling the jobs and services, where the properties carry the exception:

- A caller that gave its slot back for the recycling and is cancelled while it waits again releases a
  slot it does not hold (`acquisition/browser_context_lifecycle.py:108`): the runtime's capacity grows by one.
- A runtime evicted while a caller is about to launch on it is closed before that launch; the browser
  launched afterwards is closed by nobody.
- "Browser-driver disconnect is URL-local" (`src/docs/INVARIANTS.md:96`): the recycling after a disconnect
  closes the browser on which other callers may have pages.
- A cancellation during a launch leaves the Playwright driver of that launch behind.
- "Celery redelivered an interrupted execution" (`enrichment/service.py:275`): the first execution may be alive;
  its job is then failed under it.
- After a failed probe the local circuit of a provider never rests again (`opened_at` is set only when it is None): the gate of
  the process stays open to every call, and only the circuit in Redis protects.
- A recipe learned again after a suspension is never released, because nothing sets the template back to
  ACTIVE, against "so future crawls fall through to the floors (and can re-learn)" (`crawl/pipeline/learn_once.py:217`).
- Any recorded page leaves a second active template with the learned one's route;
  `_locked_active_executable_recipe` then raises: drifts are not counted, and a recorded replay of the recipe has its savepoint rolled back,
  the observation and the reset of the counter in it.
- A page matched by the selector rules of a template counts as the recipe tier (`extraction/engine.py:110`), so it resets the drift
  counter of a recipe that it did not replay (`crawl/pipeline/learn_once.py:252`).
- A sentinel that suspends the scope's own template leaves its recipe ACTIVE: it is no longer released nor counted, and
  `claim_learn_once_template` refuses to learn it again.
- The claim's bounded wait (`SET LOCAL lock_timeout`) begins after `ensure_template`, whose UPDATE of the same row
  waits without a bound.

## 7. What is left

The mapped share of the repository stays small because most of its lines are pure functions over
documents (extraction, normalisation, configuration), which have no states to explore. What has state and is not
modelled, and why:

- *Product intelligence jobs*: the dispatch is `JobDispatch`'s; the polling reads the status of runs to a
  deadline and shares nothing.
- *Memory of protected hosts* (`acquisition/host_protection_memory.py`): a policy loaded before a block may be cached after
  the block's invalidation (line 196). The cache is one process's, lives 30 s, and only orders the next attempts.
- *LLM budget, authentication, cookie storage*: single-row or single-file writes, the last one wins.
- *Record persistence*: merges by key inside the transaction of a URL; what a run depends on is in `RunLifecycle`.
- *Fetch planning and page driving*: attempts against sites outside the system; their outcome is a choice in
  `RunLifecycle`, `BrowserPool` and `HostPacing`.
- Of the modelled parts: verdict aggregation and counters of a run, access checks and deleted runs of the event
  stream, the contents of recipes and the sentinel's statistics.

Next, in order: a refinement of `RunLifecycle` to an abstract run (submitted, working, paused, ended) for local dispatch and for
`Unattended`, with `BatchContract` composed into its executor.

# ScaleFlow: a verification development in TLA+

ScaleFlow runs document pipelines: an orchestrator (`backend/app.py`, Flask and
PostgreSQL) keeps tasks in a table and their ids in Redis lists, worker processes
(`backend/worker.py`) pop, claim and execute them under leases, a dependency
resolver moves pipelines along, and one elected orchestrator runs the scanners
that repair what got lost. A browser client (`frontend/src`, React) uploads
documents, follows their pipelines by polling, replays them and chats about them.
This directory models both sides, checks them with TLC on small instances and
proves the main safety properties with TLAPS.

Contents: 1 the system, 2 the modules, 3 runs, 4 proofs, 5 known deviations,
6 what is left out, 7 plan. Paths are relative to `src/`.

## 1. The system

| component | state it keeps | operations | what is hard |
|---|---|---|---|
| task handlers, `backend/app.py` | `Task` rows: status, owner, lease token and expiry, retry count; rows are versioned (`version_id`) | create, claim, poll, renew, progress, report (`update_task`), pause, retry, cancel, the reaper behind `GET /tasks` | some push to Redis before they commit, some after; any two interleave; reports come late and twice |
| workers, `backend/worker.py` | the task in hand, its token, failed renewals in a row | pop, claim, renew (a thread), run, report with retries, abort | lost answers, crashes, a lease that expires under a running task |
| leader's scanners, `backend/app.py` | none of their own | recover expired leases, re-queue pending tasks missing from Redis, release deferred, backing-off and paused tasks | a crash between commit and push; running while users and workers write the same rows |
| Redis task lists | ids per priority and capability | LPUSH, RPOP, LREM | errors are swallowed; the store may come back empty |
| dependency resolver, `backend/orchestrator/dependency_resolver.py` | `Task.status`, `blocked_reason`, `Pipeline.status`, DEPENDENCY_RELEASED events | release children, propagate failure, roll up | decides from rows other transactions are changing; versions protect written rows only |
| leader election, `backend/services/ha_coordinator_service.py` | a Redis key with expiry, a flag per process | beat every 15 s, SET NX EX 30, GET, EXPIRE, three attempts | expiry between commands, Redis unreachable, a process paused |
| circuit breaker, `backend/execution_engine/control_plane/circuit_breaker.py` | state, two counters, a timer | allow, success, failure, 429 | reports of calls that were allowed in an earlier state |
| fair queue, `.../control_plane/scheduler.py` | a deque per document, an index | push, pop | the index after a document is removed |
| job leases, quotas, pacing, `.../control_plane/` | Redis leases and counters, token windows | acquire, release | leases shorter than jobs, counters without expiry |
| pipeline ownership, `ha_coordinator_service.py` | owner and fencing version per pipeline, a cache of versions | claim, batch renewal, fence | the cache races the renewal |
| event log, `backend/services/event_sourcing_service.py`, `backend/replay.py` | numbered events, segments, snapshots | append, compact, replay, reconcile at startup | order of commits, compaction under append |
| DAG construction, `backend/orchestrator/dag_builder.py` | none | templates, cycle check | graph algorithms |
| platform runtime, `backend/platform/` | tables of documents and of jobs in SQLite, the thread that works on them, caches | upload, submit, claim, run, complete, fail or retry, recover at restart | requests in between the thread's statements, statements that raise, a restart between any two of them |
| adaptive scheduler, metrics, forecasting | statistics | read-only estimates | none here |
| parsing, chunking, embedding, retrieval, generation; domain and DTO layers | documents | sequential transformations | none here |

The client keeps its state in React components and contexts. Nothing in it runs in
parallel, but every request is a handler cut in two by an `await`: between the two
halves the user clicks, intervals fire, effects run and other answers arrive. That is
its whole difficulty, in every row below. Paths are relative to `frontend/src/`.

| component | state it keeps | operations | what is hard |
|---|---|---|---|
| document workspace, `pages/WorkspaceHome.jsx`, `UploadWorkspace.jsx`, `IngestionHistory.jsx`, `DocumentsLibrary.jsx` | selected document and pipeline, the workspace shown, the two lists, the details, what `localStorage` remembers | select, upload, delete, poll, restore | effects that follow each other's commits; answers for an earlier selection |
| reading pane and chat, `WorkspaceHome.jsx`, `chat/ReadyWorkspace.jsx` | preview, page, the thread and its streams | load, retry, page, ask, stop, cite | a POST and an event stream per question, stopped or overtaken in between |
| session, `contexts/AuthContext.jsx`, `pages/auth/`, `PublicLayout.jsx` | a token in memory and in two storages, one of them shared by the tabs | sign in, out, register, forgot, reset, restore | several tabs; which storage is read first |
| shell, `App.js`, `layout/AppShell.jsx`, `ui/CommandPalette.jsx` | view, overlays, developer mode; search, tests, details poll | navigate, summon, search, run tests | two ways to every view; answers out of order |
| telemetry and notices, `services/pollingManager.js`, `telemetryStore.js`, `contexts/NotificationContext.js` | server status, stuck warning; notices, read marks, toasts | poll, mark, clear | overlapping loads of several requests each; a poll against a clearance |
| console and replay, `contexts/PipelineContext.js`, `logs/ExecutionConsole.jsx` | timeline, replay position, snapshots, cached differences | poll, merge, replay, step, play, jump, compare | a pipeline switch in the middle of anything |
| analyses, `PipelineContext.js`, `DeveloperPanelTabs.jsx`, `workspace/timeline/` | four models, a span, two simulators | load, drop, simulate, seek | four requests and one selection |
| diagram, processing page, faults, `pipeline/PipelineVisualizer.jsx`, `ProcessingWorkspace.jsx`, `logs/ErrorPanel.jsx` | hovered and picked nodes; unfolded rows, retries | hover, pick, unfold, retry | transitive closure edge by edge; effects against clicks |
| monitor, controls, task dialog, `PipelineDashboard.js`, `pipeline/PipelineControls.jsx`, `TaskModal.js` | details, timers, a confirmation | fetch, cancel, retry, delete | requests of a pipeline or task no longer shown |
| replay page, `components/ReplayPage.js` | events, position, reconstruction | load, step, play | loads that overtake each other |
| validation laboratory, `components/ValidationLab.js`, `components/validation/` | the suite that runs, queue switches, ledger | run, disturb, pause a queue | polls nothing compares with the suite that runs |
| static pages, component library | none | presentation | none here |

How they interact: the handlers, the scanners and the resolver share the task rows
and talk to workers only through Redis lists and HTTP answers. A report that ends a
task runs the resolver in the same database transaction. The scanners run only in
a process whose leader flag is set, but no fence ties their writes to the
leadership: row versions do. Workers reach model providers through the broker,
which asks the circuit breaker; a refused call is reported as a pause and comes back
through the unblock scanner. The client talks to the orchestrator by HTTP only:
intervals of 2 to 10 s for what changes, one request per click for the rest, and an event
stream for each answer of the chat. Within the client, `WorkspaceHome` and
`PipelineContext` own the selections, and effects hand each change on to the rest.

What makes each part correct, and where it is stated:

* tasks: a claim is fenced, only the latest claim completes, attempts and
  completions are bounded, settled tasks stay settled, everything settles;
* pipelines: no task before its parents, no early "completed", ready tasks are
  released, finished pipelines say so;
* leadership: one leader, a stable one, always some leader again;
* breaker: counters belong to their state; a healthy provider is used again;
* fair queue: no job lost or doubled, a round serves everybody;
* workspace: the two selections agree, the chat stands on a document it can use, a
  reload restores what is selected, the screen settles on what the server says;
* chat: no reply streams from nowhere, one that has ended is final;
* session: a tab finds its own session after a reload;
* views of a pipeline: what monitor, replay, analyses and fault lists show is of what is selected,
  the task dialog has something to draw, what is computed is true of the log, the timeline has
  no gaps and catches up with what is left room for;
* indexing jobs: documents and jobs agree wherever the process ends, attempts are accounted for,
  jobs end;
* shell, telemetry, notices, replay page: nothing that is not there is shown, nothing is
  pending for ever;
* laboratory: the ledger knows the end of every action, no suite locks the page.

The hazards behind these properties are listed at their lines in `PROJECT.json`.

## 2. The modules

| module | models | abstract counterpart |
|---|---|---|
| `TaskLifecycle` | handlers, scanners, queue and workers of any set of tasks | `FencedTask` |
| `FencedTask` | what the protocol promises of a task: numbered claims, one holder, only the holder wins | |
| `PipelineResolver` | the tasks of one pipeline and the handlers that consult several rows | |
| `LeaderLock` | the heartbeat loops of any number of processes, one Redis key, time | |
| `CircuitBreaker` | one breaker, the calls that pass it and report to it, the provider | |
| `FairQueue` | the interleaved queue | |
| `IndexingQueue` | the platform's documents, indexing jobs and their thread, through errors and restarts | |
| `DocumentWorkspace` | documents, pipelines, selections and the three workspaces of the client | |
| `ReadingPane` | preview and chat of the open document | |
| `AuthSession` | the session in any number of tabs, with the public forms | |
| `ClientShell`, `ShellRequests` | views and overlays; what the frame asks of the server | |
| `TelemetryPolling`, `NotificationCenter` | the polling store; notices and toasts | |
| `ReplayProjection` | the computations of the console, as operators | `FirstAt` for the jump; `DiffIsTrue` and `NoGaps` of `PipelineConsole` |
| `PipelineConsole` | timeline and replay; EXTENDS `ReplayProjection` | |
| `PipelineDiagram` | stages, graph, highlighting and progress | `Reached`, the transitive closure |
| `PipelineDashboard`, `TaskModal` | monitor and controls of a pipeline; dialog of a task | |
| `PipelineAnalysis` | the four analyses, their tabs and simulators | |
| `ProcessingPage` | the page of a running pipeline, its fault lists | |
| `ReplayPage` | the stand-alone replay | |
| `ValidationLab` | tests, chaos actions, queue switches, ledger | |
| `MCTaskLifecycle`, `MCPipelineResolver`, `MCDocumentWorkspace` | instances for TLC (graphs, bounds, symmetry) | |
| `MCCoordination`, `MCPipelinePages`, `MCClientPages` | the small modules side by side, for TLC | |
| `TaskLifecycleProofs`, `PipelineResolverProofs`, `DocumentWorkspaceProofs`, `AuthSessionProofs`, `PipelineConsoleProofs` | theorems about the module of that name | |
| `CoordinationProofs`, `PipelinePagesProofs`, `ClientPagesProofs` | theorems about the modules that `MCCoordination`, `MCPipelinePages` and `MCClientPages` compose, then about the composition | |

Operators named as a "faulty variant" in a module are never used by it: each is a
plausible bug in the operator after it, and swapping it in makes a run fail
(`PROJECT.json`, "mutants"). They keep the properties honest.

### TaskLifecycle

One action per handler; actions carry the handler's name where it is short
(`claim_task` is `Claim`, `renew_task_lease` is `Renew`, ...). `PROJECT.json`, "map",
names the lines of each. How code becomes steps:

* A handler whose only outside effect is its commit is one step. A concurrent
  writer of the same row makes one of the two fail (`version_id`), so their order
  is all that remains of the race; handlers that look at several rows are
  `PipelineResolver`'s.
* A handler that pushes to Redis BEFORE its commit (release of a child, unblock,
  reaper, user retry) is two steps: the push sets `tx[t]`, `Commit` ends it, and in
  between a worker can pop the id and be refused. One scanner pass commits all its
  rows at once (`Transactions`). `Rollback` is the crash or refused commit after
  which the push stands. `add_task_to_queue` swallows a failed push, so a user's retry may commit
  without one (`UserRetry`).
* `cancel_task` empties the lists before its commit and swallows their errors: the entry may
  stay after a cancellation, and be gone after one that was refused (`Cancel`).
* A handler that pushes AFTER its commit (create, recover) leaves an obligation in
  `creating` or `requeue`, which `ForgetPush`, the crash in between, may drop.
* A report is a message in `net` from `Finish` on. `Take` lets the server apply it and
  keep it in flight: that is `_api_request` repeating it.
* Three details of the code shape the model. A `requests.Response` with an error
  status is falsy, so `worker_loop`'s five-fold retry of a 400 never runs and a
  refused claim drops the id (`ClaimRefused`); the renewer counts a 409 as one of
  three strikes (`RenewFails`). A `PyEnum` member never equals a string, so the guard
  of `cancel_task` never fires (`Cancel`) and the heal scanner passes over every task
  with relational parents (`Heal`). The stale-update check covers completions and
  failures only (`Pause`).
* Time is `lapsed`: lease and progress both past their limits. `Lapse` may happen at
  any moment to a running task, and must to one nobody renews (`OrphanLapse`).

`status` has two values the column has not: "waiting" is blocked without a reason,
"blocked" is blocked with one the unblock scanner releases. A child "waiting" is
released by the resolver at any time: whether its parents are done is
`PipelineResolver`'s question. `issued`, `extra`, `accepted` and `gaveUp` are history.

Refinement: `FencedTask` with `epoch <- issued`, `wins <- accepted` and `holder` the token of
a running row. It holds where no worker pauses a task; a late pause moves a row by
a claim that does not hold it.

### PipelineResolver

Handlers that read other rows (complete, fail, recover, unblock) are transactions:
`Begin` reads, `Commit` writes. `seen` is what was read, `touched` the rows others wrote
since; a commit that writes one of those is a `Rollback` (`StaleDataError`) and the
caller repeats it. Rows that were only read do not protect it: that is READ
COMMITTED with versioned rows, and where the interesting behaviour is. All of a
transaction's reads are taken at one moment, `Begin`; the database would let later
queries see later commits. `Outcomes` is what a handler computes: `Resolve` for a
completion, `Condemn` for a failure for good, then `RollUp`. `Choice` covers
backpressure (`D`, the ready children it defers) and the order of `required_by` (`H`).
`raw` is the set of rows whose status the handler has just assigned as a string: until
the row is reloaded, `update_pipeline_status` compares it with an Enum member and
counts it nowhere. Handlers that consult nothing are single steps. `meddled` is
history: tasks a user cancelled or retried one by one, or a late pause moved; those
handlers check no dependency, and the properties except them and nothing else.
`Admit`, the second half of `create_pipeline`, is one step; a recovery pass is taken one
row at a time, which is how it commits (`update_pipeline_status` commits in
mid-pass, line 498).

### LeaderLock

One action per Redis command of `_run_heartbeat_loop`, so the key may expire and be
taken between GET and EXPIRE. A tick is five seconds in the instances (TTL 6, Beat 3).
`timer` is what is left of a sleep, or the time a beat has to end; `Tick` waits for
whoever is due, so a beat takes at most `Delay` ticks unless it stalls. Faults:
"lost" (one request or answer, retried), "unreachable" (all attempts fail, "leader
state preserved"), "dbdown", "stall", "wiped" (Redis restarts empty, or the chaos
endpoint deletes the key), "crash". A restarted process has a new id and is another
instance. The `is_leader` column is not read by anybody and is left out.

### CircuitBreaker, FairQueue

Each method of the breaker holds its lock and is one action; a call (`Ask`) and its
report (`Succeed`, `Fail`, `Ignored`) are two, with any change of state in between. `up`
also stands for a quota that is not used up: a 429 is counted like a failure. The
failure counter saturates at the threshold, since nothing compares it with more.
`FairQueue` counts the jobs of a document; a deque keeps their order. Nothing but the tests calls
`InterleavedFairQueue` today, so who pushes and pops is left open.

### IndexingQueue

A step of the thread (`worker.at`) is one statement of `SQLiteQueue`, `DocumentService` or
`execute_indexing_job`; each is committed before the next. Requests are coroutines without an
await after their first read, so only the thread comes in between the lock
(`start_indexing`) and the job (`enqueue`), whose key is derived from the document's: a document
has one row in each table. `dequeue` and `fail` read, then write by key; `worker.read` is what
they read. `created_at` counts seconds, so `SelectJob` takes any job that may be claimed.
`Raises` is a statement that fails before it changes anything, with the thread going where the code's two `except`s send
it: to `failing` inside the `try` of `execute_indexing_job`, back to the loop elsewhere. `Stop` is the end of
the process, by a crash or by a shutdown that waits three seconds for the thread; `Start` runs
the recovery.

### The client's modules

Common to them:

* What React commits together is one step: all state set in one handler, after one
  `await`, or in one effect. Effects that a commit makes due either run in the same step
  (where nothing can come between that a property would see) or are a step of their own, as
  `RunEffects` of `DocumentWorkspace` and `PipelineConsole`, before which timers and answers, but
  not the user, may act.
* A request is in flight with what the server read, or reads it when the module gives it a
  step of its own; answers come in any order unless the code aborts or compares them. An
  aborted or ignored request is taken out of the set at once.
* An interval is an action that is enabled while the code would have it set, never a count of
  milliseconds.
* The server is as much of the backend as the client sees: a status that moves the way
  `TaskLifecycle` and `PipelineResolver` let it, a list, an answer.

`DocumentWorkspace`. `sel` and `selPipe` are the selections, `due` the effects of
`WorkspaceHome` still to run, `polling` the pipeline of the details interval, `loads` and `lists` the
requests in flight. `Go` is what every handler that changes view or selection commits; leaving
the page takes interval, effects and details requests along (`Leave`), but not the lists'. `server` numbers documents by
upload, which is also how the automatic choice takes the newest.

`ReadingPane`. A question is its number; `posts` and `streams` say which half of the
conversation is open, `ref` is `eventSourceRef`, of which there is one for all streams. `preview`
keeps whose page is drawn, which is not always `open`.

`AuthSession`. A token is the number of the sign-in it came from; `session` is per tab, `local` is
shared. `overtaken` is history: the tabs of which another tab replaced or removed the stored
token.

`ReplayProjection`, `PipelineConsole`. Events are records; `Snapshots`, `Diff`, `Merge`, `Jump` are the
functions of `PipelineContext.js` and `ExecutionConsole.jsx`; `DiffIsTrue` and `JumpFinds` compare
them with what they are for. `replay.n` is how many events were fetched.

`PipelineDiagram` repeats the edge-by-edge loop of `PipelineVisualizer.jsx` as a recursive function,
compared with `Reached` for every graph of three tasks.

`PipelineAnalysis`, `ProcessingPage`, `PipelineDashboard`, `TaskModal`, `ReplayPage`, `ShellRequests`,
`TelemetryPolling`, `NotificationCenter`, `ClientShell` and `ValidationLab` say in their headers what they
keep and leave out; the actions carry the handlers' names.

### The composed MC modules

`MCCoordination`, `MCPipelinePages` and `MCClientPages` put modules side by side that share no state.
`part` is chosen in the initial state and never changes, so a behaviour is a behaviour of one
module and the state space is the sum of theirs, not the product; a conjunction of their
properties says of each what it would say alone, since the variables of the others rest in
their initial values. Where variables have the same name, one of the two is renamed by the
`WITH` of its instance. Initial values that only vary in one part are fixed in the others.

## 3. Runs

Every history variable is bounded by the `Limit` constants; other bounds are named `Max...`,
`Overlap`, `Cap`, `Positions` or `RecentRows`, or are bounds of an MC module, below.
`CHECK_DEADLOCK FALSE` stands where the system really stops: when every task is settled and
no report is in flight.

| run | instance | shows |
|---|---|---|
| `lifecycle_faults` | 1 task, 2 workers, 2 faults, 2 retries | fencing, attempt budget, finality of settled tasks, refinement of `FencedTask` (the type invariant is proved, section 4, as is the finality of permanent failures) |
| `lifecycle_users` | 1 task, 2 workers, a pause, a cancel, a user retry | the completion budget and the accounts when users interfere: each interference buys one attempt and one completion |
| `lifecycle_live` | 1 task, 1 worker, 1 fault, 1 pause | everything settles; what is lost from Redis is restored |
| `pipeline_diamond` | fork and join, 2 overlapping transactions, a pipeline cancel and retry | no task before its parents |
| `pipeline_meddled` | a chain of 2, 2 overlapping, one cancel, retry, reap and late pause of single tasks | no early "completed", and why, for whatever nobody meddled with |
| `pipeline_shortcut_live` | a chain with a shortcut, 1 transaction at a time, a pause | every ready task is released and a finished pipeline says so |
| `coordination` | 2 processes, every fault once; 3 calls, 2 outages, 1 ignored answer; 4 documents of up to 3 jobs; 2 documents, 3 submissions, 1 error and 1 restart of the indexing thread; 2 suites, 1 queue, 1 chaos action, 2 requests under way, 1 of them lost | one stable leader until a beat is missed and a leader again after anything; a breaker that closes for good; a round that serves all; documents and jobs that agree, attempts accounted for and jobs that end; a laboratory that is never locked and whose ledger is complete |
| `workspace` | 1 document processed and 1 uploaded, 1 list request and 1 details request on the way, 1 failure | the selections agree, the chat is usable, a reload restores, the screen settles |
| `pipeline_pages` | 2 pipelines of 2 and 1 events; 3 tasks in every graph; 2 tasks of a dialog; 2 analyses held; 2 tasks that end | what is shown (but for the dialog's details) and computed belongs to what is selected; the dialog has something to draw; the timeline has no gaps and catches up |
| `client_pages` | 2 documents, 2 questions, 1 failure; 2 tabs, 2 sign-ins; 2 pipelines; 2 loads; 1 notice of each kind; 3 logs | chat, session, shell, telemetry, notices, replay page |
| `join_skew` (violation) | two parents of one child, 2 overlapping | the child is never released (section 5) |
| `missing_child` (violation) | 1 child | it is popped before its commit, refused, and never healed (section 5) |

Why these sizes are enough. A fencing error needs an old holder and a new one: two
workers and two claims; two faults give a lost answer and a late report in the same
behaviour, and two retries a third claim. Budgets are compared at retry limits 1
and 2, the two sides of "counted before" and "counted after" the comparison. In a
pipeline two overlapping transactions produce every read-write race of two handlers; the
diamond has a fork, a join and a grandchild, the shortcut a child at two distances from
one ancestor. Two processes are the two sides of a double leadership. Three calls span
the breaker's threshold of 3, and leave late reports over.

The indexing jobs have a document beside the one worked on, two attempts (a first and a last), a
submission during a run and one after it, an error and a restart: the two faults in either
order at every statement.

In the client an error needs a selection and the one before it, and an answer of each:
two documents, pipelines, tabs or tasks and two requests under way. Two questions make an
older and a newer stream. A log of two events at one time and another that is earlier
than both is the smallest in which sorting, the cap (2 rows) and equal times differ;
`TimedLogs` tries the search on every non-decreasing log of up to five out of four times.
All eight graphs of three tasks are initial states of the diagram.

Bounds that are conjuncts of an MC module, and what they leave out:

* `OnePreview`: once a question has been asked only the paper is opened and one preview is
  loaded at a time. Chat and preview share no state but `open`.
* `OneForm`: one tab at a time has a form other than the login's, or one filled in. The
  forms of two tabs meet in the storages only, and each is still stored while the other tab
  is signed in.
* `TestsLast`: tests are run after the searching is over. They share no state.
* `PickOrHover`: no node is picked while one is hovered over; neither reads the other.
* `OneFetch`: the dialog fetches once while a retry or cancellation is under way.
* `CompareAtRest`: snapshots are compared while no poll and no retry is under way; a
  comparison reads the replay, which neither changes.
* `OneBehind`: the fault list is at most one change behind the server, and no replay is
  entered or left while a retry is on its way.
* `Apart`: in the laboratory a suite runs while no dialog is open, and starts while nothing
  but a late poll is under way.

Fairness, and why the code has it:

* `TaskLifecycle!FairSpec`: scanners are loops on the leader (`run_recovery_scanner`;
  that there is a leader again is `Elected`); a request that began ends; live workers
  poll, claim and end each run; a lease nobody renews runs out. Nothing is assumed
  of creation, the resolver, the reaper, renewals, users or faults.
* `PipelineResolver!FairSpec`: `Claim` and the end of transactions weakly; starting to
  report and to unblock strongly, because with bounded `Overlap` other transactions
  disable `Begin` again and again, which no real database does for good.
* `LeaderLock!FairSpec`: time passes and a live heartbeat thread goes on.
* `CircuitBreaker!FairSpec`: jobs keep coming, calls end, time passes. Nothing is
  assumed of the provider; `Recovers` starts from "up for good".
* `FairQueue!FairSpec`, which no run uses (section 5): whoever pops comes back for more. Nothing
  is assumed of pushes.
* `IndexingQueue!FairSpec`: the thread goes on (its loop catches whatever is raised and a parser
  ends), and a process that ended is started again. Nothing is assumed of requests; errors
  and ends are bounded. `Sleep`, the second of waiting, changes nothing.
* The client's modules: effects that are due run, an interval that is set fires, and a
  request is answered or fails, all weakly. Strong fairness stands where the bound on
  requests disables what the browser never would: the list polls and their answers in
  `DocumentWorkspace`, `pollTest` in `ValidationLab`, the intervals of `TelemetryPolling`,
  `NotificationCenter` and `ReplayPage`; and where a request may fail each time
  (`PollSucceeds` of `ShellRequests`: the details poll is not refused for ever). An upload or a
  deletion that is under way is carried out. Nothing is assumed of the user.
* `AllSpec` of a composed module states the same fairness of each part's actions. Where two
  parts share a `WF` (`WeakOf`, `StrongOf` in `MCClientPages`), it is fairness of each in the
  behaviours of its own part.

## 4. Proofs

All are for every value of the constants: any set of tasks and workers, any graph,
any number of overlapping transactions, any fault budget, any documents, tabs and
pipelines.

`TaskLifecycleProofs`. `TypeCorrect` by one case per action. `Fenced` is inductive as it
stands: tokens in rows, runs, reports and completions were issued; a running row has
its latest token; a claim has one run, and none after its report. Each part needs the
others (a report is accepted by token, so two runs of one token would break the first
part). The budgets are not inductive: `issued <= MaxRetries + 1 + extra` says nothing of
how much may still be claimed. `Accounts` strengthens it: an unsettled, not running task
has already paid for each of its claims, with a retry, a user retry or a pause; a row
in a transaction still has the status that opened it (`LockedRows`), else a commit could
return a completed task to the queue. `AttemptsBounded` and `CompletionsBounded` follow.
`LatestClaimCompletes` is an action property from `Fenced`. `FencedTaskImplemented` maps
each step to a step of `FencedTask` or a stutter, where `Kinds` has no "paused".
`SettledStaysAlways` and `PermanentStays` hold where nobody cancels or retries by hand and no
worker pauses (`Unmeddled`): the first from `LockedRows`, so that no transaction still open
can move a settled row; the second where, besides, no failure is reported with the prefix
the server does not recognize (section 5).

`PipelineResolverProofs`. `RunsAfterParents` is not inductive: a blocked task whose timer
may release it must have its parents done too (`LiveAfterParents`), and a transaction must
not act on a wrong view of a completed task (`ViewsCurrent`: what it read is current on
every row not written since, and "completed" in its view is still true, as only meddling
moves a completed task). Together `Provenance`; `CompletedPipelineIsDone` is proved with it.
The lemmas before state what each operator of the resolver returns (`ReleaseLemma`,
`ResolveLemma`, `CondemnLemma`, `OutcomeLemma`), and that a commit writes only rows unchanged
since they were read (`KeepLemma`). `TypeCorrect` is proved from the same lemmas.

`CoordinationProofs` speaks of five modules and of `MCCoordination`, which composes them.

* Election. `OneLeader` follows from `KeyHeld`: the leader holds the key
  (`LeaderHolds`) and every live holder will extend it in time (`HolderLasts`: more is left on
  the key than the ticks, `Need`, in which its next extension must come). This needs
  `Timely`: TTL > Beat + 2 Delay, as a beat may extend early and the next one late. With
  the code's 30 s and 15 s that is a beat shorter than 7.5 s. The theorems hold while no
  fault of a whole beat has happened (`Unharmed`); lost single requests and crashes are
  within it.
* Breaker. `CountsFit` is inductive with the types (`BreakerAlways`).
* Fair queue. That a round serves everybody is not inductive: it says nothing of where the
  index stands. `QueueInv` adds that the index is a document's or 0 (`IndexFits`), and of the
  document at each place that the pops it has waited for, and those until the index comes round
  to it, are fewer than the documents (`TurnComes`). `RemoveOne` says what `list.remove` leaves of a
  list without repetitions.
* Indexing jobs. `TablesAgree` says nothing of what the thread is about to write. `JobsInv` adds what
  its next statement takes for granted (`WorkerKnows`: the job it claims was claimable, the
  document of a job about to be completed is INDEXED, of one about to fail FAILED, and a
  resubmission in between can only have lowered the attempts it read), that an attempt is left
  for whatever may still be tried, counting ends of the process (`AttemptLeft`, which bounds
  `AttemptsPaid`), and that only an error leaves a running job without its thread
  (`Attended`, at every statement and not only while the thread is idle).
* Laboratory. `LedgerTells` is inductive with the types once what is begun is bounded by what is
  used (`LabInv`); the counts of the ledger are cardinalities of sets of requests.
* Composition. `PartsKeepTheirSpecs`: each part of `AllSpec` behaves as its own module says, the
  others resting. From it `AllTypeOK`, `RoundRobin`, `JobsAccounted`, and the election as before.

`DocumentWorkspaceProofs`. The three properties hold between effects, so the invariant says
what each effect still due will do: the saved document is the selected one unless
"derive" or "restore" is due (`Stored`), the pipeline is the document's unless "derive" is
due (`Paired`), the interval is of the selected pipeline unless "details" is due (`Watched`).
One lemma per group of handlers, and `EffectsKeep` for the effects themselves.

`ClientPagesProofs` speaks of seven modules and of `MCClientPages`.

* Chat. `StreamingHasSource` and `AnswersAreFinal` need each other's ground: the number
  of a question belongs to one reply and to one POST or event source (`Numbered`), a reply
  that ended by itself has neither left (`EndedIsQuiet`), one that streams has one (`Backed`).
* Preview. `PreviewTells` with the types of the loads under way (`PaneInv`).
* Shell, its requests and the polling: the types, and `DevViewsFollowMode` (`ShellInv`).
* Notices. The counter on the bell is the number of unread lines (`NoticesCounted`) only if a
  poll that is under way brings no more read notices than notices (`PollsFit`).
* Replay page. The position is among the events shown (`PositionFits`), which holds since events
  come only where a pipeline is selected (`SelectedKnown`); that the summary counts the marks of the
  track (`StatsAgree`) is a fact about any list of events, by counting sets of positions.
* Session. From `AuthSessionProofs`.
* Composition: as above; `AllTypeOK`, `ShownExists`, `KeptOnReload` and both properties of the chat.

`PipelineConsoleProofs`.

* Folds. A fold of the library is a recursive function on the sets of places still to go. That there is
  one, and what each step of it adds, is shown by the least counterexample (`FoldExists`,
  `ChainExists`), once for any operation and list; a property of a fold is then shown for its
  parts in order. No induction theorem is cited.
* Merging. `Merge` keeps the rows of the timeline in order of time, each row once, and drops a row
  only when the limit is reached and later ones remain. The stable sort is stated by ranks
  (`Ahead`, `Sorted`), so this is counting: each rank belongs to one row (`RanksAreOnce`).
* Searching. `JumpIsFirstAt`: on a log in order of time the binary search of `handleJumpSubmit` is
  `FirstAt`. The recursive function exists on the bounds the loop can reach because the range
  shrinks (`SearchEnds`); what it returns is shown for the smallest range for which it would be
  wrong. The only assumption is `Chronological`, that a log is in order of time: so
  `replay.py:122` sorts a replay and `app.py:2133` the timeline, both by `created_at`. What it leaves out
  is that an event may be committed with an earlier time than one already served: the model's
  log only grows at its end.
* Console. `NoGaps` is not inductive: it takes `Logged`, that the rows of the timeline are as they were
  logged, and that an answer under way is a part of the log. With the types
  of the replay, `OneReplay`, and the cache of differences, of which every entry is of the replay at
  hand (`CacheOK`), that is `ConsoleInv`. From it the types, `ReplayIsOfSelected`, `NoGaps`, `JumpFinds`,
  `DifferenceIsOfReplay`, and the action property `TimelineKeeps`.
* Comparison. Each snapshot is made from the one before and its event (`SnapshotsGoOn`), so the retries
  it tells of a task are those logged up to it (`RetriesAreMarks`), and the delta of two snapshots, added up
  over the tasks, is what was logged between them (`DeltaIsMarks`). With the cache's part of
  `ConsoleInv` that is `DiffIsTrue`.

`PipelinePagesProofs` speaks of the six other modules of a pipeline's views and of `MCPipelinePages`,
which composes the seven.

* Diagram. `HighlightIsRelated`: what `PipelineVisualizer` lights by going over its edges until nothing
  is added is the closure `Reached`, up and down. Each pass stays inside the least set closed under
  the edges (`PassKeepsLeast`), and finds more unless it is closed (`PassFindsMore`), so the
  loop ends there (`LoopIsLeast`). `ProgressAgrees`: the nodes of the stages are the
  tasks, each once and by rank (`NodesAreTasks`, `NodesInOrder`), so that what they say of progress is
  what the tasks do; that 100 % means all tasks takes fewer than 200 of them, as a rounded 99.5 is 100.
* Monitor. `MonitorInv`: of the requests one at most is live, it is of the selected pipeline, and never
  beside a timer. Dialog: what is neither there nor an error is loading, and what is loading has a
  fetch under way (`DialogInv`).
* Analyses. A request under way has its tab waiting and no model in its place (`LoadsOK`); the
  span is one of the performance analysis (`SpanOK`). `SpanIsSought` follows for each click from what
  `FirstOf` and `LastOf` find (`FirstEvent`, `LastAtEvent`). That every segment is drawn once is
  `LanesAreDrawn`. `UntouchedGainsNothing` is not inductive: it takes `PoolTold`, that an untouched slider
  stands at the pool its tab speaks of. There the quotients cancel (`OptimizedAsItIs`,
  `AdvisedAsItIs`). `MoreWorkersNeverHurt` takes the simulators apart into quotients that shrink with the
  pool, or grow at most with the others shrinking (`OptimizedShrinks`, `AdvisedShrinks`); products are stated as
  lemmas of two numbers, which is as much as the prover takes at once.
* Fault lists. A list hears of one retry at most, that of the task it waits for, and hears of that
  one (`WaitsOK`); that the selected task is unfolded needs no more than the lists' types. The current
  stage is a fold over the tasks (`StepsGoOn`); `StageIsTold` says what it finds.
* Composition: as above; `AllTypeOK`, `ShownIsOfSelected`, `DialogDraws`, `ComputedIsTrue`, `StepsKeepPlace`.

`AuthSessionProofs`. `TypeCorrect` and `KeptOnReloadAlways`, inductive together: a sign-in stores a
token that is not `NoToken`, and only the handlers of other tabs can replace it, which `overtaken`
records.

Assumptions: the named ASSUMEs of the modules, which the runs evaluate, or the `...Assumption` of a
module that is composed, which `PartsAssumption` of the composing module collects. They are
types and bounds of the constants, and facts about given data: a log is of events, of finitely many
tasks, in order of time (`ConsoleAssumption`); the segments of an analysis are of tasks, with attempts
numbered from 0 and a first one for each task, its workers have ranks, and a critical path takes some time but
not more than the tasks run and wait, as `analyze_performance` adds it up (`AnalysisAssumption`); a moment
of a replay shows rows, and a task's step is one of the stages or none (`PageAssumption`).
`ProgressAgrees` itself speaks of pipelines of 1 to 199 tasks.
Beside them only `Timely`, `Unmeddled` and "no pauses" (`FencedTaskImplemented`), where the theorems
name them.

Only model-checked, and why: all liveness (`EventuallySettled`, `MissingIsHealed`, `ReadyIsReleased`,
`PipelineSettles`, `Elected`, `Recovers`, `Settles`, `CatchesUp`, `AllSettle`, `JobsEnd`), which is out of the
prover's reach. Every safety property of a passing run is stated by a theorem.

## 5. Known deviations

Two runs reproduce what the code does against its own documentation, comments or texts; the
quotations are in `PROJECT.json`, "findings":

* `join_skew`: two parents of a join complete in overlapping requests. Each reads the
  other as running (`dependency_resolver.py:297`), neither releases the child, and no
  scanner looks at a task blocked without a reason.
* `missing_child`: a child is pushed, popped and refused before the commit that makes it
  pending (`dependency_resolver.py:345`); `scan_and_fix_missing_queue_tasks` would heal it,
  but compares Enum with string (`app.py:1528`).

Five more are of the same kind. No run shows them, but TLC does, within two minutes, when it is given
the definition and the constants named:

* A late pause moves a settled task. The reaper takes a task from a worker and fails it, or a
  later claim completes it, and then the worker's pause arrives; pauses are not compared with
  the lease (`app.py:1050`), and the task runs again from there. To see it: `SettledIsFinal` in
  `lifecycle_live`, which has a pause (the failed task; with `MaxRetries = 3`, `MaxFaults = 0` and no
  "failed" in `Kinds`, the completed one).
* A completed task is cancelled. `cancel_task` looks for settled tasks by comparing Enum with
  strings (`app.py:799`); a retry then runs it again. To see it: `SettledIsFinal` in
  `lifecycle_live` with `MaxPauses = 0` and `MaxCancels = 1`. What either costs is bounded by
  `CompletionBudget` and `Accounts` in `lifecycle_users`, which has both; `SettledIsFinal` as
  `lifecycle_faults` checks it says nothing of them.
* A document is starved. One that runs out of jobs is removed at the index, and the one that
  follows is skipped for a round (`scheduler.py:28-32`); against a document that comes back
  with a single job each time, it is skipped every round. `Scheduler.md:4` says "prevents queue
  starvation". To see it: `NobodyStarves` of `FairQueue` under its `FairSpec` with two documents and
  `MaxJobs = 2`. `RoundRobin` says what is left: since a document last left, each has waited for
  less than a round.
* The task dialog shows one task's details under another's number. An answer is stored
  whichever task the dialog is open for by then (`components/TaskModal.js:36-47`). It is
  corrected by the new task's own answer, if that comes later and does not fail; `force` is read
  from the details shown, so a retry may be forced for the wrong reason. To see it:
  `DetailsAreOfTask` of `TaskModal` under its `Spec` with two tasks, `MaxFetches = 2` and the other bounds
  1. What the dialog keeps is `DialogDraws`: details of some task, an error or a fetch.
* The timeline keeps the rows of the pipeline selected before. Only a deselection clears it
  (`contexts/PipelineContext.js:879`); a switch merges the new pipeline's events into the old one's
  rows (`899`). The rows of both are shown in order of time until nothing is selected, and once
  the 1000 rows are full of later ones of the old pipeline, an earlier event of the new one
  never appears. To see it: `FollowsSwitch` in `pipeline_pages`. What is left of it is
  `CatchesUp`, which counts such an event as pushed out, and does not say by whose rows.

The others need only a change of constants in an existing configuration, or are named by the
definition that keeps them:

| what the code does | where | how to see it |
|---|---|---|
| a failure the worker prefixes "PERMANENT: " is retried | `worker.py:2213`, `app.py:1118` | `lifecycle_faults` with "permanent" in `Kinds`: `PermanentIsFinal` |
| two last tasks complete in overlapping requests, the pipeline stays running | `dependency_resolver.py:410` | `pipeline_shortcut_live` with two nodes without parents and `Overlap = 2`: `PipelineSettles` |
| after a beat that cannot reach Redis two processes lead, as the next beat comes when the key expires | `ha_coordinator_service.py:189` | `coordination` with `OneLeader` for `OneLeaderUnharmed` |
| a pipeline is set failed while its only unfinished task backs off: "blocked" assigned as a string is counted nowhere | `app.py:1127`, `dependency_resolver.py:411-447` | the last branch of `RollUp` |
| a half-open breaker closes after success, failure, success, the failures being below the threshold | `circuit_breaker.py:147` (docstring, 44: "consecutive") | `CountFailure`, its second branch |

In `IndexingQueue` (paths relative to `backend/platform/`), which keeps these as they are:

| what the code does | where | what it costs |
|---|---|---|
| a restart queues running jobs again whatever their attempts, and `dequeue` takes any queued job | `scheduler/retry_worker.py:48`, `scheduler/sqlite_queue.py:39` | a document that brings the process down is tried at every restart; why `AttemptsPaid` counts `stops` |
| a document is locked only from the thread's first statement on, and the lock is looked at, not taken | `services/document_service.py:86` ("Returns True if locked/available") | a job may be submitted again while it is claimed or ends |
| a submission between INDEXED and `complete` is overwritten | `scheduler/sqlite_queue.py:63` | answered "queued", never run |
| a submission between the read and the write of `fail` may leave "failed" with no attempts | `scheduler/sqlite_queue.py:72-83` | tried again, though the status says it ended; `JobsEnd` holds, since `dequeue` takes those |
| an error outside the `try` of a run leaves the job running | `scheduler/retry_worker.py:85` | nobody works on it until the next start, and if the document says INDEXING it refuses submissions (409); why `JobsEnd` excepts `Abandoned` |

In the client (paths relative to `frontend/src/`) the modules keep these as they are; the
properties are stated so that they hold all the same, and "what it costs" is what they
therefore do not say:

| what the code does | where | what it costs |
|---|---|---|
| a details answer is applied whatever is selected by then | `pages/WorkspaceHome.jsx:219` | the workspace may show another document's state until the next answer; a reload that fails on a terminal status is not polled again |
| a deletion that ends late clears whatever is selected by then | `WorkspaceHome.jsx:652` | the document selected meanwhile is dropped, also from `localStorage` |
| a retry after a GET that failed uploads the file again | `upload/UploadWorkspace.jsx:45` | two documents for one file |
| the palette's entry for an upload opens a view without a page | `App.js:155` | nothing is shown; every other entry does |
| the side panel of the library keeps a copy, its delete button has no handler | `pages/DocumentsLibrary.jsx:21`, `283` | a stale status beside a fresh list |
| the stop button works before the POST is answered, and the stream opens afterwards | `WorkspaceHome.jsx:530` | "[stopped]" is overwritten; two streams after a new question. `AnswersAreFinal` speaks of replies that ended by themselves |
| event streams are not closed when the page is left | `WorkspaceHome.jsx:530` | a stream runs on for nobody |
| the saved document is restored at every mount, which is not only the first: `App` keeps the selection, the page does not | `WorkspaceHome.jsx:124` | a document clicked in the library or the history right before the workspace opens is replaced by the one saved last (`Picked` in `DocumentWorkspace`); `SelectionsAgree` and `ReloadRestores` say only that pipeline and storage follow |
| a failed poll is shown in place of the rows until a good answer or a deselection, and entering a replay stops the polls | `logs/ExecutionConsole.jsx:644` | the rows of the replay are hidden for as long as it lasts (`Viewport`) |
| a deselection while the monitor loads leaves `loading` set | `components/PipelineDashboard.js:23`, `41` | "Loading..." with nothing selected, until a pipeline is selected and loaded (`Follow`) |
| a click on a row of the filtered list seeks the row's place in the list | `logs/ExecutionConsole.jsx:222` | the replay goes to another event |
| `replaySnapshots[replayIndex]` is read without a guard | `logs/ErrorPanel.jsx:83` | safe because of `ReplayIsOfSelected` |
| in a replay the first fault replaces the one chosen at every render | `ErrorPanel.jsx:98` | "Auto-expand task when it is selected elsewhere" does not last |
| entering a replay aborts the analyses and leaves their loading flags set | `PipelineContext.js:621` | a tab that shows loading until the replay is left or another pipeline is selected |
| replay events have no `timestamp` | `PipelineContext.js:859` | a span chosen takes the replay to the first event of its task, which is what `SpanIsSought` says |
| signing out in one tab leaves the others signed in; expiry is looked at on restore only | `contexts/AuthContext.jsx:36` | `KeptOnReload` excepts tabs whose stored token another one replaced |
| search answers are taken in any order; so are details of a pipeline deselected since | `layout/AppShell.jsx:118`, `App.js:118` | results of an older query; `Settles` speaks of the pipeline selected |
| a poll answered before a clearance brings the notices back | `contexts/NotificationContext.js:65` | until the next poll |
| a cancellation is confirmed for whatever pipeline is selected by then | `pipeline/ProcessingWorkspace.jsx:320` | the other pipeline is cancelled |
| the monitor stops polling on "failed" | `components/PipelineDashboard.js` | a retry is not followed there |
| progress is rounded | `pipeline/PipelineVisualizer.jsx:447` | 100 % with one task of 200 or more left |
| any status but the empty one counts as connected | `components/SystemInfrastructure.jsx:53` | "offline" is shown as "Connected" (not modelled) |
| polls of a suite overlap, the suite may be switched while one runs, and no answer is compared with it | `components/validation/useValidation.js:117`, `components/ValidationLab.js:39` | the result of another run is shown; `RunsEnd` holds nevertheless |

## 6. What is not modelled

* What a task computes, and which of the lists a worker prefers.
* The load figures behind admission, deferral and priorities: free choices here.
* Artifact hand-over, file records, notifications as the server makes them, all events
  but DEPENDENCY_RELEASED.
* The API's check of a non-pipeline task's own dependencies, of which only the
  outcome, waiting and then released, is kept.
* Startup reconciliation, which replays the event log (planned with it).
* Scoring among providers in the broker, the cooldown scheduler, pacing.
* Pipeline ownership (whose cache of versions has no reader today: `verify_fencing_token` has no
  caller), job leases, quotas, the event log and DAG construction: planned, below. Of quotas one reading is certain without a
  model: the script of `quota_manager.py:6` lacks its closing `end`, so `acquire_quota` always
  raises, after the job's lease was taken.
* Of the platform runtime: `MemoryQueue`, which forgets its jobs at a restart and leaves their
  documents INDEXING; `RedisQueue`, which hands every call to the SQLite queue; caches, query
  API, heartbeats and audit log; `delete_document`, which has no caller. A commit that
  raises after its statement is not distinguished from a statement that raises.
* Parsing, chunking, embedding, retrieval, generation, the domain layer, metrics and
  API keys: sequential, or without control state.
* In the client: layout, zoom, filters and sort orders of lists, measured times and formats;
  the back button; the drawing of `PipelineDAG.jsx`; `SystemBenchmarks.jsx`, which is fixed data
  and one timer of five ticks; landing page, documentation pages and component library.
* `App.js` imports the replay page, the workers page, the architecture overview, the
  diagnostics page and the validation laboratory, and no view renders them. `ReplayPage` and
  `ValidationLab` are modelled as their components stand; the others only list what one
  request answers. `AppShell` offers no sign-out: one signs out on the public pages.
* Client and backend are not composed: the server's side in the client's modules is what
  `TaskLifecycle` and `PipelineResolver` let a reader see, restated.

## 7. Plan

Written so far, in this order: `TaskLifecycle` and `FencedTask`, `PipelineResolver`,
`LeaderLock`, `CircuitBreaker`, `FairQueue`; then the client, from the workspace to the
laboratory; `IndexingQueue`; with the proofs of section 4, which cover every
safety property of the passing runs, some under the hypotheses named there. Left:

1. `PipelineOwnership`: claim, batch renewal and the version cache, over `LeaderLock`'s
   flag as an input; properties: versions only grow, at most one owner per version, a
   renewal never revives a lost ownership. Proof: versions are monotone and unique.
2. `JobLease`: the execution engine's lease and concurrency counter around
   `ExecutionWorker.execute_job`, composed with `FairQueue` and `CircuitBreaker`; abstract
   counterpart: a bounded pool of slots. Hazards: a lease shorter than its job, a slot
   leaked by a crash.
3. `EventLog`: sequence numbers under concurrent appends, segments, snapshots and
   compaction, with an abstract log that replay has to reproduce; startup
   reconciliation on top. `PipelineConsole`'s log is then its refinement.
4. `DagBuilder`: cycle check and template expansion as recursive functions, compared with
   a reference definition on all graphs of up to four nodes.
5. Composition of `TaskLifecycle` and `PipelineResolver`: the single-row view of a task in
   the second implements the first's rows, so that "waiting, then released" is no longer
   a free choice.
6. Proofs: the ownership and slot invariants of 1 and 2.

The number of runs is kept small on purpose: modules without state in common are checked
side by side in one.

# DeepBounty: a TLA+ verification project

DeepBounty is a server that runs bug-bounty modules. Modules register task
templates; the server schedules tasks for every target, hands their executions
to worker machines over WebSockets, and passes the results back to the modules,
which report alerts; a web application shows and changes all of it. This
directory models the parts whose difficulty is concurrency and failure, checks
them with TLC on small instances, and proves the most important invariants with
TLAPS for every instance.

Read a module together with the source named in its header: operators and
actions carry the names of the functions they stand for, and `PROJECT.json`
("map") names the lines of each. It also lists the components with what is
modelled of each, and the hazards with the line where each bites and the
properties that cover it, or why none does.

## 1. The system

The server (`src/server`) is one Node.js process. Nothing in it is preempted:
two handlers interleave only where one of them awaits. So an action of a model
is the code between two awaits, and a hazard is state read before an await and
used after it. Workers (`src/worker`) are other processes, the CPU pool starts
threads, and a page of the web application (`src/webapp`) is a client with state
of its own whose requests are answered late, out of order or never; those
interleave with the server at every step.

| Component | State | Operations | Hard because | Correct when |
|---|---|---|---|---|
| Task dispatch: `websocket.ts`, `tasks/taskManager.ts` | registered workers, credits, `currentTasks`, tools, `pendingInstallations`, `pendingQueue`, the lock and note of `assignNextTask`, executions | createExecution, assignNextTask, sendTask, result, ready, busy, tools:list, connect, close, disconnect | two awaits inside assignNextTask; connections break unnoticed; large results are handled late | every execution runs on one worker at a time and only that worker ends it; no worker is overloaded; nothing is forgotten |
| Worker process: `worker.ts`, `taskHandler.ts`, `tools.ts` | slots, local queue, installed tools | start, finish, reconnect, shutdown | scripts outlive the connection | it announces no more slots than it has |
| Scheduler, registry, pruner: `taskManager.ts`, `utils/registry.ts` | scheduled tasks with due times, executions | checkDueTasks, manual runs, instances, edits, retention sweeps | results that arrive late, edits between sweeps | a task comes round, an instance runs once, nothing in use is pruned |
| Task builder: `tasks/taskBuilder.ts` | commands of an execution (shared arrays) | installs, placeholders, custom data | an execution is prepared again after a failed attempt | what is sent is replaced, for the right worker and target |
| Task synchronization: `taskManager.ts`, `taskTemplateService.ts`, `controllers/` | scheduled tasks, templates and their cache, targets, overrides | every request that changes them, sync of one or all | reads, writes and syncs of requests interleave at each await | the registry holds the tasks that the database asks for |
| Alerts: `services/alerts.ts`, `services/alertQueue.ts` | `pending`, its file, `flushing` | createAlert, enqueue, flush, start | enqueues during a flush; crashes between commit, save and enqueue | an alert whose insert failed is stored at last |
| CPU pool: `cpu/*` | threads, queue, what each runs | runCpuTask, onResult, recoverWorker, terminate | threads die with replies under way; one death emits two events | every task settles |
| Event bus: `events/*` | listeners, handler queue, limiters, counters | subscribe, emit, drain, cleanup | handlers that never end; cleanup with handlers queued | each event reaches each listener once, in order |
| Module lifecycle: `modules/loader.ts`, `server.ts` | loaded modules, buses, databases, shutdowns | load, init, shutdown on signals | signals while loading, two shutdowns at once, a stop() that hangs | nothing new reaches a stopped module; the process ends |
| Module settings and storage: `modules/moduleConfig.ts`, `modules/moduleStorage.ts` | cache of arrays, transaction flag | initSettings, setSetting, settings page; transaction, executeMany | arrays shared by reference over awaits; nested transactions that fail | a setting acknowledged stays; transactions are atomic |
| Callbacks, DNS: `services/callbacks.ts`, `services/dns.ts` | row with trigger count, handler, chunk buffer | create, trigger, expire; chunks, timer | check and update are two statements; the buffer is kept over an await | a single-trigger callback triggers once; a transfer removes its own buffer |
| Targets and scope: `services/targets.ts`, `utils/domains.ts`, `controllers/scope.ts` | two caches, reads in flight, scope index, version | read, invalidate, index, match, feed | a read in flight survives the invalidation; rules of several targets overlap | what is read after a write shows it; scope and target agree |
| Analytics: `events/eventMetrics.ts`, `services/analytics.ts`, the pool of `db/database.ts` | counters, rows, waiting queries | record, flush, shed, read, sweep | flushes overlap; the pool sheds load | every emit is counted once |
| Configuration, sessions: `utils/config.ts`, `controllers/{setup,auth,settings}.ts` | `config.json`, its copy, sessions | load, save, setup, login | crashes and full disks in a write; bcrypt between reading and using the password | what was acknowledged stays |
| Notifications: `services/notifications`, `controllers/notifications.ts` | services in the configuration, the tab's copy | load, save, test, notify | the tab shows what it read or saved last | what it shows and nobody edited is stored |
| Web application: `pages/*`, `components/*` | lists, dialogs, selections, requests under way | load, edit, save, delete, navigate | answers are late, lost or overtake each other; other sessions write | what is stored is what the user meant, and the page shows it |

## 2. The modules

Variables "for the properties" record what no part of the code needs but a
property speaks of; no guard reads them, except where a bound says so.

### Dispatch: WorkerHandler, TaskDispatch, ExecutionLifecycle

`WorkerHandler` is the worker's half of task execution and the wire;
`TaskDispatch` extends it with the server's half. `ExecutionLifecycle` is the
abstract specification of one execution, which TaskDispatch implements: pending,
assigned to one worker, ended by that worker only and once, or pending again.

A member of `Workers` is a *connection*: the server numbers connections from a
counter (websocket.ts:27), so after a reconnect the same process (`Host[w]`) is
another member. No number is given twice while the server runs; after a restart
they start at 1 again, which matters to the page that lists them (WorkersPage).
What a process keeps over a reconnect (tools in `/tools`, scripts still running
for its old connection) is kept; what lives in the handler object of a connection
(`activeCount`, `localQueue`) is per connection.

Messages from a worker are a FIFO per connection. The other direction is a set of
starts and a flag for `system:shutdown`, because their order changes nothing for
the worker. A connection is `open`, `broken` (the server has not noticed: what
was sent before still arrives, what the server sends is lost) or `gone` (the
close event was handled).

`assignNextTask` is the heart. Its program counter `pc` is `idle` (lock free),
`pick` (between the loop's head and the next await), `template` (awaiting the
template) or `prepare` (awaiting the placeholder values). While `pc = "pick"`
no other handler of the server runs (`Suspended`), but workers go on. `hand` is
the execution shifted off the queue, `snap` what listWorkers returned before the
first await, `chosen` the worker chosen after it, `todo` the passes left of
`tasksToCheck` and `hasPending` the note left for the lock's holder.

A template may be deleted while executions of it wait (`gone`): they stay in the
queue. getTemplateCached may still find it, in the pass's own cache or in the
service's, or not (`TemplateFound`); without it, an execution is aggressive no more.

Data that no property tells apart is left out: commands are reduced to the tools
whose installation they carry (`install`), results to success or not, and large
or not. A result of more than 256 KiB waits in `deferred` for `setImmediate`.

`TaskCommands` has what TaskDispatch leaves out of the commands: the arrays of
template, execution and clone as a heap, three passes of replacement with an
await before the target's, and attempts that fail at any point. An array is the
set of its commands: no pass looks at their order. Targets are looked up in the
snapshot that services/targets.ts caches, `tcSnapshot`, of any age; when fetching it
fails, the execution is dropped, as assignNextTask's catch does. `tcSeen` (for the
property) is the target an execution's commands were last made for, if the
snapshot had it.

### Scheduling: Scheduler, TaskSync

`Scheduler` is checkDueTasks, manual runs, one-time instances, edits of interval
and switch, and both retention sweeps. Due times count down and ages count up to
a cap; a tick is the 5 s of the sweep. A worker is what the registry sees of it:
an execution starts, ends, and its listeners are told. Executions are kept in
numbered places, in no order: none of the code's walks over the registry has one.
`callback` says whether the CUSTOM template has an onSchedule: a manual run calls it,
or, without one, enqueues the template's instances again.

`TaskSync` has one template with its scheduling type, the rows of `targets` and
`target_task_overrides`, the template cache and the template's scheduled tasks.
Requests are processes: `pc[r]` names the await a request is in, `job[r]` what it
asks for and the locals of its sync. A step `...InDb` is the database executing
one statement; the next step of the request is the event loop handling the
answer. `Lookups` are the other callers of getTemplate - the dispatcher, manual runs,
createTaskInstance -, which read and fill the same cache in three steps, between
any two steps of the requests. `ON DELETE CASCADE` is part of the DELETE. A deleted target stays
`deleted`, as ids are serial. A task is named by its target and a number that
counts the tasks created for it; the initial states are those right after a
module registered its template on any database.

### Alerts: AlertQueue

`createAlert` of each alert, the queue in memory, the file and `flush()`.
`pos` is the index of flush's loop, which runs over the *live* array: rows
enqueued meanwhile are visited in the same flush. A statement is acknowledged,
fails with an error that withRetry retries, or with one it does not; a retried
error may hide a commit. A crash takes all memory; the file stays, written as a
whole (temporary file and rename). `table[a]` counts the rows of an alert, 2
standing for two or more.

### Modules at run time: EventBus, EventDelivery, ModuleRuntime

`EventBus` is the bus for one event name: listeners, `handlerQueue`, the
`setImmediate` turns, the limiter of each module and the cap on what is active.
`EventDelivery` is what it promises - a subscribed handler is given every event
once and in order - and `ImplementsDelivery` that it does, with what waits in
queue, turns and limiters as the deliveries still owed. `ModuleRuntime` composes
the bus with the life of the modules that use it: the loader, initModules, and
shutdowns started by signals at any time. It assumes that the directories list a
module once, which validateModule.ts ensures as an id is the name of its
directory, and that there are finitely many handlers. A module's own code may
subscribe at any time from its constructor to the exit of the process, after its
cleanup too: ModuleEventBus does not refuse it (`backAt`, for the property).

### Services of the server

- `CpuPool`: threads by order of creation; a thread's events (`result`, `error`,
  `exit`) reach the main loop in order. A crash emits `error` and then `exit`, a
  kill `exit` alone, `process.exit()` in a module's function an `exit` with code
  0. `dispatch` never awaits; it stops at a task whose input cannot be cloned,
  after marking the worker busy, as the code does.
- `Callbacks`: one callback, its triggers over HTTP and DNS, and the chunk buffer
  at its uuid, filled by two senders, swept by a timer, and deleted by the
  `finally` of whatever transfer ends.
- `TargetsCache`: two read-through caches with their reads in flight; what a table
  holds is its version. A statement may be executed, lose its answer and be sent
  again (a repeated DELETE finds no row: 404, and nothing is invalidated); the
  INSERTs of a list go one by one, and some may be executed after one has failed.
  `crossed`, for the property, marks what was fetched across an invalidation or
  before a change that none followed. `ScopeRules`: the index of rules and its two
  readers as operators over the rows, which requests change; IsHostnameInScope looks
  the normal form of a hostname up (`NormalizeDomain`), DetectTargetId what it was
  given. The ids of targets are positive numbers, finitely many. `ScopeFeed`: the requests that change the list of subdomains statement by
  statement, the version counter and the client that polls it.
- `ModuleConfig`: the settings array, cached by reference, changed in place and
  written whole; a settings page reads the list when it is loaded and writes it,
  with one setting changed, when it is saved, any time later. `ModuleStorage`: the stack of nested calls of transaction and
  executeMany with the flag `inTransaction` and a SQLite that may refuse BEGIN,
  COMMIT, ROLLBACK or a statement, or roll back by itself.
- `Analytics`: counters, overlapping flushes that insert row by row through a small
  pool that sheds, cached statistics, retention. A count is the set of the emits it
  counts, which are numbered, so that "once" can be said of each.
- `ConfigStore`: `config.json` and its copy through crashes and full disks, the
  first setup, logins and sessions with bcrypt between reading and using the
  password.

### The web application

Each models a page with the requests it sends and the handlers that answer them.
`WebSession`: which page a tab shows (Auth, Login, AuthSetup, layout, restarts).
Sessions are in the server's memory; a request is of the session that its cookie
named when it was sent, and a new cookie comes with the answer, or is lost with it.
`TargetDialog`: the form filled from a list, with an empty list in scope shown as
the wildcard of the domain; saved in three requests, for the row, both lists and
the settings. `tdShown` and `tdKept` (for the property) are the parts its user does
not touch as the list showed them, and those nobody has changed since.
`ModulesPage`: rows of templates patched one by one, and the dialog that saves the
settings and every template at once. `AlertsPage`: search, pages, filters, rows
ticked by position, deletions. `SettingsPage`: URL, Swagger switch and key of the
general settings, whose copy in memory changes even when writing the file fails. `Notifications`: the tab with its services, and the messages an
alert sends. `WorkersPage`: the list of workers and the disconnect button, over
numbers that a restart gives anew.

`MCServices` and `MCPages` check these parts together, one run each: the parts
share no state, the initial state chooses the one that moves (`part`), and all
others stay as they are. So the run's states are those of the parts, side by side.

## 3. What is checked

All runs are exhaustive. "Deadlock" is off because each bounded model comes to
rest when its executions, requests, alerts, clicks or tasks are used up.

| Run | States | What holds | Bounds |
|---|---|---|---|
| dispatch_all_faults | 1.71 M | TypeOK; CapacityRespected (credits, starts, scripts and readies never exceed the slots); QueueSound; CurrentTasksAgree; NoSilentLoss; NoDuplicateInstall; AggressiveConfined; ImplementsLifecycle | 2 executions, 2 workers on 2 hosts, a tool both executions need, execution 1 aggressive, one worker for those; the worker offers 3 slots, the server caps at 2; all faults: broken connection, crash, administrator's disconnect, deleted template, failing lookup, failed script, large result |
| dispatch_reconnect | 735 K | NoneForgotten, NoOrphan | 3 executions, one process with two successive connections; broken connection, crash, failed script, large result |
| dispatch_live | 19 K | EventuallyEnds | 3 executions, 2 workers; scripts may fail |
| dispatch_lookup | | *violation* of NoneForgotten: a failing lookup forgets an execution | 2 executions, 1 worker |
| scheduler | 1.02 M | InstanceRunsOnce; NothingForgotten (an execution whose listeners were not told is in the registry); ComesRound | 1 recurring task with intervals 1 and 2, 1 CUSTOM template with interval 1, with or without onSchedule, and 1 instance, retention 0, 2 executions per task |
| sync | 4.1 M | RegistrySound (never a second scheduler or global task; without overlap also no duplicate, no stale cache, nothing for what was deleted); FreshSyncRepairs | 1 target, 3 requests of any kind, 1 lookup of the dispatcher, two open at once, 1 instance, intervals 0 and 1, all three types |
| sync_lost | | *violation* of EveryTargetScheduled: overlapping addTarget requests leave a target without a task | 2 targets, 2 requests |
| alert_durable | 34 K | QueuedNeverLost | 3 alerts, 2 attempts; failing and unacknowledged inserts, failing lookups, deleted targets, crashes |
| alert_live | 66 K | EventuallyStored | 3 alerts, 2 attempts; failing inserts, deleted targets, a file that cannot be written |
| module_runtime | 596 K | ImplementsDelivery, QuietAfterStop, EventuallyCalled, ExitsAtLast | 2 modules, both loaded; one has a stop() and a handler that returns, the other no stop() and a handler that hangs; cap 2, limiter 1, 2 emits, 2 signals |
| services | 1.16 M | EventuallySettled (CpuPool), SecondOnlyOverlapping and RemovesItsOwn (Callbacks), CachesCurrent (TargetsCache), ScopeSound (ScopeRules), SettingsKept (ModuleConfig), TransactionsAtomic (ModuleStorage), EveryEmitOnce (Analytics), LastListStands (ScopeFeed), AckedConfigKept (ConfigStore), SentIsReplaced (TaskCommands), SentAwayWithoutSession (WebSession) | 3 CPU tasks on 2 threads, 5 in all, one task not cloneable; 1 HTTP and 2 DNS triggers, 2 senders, 2 chunks, 3 arrivals; 3 writes against the caches, of 2 INSERTs, retried and failing; 2 targets over nested domains and 3 patterns, hostnames in and out of normal form; 3 settings calls, pages among them; 3 statements in 3 transactions, nested twice, 2 faults; 2 flushes and a reader on 1 connection; 2 lists, 2 subdomains; 2 users, 2 changes, 2 crashes or failed writes; 2 executions, 3 attempts, 1 change of a target; 3 clicks, 1 outage |
| pages | 4.67 M | UntouchedKept (TargetDialog), SavedUnlessTold (ModulesPage), TickedAreDeleted (AlertsPage), TabTellsTruth (SettingsPage), FormIsStored (Notifications), TheOneOnTheCard (WorkersPage) | 2 saves of a dialog, one part edited in each, 2 fetches, 1 change by another session; 2 templates, 2 saves; 3 alerts on pages of 2, 1 more created, 2 deletions, 2 fetches; 3 clicks in the settings, 3 in the notifications, 3 among the workers with 2 processes, 2 numbers and 1 restart; 1 failure each |

Why these bounds are enough to be interesting:

- *Dispatch.* Two executions are the least for queue order, for two executions on
  one worker and for duplicate installs; two connections for a wrong choice, for
  a result of the old owner after the execution has a new one, and for a
  reconnect. Three slots offered against a cap of two makes both sides of the
  minimum in "worker:ready" matter. Three executions appear where a set-back
  execution must meet both a running one and another queued one.
- *Synchronization.* Every conflict known to us is between two requests, or a request
  and a lookup; the third request shows what a later one repairs or does not.
- *Scheduler.* Two executions of a task let them pile up; two intervals let an edit
  shorten and lengthen what is due; retention 0 prunes at the first sweep that the
  age allows, so that a late result meets a task that is gone.
- *Alerts.* Three rows put one in front of, one at and one behind the position of
  the flush. Two attempts give each insert a first, a repeated and a last one.
- *Bus.* Two emits to two handlers are four invocations: they fill the cap of two,
  the limiter of one and the queue behind them. The handler that hangs holds one of
  the two places for good, and the other module's must go on through the other; when
  the hanging module's second invocation waits in its limiter, the cap is full and
  nothing is owed. The second signal meets the first shutdown at every step.
- *Services and pages.* Two of whatever overlaps, one more where order matters: a
  transfer whose buffer was swept, one that took its place and its chunks; an
  outer and an inner transaction and a later one; the flush that is shed behind one
  that holds the connection; a second deletion while the first is answered; a
  disconnect that outlives a restart.

### Fairness

Liveness assumes weak fairness of single handlers: the server's event loop
runs assignNextTask, every message, close event and timer; the worker's loop
likewise; sockets deliver while they are open; the sweep runs at each tick and time
passes; turns, limiters and shutdown steps go on. Node's event loop justifies
this. Four assumptions are about the outside. Scripts end: nothing in the worker
bounds them, so a script that hangs keeps its slot and its execution for good. A
module's CPU function returns or its thread dies: nothing bounds it either. Event
handlers end, but for those in `Stuck`, which never do; `stop()` ends, but for
`StuckStops`. And an INSERT that is tried again and again, for a row that can be
inserted, succeeds at last (strong fairness, because the database may fail any
number of times before). No fault is ever owed, and no new execution, alert,
event or task. Pages and the remaining services are checked for safety only and
have no fairness.

EventuallyEnds is checked without broken connections and large results on
purpose: with them it is false (section 6). EventuallyStored is checked without
crashes: a crash during an insert that has not failed yet loses the alert, and the
code promises nothing else. EventuallySettled excepts the tasks of workers that
are stuck for good, see section 6.

## 4. What is proved

For every value of the constants, from the assumptions named in the modules,
which only say what the constants are. Each row is `Spec => []property`; for the
two refinements (`ImplementsLifecycle`, `ImplementsDelivery`) and the two action
properties (`FreshSyncRepairs`, `SentAwayWithoutSession`) it is `Spec => property`,
with the specification of the module concerned. Every safety property of a
passing run is here.

| Theorem | Module | Property | Needs |
|---|---|---|---|
| TypeCorrect | TaskDispatchProofs | TypeOK, AssignerShape | |
| QueueIsSound | TaskDispatchProofs | QueueSound | |
| DispatcherImplementsLifecycle | TaskDispatchProofs | ImplementsLifecycle | |
| AggressiveIsConfined | DispatchOwnershipProofs | AggressiveConfined | |
| NothingForgotten | DispatchOwnershipProofs | NoneForgotten | no failing lookups |
| NoRunningOrphan | DispatchOwnershipProofs | NoOrphan | no administrator disconnects |
| CurrentTasksAlwaysAgree | DispatchOwnershipProofs | CurrentTasksAgree | |
| CapacityAlwaysRespected | DispatchOwnershipProofs | CapacityRespected | |
| NothingLostSilently | DispatchOwnershipProofs | NoSilentLoss | |
| NothingInstalledTwice | DispatchOwnershipProofs | NoDuplicateInstall | |
| NamesNeverRunOut | TaskSyncProofs | TypeOK, LookupsTyped, NamesSuffice | |
| RegistryIsSound | TaskSyncProofs | RegistrySound | |
| FreshSyncsRepair | TaskSyncProofs | FreshSyncRepairs | |
| InstancesRunOnce | SchedulerProofs | InstanceRunsOnce | |
| ResultsAreNeverForgotten | SchedulerProofs | NothingForgotten | |
| BusImplementsDelivery | DeliveryProofs | ImplementsDelivery | |
| QuietAfterItsStop | DeliveryProofs | QuietAfterStop | |
| AlertTypeCorrect | DeliveryProofs | TypeOK | |
| QueuedAlertsSurvive | DeliveryProofs | QueuedNeverLost | the file can be read and written |
| AckedConfigAlwaysKept | ServicesProofs | AckedConfigKept | |
| PasswordAlwaysStands | ServicesProofs | PasswordStands | |
| SessionsAlwaysKnowIt | ServicesProofs | SessionsKnowIt | |
| TransactionsAlwaysAtomic | ServicesProofs | TransactionsAtomic | |
| SettingsAlwaysKept | ServicesProofs | SettingsKept | |
| CachesAlwaysCurrent | ServicesProofs | CachesCurrent | |
| ScopeAlwaysSound | ServicesProofs | ScopeSound | |
| LastListAlwaysStands | ServicesProofs | LastListStands | |
| SecondAlwaysOverlaps | ServicesProofs | SecondOnlyOverlapping | |
| FinallyRemovesItsOwn | ServicesProofs | RemovesItsOwn | |
| SentAlwaysReplaced | ServicesProofs | SentIsReplaced | |
| OnlySentAwayWithoutSession | ServicesProofs | SentAwayWithoutSession | |
| EmitsAlwaysOnce | ServicesProofs | EveryEmitOnce | |
| AlwaysTheOneOnTheCard | PagesProofs | TheOneOnTheCard | |
| UntouchedAlwaysKept | PagesProofs | UntouchedKept | |
| SaveAloneStoresAll | PagesProofs | SavedUnlessTold | |
| TickedAreTheOnesDeleted | PagesProofs | TickedAreDeleted | |
| TabAlwaysTellsTruth | PagesProofs | TabTellsTruth | |
| FormIsAlwaysStored | PagesProofs | FormIsStored | |

The arguments:

- *TypeCorrect.* TypeOK is not inductive: SendTask writes `hand` into sets of
  executions, so one must know that `hand` is one. `AssignerShape` says what the
  locals of assignNextTask are at each `pc`, and `TypeInv == TypeOK /\
  AssignerShape` is inductive. One lemma per group of actions.
- *QueueIsSound.* What is requeued after a close event must not be queued already:
  the code tests this with `includes`, and the executions it tests are running,
  which QueueSound keeps out of the queue. `QueueInv` adds that absent and pending
  executions have no worker and that ids not yet given are absent. The lemmas about
  sequences without repetition say what Append, Tail and concatenation do to the
  set of elements, and what `NewestFirst` yields.
- *DispatcherImplementsLifecycle.* handleWorkerResult looks at the worker of an
  execution, not at its status; that a result ends an execution only once is
  therefore not local. `SentInv` says in which places an execution sent on a
  connection can be - on the wire, in a slot, waiting, reported or deferred - and
  that it is in one of them only, so a second result never comes. Each step then
  maps to a step of ExecutionLifecycle or leaves it alone.
- *AggressiveIsConfined.* The choice and the assignment are two steps with an
  await between; `AggressiveInv` carries the choice over it, also when the template
  is deleted there.
- *NothingForgotten.* `PendingInv` adds that `hand` is set only while
  assignNextTask is suspended, so no step but its own can drop it.
- *NoRunningOrphan.* `OrphanInv` adds that no disconnect timer is armed; then the
  only step that removes a worker is its close event, which requeues in the same
  step.
- *CurrentTasksAlwaysAgree.* `CurrentInv`: the two records change in the same steps,
  also when a worker leaves, as only running executions have a worker.
- *CapacityAlwaysRespected.* `FlowInv` bounds the sum of credits, starts on the wire,
  scripts and readies on the wire by the slots; a worker announces itself once,
  when nothing of it is at work, which is what makes the sum start below the bound.
- *NothingLostSilently.* `LossInv` adds that a host has one open connection: what
  runs on an open connection cannot be in another connection's slot.
- *NothingInstalledTwice.* The choice of a worker asks which tools it has and which
  are being installed, two sets that change apart. `InstallInv` says that what runs
  on a registered worker, and what is being prepared for it, has its installs in one
  of the two. A `tools:list` replaces the first set; that it takes nothing away
  that is being relied on needs `UnreadInv`: the list is the first message of its
  connection, and before it is read nothing is given to the connection.
- *TaskSync.* `SyncInv == TypeOK /\ NamesSuffice /\ KindsByType /\ OneScheduler /\
  SyncsKnow /\ Serial`. A global or scheduler task is created in the
  step that found none (OneScheduler), of a kind the template's type allows
  (KindsByType). SyncsKnow says what a sync has read by the time of each await;
  Serial, as long as requests do not overlap, that nothing changes under the one in
  progress, and what it may still owe the cache and the registry; that covers lookups,
  as long as none meets a request that writes the template. FreshSyncRepairs also
  says that a sync adds no second task for a target and deletes none of a target
  that is due; the duplicates that overlapping syncs have left stay. NamesSuffice
  counts the tasks created by the requests that are over: the model's bound on
  names never blocks a step.
- *Scheduler.* `SchedulerInv == TypeOK /\ NeverDue /\ NothingForgotten`. NeverDue: an instance
  in the registry was executed, and its due time is one that no sweep reaches. Runs
  that somebody asked for by hand are not counted in InstanceRunsOnce.
  NothingForgotten is inductive beside it, as the pruner takes only executions
  that ended. The cap of the ages is the longest interval,
  which exists as Intervals is finite.
- *BusImplementsDelivery.* `RuntimeInv` is `BusInv /\ LoaderInv /\ QuietInv`. BusInv:
  along queue, turns, limiter and call no invocation is behind a later one of its
  handler (NoOvertaking), and a limiter holds something back only while its
  module's places are full - without the second a freed place could be taken by an
  invocation from the turns ahead of one that waits. LoaderInv: constructors
  subscribe once, before any module runs, so that listeners hold no handler twice.
  Each step then gives one event to one handler, publishes, changes who is
  subscribed, or does nothing EventDelivery sees.
- *QuietAfterItsStop.* QuietInv: a handler of a module that was cleaned up is no
  listener unless it was subscribed again, and what waits for it anywhere in the bus
  was emitted before the cleanup or after that subscription.
- *QueuedAlertsSurvive.* The interesting states are inside a flush, because the
  survivors replace everything in the end. `Durable` says where an alert that is
  owed (queued and not committed) must be: in the file; once the file was read, in
  `pending`; and while flush runs, among the survivors or at or behind the row it
  is at. The last conjunct is what makes it inductive.
- *ConfigStore.* `StoreInv` relates file, copy, what each request carries over its
  await and what was acknowledged: a later write starts from a copy that has
  every acknowledged change in it. The two facts about the password rest on it: a
  setup or login that waits for bcrypt still holds the password that is set.
- *TransactionsAlwaysAtomic.* `StorageInv` says that the outermost call on the stack
  owns everything SQLite holds uncommitted, which nested calls do not commit.
- *AlwaysTheOneOnTheCard.* `WorkersInv`: what the page shows and what it asks for
  names one process, as a number is not given twice without a restart.
- *SettingsAlwaysKept.* `SettingsInv`: until calls overlap or fail, the array a call holds
  over its await is what the row holds, and what it sends differs from what was
  wanted in the one setting it changes. A page that is loaded holds the row of then;
  it differs from what is wanted in the settings that changed since (`cfSince`),
  which its save sets back.
- *CachesAlwaysCurrent.* `TargetsInv` adds the fetches in flight: while no write is under way,
  one that is not marked `crossed` has read, or will read, what the tables hold. A
  change that no invalidation follows marks all there is; what is fetched after it is
  not marked, and must be up to date.
- *ScopeAlwaysSound.* `ScopeInv` is small; the work is in the operators: the first
  target, the longest rule and the most specific match, each a CHOOSE, exist for
  every finite set and satisfy what they are chosen for. Nothing is assumed of the
  conversion to the normal form.
- *LastListAlwaysStands.* `FeedInv`: until requests for the list overlap or fail, at most
  one is under way, and the table holds the acknowledged list before its DELETE, and
  afterwards its own but for the INSERTs still to come.
- *SecondAlwaysOverlaps, FinallyRemovesItsOwn.* `RowInv`: while the counter is 0 nobody
  has triggered, and who may still update, or has, saw nobody before it.
  `SessionInv`: a transfer being finalized has a buffer of its own, which is complete
  and either still there or gone with the timer.
- *SentAlwaysReplaced.* `CommandsInv`: the array of an execution never holds
  anything of another target, whatever attempts were given up half-way; how far the
  array of the assignment under way is, pass by pass (JobStaged); the template's
  array is never written; and an array that was replaced without its target in the
  snapshot has no more of that target than one without a target.
- *OnlySentAwayWithoutSession.* `TabInv`: a question sent with the cookie the tab still
  has, and answered "out" or "setup" though that session is stored, was answered
  before the password was accepted.
- *EmitsAlwaysOnce.* `AnalyticsInv` needs the pool: nobody is in it twice, and a
  statement the database has executed keeps its connection until its own answer
  or failure, so a row is inserted once for the type its flush is at. Each step is
  then one move of a set of emits from one place to another.
- *UntouchedAlwaysKept.* `DialogInv` says, of the parts a save's user has not touched,
  that what the open dialog or the save under way would send is what the list showed
  when it was opened, and what is stored unless that was changed since the list was
  read - but for the two values the form itself changes, a header with a colon and an
  empty list in scope.
- *SaveAloneStoresAll.* `ModulesInv == ModulesType /\ RowsSound /\ AloneSaves`: what
  each request of a save that is alone has stored, reported or still to send.
- *TickedAreTheOnesDeleted.* `AlertsInv`: until a filter is changed over ticked rows,
  the numbers ticked are those of the alerts the user ticked, and so is what he was
  asked to confirm, and what he confirmed.
- *TabAlwaysTellsTruth, FormIsAlwaysStored.* `SettingsPageInv` has a part per field:
  until its flaw occurs, one request for it at a time, of which the page knows, so
  that an answer brings what is stored; before the load is answered there is no
  other request. `FormInv`: the tab loads once and saves only what it has loaded, and
  until a save is left or lost, one at a time.

`ChoiceLemmas` has what these proofs need of finite sets of numbers: a smallest, an
n-th and a largest element. Induction over data is not available to the provers,
so each is shown from a least counterexample, which exists because `<` on Nat, and
strict inclusion of finite sets, are well-founded.

Only model-checked: liveness, as fairness and ENABLED are beyond the prover
(EventuallyEnds, ComesRound, EventuallyStored, EventuallyCalled, ExitsAtLast,
EventuallySettled); with it all that is checked of CpuPool. The two runs that
expect a violation show counterexamples.

## 5. What is not modelled

- The dashboard and the metrics tabs, the sidebar and the UI kit, skeletons and
  translations: they draw what they fetched, and nothing else relies on it.
- Routes, schemas and validation, and the ingest controller, which is one emit.
  Logger and monitors; the SDK's types and the example module.
- `moduleFiles` and the SQL guard of module databases, which are path and text
  checks; reading and validating manifests and importing a module's code.
- The `onComplete` callbacks of the task API. Of the template service,
  `clearAllTemplatesAndOverrides` (a restart follows) and the cache of templates by
  instance.
- The main pool of the database and its warnings about slow queries; the pool of
  the analytics is in Analytics.
- Text: SQL, placeholders as strings, names and addresses, encodings, messages.

Simplifications inside modelled parts: in TaskSync one template stands for all,
because no step of one template's sync reads another's tasks, and targets are read
from the database and not through the cache of TargetsCache. In TaskDispatch the
cache of templates is what TemplateFound says: a lookup may return at any time, and
may or may not know a template that was deleted. In
AlertQueue the notification after a stored alert and the validation of its contents
are left out; Notifications has the former. The client of the scope feed is outside
the repository and modelled only by the two routes it calls.

## 6. Known disagreements

Behaviour of the code that a comment, a name or the rest of the code says
otherwise about. Two have a run of their own; the others were found while
modelling, and the bounds, faults or properties named say where they are kept out.

Dispatch and commands:

- A lookup that rejects in assignNextTask (taskManager.ts:964) drops the execution
  in hand from the queue for good; run `dispatch_lookup`. Install marks made
  before it stay (taskManager.ts:906), so every execution that misses one of
  those tools is kept off that worker until it reconnects.
- disconnectWorker removes the worker from the maps before its close event comes
  (websocket.ts:107); the close event then finds no worker and requeues nothing.
  What ran there stays "running" for ever. NoOrphan holds only without it.
- When sendTask refuses because the chosen worker has gone or lost its credit,
  the execution is set back (taskManager.ts:942) and nothing triggers another
  pass although another worker may be idle. Likewise when a large result is
  handled after the ready that followed it (websocket.ts:218): the tool is free
  only then, and no pass follows (taskManager.ts:1070). The next trigger, if one
  comes, repairs either.
- A large result overtaken by the close of its connection is ignored, and the
  execution runs again (websocket.ts:224).
- The tools of a failed script are registered as installed (taskManager.ts:1076),
  until the worker's next tools:list.
- Scripts of the previous connection still run when the next announces the full
  capacity (worker.ts:56): a process may run twice MAX_CONCURRENCY scripts.
  CapacityRespected is per connection.
- An aggressive execution that waits while its template is deleted (an administrator's
  DELETE, controllers/tasks.ts:86, leaves the queue alone) goes to any worker: the
  filter asks `template?.aggressive` of a template that is not found any more
  (taskManager.ts:856). AggressiveConfined excepts it.
- The snapshot of the targets may be up to 60 s old (services/targets.ts:7): the
  domain of a target added since stays a placeholder in what is sent, and its settings
  are the defaults (taskBuilder.ts:41). When it has to be fetched and that fails, the
  execution is dropped like in the first point (taskManager.ts:929).
- An execution prepared again keeps the target settings of its first attempt, and
  placeholders inside custom data are replaced on a second attempt but not on the
  first, although taskBuilder.ts:70 says that replaceTargetPlaceholders handles them.

Scheduling and synchronization:

- Two overlapping target requests: the sync that read the targets first may end
  last, and deletes the task of the target the other one added; run `sync_lost`.
- A sync with prefetched targets looks at overrides but not at `template.active`
  (taskManager.ts:311), and creates its tasks as active, so a disabled template runs; FreshSyncRepairs is
  about active ones.
- Two overlapping syncs of one TARGET_BASED template can each create a task for
  the same target; both stay. updateTemplate invalidates the cache before its
  UPDATE (taskTemplateService.ts:203), where line 7 says "Every write
  below invalidates the affected entry": a SELECT in between puts the old row back,
  until the next write. One PATCH and one lookup of the dispatcher are enough. unregisterTaskTemplate deletes the tasks first and the
  row after (taskManager.ts:194); a sync in between creates them again, and they
  stay. RegistrySound says so much only of requests that do not overlap. A later sync
  with fresh data keeps duplicates, too.
- The CUSTOM sync takes an instance without target for the scheduler task and
  then deletes it with the others (taskManager.ts:454), so that no scheduler is
  left; FreshSyncRepairs excepts that case. It deletes instances a module made,
  where the comment at taskManager.ts:519 says "Don't delete manually created
  instances".
- removeOverrides (controllers/tasks.ts:187) and editTarget with scanning switched
  off (controllers/targets.ts:73) sync nothing.
- registerTaskTemplate says that an interval follows the module's default
  (taskTemplateService.ts:21), createTemplate keeps the old one.
- A manual run of a CUSTOM template without onSchedule enqueues every live instance
  again (taskManager.ts:257), though taskManager.ts:533 calls them deleted after their
  execution. InstanceRunsOnce does not count such runs.
- The pruner drops one-time tasks after the retention time because their "result
  was lost" (registry.ts:229); the execution may as well be queued or running.
- The task API sets `onComplete` after awaiting the registration, which already
  schedules (taskAPI.ts:38): a result in between reaches no callback.

Modules:

- ModuleEventBus.subscribe works after cleanup() (moduleEventBus.ts:39): a run() that
  still awaits, or a timer, brings a module that was stopped back to the bus, and
  nobody cleans it up again. QuietAfterStop excepts it.

Alerts and the database:

- A file that cannot be read is taken as empty and overwritten by the next save
  (alertQueue.ts:47); QueuedNeverLost is checked and proved without it.
- A lookup that rejects before the insert ends in the outer catch of createAlert
  (alerts.ts:152): the alert is neither stored nor queued.
- A row whose target was deleted is refused for ever and stays in the queue.
- A statement whose acknowledgement was lost is sent again (database.ts:227): an
  alert is stored twice, a trigger counted twice. A crash between a commit and the
  save of the survivors repeats rows after the restart.

CPU pool:

- A crashed thread emits "error" and "exit", and each of them starts a replacement
  (pool.ts:85): the pool grows by one per crash.
- postMessage throwing for an input that cannot be cloned leaves its worker busy
  with no thread at work (pool.ts:156); thrown out of onResult, the task's promise
  never settles.
- A thread that ends with code 0 is not replaced (pool.ts:93), and terminate
  leaves promises unsettled (pool.ts:202).

Callbacks, scope and caches:

- chunkBuffer is keyed by the uuid alone (dns.ts:127), where the comment at dns.ts:14
  says uuid and source address; the chunks of two transfers for one callback mix.
  A transfer swept by the timer while it is finalized removes, in its `finally`, the
  buffer of the one that took its place (dns.ts:183).
- Two requests at once can both trigger a callback that allows one trigger
  (callbacks.ts:228).
- invalidateTargetsCache asks to be called when task overrides change
  (services/targets.ts:16); only controllers/targets.ts calls it, and no write of an
  override or of a template's switch does. A read in flight fills the cache after
  the invalidation.
- A DELETE of a target that is sent again after its answer was lost (database.ts:217)
  finds no row: deleteTarget answers 404 and invalidates nothing
  (controllers/targets.ts:95), so the target is listed for up to 60 s more. Nor does a
  request that fails after one of its statements was executed. The INSERTs of a list
  that are under way when one fails are executed after the answer (:143).
- isHostnameInScope looks the normal form of a hostname up (utils/domains.ts:187),
  detectTargetId the hostname as it was given (:155): one with capitals or a port may
  be in scope and belong to no target, and its alert is stored without one
  (alerts.ts:83). ScopeSound says it of hostnames in normal form.
- "Increment scope version when targets change" (scope.ts:11): editTarget, which
  may switch a target off, does not. A client may also be given the rows of an older
  version under the number of a newer one (scope.ts:33).
- A wildcard `*.host` as an out-of-scope rule beats `host` itself in scope, because
  the longer text wins (utils/domains.ts).

Configuration:

- ModuleConfig.invalidate without a key looks for keys that begin with
  `<id>-undefined` and drops nothing (moduleConfig.ts:29); no caller does so today.
  setSetting reads and writes the whole list (moduleConfig.ts:57, :124), so
  overlapping calls lose a change; SettingsKept is about calls that do not overlap.
  A settings page writes the whole list it loaded (controllers/modules.ts:35), and so
  sets back what a module has set since.
- ModuleStorage sets `inTransaction` and begins outside the try
  (moduleStorage.ts:137): after a failed BEGIN every later transaction of the module
  runs as a nested one, and nothing is atomic any more.
- The catch of load (config.ts:57) resets the configuration on any error, also one
  of reading the file or of writing the fields filled in, not only "if JSON is
  invalid".
- updateConfig changes the copy in memory before writeConfigToDisk throws
  (config.ts:95): the request answers 500 with the change in force until the next
  restart.
- resetModulesData restarts the server even when it answers 500 (settings.ts:76).

Web application:

- ModuleDialog's effect on `[isOpen, module, allTasks]` (ModuleDialog.tsx:69) resets
  the form, and `saving`, whenever the list behind it changes, also during its own
  save; onTasksChange (:130) shows templates whose PATCH failed as saved.
- AlertsTable keeps its selection by the number of the row and does not reset it
  when a filter changes (AlertsTable.tsx:251): other alerts are then ticked.
  TickedAreDeleted excepts that. In Alerts.tsx a deletion fetches again with the
  search it was started under, fetches nothing when one of several deletions
  failed, and at its end closes a confirmation opened meanwhile; the pager keeps
  the number of pages of the previous search until the answer comes.
- disconnectWorker of WorkersTab (WorkersTab.tsx:74) writes the list it was clicked
  on over a newer one, and closes a confirmation opened for another worker.
  Numbers start at 1 again after a restart of the server, so an old list
  disconnects another worker.
- A settings tab whose load failed holds an empty URL, and leaving the field saves
  it (GeneralTab.tsx:189). The Swagger switch turned again before the first answer
  can end up showing the wrong state (GeneralTab.tsx:307). Leaving the tab while a
  key is regenerated lets a second regeneration overlap the first. The timers that
  lead to "/" two seconds after a restart was asked for (:90, :106, :121, :136) are
  not cleared, and may find the server still stopping.
- updateTarget sends every part of the target (Targets.tsx:146), also those nobody
  touched, as they were when the list was read: what another session changed since is
  undone and nobody is told. An empty list in scope is shown as the wildcard of the
  domain (TargetDialog.tsx:75), and sent as such (:291), also when it was not touched.
- TargetDialog cuts the value of a custom header at its second colon
  (TargetDialog.tsx:101, :374). Its `overridesToRemove` (:326) stays empty: no switch
  takes `hasOverride` back, so an override once set is never removed here.
- layout.tsx:12 leads to /login also when the server asks for its first setup, and
  its request has no catch; WebSession has both.
- The test button of the notifications posts the form (NotificationsTab.tsx:120),
  the controller tests what is saved.

## 7. Plan

Done: dispatch and its abstract life cycle, the scheduler, synchronization,
alerts, the bus with the life of modules, the services, and the pages.

Left, in this order:

1. A safety property of CpuPool and its proof: a task whose promise is not settled
   is in one place, queue, worker or event.
2. TaskSync reading its targets through TargetsCache, so that a stale entry meets a
   sync.
3. The callbacks of the task API, composed with Scheduler.
4. Several modules in one run of ModuleRuntime that emit to each other.

## 8. Running

`tlc -config <cfg> <module>` for the runs. `tlapm <module>` for TaskDispatchProofs,
DispatchOwnershipProofs, TaskSyncProofs, SchedulerProofs, DeliveryProofs,
ServicesProofs, PagesProofs and ChoiceLemmas.
`PROJECT.json` lists runs, modules, configurations and theorems.

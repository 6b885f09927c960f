# Verification of flagsmith-common

TLA+ specifications, TLC configurations and TLAPS proofs for the program logic of
`flagsmith-common`: first of all its task processor, the part of the repository in which
several processes share state, crash, time out and retry; then what is around it, from the
`flagsmith` command line to the event catalogue.

    tlc -workers 2 -config queue_faults.cfg MCTaskQueue.tla      model-check one run
    tlapm TaskQueueSafety.tla                                    check the proofs of a module

## 1. The system

### 1.1 Components, state, operations

| Component (source) | State | Operations |
|---|---|---|
| Standard task queue (`task_processor/models.py`, `processor.py`, `managers.py`, `sql/0011`) | `task_processor_task` and `..._taskrun` rows; per worker a batch of model instances | `get_tasks_to_process`, `_run_task`, `mark_success`/`mark_failure`, `bulk_update`, `bulk_create` |
| Recurring tasks (`models.py`, `processor.py`, `sql/0015`) | `..._recurringtask` and `..._recurringtaskrun` rows; per worker one instance and one run | `get_recurringtasks_to_process`, `reconcile_abandoned_run`, `should_execute`, `_run_task`, two saves |
| Producers (`decorators.py`) | nothing but a `Task` built and not saved | `TaskHandler.delay` in three run methods, `run_in_thread`, `Task.create` |
| Clean-up (`tasks.py`) | none | delete old tasks in batches, delete old recurring runs |
| Registry (`task_registry.py`) | per process: identifier -> function | `register_*`, `initialise` (persists recurring tasks), `get_task` |
| Runner threads, coordinator (`threads.py`, `utils.py`) | `_stopped`, `last_checked_for_tasks`, the thread list | `run`, `run_iteration`, `stop`, monitoring, join |
| Admin site (`admin.py`) | none | `unlock`, `enable` on recurring tasks |
| Health check (`health.py`) | one `HealthCheckModel` row per check | enqueue a task, poll for its row with exponential backoff, delete it |
| Command line (`core/main.py`, `core/cli/run.py`, `waitfordb.py`, `start.py`) | the migrations applied to each database; environment variables of the process | `migrate`, `serve`, `run-task-processor`, `migrate-and-serve`, Django's commands; `ensure_cli_env` |
| Logging and tracing (`core/logging.py`, `core/otel.py`) | levels, structlog's chain, OpenTelemetry's providers and instruments | set up, emit, export, shut down |
| Replicas (`core/utils.py`) | one shared iterator per replica prefix, each thread's connections | `using_database_replica` |
| Event catalogue (`core/docgen`, `docgen.py`) | scopes of a syntax-tree visitor; the entries found | scan one file, walk the apps, merge |
| Gunicorn, Prometheus, views, schemas, permissions, test tools | configuration, counters | see `PROJECT.json`, `components` |

### 1.2 How they interact

Producers and processors share nothing but the database. A producer (an API worker, or a task
that enqueues another task) checks the queue limit with one query and inserts with another.
Each operating-system process of the task processor runs several `TaskRunner` threads; each
thread loops: pop a batch of standard tasks, run it task by task in a one-thread executor, write
the batch back, then do the same for at most one recurring task. Every statement commits by
itself (autocommit), so other threads and processes act between any two of them. What mutual
exclusion there is comes from the two SQL functions (`FOR UPDATE SKIP LOCKED` plus an
`is_locked` column). For standard tasks that lock is never broken; for recurring tasks it
expires, one minute before the task's timeout (section 6). The clean-ups are themselves recurring tasks, one of standard
tasks, one of the history that `should_execute` reads; the admin site writes recurring tasks from
outside.

Every container enters through `ensure_cli_env`: OpenTelemetry, logging and environment variables
are set up, the verb runs, and an `ExitStack` takes the telemetry down. The verbs are sequences of
Django commands (`waitfordb`, `migrate`, `createcachetable`, `start`), and containers of a rollout
meet in the databases that they migrate and wait for. An API container reads through
`using_database_replica`, whose iterator all its threads share. Code that logs events meets the
catalogue only through its source text: `docgen events` must find in it what `core/otel.py` will
send at run time.

### 1.3 What is hard

* two processes between the statements of `run_tasks` or `run_recurring_task`;
* a batch written back from model instances that were read before the tasks ran;
* a crash, a lost connection or a database error between any two statements;
* a timed-out call that goes on in its thread (`executor.shutdown(wait=False)`);
* a lock that expires while its holder is alive;
* a deployment, when an old process does not know a new task;
* limits, counters and boundaries (`num_failures < 3`, `count > queue_size`, the retries within
  `run_every`, the number of consecutive failures);
* a task that starts before its caller's transaction commits, or after it was rolled back;
* containers of two releases that start, collide, wait and come back at the same time;
* threads that draw from one iterator and each count only their own draws;
* a set-up or a take-down that raises half way, and threads that outlive the command;
* a static reading of a dynamic language.

`PROJECT.json`, `hazards`, lists each one at its line with the properties that watch it.

### 1.4 What makes each component correct

* **Queue**: a task has one holder; it is attempted at most three times; once finished it stays
  finished; its effect is repeated only after a timeout; its history never claims more than its
  row; a higher priority goes first; without faults no lock is left, no run record is lost and
  every task settles; the queue limit bounds the queue (by one row per caller more than documented).
* **Recurring**: the lock is meant to exclude and does not, since it expires before the timeout
  (section 6). What holds in its place is an account: whoever is on a task with another is there
  because a live worker lost its lock, a *lapse*, and as long as a task has had none it has one open
  run at most and a counter that is backed by runs that happened. Its runs within `run_every` are
  bounded, by one more for each lapse. Without any condition, the flag and the counter agree under
  the workers and the two admin actions; a run left open is closed; no task is starved.
* **Pool**: a dead runner is reported and a healthy one is not; an error in one database does not
  keep a runner from the other; the container ends after its shutdown.
* **Dispatch**: a task never runs ahead of its caller's transaction under the settings that defer
  it; what was accepted is run; a healthy answer comes from the check's own task and leaves no row.
* **Start-up**: no container whose verb migrates serves on an older schema than its own (the verb
  `serve` does not migrate and promises nothing of the kind); `waitfordb` keeps its deadline;
  every container gets there; the processor verb runs in processor mode.
* **Replicas**: a search in vain has asked all replicas but for those that others drew meanwhile.
* **Telemetry**: what was started is taken down whatever raises; no event of the command comes too
  late; which levels are printed and which are sent follows from `LOG_LEVEL` alone.
* **Catalogue**: what is listed is what arrives, for every logger that the visitor follows and but
  for what the processors take or write and what no reader of the source could see; the merge loses
  and repeats nothing; every file of the tree is covered.

## 2. Modules

| Module | What it is |
|---|---|
| `TaskLifecycle` | what the queue promises of each task: submitted, claimed, settled, purged |
| `TaskQueue` | the standard task queue, statement by statement, with producers, clean-up and faults |
| `MCTaskQueue` | instances of it |
| `TaskQueueSafety` | types, the inductive invariant, exclusive claims, bounded attempts, finished is final, and that `TaskQueue` implements `TaskLifecycle` |
| `TaskQueueHistory` | what the TaskRuns may claim, how often a task takes effect, the order of a pop |
| `RecurringTasks` | recurring tasks: picking, reconciling, deciding, running, the two saves, the admin actions |
| `MCRecurringTasks` | instances of it |
| `RecurringTasksProofs` | types, the account of those who are on a task, one open run, bounded retries, a backed counter, the flag and its counter, for workers of any speed |
| `RunnerPool` | one container: main thread, coordinator, runners, their clocks and naps |
| `MCRunnerPool` | an instance of it |
| `RunnerPoolProofs` | types, that only trouble is reported and every database tried |
| `Dispatch` | `TaskHandler.delay` under each run method, with transactions, and the health check |
| `MCDispatch` | an instance of it |
| `DispatchProofs` | types, own health, probes that leave no row, tasks that wait for their caller's commit, the size of the queue |
| `Startup` | the containers of a rollout: the verbs as scripts, `waitfordb`, colliding migrations |
| `ReplicaSelection` | `using_database_replica` in the threads of one process |
| `CliEnvironment` | what one process sets up around its command and takes down |
| `StartupProofs` | the schema that is served, and the deadline of `waitfordb`; what `CliEnvironment` takes down, which telemetry it takes, what is printed and what is sent |
| `MCServing` | instances of `Startup` and `RunnerPool`, and a specification whose behaviours are those of one of them |
| `ReplicaSelectionProofs` | how many replicas a search may overlook |
| `EventScanner` | the visitor reading a file beside what Python makes of it, and the way of an event |
| `EventCatalogue` | the walk over the apps and the merge |
| `MCProcess` | instances of the last two, of `ReplicaSelection` and of `CliEnvironment`, likewise |
| `CatalogueProofs` | the merge is faithful, and the catalogue is that of the tree; what is listed of a file is what arrives, and the JSON line keeps its fields |

`RunnerPool` is the control around `TaskQueue` and `RecurringTasks`: an iteration of its runners is,
database by database, a `run_tasks` and at most one `run_recurring_task`, of which it keeps only how
they end. In turn these two modules take from the pool only that a thread loops, swallows errors
and may die. `Dispatch` is the other end of the queue: `TaskQueue` knows nothing of transactions,
`Dispatch` nothing of batches and locks. The modules of `MCServing` share no variable, nor do those
of `MCProcess`: a behaviour of such a run is a behaviour of one of them while the others stand.
A container that fails before it serves, or while `ensure_cli_env` is left, is one `Fail` or `Kill`
to `Startup`.

### 2.1 TaskQueue and the code

`row`, `status` and `runs` are the two tables (a row is `absent` until it is saved and `deleted`
after the clean-up; TaskRuns are counted by result). `request` is the `Task` that `Task.create`
built and `task.save()` has not stored. For each `TaskRunner` thread `pc` says where in
`run_tasks` it is, `claimed` is the batch, `copy` the model instances in memory, `result` the
unsaved TaskRuns, `current` the task whose future it awaits. `zombies` are timed-out calls.
`execs`, `effects` and `timeouts` are history: they never guard a step.

| Action | Code |
|---|---|
| `CreateTask`, `SaveTask`, `DropRequest` | `TaskHandler.delay`: `Task.create` with the limit check; `task.save()`; the caller dies between them |
| `Pop` | `get_tasks_to_process`: select in order, lock, return, one statement |
| `StartTask` | `_run_task` up to `executor.submit`, in the order of the batch |
| `Succeed`, `Fail`, `BackOff`, `TimeOut` | how `future.result` ends, with `mark_success` / `mark_failure` and the rest of `_run_task` |
| `SaveTasks`, `SaveRuns` | `bulk_update`, `bulk_create` |
| `AbortUnregistered` | `get_task` raises; the error leaves `run_tasks` with the batch locked |
| `ZombieEnds` | a timed-out call ends in its own thread, having taken effect or not |
| `CleanUp` | one batch of the loop of `clean_up_old_tasks` |
| `PopReplyLost`, `SaveError`, `ThreadDies`, `Crash`, `Restart` | a connection that breaks after the pop has committed, a database error that `run_iteration` swallows, a `BaseException` that ends the thread, the death and return of a process |
| `Tick` | the database clock |

An idle pop that finds nothing changes nothing and is left out. `ReliableNext` is `Next` without
the faults.

### 2.2 RecurringTasks and the code

`row` holds the columns the picking query and the saves touch, `earlier` the order of
`last_picked_at`, `runs` the sequence of `RecurringTaskRun` rows of each task in the order of their
keys. `copy` is the part of the worker's model instance that `task.save(update_fields=...)` writes,
`run`, `result` and `finishedAt` its own run, `stray` the abandoned run it has read and not yet
written. `settings` is a deployment: what each process has registered, whether the clean-up is
enabled, whether somebody uses the admin site. `lapses` is history and guards nothing but the bound
`MaxLapses`: how often the lock of a task went while a worker that was alive had the task, by
expiring or by the admin's `unlock`.

| Action | Code |
|---|---|
| `Register` | `initialise()` of a process that knows the task |
| `Pick` | `get_recurringtasks_to_process` |
| `FindAbandoned`, `MarkAbandoned` | `reconcile_abandoned_run`: the read, then the write |
| `SkipUnregistered` | the return (or the delete) for a task this process does not know |
| `Decide` | `should_execute`, or `unlock()` in memory |
| `InsertRun` | the run is saved before the call is submitted |
| `Succeed`, `Fail`, `TimeOut`, `BackOff` | the end of `_run_task`; `TaskBackoffError` becomes an assertion error that leaves `run_recurring_task` |
| `SaveTask`, `SaveRun` | `task.save(update_fields=...)`, `task_run.save()` |
| `CleanUpRuns` | `clean_up_old_recurring_task_runs`: the rows that finished before the retention are gone, for `should_execute` and `reconcile_abandoned_run` too (a failure saved by its own worker has no `finished_at` and stays); a save of a run that was cleaned up inserts it again |
| `DatabaseError`, `Crash`, `Restart` | faults |
| `AdminUnlock`, `AdminEnable` | the two admin actions, each one `UPDATE` |
| `Tick` | the clock, which may pass any amount of time between two steps of a worker: nothing is assumed about speed |
| `Age` | the clock of the liveness run, see section 4 |

### 2.3 RunnerPool and the code

`main` is where `start_task_processor` is and `stopAt` the index of the loop of `stop()`; `coord`,
`threads`, `nap`, `joined` and `monitor` are the coordinator's program counter, list length, sleep,
join loop and flag, `reported` what its last look returned. Per runner: `pc`, `stopped`, `db` (the
database of the iteration), `rest` (sleep left), `age` (time since `last_checked_for_tasks`), and as
history `took` (length of the last iteration) and `tried` (databases of the iteration).

| Action | Code |
|---|---|
| `Shutdown`, `StopNext` | Gunicorn returns; `stop()`: the flag, then one runner of the list at a time |
| `Initialise` | `initialise()`, which succeeds or ends the coordinator |
| `AppendRunner`, `StartRunner`, `AllStarted` | the loop over `range(num_threads)`: append, start |
| `Watch`, `Look` | the monitoring loop: the flag and the sleep, then `_get_unhealthy_threads` |
| `Join` | the join loop |
| `BeginIteration`, `End` | `while not self._stopped`, and the time of the check |
| `TasksFail`, `TasksDone`, `RecurringDone` | how the two calls of the loop body end; the next database or the sleep |
| `Die` | a `BaseException` (a task that raises `SystemExit`, say) leaves the thread |
| `Wake` | the end of the sleep |
| `Tick` | time: iterations, `initialise()` and sleeps take time, other steps are immediate |

### 2.4 Dispatch and the code

`settings` is a deployment: the run method, `transaction_on_commit`, the databases the processor
reads, whether `DATABASE_ROUTERS` has the router. `Validated` is the check of `apps.py`: what it
refuses is no initial state. Threads serve a request or a health check (`role`); `inTx` says whether
the request opened a transaction, `data` what became of the rows it wrote. A call of `delay()` is a
number with a `call` state: `built` and not saved, `pending` (a row in an open transaction),
`queued`, `hooked` (an `on_commit` callback), `started` (a thread), `ran`, `exhausted`, `undone` by a
roll-back, `lost` with its process.

| Action | Code |
|---|---|
| `Write` | a request's own write, the one its task will look for |
| `DelaySynchronously`, `RunInThread`, `CreateTask`, `SaveTask` | the branches of `TaskHandler.delay`; `Covered`: the row is part of the transaction only if the router leaves it in `default` |
| `Commit`, `RollBack`, `RunHook`, `HookFails`, `Crash` | how a request ends: Django runs the callbacks in order, and one that raises takes the later ones with it |
| `Probe`, `Poll`, `Answer` | `is_processor_healthy`: the task, `max_tries` queries, `delete()` |
| `ThreadRuns` | the thread of `run_in_thread`, a daemon that dies with its process (`Crash`) |
| `TaskSucceeds`, `TaskFails`, `TaskTimesOut`, `LateEnd` | the processor, with `create_health_check_model` and the unique `uuid`; a timed-out attempt may still insert its row |

### 2.5 Startup and the code

`Scripts` translates each verb into its Django commands, one step per database; `at` is the step of
a container. `applied` is what `django_migrations` of a database has, `Version` what a container's
code comes with. `loop`, `clock` and `plan` are the local state of `waitfordb` and `migrate`;
`waited` is history, the time really spent in a step.

| Action | Code |
|---|---|
| `Connect`, `CheckMigrations` | a turn of each of the loops of `waitfordb`; `SinceStart`: both use one `start` |
| `PlanMigrations`, `ApplyMigration` | Django's `migrate`: a plan first, then one migration at a time; one that somebody else applied meanwhile fails (external) |
| `FindCacheTable`, `CreateCacheTable` | Django's `createcachetable`: it looks for the table, then creates it, and fails if somebody else has done so meanwhile (external) |
| `StartupCommand`, `CommandFails`, `StartServer`, `Finish` | the other steps; a startup command may fail |
| `Kill`, `Restart`, `Toggle`, `Tick` | the platform, the databases, time |

`RunByProcessor` is the one line of `ensure_cli_env` that the verbs depend on: whether the word
`task-processor` is in `sys.argv`. `RegistersRecurring` and `RunsTasks` are its two readers.

### 2.6 ReplicaSelection and the code

`drawn` is how far the `itertools.cycle` of a prefix has got, the one thing that threads share.
`Search` enters the manager, `Draw` is a turn of a loop (`next(sequence)` or `random.choice` of what
is left, then `ensure_connection`, which does nothing for a connection that is open), `FallBack`
goes on to the replicas of other regions and then to the primary; `Change` and `CloseConnection` are the
world. `others` is history: the draws that other threads made during a search.

### 2.7 CliEnvironment and the code

`SetUp` is the order of `ensure_cli_env`; `todo` is what is left of it and any step may raise
(`SetUpRaises`). `exits` is the `ExitStack`, in the order in which it will run: the `finally` of
`setup_tracing`, and before it the callback that shuts the log provider down.

| Action | Code |
|---|---|
| `Prepare`, `BuildLogProvider`, `BuildTracerProvider`, `Instrument` | `build_otel_log_provider`, `build_tracer_provider`, the body of `setup_tracing` |
| `EnterTracing`, `PushCallback` | `ctx.enter_context`, `ctx.callback` |
| `ConfigureLogging`, `ConfigureStructlog` | `setup_logging`: the levels of root, console and application, and structlog's chain |
| `EnterContext`, `CommandEnds`, `Close`, `CloseRaises`, `Leave` | `with ctx:`; an exit that raises loses the rest of its own `finally`, not the rest of the stack (`Remaining`) |
| `Emit`, `Export` | an event of the command or of a thread it left behind; the batch processor |
| `FinaliseTracing`, `ExitProcess` | a generator that Python finalises after a failed set-up; the providers' `atexit` |

### 2.8 EventScanner, EventCatalogue and the code

A behaviour of `EventScanner` (`VisitSpec`: the names leave `Init`, `Next` and `Spec` to
`EventCatalogue`, beside which it is extended) is a file, statement by statement. Each statement is
executed twice.
For the visitor: `scopes`, `classes` and `known` are `_scope_stack`, `_class_stack` and
`_module_classes`. For Python: `frames` has what every name holds in each open scope, `defined` the
accessors of the classes. `lost` marks the names for which the visitor's reading has parted from
Python's because of an assignment it does not claim to follow; `barred` keeps the program to those
in which a name that a function reads later is not assigned again.

| Action | Code |
|---|---|
| `Assign` | `visit_Assign`, `_resolve_seed`, `_resolve_bind` |
| `EnterClass` | `visit_ClassDef` up to its body, with the accessor of the class or of its bases |
| `EnterFunction`, `LeaveScope` | `visit_FunctionDef`, `visit_AsyncFunctionDef`, the ends of the scopes; a parameter hides a logger of the same name from Python and not from the visitor |
| `EmitCall` | `visit_Call`, `_scope_for_emit_target`, `_build_entry_from_emit_call` |

A keyword is a key and whether it is `named`: one that comes in by `**` is not, and the visitor skips
it. The initial values of `get_logger` are bound by structlog and not looked at by the visitor, so
`Result` has them as keywords that are not named and `ResolveSeed` has none.

`EventDict`, `OtelAttributes` and `JsonLine` say for each key of an event who wrote it: the call,
the context, the baggage, the processors of the chain (`core/logging.py:168-180`, `core/otel.py`).
`Consumed` are the keys that processors take away: `PositionalArgumentsFormatter` pops
`positional_args`, `StackInfoRenderer` `stack_info`, `format_exc_info` `exc_info`. `Written` are the
sets of keys that they may write for one call and not for another: `stack` if it was asked for,
`exception`, and `trace_id` and `span_id` in a span. The properties quantify over all of them.
`Body` is the event once positional arguments have been formatted into it. Two keys of an event
never collide by being dotted (`KeyAssumption`): they are Python identifiers, without dots, in which
only the double underscore is replaced, and structlog's own have none.

In `EventCatalogue`, `ScanFile` and `NextApp` are the loops of `docgen.py` and
`get_event_entries_from_tree` with `should_skip`; `MergeEntry` is one turn of `merge_event_entries`.
What a file holds is chosen when it is first read and does not change after.

## 3. Runs

| Run | Instance | What it shows |
|---|---|---|
| `queue_faults` | 2 tasks, 2 identifiers, 2 workers in 2 processes (one does not know `urgent`), batches of 2 and of 1, 2 attempts, timeouts, every fault; 1.1 million states | types, `ExclusiveClaim`, `AttemptsBounded`, `HistorySound`, `EffectsOnce`, `FinishedStaysFinished`, `PriorityRespected`, and that the queue implements `TaskLifecycle` |
| `queue_reliable` | 2 tasks, 2 workers of one process, batches of 2, timeouts, no faults, fairness; 0.6 million states | `HistoryComplete`, `EveryTaskSettles` |
| `recurring_safety` | 1 task, 2 workers of any speed that crash, time out, outlive their lock and lose the database; two deployments, one quiet, one with an old process that does not know the task, the clean-up and the admin site; 3.4 million states | types, `HoldersAccounted`, `OneOpenRun`, `RetriesBounded`, `CounterBackedByHistory`, `DisabledMatchesCounter` |
| `recurring_lock` | 2 workers | finding: the lock goes before the timeout is over |
| `recurring_liveness` | 2 tasks, 1 worker that is killed and restarted, fairness; 0.3 million states | `NoStarvation`, `AbandonedRunsClosed` |
| `recurring_reconcile` | 2 workers | finding: the run of a live worker is marked as abandoned |
| `pool_stop` | 2 runners, 2 databases, sleep, grace and nap of one tick | finding: a shutdown during start-up leaves runners that nobody stops |
| `dispatch` | 2 threads, 4 calls, every run method, 3 sets of databases with and without the router, queue size 1, 2 tries, 2 attempts, fairness; 1.1 million states | types, `QueueBounded`, `HealthyIsOwn`, `ProbesCleanUp`, `NeverRunsAhead`, `AcceptedIsRun` |
| `dispatch_limit` | 1 thread, otherwise the same | finding: one caller gets past `queue_size` |
| `serving` | containers of 2 releases with 3 and 4 verbs, 2 databases; 2 runners, 2 databases, sleep, grace and nap of one tick, shutdown or not; fairness; 0.3 million states | `NoServiceOnOldSchema`, `WaitBounded`, `EveryContainerGetsThere`; the types of the pool, `NoFalseAlarm`, `EveryDatabaseTried`, `DeadRunnersReported`, `StopsOnceSpawned` |
| `startup_mode` | 1 container with the verb `run-task-processor` | finding: it is taken for an API |
| `process` | files of 5 statements, of 6 where the last is a call in a method of a class with an accessor, 3 nested scopes, 2 names, 2 classes; 3 apps, one inside another, 7 files; 2 threads, 2 local replicas and 1 of another region, both strategies; one process with 4 levels; 0.7 million states | `CatalogueMatchesTelemetry`, `RecordIntact`; `MergeFaithful`, `CatalogueOfTheTree`; `FewOverlooked`; `TornDown`, `TelemetryIsTaken`, `PrintedAndSent` |

**Bounds.** `Horizon` stops the clock; `MaxFailures` is 2 in place of 3 (the code compares
with one constant everywhere, and two attempts already give a retry after each kind of end);
`PopSize` 2 gives batches that are partly done when something breaks; two workers and two
processes are enough for every race of two, and the proofs cover any number. In `queue_faults`
the clock stops at 1, so a backoff cannot postpone a task there; `queue_reliable` has the postponed
retries. `MaxRuns` bounds the history of a recurring task; one more run than the retries allow is
possible within it. In `recurring_safety` a timeout of one tick and a grace of one make the lock
expire under a worker that lets one tick pass, the admin unlocks until a task has lapsed
`MaxLapses` times (locks that expire are not bounded by it), and `Retention` is shorter than
`RunEvery`, so history that still counts is cleaned up. Tasks and workers are symmetric, but symmetry
is used in the queue's safety run and in `process` only; no run with a temporal property uses it. `CHECK_DEADLOCK FALSE` is set
where the bounded system rests: all tasks settled and the clock at its bound, all threads of the
container over, all requests and checks answered, the process exited, the file read. In the
pool durations are counted up to `Cap`, one more than the threshold `Grace + Sleep`, beyond which
no comparison tells them apart; two runners give a list that is half built, and two databases the
order and the errors of the loop.

In `dispatch` four calls let one thread exceed a limit of 1 and another one join it, and two checks
run side by side. In `serving` the new release has two migrations, so one container can overtake
another between plan and step; the old one migrates only `default` and waits for `analytics`, which
the new one migrates. Two names in the shared cycle are the fewest with which a thread can draw the
same replica twice, and a third, elsewhere, makes the fall-back happen. In `process` the keys are few
and each stands for a kind: `team` comes with `get_logger`, `feature__id` with a bind (and with the
context), `trace_id` with the `**` of a bind, `org__id`, `pid` and `exc_info` with a call (`org.id` is
in the baggage too, `pid` a field of the JSON line), `stack_info` with its `**`. Five statements are an
assignment, a bind, a function with an assignment of its own and a call; six are a class with an
accessor inside a scope with its logger, a method and a call. The bound on the longest files (`Bounded`
in `MCProcess`) leaves out calls with positional arguments, which shorter files have; the theorems of
section 5.6 have files of any length. `MaxDepth` 3 is a method in a class in the module.

The types of `Startup`, `CliEnvironment` and `EventScanner` document the ranges of the variables; no
run lists them. Those of the last two are part of the invariants proved in section 5. `MCServing`
extends two modules side by side and `MCProcess` four, so the initial states, steps and types of all
but one of them have names of their own (`PoolInit`, `ReadInit`, `LifeInit`, `VisitInit`, ...).

## 4. Fairness

`EveryTaskSettles` assumes that a `TaskRunner` thread keeps looping (`while not self._stopped`),
that `future.result(timeout=...)` ends when there is a timeout, and that time passes. Nothing is
assumed of producers, of calls without timeout or of zombies. It is checked without faults,
because with them it is false: the batch of a dead worker stays locked for ever.

`NoStarvation` and `AbandonedRunsClosed` assume that threads loop, that calls end or time out,
that a killed worker is started again, that time passes and that there is a last fault (a worker
that is killed each time before it does anything helps nobody). Time must really go on there, so
`FairSpec` has `Age` besides `Tick`: at the bound the clock stands and everything recorded gets
one tick older instead, down to the age `Horizon`, beyond which no comparison of the code tells
ages apart; of `last_picked_at` the order is kept.

`DeadRunnersReported` and `StopsOnceSpawned` assume that the main thread, the coordinator and each
runner are scheduled, that an iteration ends and that time passes. They do not assume a shutdown:
`Shutdown` is no part of `Fairness`.

`AcceptedIsRun` assumes that a request ends, with a commit or a roll-back, that Django then runs the
callbacks, that a thread that was started runs and that the processor goes on consuming the
databases it reads. It assumes nothing of its outcome: attempts may fail or time out, requests may
be rolled back, processes may be killed.

`EveryContainerGetsThere` assumes that processes run, that the platform starts again what failed or
was killed (the restart policy of a container), that time passes while something waits, and that
in the end databases stay up, startup commands no longer fail and nobody kills containers. Nothing is assumed of the order in which
they start or of who migrates first.

## 5. Proofs

All for every value of the constants that satisfies the module's assumption: any finite or infinite
sets of tasks, workers, processes, producers, threads and containers, any batch size, any number of
attempts, every fault. A theorem with a further hypothesis says so below.

### 5.1 The queue

* `TypeCorrect`: `Spec => []TypeOK`.
* `ClaimIsExclusive`, `AttemptsAreBounded`, `FinishedIsFinal`. `ExclusiveClaim` alone is not
  inductive. The invariant `SafetyInv` adds that what a worker holds in memory agrees with the rows
  (an instance that is not yet written has the row's counter, or one more after a failure), that a
  worker without a batch holds nothing, and that the attempts started are covered by the counter of
  the row plus the attempt in flight.
* `QueueImplementsLifecycle`: with the phase of a task read off its row, each step of the queue is a
  step of `TaskLifecycle` or a stutter. A pop is a `Claim` of the batch, a `bulk_update` a `Settle`
  of it, a clean-up batch a `Purge`; `SafetyInv` is what makes the write of `bulk_update` a
  settlement of claimed tasks only.
* `HistoryIsSound`: between `bulk_update` and `bulk_create` a worker owes TaskRuns whose rows already
  say so. The invariant counts them: saved and owed together never exceed what the row admits, of
  failures and of successes. It needs that a result belongs to the worker's own batch and says what
  its instance says.
* `HistoryIsComplete`: for `ReliableSpec` the same account is exact. Hypothesis
  `Retention >= Horizon`: within the time that is modelled no task is old enough to be cleaned up,
  since what was deleted has no row to compare with.
* `PriorityIsRespected`, an action property, from `SafetyInv`: the batch of a pop is a prefix of the
  eligible tasks in the order of the select, and no other step locks a row.
* `EffectsAreOnce`: effects so far, plus the timed-out calls that still go on, plus one if a worker
  may yet make a success of the task, stay within one more than the timeouts. The calls that go on
  are counted per process in `zombies`, and there may be any number of processes, so the invariant
  has them as a witness: a set of timeouts and the process of each.

### 5.2 Recurring tasks

All for `Spec`, that is for workers of any speed, the admin site and the clean-up included, and
without any hypothesis about `Timeout`, `Grace` or `Retention`. That the lock excludes is *not* a
theorem (section 6), so the others cannot rest on it; they rest on the account of `lapses`.

* `TypeCorrect` and `FlagAgreesWithCounter`. The flag and the counter are written together
  everywhere, and a copy that is still to be executed is not disabled.
* `HoldersAreAccounted`: the workers between a pick and its save, and one more if the row is
  unlocked, are at most `1 + lapses`. A pick of an unlocked row uses up the one that is free; a pick
  of a locked row with a holder is a lapse, and so is the admin's `unlock` of one; a save, a crash or an
  error takes a holder away and frees the row at most once. Workers may be infinitely many, so the
  invariant carries that the holders of a task are finitely many.
* `OneRunIsOpen`, `CounterIsBacked`: as long as a task has had no lapse it has one holder at most,
  and then what a single worker does can be followed: one that has passed `reconcile_abandoned_run` has
  left no open run, while the abandoned one is read and not yet written it is the only one, and a
  late save reopens none; the failures counted are runs after the last success, where a success that
  is not yet saved, but already in its worker's hands, counts as one. Once a task has lapsed, nothing
  is claimed: the stale save of an overtaken worker does write an old counter over a newer success.
* `RetriesAreBounded`: a worker about to insert has seen at most `MaxRetries` recent runs, or has found
  none. Others that hold the task at the same time have seen the same and insert as well; they are as
  many as the account allows, so the runs of a stretch are at most `MaxRetries + 1 + lapses`. Runs that
  were cleaned up are not counted, for no retention (section 6).

### 5.3 Pool, dispatch, replicas

* `RunnerPoolProofs`: `TypeCorrect` and `OnlyTroubleIsReported`. `NoFalseAlarm` is about one
  comparison; the invariant says where the age comes from: during an iteration it is the length of
  the iteration, and in the sleep after it age and remaining sleep together stay within
  `Grace + Sleep`. `AllDatabasesTried`: what was tried is exactly the databases before the current
  one, or up to it once its tasks were tried, whichever of the two calls raised.
* `DispatchProofs`: `TypeCorrect`, `HealthIsOwnHealth` and `TasksWaitForCommit`. The invariant adds
  to the types that a call that was made has an owner and one that was not has none (`Owned`), that
  counters stay below their bounds in each phase (`Counted`), that a check that found a row is one
  whose own task wrote it (`Proven`), and that a call which may run now has a caller whose data is
  neither held back nor undone, unless a setting is eager (`Isolated`). `NeverRunsAhead` follows from
  the last part, as a property of steps.
* `ProbesLeaveNoRow`: a check has one task, and it answers only after that task wrote its row; a row
  whose task never failed was written by the success, so no late attempt can insert it again.
* `QueueHoldsItsSize`, if the threads are finitely many: callers that have built a task and not
  saved it are the slack of the limit, and each has at most one. (The documented maximum does not
  hold for a single caller, section 6.) The count of rows past the check
  plus these callers never grows beyond `QueueSize` plus the callers. The hypothesis is there because
  the bound is a number of callers.
* `ReplicaSelectionProofs!OverlooksFew`: for any number of threads, replicas and interleavings. For
  the shared cycle the invariant looks at the window of the last `turns + others` draws: it is
  covered by what this thread was refused and what others drew, and once the window is as long as
  the list it has every name. For the random strategy what is left shrinks with each turn. `others`
  is counted up to the length of the list, beyond which the property asks for nothing.

### 5.4 Start-up

`SchemaIsNotOld` and `WaitIsBounded`, for any containers, releases, lists of databases and verbs
(`StartupAssumption` has their types). The verb `serve` does not migrate and is not part of the claim.

First the scripts: in the scripts of `migrate-and-serve` and `run-task-processor` every step that
serves or runs startup commands comes after the `migrate` of each database to migrate, and after the
`waitfordb --migrations` of each one to wait for, unless `SKIP_WAIT_FOR_DB` is set (`Before`,
`MigrateAndServeOps`, `RunTaskProcessorOps`). Then the invariant `StartInv`: a container has been
through all the steps before its own, and what a `migrate` or a wait leaves behind stays, because
recorded migrations only grow (`Grows`); a plan under way is never ahead of what is recorded, so a
`migrate` that ends without having collided has all its migrations recorded; what serves stands at
the step that started it; and the clock of a step is at most one past its patience, because no tick
passes that an overdue loop could use. `Behaves` says what a step of the system does to a given
container, and the four parts follow from it.

### 5.5 One process

`AllIsTornDown`, `AllTelemetryIsTaken` and `PrintsAndSends`, for every step of the set-up, the
command or the exits that may raise, and for any levels of logging of which INFO and WARNING are two
(`LevelAssumption`). None of the three is inductive: each depends on how far the process has got.
`At(k)` says what `ensure_cli_env` has set up when step `k` comes next: the log provider from the
third step, the tracer provider from the fourth, an instrument only after its provider, and an
`ExitStack` that is empty, then the `finally` of `setup_tracing`, then the callback before it. `Gone(k)`
says what is left when exit `k` comes next: whatever an earlier exit should have taken down and did
not has raised, or stood behind one that raised in the same `finally`; and as long as an exit is left,
no instrument outlives its turn, so that the tracer provider goes last. The exits still to run are
always a suffix of the five (`Exits`), which is where the order of the stack enters.

### 5.6 Catalogue

* `MergeIsFaithful`: for any apps, files and contents. `MergeFaithful` speaks of the entries merged
  so far and is nearly inductive; the invariant adds the shape of what is merged and that nothing is
  merged while files are scanned. The lemma under it is that appending a location that does not
  occur adds it once.
* `CatalogueIsOfTheTree`: under `CatalogueAssumption`, the types of apps, files and sources. The
  invariant says which files the walk has read so far (`Walked`: an app before the current one, or
  the current one up to the next file, has the file in its tree and does not leave it out), and that
  every event of those is among the entries.
* `CatalogueIsWhatArrives`: for any file, that is any names, classes with up to two bases, domains
  and keys, any order of statements and any depth. The property speaks of the call just visited; the invariant
  `VisitInv` of everything a later call could read.
  * `Layout`: the visitor has a scope for the module and each open function, and a class for each
    open class body, so that a frame's place on either stack is a count of frames (`ScopeAt`,
    `ClassAt`).
  * `ScopesFollow`: at *every* depth, not only the innermost, a name that Python would find there in a
    frame, with no frame in between that has lost it, is in the visitor's scope of that depth and
    matches. The depths further out are what the visitor comes back to when it leaves a function,
    which is where a scope shared instead of copied goes wrong (the mutant `SharedScope`); that a
    class body writes into the scope around it is why all frames from there on lose the name.
  * `ClassesFollow`, `KnownFollow`: the same for the accessors of open classes and of those of the
    module, through the first base that has one (`ClassAgrees`). Where Python has no accessor the visitor
    has none either, or else it would take that of a later base.

  Then a logger that is followed matches its scope: the same attributes, dotted, and the same name if
  it was given. `EntryArrives` takes the match to the wire: after `EventDict` and `OtelAttributes` the
  attributes that the call wrote are those of the entry and those that `**` and `get_logger` brought
  unseen, but for the keys that the processors take or write (whatever they write for this call,
  `Written`) and the baggage has. The proof does not use `barred`: it is what makes the line of a call
  the time at which its names are read, and so belongs to the model, not to the argument.
* `RecordsAreIntact`: a fact about `EventDict` and `JsonLine` for any keys, in a span or outside,
  whatever was visited.
* The assumptions: keys do not collide (`KeyAssumption`, section 2.8), `self` is no variable that a
  logger is assigned to (`NameAssumption`), `None` is none of the values (`NoneAssumption`), and the
  bounds are numbers (`BoundAssumption`).

### 5.7 Model-checked only

Liveness (`EveryTaskSettles`, `NoStarvation`, `AbandonedRunsClosed`, `DeadRunnersReported`,
`StopsOnceSpawned`, `AcceptedIsRun`, `EveryContainerGetsThere`): outside what the prover handles
under fairness. The five properties that the findings of section 6 violate have nothing to prove.
Every other property of the runs is a theorem.

## 6. Findings

* `sql/0015:12` subtracts the timeout and *adds* the minute that line 10 says is added to the timeout:
  the lock expires one minute before the timeout instead of one minute after it, while
  `processor.py:164-165` lets the worker use all of it. A second worker picks the task of a worker
  that is within its time (`recurring_lock`).
* `processor.py:111-122` saves the unlocked task before the result of the run: another worker
  that picks the task in between marks the run of a live worker as abandoned and may run the task
  again (`recurring_reconcile`).
* `threads.py:71-74`: `stop()` reaches the runners that are in the list when it gets to them, and
  `run()` does not look at `_monitor_threads` before it has started all of them: a shutdown during
  start-up leaves runners that loop on, `join()` waits for them, and the process does not end,
  where `start.py:60` says the task processor finalises once Gunicorn is shut down (`pool_stop`).
* `main.py:53` sets `RUN_BY_PROCESSOR` if the word `task-processor` is on the command line. For
  `flagsmith run-task-processor` it is not, and the verb starts the processor in the same process:
  it registers no recurring task and asserts on every task that it pops (`processor.py:133`), where
  `run.py:59` and the repository's `README.md:44` promise a task processor (`startup_mode`).

* `models.py:144` compares with `>`: a queue that holds `queue_size` tasks takes one more, even of a
  single caller, and each concurrent caller may add another, where `decorators.py:149-151` says that
  task runs exceeding the maximum are dropped (`dispatch_limit`). `QueueBounded` is the bound that
  holds.

What else was met on the way, without a run of its own, for whoever changes this code:

* The counter of enqueued tasks (`decorators.py:92`) counts the tasks that a full queue drops.
* With a retention of history shorter than a task's `run_every`, `should_execute` takes a task whose
  runs were cleaned up for one that never ran, and starts it again within `run_every`;
  `RetriesBounded` leaves the runs that were cleaned up out of its count.
* A recurring run that fails in its own worker never gets a `finished_at` (`processor.py:173-184`), so
  the clean-up (`tasks.py:71`) never deletes it.
* The admin's change form leaves `is_disabled` and `num_consecutive_failures` editable
  (`admin.py:24`): a form that sets one of them breaks the agreement that `DisabledMatchesCounter`
  shows for the workers and the two actions.
* A router with `TASK_PROCESSOR_DATABASES = ["default"]` passes the validation of `apps.py`, and the
  tasks go where the processor never looks: the exception in `AcceptedIsRun`.
* Without local replicas `using_database_replica` returns the primary and never tries other regions.
* `SKIP_WAIT_FOR_DB` skips waiting for migrations too; the message of `waitfordb` about migrations
  that took too long is also printed when connecting did.
* A set-up that raises between `setup_tracing` and `with ctx` never runs the `ExitStack`; only the
  finalisation of a generator, and `atexit`, take down what was started.
* `LOG_LEVEL` in lower case passes `logging.py:65` and is refused by `dictConfig`.
* `logging.py:53-54` says that the root logger uses `max(log_level, WARNING)`. With a level above
  WARNING it stays at WARNING (`logging.py:66-71`) and only the console's handler follows the setting:
  nothing more is printed, but OpenTelemetry gets warnings of libraries that are not printed.
  `PrintedAndSent` states both.
* The catalogue: events of a logger got without arguments are listed without its name; `__name__` in
  an `__init__.py` is listed as `pkg.__init__`; the commands of a nested app are listed through the
  outer one; an assignment in a class body leaks into the scope around the class; `bind` calls in a
  chain are not followed in assignments; keys that come by `**` or with `get_logger`'s initial values
  arrive and are not listed; a call that has `exc_info` or `stack_info` is listed with it, and the
  processors take it; an event with positional arguments is listed unformatted; a parameter with the
  name of a logger is taken for that logger; events of `exception` are listed at that level and
  emitted as errors.

## 7. Not modelled

Whole components: the monitoring views (they read the queue's length), the container health check
(one request and an exit code), HTTP views and middleware, permissions and serializers (stateless or
declarative), Gunicorn's hooks, Prometheus helpers, the DynamoDB and API schemas (declarations of
types with validators of single values), the pytest plugins and the lint tool. None keeps state that
two actors share.

Inside the modelled ones: serialisation of payloads, the values of trace contexts, metrics, log
wording, exporters, Sentry, parsing of options, rendering of the catalogue and its metrics half. Of
`initialise()` only the creation of rows is modelled, not the overwriting of `run_every` or
`timeout` of existing ones. A second database is a second instance of `TaskQueue`; `RunnerPool` has
the loop over both. A thread that the operating system refuses to start is left out of `RunnerPool`
(`Dispatch` has it for `run_in_thread`). Of the admin site only
the two actions are modelled, not the change form.

Of the files that the scanner reads, `EventScanner` has straight sequences of the statements of
section 2.8. It leaves out: branches, loops and `try` (the visitor reads their bodies one after the
other as if all ran); other ways to bind a name (`import`, `for`, `with`, `except`, `del`, `global`,
annotated and augmented assignments, several targets, `:=`), of which an assignment of an unknown value
(`dynamic`) is the nearest; lambdas and comprehensions; structlog's `unbind`, `try_unbind` and `new`;
targets that are not a name or `self.<method>()` with binds after it (`cls`, and what the visitor
does not follow); methods of classes that are not the accessor, decorators and properties; diamonds of
base classes; files in which a name that a function reads is assigned again after it (what such a file
logs depends on when the function is called); and calls that pass structlog's own `_record` or
`_from_structlog`, or `event` as a keyword. One accessor name stands for all.

What could come next: `initialise()` of two releases that overwrite each other's rows; a
`RecurringTasks` with an abstract specification of its own.

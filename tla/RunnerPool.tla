----------------------------- MODULE RunnerPool -----------------------------
(* One container of the task processor: the main thread that serves HTTP and *)
(* stops the coordinator afterwards, the TaskRunnerCoordinator that starts   *)
(* the TaskRunner threads, watches them and joins them, and the runners that *)
(* go through the databases, swallow errors and sleep.  What a runner does   *)
(* to the tables is the subject of TaskQueue and RecurringTasks.             *)
EXTENDS Naturals, FiniteSets, Sequences

CONSTANTS
    NumThreads,  \* TaskProcessorConfig.num_threads
    Databases,   \* TASK_PROCESSOR_DATABASES, a sequence
    Sleep,       \* sleep_interval_ms, in ticks
    Grace,       \* grace_period_ms, in ticks
    MonitorNap,  \* the coordinator's time.sleep(1), in ticks
    Cap,         \* bound: durations are counted up to here
    Never        \* last_checked_for_tasks is None

ASSUME ConstantsAssumption ==
    /\ NumThreads \in Nat
    /\ Databases \in Seq({"default", "task_processor"})
    /\ Databases # <<>>
    /\ Sleep \in Nat /\ Grace \in Nat /\ MonitorNap \in Nat
    /\ Cap \in Nat /\ Cap > Grace + Sleep
    /\ Never \notin Nat

Runner == 1 .. NumThreads

VARIABLES
    main,      \* where start_task_processor is
    stopAt,    \* the runner at which stop() is in its loop
    monitor,   \* _monitor_threads
    coord,     \* where TaskRunnerCoordinator.run is
    threads,   \* how many runners are in _threads
    nap,       \* ticks of sleep the coordinator has left
    joined,    \* how many runners it has joined
    reported,  \* the runners its last look found unhealthy
    pc,        \* [Runner -> Phase], where TaskRunner.run is
    stopped,   \* [Runner -> BOOLEAN], _stopped
    db,        \* [Runner -> Nat], the database of the iteration
    rest,      \* [Runner -> Nat], ticks of sleep the runner has left
    age,       \* [Runner -> Nat or Never], time since last_checked_for_tasks
    took,      \* [Runner -> Nat], how long its last iteration has taken
    tried      \* [Runner -> SUBSET Nat], databases tried in the iteration

mainVars   == <<main, stopAt, monitor>>
coordVars  == <<coord, threads, nap, joined, reported>>
runnerVars == <<pc, stopped, db, rest, age, took, tried>>
poolVars   == <<mainVars, coordVars, runnerVars>>

MainPhase  == {"serve", "stopping", "exited"}
CoordPhase == {"initialise", "spawn", "start", "monitor", "nap", "join",
               "done", "dead"}
Phase      == {"absent", "created", "loop", "tasks", "recurring", "sleep",
               "ended", "dead"}

PoolTypeOK ==
    /\ main \in MainPhase
    /\ stopAt \in Nat
    /\ monitor \in BOOLEAN
    /\ coord \in CoordPhase
    /\ threads \in 0 .. NumThreads
    /\ nap \in Nat
    /\ joined \in 0 .. NumThreads
    /\ reported \in SUBSET Runner
    /\ pc \in [Runner -> Phase]
    /\ stopped \in [Runner -> BOOLEAN]
    /\ db \in [Runner -> Nat]
    /\ rest \in [Runner -> Nat]
    /\ age \in [Runner -> Nat \cup {Never}]
    /\ took \in [Runner -> Nat]
    /\ tried \in [Runner -> SUBSET Nat]

NoRunner ==
    /\ pc = [r \in Runner |-> "absent"]
    /\ stopped = [r \in Runner |-> FALSE]
    /\ db = [r \in Runner |-> 1]
    /\ rest = [r \in Runner |-> 0]
    /\ age = [r \in Runner |-> Never]
    /\ took = [r \in Runner |-> 0]
    /\ tried = [r \in Runner |-> {}]

PoolInit ==
    /\ main = "serve" /\ stopAt = 1 /\ monitor = TRUE
    /\ coord = "initialise" /\ threads = 0 /\ nap = 0 /\ joined = 0
    /\ reported = {}
    /\ NoRunner

-----------------------------------------------------------------------------
(* The main thread: run_server, then stop().                                 *)

\* Gunicorn is shut down; stop() first tells the coordinator.
Shutdown ==
    /\ main = "serve"
    /\ main' = "stopping"
    /\ monitor' = FALSE
    /\ UNCHANGED <<stopAt, coordVars, runnerVars>>

\* Mutant of StopNext: the loop ends one runner early.
StopAllButLast ==
    /\ main = "stopping"
    /\ IF stopAt < threads
       THEN /\ stopped' = [stopped EXCEPT ![stopAt] = TRUE]
            /\ stopAt' = stopAt + 1
            /\ UNCHANGED main
       ELSE main' = "exited" /\ UNCHANGED <<stopped, stopAt>>
    /\ UNCHANGED <<monitor, coordVars, pc, db, rest, age, took, tried>>

\* One turn of `for t in self._threads`, a list that may be growing; when it
\* is through, the main thread ends.
StopNext ==
    /\ main = "stopping"
    /\ IF stopAt <= threads
       THEN /\ stopped' = [stopped EXCEPT ![stopAt] = TRUE]
            /\ stopAt' = stopAt + 1
            /\ UNCHANGED main
       ELSE main' = "exited" /\ UNCHANGED <<stopped, stopAt>>
    /\ UNCHANGED <<monitor, coordVars, pc, db, rest, age, took, tried>>

-----------------------------------------------------------------------------
(* The coordinator.                                                          *)

\* initialise() persists the recurring tasks, or the database refuses and
\* the thread ends.
Initialise ==
    /\ coord = "initialise"
    /\ coord' \in {"spawn", "dead"}
    /\ UNCHANGED <<mainVars, threads, nap, joined, reported, runnerVars>>

\* Mutant of AppendRunner: the range has one element more.
AppendOneMore ==
    /\ coord = "spawn"
    /\ threads <= NumThreads
    /\ threads' = threads + 1
    /\ pc' = [pc EXCEPT ![threads + 1] = "created"]
    /\ coord' = "start"
    /\ UNCHANGED <<mainVars, nap, joined, reported, stopped, db, rest, age,
                   took, tried>>

AppendRunner ==
    /\ coord = "spawn"
    /\ threads < NumThreads
    /\ threads' = threads + 1
    /\ pc' = [pc EXCEPT ![threads + 1] = "created"]
    /\ coord' = "start"
    /\ UNCHANGED <<mainVars, nap, joined, reported, stopped, db, rest, age,
                   took, tried>>

StartRunner ==
    /\ coord = "start"
    /\ pc' = [pc EXCEPT ![threads] = "loop"]
    /\ coord' = "spawn"
    /\ UNCHANGED <<mainVars, threads, nap, joined, reported, stopped, db, rest,
                   age, took, tried>>

AllStarted ==
    /\ coord = "spawn"
    /\ threads = NumThreads
    /\ coord' = "monitor"
    /\ UNCHANGED <<mainVars, threads, nap, joined, reported, runnerVars>>

\* while self._monitor_threads: time.sleep(1)
Watch ==
    /\ coord = "monitor"
    /\ IF monitor THEN coord' = "nap" /\ nap' = MonitorNap
                  ELSE coord' = "join" /\ UNCHANGED nap
    /\ UNCHANGED <<mainVars, threads, joined, reported, runnerVars>>

IsAlive(r) == pc[r] \notin {"absent", "created", "ended", "dead"}

\* Mutants of Unhealthy: the sleep interval is not allowed for; dead threads
\* are not looked at.
GraceOnly ==
    {r \in 1 .. threads : ~IsAlive(r) \/ age[r] = Never \/ age[r] > Grace}
SlowOnly ==
    {r \in 1 .. threads : IsAlive(r) /\ (age[r] = Never \/ age[r] > Grace + Sleep)}

\* _get_unhealthy_threads
Unhealthy ==
    {r \in 1 .. threads : \/ ~IsAlive(r)
                          \/ age[r] = Never
                          \/ age[r] > Grace + Sleep}

Look ==
    /\ coord = "nap"
    /\ nap = 0
    /\ reported' = Unhealthy
    /\ coord' = "monitor"
    /\ UNCHANGED <<mainVars, threads, nap, joined, runnerVars>>

\* for thread in self._threads: thread.join()
Join ==
    /\ coord = "join"
    /\ IF joined < threads
       THEN /\ pc[joined + 1] \in {"ended", "dead"}
            /\ joined' = joined + 1
            /\ UNCHANGED coord
       ELSE coord' = "done" /\ UNCHANGED joined
    /\ UNCHANGED <<mainVars, threads, nap, reported, runnerVars>>

-----------------------------------------------------------------------------
(* The runners.                                                              *)

\* while not self._stopped: the check, and the time of it.
BeginIteration(r) ==
    /\ pc[r] = "loop"
    /\ ~stopped[r]
    /\ pc' = [pc EXCEPT ![r] = "tasks"]
    /\ db' = [db EXCEPT ![r] = 1]
    /\ age' = [age EXCEPT ![r] = 0]
    /\ took' = [took EXCEPT ![r] = 0]
    /\ tried' = [tried EXCEPT ![r] = {}]
    /\ UNCHANGED <<mainVars, coordVars, stopped, rest>>

End(r) ==
    /\ pc[r] = "loop"
    /\ stopped[r]
    /\ pc' = [pc EXCEPT ![r] = "ended"]
    /\ UNCHANGED <<mainVars, coordVars, stopped, db, rest, age, took, tried>>

\* Recurring tasks are only run on one database.
IsSeparate == \E i \in DOMAIN Databases : Databases[i] = "task_processor"
HasRecurring(i) == (Databases[i] = "default") # IsSeparate

\* The end of the loop body for one database, normal or by an exception that
\* is logged.
NextDatabase(r) ==
    IF db[r] < Len(Databases)
    THEN /\ db' = [db EXCEPT ![r] = @ + 1]
         /\ pc' = [pc EXCEPT ![r] = "tasks"]
         /\ UNCHANGED rest
    ELSE /\ pc' = [pc EXCEPT ![r] = "sleep"]
         /\ rest' = [rest EXCEPT ![r] = Sleep]
         /\ UNCHANGED db

\* Mutant of TasksFail: the error ends the iteration.
FailAndSleep(r) ==
    /\ pc[r] = "tasks"
    /\ tried' = [tried EXCEPT ![r] = @ \cup {db[r]}]
    /\ pc' = [pc EXCEPT ![r] = "sleep"]
    /\ rest' = [rest EXCEPT ![r] = Sleep]
    /\ UNCHANGED <<mainVars, coordVars, stopped, db, age, took>>

\* run_tasks raises.
TasksFail(r) ==
    /\ pc[r] = "tasks"
    /\ tried' = [tried EXCEPT ![r] = @ \cup {db[r]}]
    /\ NextDatabase(r)
    /\ UNCHANGED <<mainVars, coordVars, stopped, age, took>>

\* run_tasks returns.
TasksDone(r) ==
    /\ pc[r] = "tasks"
    /\ tried' = [tried EXCEPT ![r] = @ \cup {db[r]}]
    /\ IF HasRecurring(db[r])
       THEN pc' = [pc EXCEPT ![r] = "recurring"] /\ UNCHANGED <<db, rest>>
       ELSE NextDatabase(r)
    /\ UNCHANGED <<mainVars, coordVars, stopped, age, took>>

\* run_recurring_task returns or raises: the iteration goes on alike.
RecurringDone(r) ==
    /\ pc[r] = "recurring"
    /\ NextDatabase(r)
    /\ UNCHANGED <<mainVars, coordVars, stopped, age, took, tried>>

\* Something that is not an Exception ends the thread.
Die(r) ==
    /\ pc[r] \in {"tasks", "recurring"}
    /\ pc' = [pc EXCEPT ![r] = "dead"]
    /\ UNCHANGED <<mainVars, coordVars, stopped, db, rest, age, took, tried>>

Wake(r) ==
    /\ pc[r] = "sleep"
    /\ rest[r] = 0
    /\ pc' = [pc EXCEPT ![r] = "loop"]
    /\ UNCHANGED <<mainVars, coordVars, stopped, db, rest, age, took, tried>>

-----------------------------------------------------------------------------
Older(n) == IF n < Cap THEN n + 1 ELSE n

\* Time passes when nobody has anything to do at once: only iterations,
\* initialise() and sleep take time.
PoolTick ==
    /\ coord \notin {"spawn", "start", "monitor"}
    /\ coord = "nap" => nap > 0
    /\ \A r \in Runner : /\ pc[r] # "loop"
                         /\ pc[r] = "sleep" => rest[r] > 0
    /\ nap' = IF nap > 0 THEN nap - 1 ELSE 0
    /\ rest' = [r \in Runner |-> IF pc[r] = "sleep" THEN rest[r] - 1 ELSE rest[r]]
    /\ age' = [r \in Runner |-> IF age[r] = Never THEN Never ELSE Older(age[r])]
    /\ took' = [r \in Runner |-> IF pc[r] \in {"tasks", "recurring"}
                                 THEN Older(took[r]) ELSE took[r]]
    /\ UNCHANGED <<mainVars, coord, threads, joined, reported, pc, stopped, db,
                   tried>>

Coordinate ==
    Initialise \/ AppendRunner \/ StartRunner \/ AllStarted \/ Watch \/ Look \/ Join

Iterate(r) == TasksFail(r) \/ TasksDone(r) \/ RecurringDone(r) \/ Die(r)

PoolNext ==
    \/ Shutdown \/ StopNext
    \/ Coordinate
    \/ \E r \in Runner : BeginIteration(r) \/ End(r) \/ Iterate(r) \/ Wake(r)
    \/ PoolTick

PoolSpec == PoolInit /\ [][PoolNext]_poolVars

\* Threads are scheduled and iterations end: a queue_pop_size of tasks with
\* timeouts.  Nobody need shut the container down.
PoolFairness ==
    /\ WF_poolVars(StopNext) /\ WF_poolVars(Coordinate) /\ WF_poolVars(PoolTick)
    /\ \A r \in Runner : WF_poolVars(BeginIteration(r) \/ End(r) \/ Iterate(r) \/ Wake(r))

FairPoolSpec == PoolSpec /\ PoolFairness

-----------------------------------------------------------------------------
(* Properties.                                                               *)

\* Only trouble is reported: a runner that is alive and has looked for tasks
\* is unhealthy only if its last iteration took longer than the grace period,
\* because the threshold allows for the sleep between two iterations.
NoFalseAlarm ==
    \A r \in Unhealthy : IsAlive(r) => age[r] = Never \/ took[r] > Grace

\* A runner whose thread has died is in every report from then on, as long as
\* the coordinator watches.
DeadRunnersReported ==
    \A r \in Runner : pc[r] = "dead" ~> r \in reported \/ ~monitor

\* An error in one database does not keep a runner from the next: whoever
\* sleeps has tried them all.
EveryDatabaseTried ==
    \A r \in Runner : pc[r] = "sleep" => tried[r] = DOMAIN Databases

Over == /\ coord \in {"done", "dead"}
        /\ \A r \in Runner : pc[r] \in {"absent", "ended", "dead"}

\* If every runner is in the list while stop() goes through it, all of them
\* end, and the coordinator after them.
StopsOnceSpawned == main = "stopping" /\ threads = NumThreads ~> Over

\* start.py: "The task processor will finalise once Gunicorn is shut down."
FinalisesAfterShutdown == main = "exited" ~> Over
=============================================================================

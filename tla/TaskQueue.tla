----------------------------- MODULE TaskQueue -----------------------------
(* The queue of standard tasks: the task_processor_task and taskrun tables,  *)
(* the producers that call TaskHandler.delay, the TaskRunner threads that    *)
(* pop a batch, run it and write it back, and the clean-up that deletes old  *)
(* rows.  Every database statement is a step of its own, as autocommit makes *)
(* it; so is every point where another thread can be scheduled.              *)
EXTENDS Naturals, FiniteSets

CONSTANTS
    Task,         \* primary keys of task_processor_task
    Ident,        \* task identifiers
    Worker,       \* TaskRunner threads
    Process,      \* operating-system processes the threads live in
    ProcessOf,    \* [Worker -> Process]
    Producer,     \* callers of TaskHandler.delay
    PriorityOf,   \* [Ident -> Nat], the handler's priority; 0 is the highest
    Timed,        \* identifiers whose task has a timeout
    Registered,   \* [Process -> SUBSET Ident], that process's registry
    PopSize,      \* [Process -> Nat], its TaskProcessorConfig.queue_pop_size
    MaxFailures,  \* the 3 in get_tasks_to_process
    Delays,       \* how far ahead delay_until and a backoff may point
    Retention,    \* TASK_DELETE_RETENTION_DAYS
    IncludeFailed,\* TASK_DELETE_INCLUDE_FAILED_TASKS
    Horizon,      \* bound: the clock stops here
    None          \* no task, no request

ASSUME ConstantsAssumption ==
    /\ ProcessOf \in [Worker -> Process]
    /\ PriorityOf \in [Ident -> Nat]
    /\ Registered \in [Process -> SUBSET Ident]
    /\ Timed \subseteq Ident
    /\ PopSize \in [Process -> Nat \ {0}]
    /\ MaxFailures \in Nat \ {0}
    /\ Delays \subseteq Nat
    /\ Retention \in Nat
    /\ IncludeFailed \in BOOLEAN
    /\ Horizon \in Nat
    /\ Ident # {}
    /\ None \notin Task

VARIABLES
    now,       \* the database clock, in ticks
    status,    \* [Task -> Status], whether the row exists
    row,       \* [Task -> Row], the columns the queue reads or writes
    runs,      \* [Task -> Runs], persisted TaskRun rows by result
    request,   \* [Producer -> Request or None], a Task built but not saved
    pc,        \* [Worker -> Phase], where run_tasks is
    claimed,   \* [Worker -> SUBSET Task], the batch it popped
    copy,      \* [Worker -> [Task -> Row]], its in-memory model instances
    result,    \* [Worker -> [Task -> Result]], its unsaved TaskRuns
    current,   \* [Worker -> Task or None], the task whose future it awaits
    zombies,   \* [Process -> [Task -> Nat]], timed-out calls still running
    execs,     \* [Task -> Nat], times the task function was started
    effects,   \* [Task -> Nat], times the task function ran to its end
    timeouts   \* [Task -> Nat], times a worker stopped waiting for it

dbVars     == <<status, row, runs>>
workerVars == <<pc, claimed, copy, result, current>>
history    == <<execs, effects, timeouts, zombies>>
vars       == <<now, dbVars, request, workerVars, history>>

Status == {"absent", "present", "deleted"}
Phase  == {"idle", "run", "exec", "save", "saveRuns", "dead", "down"}
Result == {"NONE", "SUCCESS", "FAILURE"}
Row    == [ident: Ident, sched: Nat, created: Nat, locked: BOOLEAN,
           completed: BOOLEAN, fails: Nat]
Runs   == [ok: Nat, fail: Nat]
Request == [ident: Ident, sched: Nat]

Blank == [ident |-> CHOOSE i \in Ident : TRUE, sched |-> 0, created |-> 0,
          locked |-> FALSE, completed |-> FALSE, fails |-> 0]
NoCopies  == [t \in Task |-> Blank]
NoResults == [t \in Task |-> "NONE"]
NoRuns    == [ok |-> 0, fail |-> 0]
Zero      == [t \in Task |-> 0]

TypeOK ==
    /\ now \in Nat
    /\ status \in [Task -> Status]
    /\ row \in [Task -> Row]
    /\ runs \in [Task -> Runs]
    /\ request \in [Producer -> Request \cup {None}]
    /\ pc \in [Worker -> Phase]
    /\ claimed \in [Worker -> SUBSET Task]
    /\ copy \in [Worker -> [Task -> Row]]
    /\ result \in [Worker -> [Task -> Result]]
    /\ current \in [Worker -> Task \cup {None}]
    /\ zombies \in [Process -> [Task -> Nat]]
    /\ execs \in [Task -> Nat]
    /\ effects \in [Task -> Nat]
    /\ timeouts \in [Task -> Nat]

Init ==
    /\ now = 0
    /\ status = [t \in Task |-> "absent"]
    /\ row = NoCopies
    /\ runs = [t \in Task |-> NoRuns]
    /\ request = [p \in Producer |-> None]
    /\ pc = [w \in Worker |-> "idle"]
    /\ claimed = [w \in Worker |-> {}]
    /\ copy = [w \in Worker |-> NoCopies]
    /\ result = [w \in Worker |-> NoResults]
    /\ current = [w \in Worker |-> None]
    /\ zombies = [p \in Process |-> Zero]
    /\ execs = Zero
    /\ effects = Zero
    /\ timeouts = Zero

-----------------------------------------------------------------------------
(* Producers: TaskHandler.delay with TASK_RUN_METHOD = TASK_PROCESSOR.       *)

\* Task.create: the limit is checked (module Dispatch has it) and an unsaved
\* Task is built.  A full queue drops the request, which changes nothing.
CreateTask(p, i) ==
    /\ request[p] = None
    /\ \E d \in Delays :
          /\ now + d < Horizon
          /\ request' = [request EXCEPT ![p] = [ident |-> i, sched |-> now + d]]
    /\ UNCHANGED <<now, dbVars, workerVars, history>>

\* task.save(): the row becomes visible; created_at is taken now.
SaveTask(p) ==
    /\ request[p] # None
    /\ \E t \in Task :
          /\ status[t] = "absent"
          /\ status' = [status EXCEPT ![t] = "present"]
          /\ row' = [row EXCEPT ![t] =
                       [Blank EXCEPT !.ident = request[p].ident,
                                     !.sched = request[p].sched,
                                     !.created = now]]
    /\ request' = [request EXCEPT ![p] = None]
    /\ UNCHANGED <<now, runs, workerVars, history>>

\* The caller's process or transaction dies between the two.
DropRequest(p) ==
    /\ request[p] # None
    /\ request' = [request EXCEPT ![p] = None]
    /\ UNCHANGED <<now, dbVars, workerVars, history>>

-----------------------------------------------------------------------------
(* Workers: run_tasks.                                                       *)

\* Mutant of Before: ORDER BY priority DESC.
LowestFirst(r, t, u) == PriorityOf[r[t].ident] > PriorityOf[r[u].ident]

\* ORDER BY priority, scheduled_for, created_at over the rows in `r`.
Before(r, t, u) ==
    LET pt == PriorityOf[r[t].ident]
        pu == PriorityOf[r[u].ident]
    IN  \/ pt < pu
        \/ pt = pu /\ r[t].sched < r[u].sched
        \/ pt = pu /\ r[t].sched = r[u].sched /\ r[t].created < r[u].created

\* Mutants of Eligible: without is_locked = FALSE, with num_failures <= 3,
\* without completed = FALSE.
LockedToo ==
    {t \in Task : /\ status[t] = "present" /\ row[t].fails < MaxFailures
                  /\ row[t].sched < now /\ ~row[t].completed}
OneAttemptMore ==
    {t \in Task : /\ status[t] = "present" /\ row[t].fails <= MaxFailures
                  /\ row[t].sched < now /\ ~row[t].completed /\ ~row[t].locked}
CompletedToo ==
    {t \in Task : /\ status[t] = "present" /\ row[t].fails < MaxFailures
                  /\ row[t].sched < now /\ ~row[t].locked}

\* The WHERE clause of get_tasks_to_process.
Eligible ==
    {t \in Task : /\ status[t] = "present"
                  /\ row[t].fails < MaxFailures
                  /\ row[t].sched < now
                  /\ ~row[t].completed
                  /\ ~row[t].locked}

\* ORDER BY ... LIMIT: S is a full batch that leaves no earlier row behind.
FirstOf(w, S, E) ==
    /\ S \subseteq E
    /\ \A t \in S, u \in E \ S : ~Before(row, u, t)
    /\ \/ Cardinality(S) = PopSize[ProcessOf[w]]
       \/ S = E /\ Cardinality(E) < PopSize[ProcessOf[w]]

Lock(S) == row' = [t \in Task |->
                     IF t \in S THEN [row[t] EXCEPT !.locked = TRUE] ELSE row[t]]

\* get_tasks_to_process: one statement selects, locks and returns the batch.
Pop(w) ==
    /\ pc[w] = "idle"
    /\ \E S \in (SUBSET Eligible) \ {{}} :
          /\ FirstOf(w, S, Eligible)
          /\ Lock(S)
          /\ claimed' = [claimed EXCEPT ![w] = S]
          /\ copy' = [copy EXCEPT ![w] =
                        [t \in Task |-> IF t \in S
                                        THEN [row[t] EXCEPT !.locked = TRUE]
                                        ELSE Blank]]
    /\ pc' = [pc EXCEPT ![w] = "run"]
    /\ UNCHANGED <<now, status, runs, request, result, current, history>>

Todo(w) == {t \in claimed[w] : result[w][t] = "NONE"}

\* The loop of run_tasks goes through the batch in the order of the query.
IsNextOf(w, t) ==
    /\ t \in Todo(w)
    /\ \A u \in Todo(w) : ~Before(copy[w], u, t)

\* _run_task up to executor.submit: the identifier is registered here.
StartTask(w) ==
    /\ pc[w] = "run"
    /\ \E t \in Task :
          /\ IsNextOf(w, t)
          /\ copy[w][t].ident \in Registered[ProcessOf[w]]
          /\ current' = [current EXCEPT ![w] = t]
          /\ execs' = [execs EXCEPT ![t] = @ + 1]
    /\ pc' = [pc EXCEPT ![w] = "exec"]
    /\ UNCHANGED <<now, dbVars, request, claimed, copy, result, effects,
                   timeouts, zombies>>

\* Mutants of MarkSuccess and MarkFailure: completed is not set, the counter
\* does not move, it moves down, the lock is kept.
OnlyUnlock(r)     == [r EXCEPT !.locked = FALSE]
CountDown(r)      == [r EXCEPT !.locked = FALSE, !.fails = @ - 1]
FailButKeepLock(r) == [r EXCEPT !.fails = @ + 1]

\* mark_success and mark_failure on the in-memory instance.
MarkSuccess(r) == [r EXCEPT !.locked = FALSE, !.completed = TRUE]
MarkFailure(r) == [r EXCEPT !.locked = FALSE, !.fails = @ + 1]

\* The rest of _run_task: keep the instance and its TaskRun, go on.
Finish(w, r, res) ==
    /\ copy' = [copy EXCEPT ![w][current[w]] = r]
    /\ result' = [result EXCEPT ![w][current[w]] = res]
    /\ current' = [current EXCEPT ![w] = None]
    /\ pc' = [pc EXCEPT ![w] = IF Todo(w) = {current[w]} THEN "save" ELSE "run"]
    /\ UNCHANGED <<now, dbVars, request, claimed, execs>>

\* The task function returned.
Succeed(w) ==
    /\ pc[w] = "exec"
    /\ Finish(w, MarkSuccess(copy[w][current[w]]), "SUCCESS")
    /\ effects' = [effects EXCEPT ![current[w]] = @ + 1]
    /\ UNCHANGED <<timeouts, zombies>>

\* The task function raised.
Fail(w) ==
    /\ pc[w] = "exec"
    /\ Finish(w, MarkFailure(copy[w][current[w]]), "FAILURE")
    /\ UNCHANGED <<effects, timeouts, zombies>>

\* The task function raised TaskBackoffError: a failure, retried later.
BackOff(w) ==
    /\ pc[w] = "exec"
    /\ LET failed == MarkFailure(copy[w][current[w]])
       IN  /\ failed.fails <= MaxFailures  \* otherwise the step is Fail
           /\ \E d \in Delays :
                 /\ now + d < Horizon
                 /\ Finish(w, [failed EXCEPT !.sched = now + d], "FAILURE")
    /\ UNCHANGED <<effects, timeouts, zombies>>

\* future.result timed out: a failure, but the call goes on in its thread.
TimeOut(w) ==
    /\ pc[w] = "exec"
    /\ copy[w][current[w]].ident \in Timed
    /\ Finish(w, MarkFailure(copy[w][current[w]]), "FAILURE")
    /\ timeouts' = [timeouts EXCEPT ![current[w]] = @ + 1]
    /\ zombies' = [zombies EXCEPT ![ProcessOf[w]][current[w]] = @ + 1]
    /\ UNCHANGED effects

\* Mutant of Written: num_failures is missing from the fields.
WrittenWithoutFails(r, c) ==
    [r EXCEPT !.completed = c.completed, !.locked = c.locked, !.sched = c.sched]

\* A row after bulk_update wrote the instance's four columns to it.
Written(r, c) == [r EXCEPT !.completed = c.completed, !.fails = c.fails,
                           !.locked = c.locked, !.sched = c.sched]

\* bulk_update of the batch; rows deleted meanwhile are not matched.
SaveTasks(w) ==
    /\ pc[w] = "save"
    /\ row' = [t \in Task |->
                 IF t \in claimed[w] /\ status[t] = "present"
                 THEN Written(row[t], copy[w][t]) ELSE row[t]]
    /\ copy' = [copy EXCEPT ![w] = NoCopies]
    /\ pc' = [pc EXCEPT ![w] = "saveRuns"]
    /\ UNCHANGED <<now, status, runs, request, claimed, result, current, history>>

\* run_tasks is over for this worker, normally or not.
Reset(w, phase) ==
    /\ pc' = [pc EXCEPT ![w] = phase]
    /\ claimed' = [claimed EXCEPT ![w] = {}]
    /\ copy' = [copy EXCEPT ![w] = NoCopies]
    /\ result' = [result EXCEPT ![w] = NoResults]
    /\ current' = [current EXCEPT ![w] = None]

\* bulk_create of the batch's TaskRuns, all or none: a foreign key to a row
\* that the clean-up deleted refuses them all.
SaveRuns(w) ==
    /\ pc[w] = "saveRuns"
    /\ runs' = IF \A t \in claimed[w] : status[t] = "present"
               THEN [t \in Task |->
                       CASE result[w][t] = "SUCCESS" -> [runs[t] EXCEPT !.ok = @ + 1]
                         [] result[w][t] = "FAILURE" -> [runs[t] EXCEPT !.fail = @ + 1]
                         [] OTHER -> runs[t]]
               ELSE runs
    /\ Reset(w, "idle")
    /\ UNCHANGED <<now, status, row, request, history>>

\* get_task raises for an identifier this process does not know: the error
\* leaves run_tasks, run_iteration logs it and the whole batch stays locked.
AbortUnregistered(w) ==
    /\ pc[w] = "run"
    /\ \E t \in Task : /\ IsNextOf(w, t)
                       /\ copy[w][t].ident \notin Registered[ProcessOf[w]]
    /\ Reset(w, "idle")
    /\ UNCHANGED <<now, dbVars, request, history>>

\* A timed-out call ends in its own thread: it took effect, or it did not.
ZombieEnds(p, t) ==
    /\ zombies[p][t] > 0
    /\ zombies' = [zombies EXCEPT ![p][t] = @ - 1]
    /\ effects' \in {effects, [effects EXCEPT ![t] = @ + 1]}
    /\ UNCHANGED <<now, dbVars, request, workerVars, execs, timeouts>>

-----------------------------------------------------------------------------
(* The clean-up task, time, and what can go wrong.                           *)

\* Mutant of Purgeable: everything old is deleted.
AllOld == {t \in Task : status[t] = "present" /\ row[t].sched + Retention < now}

\* The query of clean_up_old_tasks.
Purgeable ==
    {t \in Task : /\ status[t] = "present"
                  /\ row[t].sched + Retention < now
                  /\ \/ row[t].completed
                     \/ IncludeFailed /\ row[t].fails >= MaxFailures}

\* One batch of the loop of clean_up_old_tasks, with the cascade to TaskRun.
CleanUp ==
    /\ \E S \in (SUBSET Purgeable) \ {{}} :
          /\ status' = [t \in Task |-> IF t \in S THEN "deleted" ELSE status[t]]
          /\ row' = [t \in Task |-> IF t \in S THEN Blank ELSE row[t]]
          /\ runs' = [t \in Task |-> IF t \in S THEN NoRuns ELSE runs[t]]
    /\ UNCHANGED <<now, request, workerVars, history>>

Tick ==
    /\ now < Horizon
    /\ now' = now + 1
    /\ UNCHANGED <<dbVars, request, workerVars, history>>

\* The connection breaks after the pop committed: nobody holds the batch.
PopReplyLost(w) ==
    /\ pc[w] = "idle"
    /\ \E S \in (SUBSET Eligible) \ {{}} : FirstOf(w, S, Eligible) /\ Lock(S)
    /\ UNCHANGED <<now, status, runs, request, workerVars, history>>

\* A database error in bulk_update or bulk_create, swallowed by run_iteration.
SaveError(w) ==
    /\ pc[w] \in {"save", "saveRuns"}
    /\ Reset(w, "idle")
    /\ UNCHANGED <<now, dbVars, request, history>>

\* The task raised SystemExit or the like, which neither _run_task nor
\* run_iteration catches: the TaskRunner thread ends.
ThreadDies(w) ==
    /\ pc[w] = "exec"
    /\ Reset(w, "dead")
    /\ UNCHANGED <<now, dbVars, request, history>>

\* The whole process is killed, with all its threads.
Crash(p) ==
    LET mine == {w \in Worker : ProcessOf[w] = p}
    IN  /\ \E w \in mine : pc[w] # "down"
        /\ pc' = [w \in Worker |-> IF w \in mine THEN "down" ELSE pc[w]]
        /\ claimed' = [w \in Worker |-> IF w \in mine THEN {} ELSE claimed[w]]
        /\ copy' = [w \in Worker |-> IF w \in mine THEN NoCopies ELSE copy[w]]
        /\ result' = [w \in Worker |-> IF w \in mine THEN NoResults ELSE result[w]]
        /\ current' = [w \in Worker |-> IF w \in mine THEN None ELSE current[w]]
        /\ zombies' = [zombies EXCEPT ![p] = Zero]
        /\ UNCHANGED <<now, dbVars, request, execs, effects, timeouts>>

Restart(p) ==
    LET mine == {w \in Worker : ProcessOf[w] = p}
    IN  /\ mine # {}
        /\ \A w \in mine : pc[w] = "down"
        /\ pc' = [w \in Worker |-> IF w \in mine THEN "idle" ELSE pc[w]]
        /\ UNCHANGED <<now, dbVars, request, claimed, copy, result, current, history>>

-----------------------------------------------------------------------------
Produce == \E p \in Producer : (\E i \in Ident : CreateTask(p, i)) \/ SaveTask(p)

\* What the TaskRunner thread does by itself.
Loop(w) == Pop(w) \/ StartTask(w) \/ SaveTasks(w) \/ SaveRuns(w)

\* How its wait for the task function ends.
Await(w) == Succeed(w) \/ Fail(w) \/ BackOff(w) \/ TimeOut(w)

HasTimeout(w) == current[w] # None /\ copy[w][current[w]].ident \in Timed

\* Steps of a deployment in which nothing breaks.
ReliableNext ==
    \/ Produce
    \/ \E w \in Worker : Loop(w) \/ Await(w)
    \/ \E p \in Process, t \in Task : ZombieEnds(p, t)
    \/ CleanUp
    \/ Tick

Fault ==
    \/ \E p \in Producer : DropRequest(p)
    \/ \E w \in Worker : \/ AbortUnregistered(w) \/ PopReplyLost(w)
                         \/ SaveError(w) \/ ThreadDies(w)
    \/ \E p \in Process : Crash(p) \/ Restart(p)

Next == ReliableNext \/ Fault

Spec == Init /\ [][Next]_vars

\* A TaskRunner loops until it is stopped, future.result with a timeout ends,
\* and time passes.  Producers, zombie calls and tasks without a timeout owe
\* nothing.
Fairness ==
    /\ \A w \in Worker : WF_vars(Loop(w)) /\ WF_vars(HasTimeout(w) /\ Await(w))
    /\ WF_vars(Tick)

ReliableSpec == Init /\ [][ReliableNext]_vars /\ Fairness

-----------------------------------------------------------------------------
(* Properties.                                                               *)

\* The tasks whose rows a live worker has popped and not yet written back.
Held(w) == IF pc[w] \in {"run", "exec", "save"} THEN claimed[w] ELSE {}

\* A popped task belongs to one worker only, and as long as it does its row
\* is there, locked and unfinished: what bulk_update writes is never stale.
ExclusiveClaim ==
    \A w \in Worker :
       /\ \A v \in Worker \ {w} : Held(w) \cap Held(v) = {}
       /\ \A t \in Held(w) :
             /\ status[t] = "present"
             /\ row[t].locked /\ ~row[t].completed
             /\ row[t].fails < MaxFailures

\* A task function is started at most MaxFailures times whatever crashes,
\* database errors and timeouts get in the way: num_failures < 3 in the
\* query and the lock that no reaper breaks bound it together.
AttemptsBounded == \A t \in Task : execs[t] <= MaxFailures

\* A task function runs to its end twice only if a worker had stopped waiting
\* for one of the calls (executor.shutdown(wait=False) leaves it running).
EffectsOnce == \A t \in Task : effects[t] <= 1 + timeouts[t]

\* The history never claims more than the task row does: bulk_update comes
\* before bulk_create, so a failure between them loses TaskRuns, never adds.
HistorySound ==
    \A t \in Task : status[t] = "present" =>
       /\ runs[t].fail <= row[t].fails
       /\ runs[t].ok <= IF row[t].completed THEN 1 ELSE 0

Finished(t) ==
    status[t] = "present" /\ (row[t].completed \/ row[t].fails >= MaxFailures)

\* Once a row is completed or out of attempts no worker runs it again, and no
\* write of any worker turns it back.
FinishedStaysFinished ==
    [][\A t \in Task : Finished(t) =>
          /\ execs'[t] = execs[t]
          /\ Finished(t)' \/ status'[t] = "deleted"]_vars

\* A pop never takes a task and leaves a due one of higher priority behind.
PriorityRespected ==
    [][\A t, u \in Task :
          /\ status[t] = "present" /\ ~row[t].locked /\ row'[t].locked
          /\ u \in Eligible /\ ~row'[u].locked
          => PriorityOf[row[t].ident] <= PriorityOf[row[u].ident]]_vars

\* Without faults and clean-up, a task whose batch is written back has one
\* TaskRun for each failure and one for its completion.
HistoryComplete ==
    \A t \in Task :
       (\A w \in Worker : pc[w] = "saveRuns" => t \notin claimed[w]) =>
          /\ runs[t].fail = row[t].fails
          /\ runs[t].ok = IF row[t].completed THEN 1 ELSE 0

\* Without faults, with timeouts on every task, and if priorities do not
\* starve it, a submitted task is completed or uses up its attempts.
EveryTaskSettles ==
    \A t \in Task :
       status[t] = "present" ~> Finished(t) \/ status[t] = "deleted"

\* The life of each task, read off its row.
TaskPhase(t) ==
    CASE status[t] = "absent"  -> "none"
      [] status[t] = "deleted" -> "purged"
      [] OTHER -> IF row[t].locked THEN "claimed"
                  ELSE IF row[t].completed THEN "done"
                  ELSE IF row[t].fails < MaxFailures THEN "queued"
                  ELSE "exhausted"

Lifecycle == INSTANCE TaskLifecycle WITH
    phase    <- [t \in Task |-> TaskPhase(t)],
    failures <- [t \in Task |-> row[t].fails]

\* The tables, with all their batches and interleavings, keep the promise.
LifecycleSpec == Lifecycle!Spec
=============================================================================

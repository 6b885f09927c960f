--------------------------- MODULE RecurringTasks ---------------------------
(* Recurring tasks: the task_processor_recurringtask and recurringtaskrun    *)
(* tables, the TaskRunner threads that pick one task, decide whether it is   *)
(* due, run it and write it back, the lock that expires with the task's      *)
(* timeout, and the two actions of the admin site.  Every database statement *)
(* of run_recurring_task is a step of its own.                               *)
EXTENDS Integers, Sequences, FiniteSets

CONSTANTS
    Task,             \* primary keys of task_processor_recurringtask
    Worker,           \* TaskRunner threads, each in a process of its own
    Settings,         \* the deployments to look at, see settings
    Timeout,          \* RecurringTask.timeout, in ticks of the clock
    Grace,            \* the INTERVAL '1 minute' of the picking query
    RunEvery,         \* RecurringTask.run_every
    FirstRunTime,     \* time of day of the first run, or None
    Day,              \* ticks in a day
    MaxConsecutive,   \* RecurringTask.MAX_CONSECUTIVE_FAILURES
    MaxRetries,       \* the 3 of should_execute
    UnregisteredGrace,\* UNREGISTERED_RECURRING_TASK_GRACE_PERIOD
    Retention,        \* RECURRING_TASK_RUN_RETENTION_DAYS
    MaxRuns,          \* bound: a task with that many runs is never due again
    MaxLapses,        \* bound: the admin unlocks no task that lapsed as often
    Horizon,          \* bound: the clock stops here
    None              \* NULL

ASSUME ConstantsAssumption ==
    /\ Settings \subseteq [registered : [Worker -> SUBSET Task],
                            cleanUp : BOOLEAN, adminSite : BOOLEAN]
    /\ Timeout \in Nat /\ Grace \in Nat /\ RunEvery \in Nat
    /\ Day \in Nat \ {0}
    /\ FirstRunTime \in (0 .. Day - 1) \cup {None}
    /\ MaxConsecutive \in Nat \ {0} /\ MaxRetries \in Nat
    /\ UnregisteredGrace \in Nat /\ Retention \in Nat
    /\ MaxRuns \in Nat /\ MaxLapses \in Nat /\ Horizon \in Nat
    /\ None \notin Nat \cup Task \cup {"SUCCESS", "FAILURE", "deleted"}

VARIABLES
    settings,  \* registered: the registry of each worker's process; cleanUp:
               \* ENABLE_CLEAN_UP_OLD_TASKS; adminSite: somebody uses it
    now,       \* the clock
    status,    \* [Task -> Status], whether the row exists
    row,       \* [Task -> Row], its columns but for last_picked_at
    earlier,   \* {<<u, t>>}: u was last picked before t was, or never was
    runs,      \* [Task -> Seq(Run)], the RecurringTaskRun rows by primary key,
               \* those of the task that were deleted included
    pc,        \* [Worker -> Phase], where run_recurring_task is
    task,      \* [Worker -> Task or None], the task it picked
    copy,      \* [Worker -> Copy], the fields of its instance it will save
    run,       \* [Worker -> Nat], its own run's key, 0 for none
    result,    \* [Worker -> Result], its own run's result in memory
    startedAt, \* [Worker -> Nat], when it submitted the call
    finishedAt,\* [Worker -> Moment], its own run's finished_at in memory
    stray,     \* [Worker -> Nat], the abandoned run it found, 0 for none
    lapses     \* history: [Task -> Nat], how often a live worker lost its lock

dbVars     == <<status, row, earlier, runs>>
workerVars == <<pc, task, copy, run, result, startedAt, finishedAt, stray>>
vars       == <<settings, now, dbVars, workerVars, lapses>>

Status == {"absent", "present", "deleted"}
Phase  == {"idle", "reconcile", "abandon", "decide", "insert", "exec",
           "saveTask", "saveRun", "down"}
Result == {"SUCCESS", "FAILURE", None}
Moment == Nat \cup {None}
Row    == [created: Nat, locked: BOOLEAN, lockedAt: Moment, disabled: BOOLEAN,
           failures: Nat]
Copy   == [locked: BOOLEAN, lockedAt: Moment, disabled: BOOLEAN, failures: Nat]
\* `cleaned` is history: the row was deleted once, and is there only if a save
\* has inserted it again.
Run    == [started: Nat, finished: Moment, result: Result \cup {"deleted"},
           cleaned: BOOLEAN]

Blank   == [created |-> 0, locked |-> FALSE, lockedAt |-> None,
            disabled |-> FALSE, failures |-> 0]
NoCopy  == [locked |-> FALSE, lockedAt |-> None, disabled |-> FALSE, failures |-> 0]

TypeOK ==
    /\ settings \in Settings
    /\ now \in Nat
    /\ status \in [Task -> Status]
    /\ row \in [Task -> Row]
    /\ earlier \in SUBSET (Task \X Task)
    /\ runs \in [Task -> Seq(Run)]
    /\ pc \in [Worker -> Phase]
    /\ task \in [Worker -> Task \cup {None}]
    /\ copy \in [Worker -> Copy]
    /\ run \in [Worker -> Nat]
    /\ result \in [Worker -> Result]
    /\ startedAt \in [Worker -> Nat]
    /\ finishedAt \in [Worker -> Moment]
    /\ stray \in [Worker -> Nat]
    /\ lapses \in [Task -> Nat]

Init ==
    /\ settings \in Settings
    /\ now = 0
    /\ status = [t \in Task |-> "absent"]
    /\ row = [t \in Task |-> Blank]
    /\ earlier = {}
    /\ runs = [t \in Task |-> <<>>]
    /\ pc = [w \in Worker |-> "idle"]
    /\ task = [w \in Worker |-> None]
    /\ copy = [w \in Worker |-> NoCopy]
    /\ run = [w \in Worker |-> 0]
    /\ result = [w \in Worker |-> None]
    /\ startedAt = [w \in Worker |-> 0]
    /\ finishedAt = [w \in Worker |-> None]
    /\ stray = [w \in Worker |-> 0]
    /\ lapses = [t \in Task |-> 0]

Goto(w, phase) == pc' = [pc EXCEPT ![w] = phase]

\* run_recurring_task is over for this worker, normally or not.
Leave(w, phase) ==
    /\ Goto(w, phase)
    /\ task' = [task EXCEPT ![w] = None]
    /\ copy' = [copy EXCEPT ![w] = NoCopy]
    /\ run' = [run EXCEPT ![w] = 0]
    /\ result' = [result EXCEPT ![w] = None]
    /\ startedAt' = [startedAt EXCEPT ![w] = 0]
    /\ finishedAt' = [finishedAt EXCEPT ![w] = None]
    /\ stray' = [stray EXCEPT ![w] = 0]

-----------------------------------------------------------------------------
\* initialise() of a process that knows the task persists a row for it.
Register(t) ==
    /\ status[t] = "absent"
    /\ \E w \in Worker : t \in settings.registered[w]
    /\ status' = [status EXCEPT ![t] = "present"]
    /\ row' = [row EXCEPT ![t] = [Blank EXCEPT !.created = now]]
    /\ UNCHANGED <<settings, now, earlier, runs, workerVars, lapses>>

\* locked_at < NOW() - timeout + INTERVAL '1 minute'
LockExpired(t) == /\ row[t].lockedAt # None
                  /\ row[t].lockedAt < now - Timeout + Grace

\* Mutants of Pickable: no lock ever expires, locks are not looked at.
UnlockedOnly ==
    {t \in Task : status[t] = "present" /\ ~row[t].disabled /\ ~row[t].locked}
LocksIgnored ==
    {t \in Task : status[t] = "present" /\ ~row[t].disabled}

\* The WHERE clause of get_recurringtasks_to_process.
Pickable ==
    {t \in Task : /\ status[t] = "present"
                  /\ ~row[t].disabled
                  /\ ~row[t].locked \/ LockExpired(t)}

\* Mutant of PickedBefore: ORDER BY last_picked_at DESC.
PickedAfter(u, t) == <<t, u>> \in earlier

\* ORDER BY last_picked_at NULLS FIRST
PickedBefore(u, t) == <<u, t>> \in earlier

Holding(w) == pc[w] \notin {"idle", "down"}

\* The workers between picking the task and saving it: after SaveTask the
\* lock is no longer theirs.
Holders(t) == {w \in Worker : /\ Holding(w) /\ pc[w] # "saveRun"
                              /\ task[w] = t}

\* get_recurringtasks_to_process: select, lock and return one task.  A lock
\* that has expired over a live holder is a lapse.
Pick(w) ==
    /\ pc[w] = "idle"
    /\ \E t \in Pickable :
          /\ \A u \in Pickable : ~PickedBefore(u, t)
          /\ row' = [row EXCEPT ![t] = [@ EXCEPT !.locked = TRUE, !.lockedAt = now]]
          /\ earlier' = {p \in earlier : p[1] # t} \cup ((Task \ {t}) \X {t})
          /\ task' = [task EXCEPT ![w] = t]
          /\ copy' = [copy EXCEPT ![w] = [locked   |-> TRUE,
                                          lockedAt |-> now,
                                          disabled |-> row[t].disabled,
                                          failures |-> row[t].failures]]
          /\ lapses' = IF row[t].locked /\ LockExpired(t) /\ Holders(t) # {}
                       THEN [lapses EXCEPT ![t] = @ + 1] ELSE lapses
    /\ Goto(w, "reconcile")
    /\ UNCHANGED <<settings, now, status, runs, run, result, startedAt, finishedAt, stray>>

\* The runs that are still there.
Kept(t) == {k \in DOMAIN runs[t] : runs[t][k].result # "deleted"}

\* The table of runs once run k of task t ended at f with result r.
WithResult(t, k, r, f) ==
    [runs EXCEPT ![t][k] = [@ EXCEPT !.result = r, !.finished = f]]

\* Mutant of FindAbandoned: nothing is looked for.
SkipReconcile(w) ==
    /\ pc[w] = "reconcile"
    /\ Goto(w, "decide")
    /\ UNCHANGED <<settings, now, dbVars, task, copy, run, result, startedAt, finishedAt,
                   stray, lapses>>

\* The finished_at of a run that ends now.  Only the clean-up reads the value.
FinishedNow == IF settings.cleanUp THEN now ELSE 0

\* reconcile_abandoned_run reads the first run that has no result ...
FindAbandoned(w) ==
    /\ pc[w] = "reconcile"
    /\ LET open == {k \in DOMAIN runs[task[w]] : runs[task[w]][k].result = None}
       IN  IF open = {}
           THEN Goto(w, "decide") /\ UNCHANGED stray
           ELSE /\ \E k \in open : /\ \A j \in open : k <= j
                                   /\ stray' = [stray EXCEPT ![w] = k]
                /\ Goto(w, "abandon")
    /\ UNCHANGED <<settings, now, dbVars, task, copy, run, result, startedAt, finishedAt,
                   lapses>>

\* ... and writes a failure to it, whatever it has become meanwhile; if it is
\* gone with its task the save raises, and run_iteration swallows the error.
MarkAbandoned(w) ==
    /\ pc[w] = "abandon"
    /\ IF stray[w] \in Kept(task[w])
       THEN /\ runs' = WithResult(task[w], stray[w], "FAILURE", FinishedNow)
            /\ stray' = [stray EXCEPT ![w] = 0]
            /\ Goto(w, "decide")
            /\ UNCHANGED <<task, copy, run, result, startedAt, finishedAt>>
       ELSE Leave(w, "idle") /\ UNCHANGED runs
    /\ UNCHANGED <<settings, now, status, row, earlier, lapses>>

\* A task this process does not know is deleted when it is old enough, and
\* otherwise left as it is: locked.
SkipUnregistered(w) ==
    /\ pc[w] = "decide"
    /\ task[w] \notin settings.registered[w]
    /\ IF now - row[task[w]].created > UnregisteredGrace
       THEN /\ status' = [status EXCEPT ![task[w]] = "deleted"]
            /\ row' = [row EXCEPT ![task[w]] = Blank]
            /\ UNCHANGED earlier
            /\ runs' = [runs EXCEPT ![task[w]] = <<>>]
       ELSE UNCHANGED dbVars
    /\ Leave(w, "idle")
    /\ UNCHANGED <<settings, now, lapses>>

\* Mutants of MarkSuccess and MarkFailure: the counter is kept, moves down.
SucceedWithoutReset(c) == [c EXCEPT !.locked = FALSE, !.lockedAt = None]
FailCountingDown(c) == [c EXCEPT !.locked = FALSE, !.lockedAt = None, !.failures = @ - 1]

\* unlock, mark_success and mark_failure on the in-memory instance.
Unlocked(c)    == [c EXCEPT !.locked = FALSE, !.lockedAt = None]
MarkSuccess(c) == [c EXCEPT !.locked = FALSE, !.lockedAt = None, !.failures = 0]
MarkFailure(c) == [c EXCEPT !.locked = FALSE, !.lockedAt = None,
                            !.failures = @ + 1,
                            !.disabled = @ \/ c.failures + 1 >= MaxConsecutive]

\* The 12-hour window around first_run_time in should_execute.
FirstRunDue ==
    \/ FirstRunTime = None
    \/ LET difference == (now % Day) - FirstRunTime
       IN  /\ ~(2 * difference > Day)
           /\ 2 * difference < -Day \/ difference >= 0

\* Mutant of Recent: started_at is compared with now.
StartedNow(t) == {k \in Kept(t) : runs[t][k].started >= now}

Recent(t) == {k \in Kept(t) : runs[t][k].started >= now - RunEvery}

\* The last run by started_at.
IsLast(t, k) == /\ k \in Kept(t)
                /\ \A j \in Kept(t) : runs[t][j].started <= runs[t][k].started

ShouldExecute(t) ==
    /\ Len(runs[t]) < MaxRuns
    /\ IF Kept(t) = {}
       THEN FirstRunDue
       ELSE \E k \in Kept(t) :
               /\ IsLast(t, k)
               /\ \/ now - runs[t][k].started >= RunEvery
                  \/ /\ runs[t][k].result # "SUCCESS"
                     /\ Cardinality(Recent(t)) <= MaxRetries

\* should_execute; a task that is not due is only unlocked.
Decide(w) ==
    /\ pc[w] = "decide"
    /\ task[w] \in settings.registered[w]
    /\ IF ShouldExecute(task[w])
       THEN Goto(w, "insert") /\ UNCHANGED copy
       ELSE /\ copy' = [copy EXCEPT ![w] = Unlocked(@)]
            /\ Goto(w, "saveTask")
    /\ UNCHANGED <<settings, now, dbVars, task, run, result, startedAt, finishedAt, stray,
                   lapses>>

\* The run is persisted without a result, then the call is submitted; the
\* insert fails if the task was deleted meanwhile.
InsertRun(w) ==
    /\ pc[w] = "insert"
    /\ IF status[task[w]] = "present"
       THEN /\ runs' = [runs EXCEPT ![task[w]] =
                 Append(@, [started |-> now, finished |-> None, result |-> None,
                            cleaned |-> FALSE])]
            /\ run' = [run EXCEPT ![w] = Len(runs[task[w]]) + 1]
            /\ startedAt' = [startedAt EXCEPT ![w] = now]
            /\ Goto(w, "exec")
            /\ UNCHANGED <<task, copy, result, finishedAt, stray>>
       ELSE Leave(w, "idle") /\ UNCHANGED runs
    /\ UNCHANGED <<settings, now, status, row, earlier, lapses>>

\* _run_task is over: the outcome is in memory only.  Only a success has a
\* finished_at.
Finish(w, c, res) ==
    /\ copy' = [copy EXCEPT ![w] = c]
    /\ result' = [result EXCEPT ![w] = res]
    /\ finishedAt' = [finishedAt EXCEPT ![w] = IF res = "SUCCESS" THEN FinishedNow ELSE None]
    /\ Goto(w, "saveTask")
    /\ UNCHANGED <<settings, now, dbVars, task, run, startedAt, stray, lapses>>

Succeed(w) ==
    /\ pc[w] = "exec"
    /\ now <= startedAt[w] + Timeout
    /\ Finish(w, MarkSuccess(copy[w]), "SUCCESS")

Fail(w) ==
    /\ pc[w] = "exec"
    /\ now <= startedAt[w] + Timeout
    /\ Finish(w, MarkFailure(copy[w]), "FAILURE")

TimeOut(w) ==
    /\ pc[w] = "exec"
    /\ now >= startedAt[w] + Timeout
    /\ Finish(w, MarkFailure(copy[w]), "FAILURE")

\* The task raised TaskBackoffError: the assertion that only standard tasks
\* back off leaves _run_task and run_recurring_task, so nothing is saved.
BackOff(w) ==
    /\ pc[w] = "exec"
    /\ now <= startedAt[w] + Timeout
    /\ Leave(w, "idle")
    /\ UNCHANGED <<settings, now, dbVars, lapses>>

\* task.save(update_fields=...): four columns of the instance as it was picked
\* and since changed in memory.  Updating a deleted row raises.
SaveTask(w) ==
    /\ pc[w] = "saveTask"
    /\ IF status[task[w]] = "present"
       THEN /\ row' = [row EXCEPT ![task[w]] =
                         [@ EXCEPT !.locked   = copy[w].locked,
                                   !.lockedAt = copy[w].lockedAt,
                                   !.disabled = copy[w].disabled,
                                   !.failures = copy[w].failures]]
            /\ IF run[w] # 0
               THEN /\ Goto(w, "saveRun")
                    /\ UNCHANGED <<task, copy, run, result, startedAt, finishedAt, stray>>
               ELSE Leave(w, "idle")
       ELSE Leave(w, "idle") /\ UNCHANGED row
    /\ UNCHANGED <<settings, now, status, earlier, runs, lapses>>

\* task_run.save(): every column of the run, over whatever is there: the
\* finished_at of a reconciled run is lost when its worker saves a failure.  A
\* row that was cleaned up is inserted again.
SaveRun(w) ==
    /\ pc[w] = "saveRun"
    /\ runs' = IF run[w] \in DOMAIN runs[task[w]]
               THEN WithResult(task[w], run[w], result[w], finishedAt[w])
               ELSE runs
    /\ Leave(w, "idle")
    /\ UNCHANGED <<settings, now, status, row, earlier, lapses>>

\* finished_at < delete_before.  A run that failed and was saved by its own
\* worker has no finished_at and stays for ever.
Outdated(t) == {k \in Kept(t) : /\ runs[t][k].finished # None
                                /\ runs[t][k].finished < now - Retention}

\* clean_up_old_recurring_task_runs, itself a recurring task: one statement.
CleanUpRuns ==
    /\ settings.cleanUp
    /\ \E t \in Task : Outdated(t) # {}
    /\ runs' = [t \in Task |-> [k \in DOMAIN runs[t] |->
          IF k \in Outdated(t)
          THEN [runs[t][k] EXCEPT !.result = "deleted", !.cleaned = TRUE]
          ELSE runs[t][k]]]
    /\ UNCHANGED <<settings, now, status, row, earlier, workerVars, lapses>>

-----------------------------------------------------------------------------
\* Time passes, whatever the workers are doing: nothing bounds the time
\* between two of their steps.  The clock starts with the first task.
Tick ==
    /\ now < Horizon
    /\ \E t \in Task : status[t] # "absent"
    /\ now' = now + 1
    /\ UNCHANGED <<settings, dbVars, workerVars, lapses>>

\* A database error in any statement, swallowed by run_iteration.
DatabaseError(w) ==
    /\ Holding(w) /\ pc[w] # "exec"
    /\ Leave(w, "idle")
    /\ UNCHANGED <<settings, now, dbVars, lapses>>

\* The worker is killed, and later started again.  One that is killed between
\* two tasks is one that does not pick for a while.
Crash(w) ==
    /\ Holding(w)
    /\ Leave(w, "down")
    /\ UNCHANGED <<settings, now, dbVars, lapses>>

Restart(w) ==
    /\ pc[w] = "down"
    /\ Goto(w, "idle")
    /\ UNCHANGED <<settings, now, dbVars, task, copy, run, result, startedAt, finishedAt,
                   stray, lapses>>

\* The two actions of RecurringTaskAdmin.  To unlock a task that has a live
\* holder is a lapse too.
AdminUnlock(t) ==
    /\ settings.adminSite
    /\ status[t] = "present" /\ row[t].locked
    /\ lapses[t] < MaxLapses
    /\ row' = [row EXCEPT ![t] = [@ EXCEPT !.locked = FALSE]]
    /\ lapses' = IF Holders(t) # {} THEN [lapses EXCEPT ![t] = @ + 1] ELSE lapses
    /\ UNCHANGED <<settings, now, status, earlier, runs, workerVars>>

\* Mutant of AdminEnable: the counter is not reset.
EnableWithoutReset(t) ==
    /\ settings.adminSite
    /\ status[t] = "present"
    /\ row' = [row EXCEPT ![t] = [@ EXCEPT !.disabled = FALSE]]
    /\ UNCHANGED <<settings, now, status, earlier, runs, workerVars, lapses>>

AdminEnable(t) ==
    /\ settings.adminSite
    /\ status[t] = "present"
    /\ row' = [row EXCEPT ![t] = [@ EXCEPT !.disabled = FALSE, !.failures = 0]]
    /\ UNCHANGED <<settings, now, status, earlier, runs, workerVars, lapses>>

-----------------------------------------------------------------------------
Execute(w) == Succeed(w) \/ Fail(w) \/ TimeOut(w) \/ BackOff(w)

Loop(w) ==
    \/ FindAbandoned(w) \/ MarkAbandoned(w)
    \/ SkipUnregistered(w) \/ Decide(w) \/ InsertRun(w)
    \/ Execute(w) \/ SaveTask(w) \/ SaveRun(w)

\* Workers that crash and restart, the clean-up, the admin site, and time.
Next ==
    \/ \E t \in Task : Register(t)
    \/ \E w \in Worker : \/ Pick(w) \/ Loop(w)
                         \/ DatabaseError(w) \/ Crash(w) \/ Restart(w)
    \/ CleanUpRuns
    \/ \E t \in Task : AdminUnlock(t) \/ AdminEnable(t)
    \/ Tick

Spec == Init /\ [][Next]_vars

\* Time goes on beyond the bound: the clock stands and everything recorded
\* gets older instead, what is older than Horizon no more.
Older(x) == IF x \in {0, None} THEN x ELSE x - 1

Age ==
    /\ now = Horizon
    /\ row' = [t \in Task |->
                 [row[t] EXCEPT !.created = Older(@), !.lockedAt = Older(@)]]
    /\ runs' = [t \in Task |-> [k \in DOMAIN runs[t] |->
                  [runs[t][k] EXCEPT !.started = Older(@), !.finished = Older(@)]]]
    /\ copy' = [w \in Worker |-> [copy[w] EXCEPT !.lockedAt = Older(@)]]
    /\ startedAt' = [w \in Worker |-> Older(startedAt[w])]
    /\ finishedAt' = [w \in Worker |-> Older(finishedAt[w])]
    /\ UNCHANGED <<settings, now, status, earlier, pc, task, run, result, stray, lapses>>

\* TaskRunner threads loop, calls end or time out, killed workers come back
\* (the platform restarts the container), time passes, and there is a last
\* fault: a worker that always dies before it does anything helps nobody.
Fairness ==
    /\ \A w \in Worker : /\ WF_vars(Pick(w)) /\ WF_vars(Loop(w))
                         /\ WF_vars(Restart(w))
    /\ WF_vars(Tick \/ Age)
    /\ <>[][\A w \in Worker : ~Crash(w) /\ ~DatabaseError(w)]_vars

FairSpec == Init /\ [][Next \/ Age]_vars /\ Fairness

-----------------------------------------------------------------------------
(* Properties.                                                               *)

\* sql/0015: "add one minute to the timeout as a grace period for overhead".
\* So the lock outlasts the timeout: of two workers that have the same task and
\* are not done with it, one has had it for longer than that.  It does not: the
\* query adds the minute to the wrong side.
MutualExclusion ==
    \A w, v \in Worker :
       w # v /\ task[w] = task[v] /\ copy[w].locked /\ copy[v].locked =>
          \E u \in {w, v} : now > copy[u].lockedAt + Timeout

\* Every worker on a task but the first is there because a live one lost the
\* lock, to time or to the admin.  An overtaken worker that saves the task late
\* unlocks it under its successor, and yet lets nobody in who is not accounted
\* for.
HoldersAccounted ==
    \A t \in Task :
       Cardinality(Holders(t)) + (IF row[t].locked THEN 0 ELSE 1) <= 1 + lapses[t]

\* As long as no live worker has lost the lock, a task has at most one run
\* without a result, however many workers died, timed out or lost the database:
\* whoever picks it next closes the run left behind before it starts its own.
OneOpenRun ==
    \A t \in Task : \A j, k \in DOMAIN runs[t] :
       runs[t][j].result = None /\ runs[t][k].result = None /\ j # k
          => lapses[t] > 0

\* In any stretch of run_every there is the run that was due and MaxRetries
\* more at most, abandoned, timed-out and reconciled runs counted, and one more
\* for each time that a live worker lost the lock.  Runs that were cleaned up
\* are neither seen by should_execute nor counted here.
RetriesBounded ==
    \A t \in Task : \A k \in DOMAIN runs[t] :
       Cardinality({j \in 1 .. k :
          /\ ~runs[t][j].cleaned
          /\ runs[t][j].started > runs[t][k].started - RunEvery})
       <= MaxRetries + 1 + lapses[t]

\* The counter that disables a task exceeds the number of runs since its last
\* success only if a live worker has lost the lock: crashes, timeouts, lost
\* saves of the task or of its run, and enabling it under a worker, do not.  The
\* stale save of an overtaken worker does.
CounterBackedByHistory ==
    \A t \in Task : \A k \in DOMAIN runs[t] :
       runs[t][k].result = "SUCCESS" /\ row[t].failures > Len(runs[t]) - k
          => lapses[t] > 0

\* Whatever stale saves and the admin site do to each other, a task is
\* disabled exactly when its counter says so.
DisabledMatchesCounter ==
    \A t \in Task : row[t].disabled <=> row[t].failures >= MaxConsecutive

\* A run left open by a dead worker is closed: the lock expires, the task is
\* picked again and the run reconciled.
AbandonedRunsClosed ==
    \A t \in Task : \A k \in 1 .. MaxRuns :
       (k \in DOMAIN runs[t] /\ runs[t][k].result = None)
          ~> \/ k \in DOMAIN runs[t] /\ runs[t][k].result # None
             \/ row[t].disabled

\* No enabled task is starved: picking in the order of last_picked_at gets to
\* all of them.
NoStarvation ==
    \A t \in Task :
       status[t] = "present" ~> \/ \E w \in Worker : task[w] = t
                                \/ row[t].disabled

\* models.py: "if for some reason the worker died before before writing the
\* task run result we mark that run as explict failure here".  So the run of
\* a worker that is alive is never marked.
OnlyDeadWorkersReconciled ==
    [][\A w \in Worker : MarkAbandoned(w) =>
          \A v \in Worker : task[v] = task[w] => run[v] # stray[w]]_vars
=============================================================================

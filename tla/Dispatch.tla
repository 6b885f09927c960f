------------------------------ MODULE Dispatch ------------------------------
(* How a task gets from its caller to the processor: TaskHandler.delay under *)
(* each TASK_RUN_METHOD, inside and outside of a database transaction, with  *)
(* one or two databases, and the health check, which is itself a caller.     *)
EXTENDS Naturals, FiniteSets

CONSTANTS
    Thread,      \* threads that serve one request, or one health check, each
    MaxCalls,    \* bound: calls of delay() in a behaviour
    Databases,   \* values of TASK_PROCESSOR_DATABASES, as sets
    QueueSize,   \* the handler's queue_size
    MaxTries,    \* is_processor_healthy(max_tries)
    MaxFailures, \* the 3 of get_tasks_to_process
    None         \* no thread

ASSUME DispatchAssumption ==
    /\ Databases \subseteq SUBSET {"default", "task_processor"}
    /\ MaxCalls \in Nat /\ QueueSize \in Nat \ {0}
    /\ MaxTries \in Nat \ {0} /\ MaxFailures \in Nat \ {0}
    /\ None \notin Thread

Call == 1..MaxCalls

VARIABLES
    settings, \* the settings of this deployment, read by every process
    role,     \* [Thread -> {"request", "probe"}], the endpoint it serves
    pc,       \* [Thread -> Phase]
    inTx,     \* [Thread -> BOOLEAN], its request opened a transaction
    data,     \* [Thread -> DataState], what the request wrote to "default"
    owner,    \* [Call -> Thread or None]
    call,     \* [Call -> CallState]
    tries,    \* [Thread -> Nat], queries of get_health_check_model
    alive,    \* [Call -> Nat], timed-out attempts whose function still runs
    fails,    \* [Call -> Nat], num_failures of the row
    proof     \* [Call -> RowState], the HealthCheckModel row it creates

config == <<settings, role, inTx>>
rows   == <<alive, fails, proof>>  \* what only the processor and the probes touch
vars   == <<config, pc, data, owner, call, tries, rows>>

Settings == [method: {"SYNCHRONOUSLY", "SEPARATE_THREAD", "TASK_PROCESSOR"},
             onCommit: BOOLEAN,     \* the handler's transaction_on_commit
             databases: Databases,  \* those the processor reads
             routed: BOOLEAN]       \* DATABASE_ROUTERS has the router
Phase == {"probe", "open", "saving", "hooks", "done", "crashed",
          "polling", "found", "healthy", "unhealthy"}
DataState == {"none", "written", "visible", "undone"}
CallState == {"new", "built", "pending", "queued", "hooked",
              "started", "ran", "exhausted", "undone", "lost"}
RowState  == {"none", "there", "deleted"}

TypeOK ==
    /\ settings \in Settings
    /\ role \in [Thread -> {"request", "probe"}]
    /\ pc \in [Thread -> Phase]
    /\ inTx \in [Thread -> BOOLEAN]
    /\ data \in [Thread -> DataState]
    /\ owner \in [Call -> Thread \cup {None}]
    /\ call \in [Call -> CallState]
    /\ tries \in [Thread -> 0..MaxTries]
    /\ alive \in [Call -> Nat]
    /\ fails \in [Call -> 0..MaxFailures]
    /\ proof \in [Call -> RowState]

\* Mutant of Validated: the router is not asked for.
NoRouterCheck(s) == TRUE

\* TaskProcessorAppConfig.ready raises ImproperlyConfigured otherwise.  (It
\* asks for the entry in DATABASES too, which every setting here has.)
Validated(s) ==
    s.method = "TASK_PROCESSOR" /\ "task_processor" \in s.databases => s.routed

\* TaskProcessorRouter.db_for_write: where the rows of the app go.
WriteDb == IF settings.routed THEN "task_processor" ELSE "default"

Init ==
    /\ settings \in {s \in Settings : Validated(s)}
    /\ settings.method # "TASK_PROCESSOR" =>
          settings.databases = {"default"} /\ ~settings.routed
    /\ settings.method # "SEPARATE_THREAD" => settings.onCommit
    \* only a deployment with the processor registers the health check
    /\ role \in [Thread -> IF settings.method = "TASK_PROCESSOR"
                          THEN {"request", "probe"} ELSE {"request"}]
    /\ pc = [t \in Thread |-> IF role[t] = "probe" THEN "probe" ELSE "open"]
    /\ inTx \in [Thread -> BOOLEAN]
    /\ \A t \in Thread : inTx[t] => role[t] = "request"
    /\ data = [t \in Thread |-> "none"]
    /\ owner = [c \in Call |-> None]
    /\ call = [c \in Call |-> "new"]
    /\ tries = [t \in Thread |-> 0]
    /\ alive = [c \in Call |-> 0]
    /\ fails = [c \in Call |-> 0]
    /\ proof = [c \in Call |-> "none"]

-----------------------------------------------------------------------------
(* A request: it may open a transaction, writes its data, calls delay().     *)

Of(t)      == {c \in Call : owner[c] = t}
IsProbe(c) == owner[c] # None /\ role[owner[c]] = "probe"
Go(t, phase) == pc' = [pc EXCEPT ![t] = phase]
Become(from, to) == call' = [c \in Call |-> IF c \in from THEN to ELSE call[c]]

Write(t) ==
    /\ pc[t] = "open" /\ data[t] = "none"
    /\ data' = [data EXCEPT ![t] = IF inTx[t] THEN "written" ELSE "visible"]
    /\ UNCHANGED <<config, pc, owner, call, tries, rows>>

\* A transaction on "default" does not cover the task processor's database.
Covered(t) == inTx[t] /\ WriteDb = "default"

\* The rows of the task that this thread's connection sees.
Seen(t) == {c \in Call : \/ call[c] = "queued" /\ ~IsProbe(c)
                         \/ call[c] = "pending" /\ owner[c] = t}

\* Mutant of Full: the caller's own uncommitted rows are not counted.
FullOfCommitted(t) == Cardinality({c \in Seen(t) : call[c] = "queued"}) > QueueSize

Full(t) == Cardinality(Seen(t)) > QueueSize

\* The call is the next one that has not been made.
Next1(c) == call[c] = "new" /\ \A b \in Call : b < c => call[b] # "new"

NewCall(t, c, s) ==
    /\ Next1(c)
    /\ owner' = [owner EXCEPT ![c] = t]
    /\ call' = [call EXCEPT ![c] = s]

\* A delay() that is refused changes nothing modelled here: delay_until without
\* a processor, a full queue, arguments that cannot be serialised.

\* SYNCHRONOUSLY: the function runs here, in the caller's transaction.
DelaySynchronously(t) ==
    /\ pc[t] = "open" /\ settings.method = "SYNCHRONOUSLY"
    /\ \E c \in Call : NewCall(t, c, "ran")
    /\ UNCHANGED <<config, pc, data, tries, rows>>

\* Mutant of StartsAt: the thread is started at once.
StartAtOnce(t) == "started"

\* on_commit(_start) defers the start only while a transaction is open.
StartsAt(t) == IF inTx[t] /\ settings.onCommit THEN "hooked" ELSE "started"

RunInThread(t) ==
    /\ pc[t] = "open" /\ settings.method = "SEPARATE_THREAD"
    /\ \E c \in Call : NewCall(t, c, StartsAt(t))
    /\ UNCHANGED <<config, pc, data, tries, rows>>

\* TASK_PROCESSOR: Task.create checks the limit and builds the instance.
CreateTask(t) ==
    /\ pc[t] = "open" /\ settings.method = "TASK_PROCESSOR"
    /\ ~Full(t)
    /\ \E c \in Call : NewCall(t, c, "built")
    /\ Go(t, "saving")
    /\ UNCHANGED <<config, data, tries, rows>>

\* task.save(): part of the transaction if the same database holds both.
SaveTask(t) ==
    /\ pc[t] = "saving"
    /\ Become({c \in Of(t) : call[c] = "built"},
              IF Covered(t) THEN "pending" ELSE "queued")
    /\ Go(t, "open")
    /\ UNCHANGED <<config, data, owner, tries, rows>>

\* The request ends well.  Its hooks run after the commit, one by one.
Commit(t) ==
    /\ pc[t] = "open"
    /\ data' = [data EXCEPT ![t] = IF @ = "none" THEN @ ELSE "visible"]
    /\ Become({c \in Of(t) : call[c] = "pending"}, "queued")
    /\ Go(t, "hooks")
    /\ UNCHANGED <<config, owner, tries, rows>>

Hooked(t) == {c \in Of(t) : call[c] = "hooked"}

RunHook(t) ==
    /\ pc[t] = "hooks"
    /\ \/ \E c \in Hooked(t) :
             /\ \A b \in Hooked(t) : c <= b
             /\ Become({c}, "started")
             /\ UNCHANGED pc
       \/ Hooked(t) = {} /\ Go(t, "done") /\ UNCHANGED call
    /\ UNCHANGED <<config, data, owner, tries, rows>>

\* Thread.start() raises ("can't start new thread"): so do the hooks after it.
HookFails(t) ==
    /\ pc[t] = "hooks" /\ Hooked(t) # {}
    /\ Become(Hooked(t), "lost")
    /\ Go(t, "done")
    /\ UNCHANGED <<config, data, owner, tries, rows>>

\* The request fails: a transaction takes everything back that it covers.
Undo(t) ==
    /\ data' = [data EXCEPT ![t] = IF @ = "written" THEN "undone" ELSE @]
    /\ Become({c \in Of(t) : call[c] \in {"built", "pending", "hooked"}}, "undone")

RollBack(t) ==
    /\ pc[t] \in {"open", "saving"}
    /\ Undo(t)
    /\ Go(t, "done")
    /\ UNCHANGED <<config, owner, tries, rows>>

\* The process of the thread is killed; its daemon threads die with it.
Crash(t) ==
    /\ pc[t] \in {"open", "saving", "hooks", "polling", "found"}
    /\ data' = [data EXCEPT ![t] = IF @ = "written" THEN "undone" ELSE @]
    /\ call' = [c \in Call |->
                  CASE owner[c] # t -> call[c]
                    [] call[c] \in {"built", "pending"} -> "undone"
                    [] call[c] = "hooked" ->
                         IF pc[t] = "hooks" THEN "lost" ELSE "undone"
                    [] call[c] = "started" -> "lost"
                    [] OTHER -> call[c]]
    /\ Go(t, "crashed")
    /\ UNCHANGED <<config, owner, tries, rows>>

-----------------------------------------------------------------------------
(* The health check: is_processor_healthy, served in autocommit.             *)

\* create_health_check_model.delay: a handler without a queue_size.
Probe(t) ==
    /\ pc[t] = "probe"
    /\ \E c \in Call : NewCall(t, c, "queued")
    /\ Go(t, "polling")
    /\ UNCHANGED <<config, data, tries, rows>>

\* Mutant of Mine: the query does not filter by the uuid.
AnyOnes(t) == {c \in Call : IsProbe(c)}

\* The uuid of the check travels in the arguments of its task.
Mine(t) == Of(t)

\* Mutant of LastTry: one query too many.
OneTryMore(t) == tries[t] = MaxTries

LastTry(t) == tries[t] + 1 = MaxTries

\* get_health_check_model: queried max_tries times, with a growing pause.
Poll(t) ==
    /\ pc[t] = "polling"
    /\ IF \E c \in Mine(t) : proof[c] = "there"
       THEN Go(t, "found") /\ UNCHANGED tries
       ELSE /\ tries' = [tries EXCEPT ![t] = @ + 1]
            /\ Go(t, IF LastTry(t) THEN "unhealthy" ELSE "polling")
    /\ UNCHANGED <<config, data, owner, call, rows>>

\* Mutant of Removed: the row is left where it is.
NotRemoved(t) == proof

\* health_check_model.delete()
Removed(t) ==
    [c \in Call |-> IF c \in Mine(t) /\ proof[c] = "there" THEN "deleted" ELSE proof[c]]

Answer(t) ==
    /\ pc[t] = "found"
    /\ proof' = Removed(t)
    /\ Go(t, "healthy")
    /\ UNCHANGED <<config, data, owner, call, tries, alive, fails>>

-----------------------------------------------------------------------------
(* Those who run tasks: the thread of SEPARATE_THREAD and the processor.     *)

ThreadRuns(c) ==
    /\ call[c] = "started"
    /\ Become({c}, "ran")
    /\ UNCHANGED <<config, pc, data, owner, tries, rows>>

\* The processor reads the databases of TASK_PROCESSOR_DATABASES in turn.
Due(c) == call[c] = "queued" /\ WriteDb \in settings.databases

\* create_health_check_model: uuid is unique, so a second row is refused.
Inserts(c)  == IsProbe(c) /\ proof[c] # "there"
NewProof(c) == proof' = [proof EXCEPT ![c] = IF IsProbe(c) THEN "there" ELSE @]
Fails(c) ==
    /\ fails' = [fails EXCEPT ![c] = @ + 1]
    /\ Become({c}, IF fails[c] + 1 = MaxFailures THEN "exhausted" ELSE "queued")

TaskSucceeds(c) ==
    /\ Due(c) /\ (IsProbe(c) => Inserts(c))
    /\ Become({c}, "ran")
    /\ NewProof(c)
    /\ UNCHANGED <<config, pc, data, owner, tries, alive, fails>>

\* Only a probe's attempts are told apart: TaskQueue has the others' retries.
TaskFails(c) ==
    /\ Due(c) /\ IsProbe(c)
    /\ Fails(c)
    /\ UNCHANGED <<config, pc, data, owner, tries, alive, proof>>

\* The processor stops waiting; the function goes on in its own thread.
TaskTimesOut(c) ==
    /\ Due(c) /\ IsProbe(c)
    /\ Fails(c)
    /\ alive' = [alive EXCEPT ![c] = @ + 1]
    /\ UNCHANGED <<config, pc, data, owner, tries, proof>>

LateEnd(c) ==
    /\ alive[c] > 0
    /\ alive' = [alive EXCEPT ![c] = @ - 1]
    /\ NewProof(c) \/ UNCHANGED proof
    /\ UNCHANGED <<config, pc, data, owner, call, tries, fails>>

-----------------------------------------------------------------------------
Delay(t) == DelaySynchronously(t) \/ RunInThread(t) \/ CreateTask(t)
Ends(t)  == Commit(t) \/ RollBack(t)
Checks(t) == Probe(t) \/ Poll(t) \/ Answer(t)
Works(c) == ThreadRuns(c) \/ TaskSucceeds(c) \/ TaskFails(c) \/ TaskTimesOut(c)

Next ==
    \/ \E t \in Thread : \/ Write(t) \/ Delay(t) \/ SaveTask(t)
                         \/ Ends(t) \/ RunHook(t) \/ HookFails(t) \/ Crash(t)
                         \/ Checks(t)
    \/ \E c \in Call : Works(c) \/ LateEnd(c)

Spec == Init /\ [][Next]_vars

\* Requests end, started threads run, the processor keeps consuming.
Fairness ==
    /\ \A t \in Thread : WF_vars(Ends(t)) /\ WF_vars(RunHook(t) \/ HookFails(t))
                         /\ WF_vars(SaveTask(t))
    /\ \A c \in Call : WF_vars(Works(c))

FairSpec == Spec /\ Fairness

-----------------------------------------------------------------------------
(* Properties.                                                               *)

\* The two settings under which a task may start before its caller commits:
\* a database of its own, and transaction_on_commit=False.
Eager == \/ settings.method = "SYNCHRONOUSLY"
         \/ settings.method = "SEPARATE_THREAD" /\ ~settings.onCommit
         \/ settings.method = "TASK_PROCESSOR" /\ settings.routed

\* Otherwise no task runs ahead of the transaction that delayed it, or after
\* it was rolled back: the task finds the data it was given the keys of.
NeverRunsAhead ==
    [][\A c \in Call :
          (call'[c] = "ran" /\ call[c] # "ran" /\ ~Eager)
             => data[owner[c]] \notin {"written", "undone"}]_vars

\* decorators.py: "max queue size for the task. Task runs exceeding the max size
\* get dropped".  So not even one caller by itself gets more rows than that.
MaxSizeKept ==
    \A t \in Thread : role[t] = "request" =>
       Cardinality({c \in Of(t) : call[c] \in {"pending", "queued"}}) <= QueueSize

\* The bound that the code does keep (Full compares with >): one caller gets at
\* most one row more than queue_size past the check, whatever it holds back in
\* a transaction, and callers that use none get past it together with at most
\* one each.
QueueBounded ==
    LET rowsOf(t) == {c \in Of(t) : call[c] \in {"pending", "queued"}}
        callers   == {t \in Thread : role[t] = "request"}
    IN  /\ \A t \in callers : Cardinality(rowsOf(t)) <= QueueSize + 1
        /\ (\A t \in callers : ~Covered(t)) =>
              Cardinality(UNION {rowsOf(t) : t \in callers})
                 <= QueueSize + Cardinality(callers)

\* A healthy answer means that the task of this very check was executed.
HealthyIsOwn ==
    \A t \in Thread : pc[t] = "healthy" =>
       \E c \in Of(t) : proof[c] # "none"

\* A check that answers leaves no row behind, unless it gave up too early or
\* an attempt at its task had timed out and wrote the row a second time.
ProbesCleanUp ==
    \A t \in Thread, c \in Call :
       (pc[t] = "healthy" /\ owner[c] = t /\ proof[c] = "there") => fails[c] > 0

\* What delay() accepted is run, or used up its attempts, unless the request
\* was rolled back or, without a processor, its process died or could not start
\* a thread: then that call and the hooks after it are lost.  The processor is
\* never killed here (TaskQueue has that).  The exception is a deployment that
\* routes tasks to a database its processor never reads, which ready() lets
\* pass.
AcceptedIsRun ==
    (settings.routed => "task_processor" \in settings.databases) =>
       <>[](\A c \in Call :
              call[c] \in {"new", "ran", "exhausted", "undone", "lost"})
=============================================================================

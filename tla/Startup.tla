------------------------------ MODULE Startup ------------------------------
(* The containers of a rollout: each runs one `flagsmith` verb as a script   *)
(* of steps, against databases that come up late, go away, and are migrated  *)
(* by whichever container gets there first.                                  *)
EXTENDS Naturals, Sequences

CONSTANTS
    Container,
    Verbs,            \* [Container -> set of verbs it may be given]
    Version,          \* [Container -> Nat], migrations its code comes with
    Database,         \* aliases of DATABASES, "default" among them
    MigrateDatabases, \* [Container -> Seq], FLAGSMITH_MIGRATE_DATABASES
    WaitDatabases,    \* [Container -> Seq], ..._WAIT_FOR_MIGRATIONS_DATABASES
    WaitFor,          \* waitfordb's default --waitfor, in ticks
    WaitForMigrations,\* WAIT_FOR_MIGRATIONS_TIMEOUT_SECONDS, in ticks
    SkipWait          \* SKIP_WAIT_FOR_DB is set

\* What the settings of a deployment are, whatever their values.
ASSUME StartupAssumption ==
    /\ "default" \in Database
    /\ Verbs \in [Container -> SUBSET STRING]
    /\ Version \in [Container -> Nat]
    /\ MigrateDatabases \in [Container -> Seq(Database)]
    /\ WaitDatabases \in [Container -> Seq(Database)]
    /\ WaitFor \in Nat /\ WaitForMigrations \in Nat /\ SkipWait \in BOOLEAN

VARIABLES
    up,      \* [Database -> BOOLEAN]
    applied, \* [Database -> Nat], migrations recorded in django_migrations
    cacheTable, \* the table of the database cache is there, or none is needed
    verb,    \* [Container -> Verbs[c]]
    state,   \* [Container -> State]
    at,      \* [Container -> Nat], its step of the script
    loop,    \* [Container -> Place], where it is in its step
    clock,   \* [Container -> Nat], ticks since the `start` of waitfordb
    waited,  \* [Container -> Nat], ticks spent in this step; never reset in it
    plan     \* [Container -> Nat], the last migration of its plan so far

databases == <<up, applied, cacheTable>>
inside    == <<loop, clock, waited, plan>>
vars      == <<databases, verb, state, at, inside>>

-----------------------------------------------------------------------------
(* The scripts.                                                              *)

\* One step for every database of a list.
Do(op, dbs, patience) ==
    [k \in DOMAIN dbs |-> [op |-> op, db |-> dbs[k], patience |-> patience]]
Default == <<"default">>

\* _wait_for_db: with SKIP_WAIT_FOR_DB not even migrations are waited for.
WaitForDb(op, dbs, patience) == IF SkipWait THEN << >> ELSE Do(op, dbs, patience)

\* Mutant of Migrate: the loop over the databases is gone.
MigrateDefault(c) ==
    WaitForDb("waitfordb", Default, WaitFor)
       \o Do("migrate", Default, 0) \o Do("createcachetable", Default, 0)

Migrate(c) ==
    WaitForDb("waitfordb", Default, WaitFor)
       \o Do("migrate", MigrateDatabases[c], 0) \o Do("createcachetable", Default, 0)

\* Mutant of RunTaskProcessor: --migrations is forgotten.
WaitForConnection(c) ==
    Migrate(c) \o WaitForDb("waitfordb", WaitDatabases[c], WaitForMigrations)
       \o Do("start task-processor", Default, 0)

RunTaskProcessor(c) ==
    Migrate(c) \o WaitForDb("waitfordb --migrations", WaitDatabases[c], WaitForMigrations)
       \o Do("start task-processor", Default, 0)

\* One step stands for all FLAGSMITH_STARTUP_COMMANDS.
MigrateAndServe(c) ==
    Migrate(c) \o Do("command", Default, 0) \o Do("start api", Default, 0)

Serve == WaitForDb("waitfordb", Default, WaitFor) \o Do("start api", Default, 0)

\* execute_from_command_line: the verbs, or else Django's own commands.
Scripts ==
    [c \in Container |-> [v \in Verbs[c] |->
       CASE v = "serve"              -> Serve
         [] v = "migrate"            -> Migrate(c)
         [] v = "run-task-processor" -> RunTaskProcessor(c)
         [] v = "migrate-and-serve"  -> MigrateAndServe(c)
         [] OTHER                    -> Do(v, Default, 0)]]
Script(c) == Scripts[c][verb[c]]

\* ensure_cli_env: RUN_BY_PROCESSOR is set if "task-processor" is one of the
\* words of the command line.
RunByProcessor(c) == verb[c] = "start task-processor"

\* register_recurring_task, while the application is imported: the functions
\* get into the registry in task-processor mode only.
RegistersRecurring(c) == RunByProcessor(c)

\* _run_task: what is popped is run in task-processor mode only.
RunsTasks(c) == RunByProcessor(c)

-----------------------------------------------------------------------------
Step(c)     == Script(c)[at[c]]
Running(c, op) == state[c] = "running" /\ at[c] <= Len(Script(c))
                    /\ Step(c).op = op
IsUp(c)     == up[Step(c).db]
Pending(c)  == applied[Step(c).db] < Version[c]

State == {"running", "serving", "done", "failed", "killed"}
Place == {"start", "connect", "migrations", "apply", "create"}

TypeOK ==
    /\ up \in [Database -> BOOLEAN] /\ applied \in [Database -> Nat]
    /\ cacheTable \in BOOLEAN
    /\ \A c \in Container : verb[c] \in Verbs[c]
    /\ state \in [Container -> State]
    /\ \A c \in Container : at[c] \in 1 .. Len(Script(c)) + 1
    /\ loop \in [Container -> Place]
    /\ clock \in [Container -> Nat] /\ waited \in [Container -> Nat]
    /\ plan \in [Container -> Nat]

Fresh == /\ loop = [c \in Container |-> "start"]
         /\ clock = [c \in Container |-> 0]
         /\ waited = [c \in Container |-> 0]
         /\ plan = [c \in Container |-> 0]

Init ==
    /\ up \in [Database -> BOOLEAN]
    /\ applied = [d \in Database |-> 0]
    /\ cacheTable \in BOOLEAN
    /\ verb \in {v \in [Container -> UNION {Verbs[c] : c \in Container}] :
                   \A c \in Container : v[c] \in Verbs[c]}
    /\ state = [c \in Container |-> "running"]
    /\ at = [c \in Container |-> 1]
    /\ Fresh

Clear(c) == /\ loop' = [loop EXCEPT ![c] = "start"]
            /\ clock' = [clock EXCEPT ![c] = 0]
            /\ waited' = [waited EXCEPT ![c] = 0]
            /\ plan' = [plan EXCEPT ![c] = 0]

Advance(c) == /\ at' = [at EXCEPT ![c] = @ + 1]
              /\ Clear(c)
              /\ UNCHANGED <<databases, verb, state>>

\* An exception ends the process: the script starts over with the next one.
Exit(c, how) == /\ state' = [state EXCEPT ![c] = how]
                /\ at' = [at EXCEPT ![c] = 1]
                /\ Clear(c)
                /\ UNCHANGED <<databases, verb>>
Fail(c) == Exit(c, "failed")

Enter(c, l) == loop' = [loop EXCEPT ![c] = l]

-----------------------------------------------------------------------------
(* waitfordb.                                                                *)

Waits(c)    == Running(c, "waitfordb") \/ Running(c, "waitfordb --migrations")
Overdue(c)  == clock[c] > Step(c).patience
Satisfied(c) == IsUp(c) /\ (Step(c).op = "waitfordb" \/ ~Pending(c))

\* Mutant of SinceStart: the second loop has a clock of its own.
SinceConnected(c) == 0

\* Both loops compare with the same `start`.
SinceStart(c) == clock[c]

\* A turn of the first loop: the deadline, then a connection.
Connect(c) ==
    /\ Waits(c) /\ loop[c] \in {"start", "connect"}
    /\ IF Overdue(c) THEN Fail(c)
       ELSE IF IsUp(c) /\ Step(c).op = "waitfordb" THEN Advance(c)
       ELSE /\ Enter(c, IF IsUp(c) THEN "migrations" ELSE "connect")
            /\ clock' = [clock EXCEPT ![c] = SinceStart(c)]
            /\ UNCHANGED <<databases, verb, state, at, waited, plan>>

\* A turn of the second, where an OperationalError is not caught.
CheckMigrations(c) ==
    /\ Waits(c) /\ loop[c] = "migrations"
    /\ \/ (Overdue(c) \/ ~IsUp(c)) /\ Fail(c)
       \/ ~Overdue(c) /\ Satisfied(c) /\ Advance(c)

-----------------------------------------------------------------------------
(* The other commands, as far as Django's own code goes.                     *)

\* migrate plans first, from what is recorded.
PlanMigrations(c) ==
    /\ Running(c, "migrate") /\ loop[c] = "start"
    /\ IF ~IsUp(c) THEN Fail(c)
       ELSE /\ Enter(c, "apply")
            /\ plan' = [plan EXCEPT ![c] = applied[Step(c).db]]
            /\ UNCHANGED <<databases, verb, state, at, clock, waited>>

\* A migration that somebody else has applied meanwhile fails on its tables.
ApplyMigration(c) ==
    /\ Running(c, "migrate") /\ loop[c] = "apply"
    /\ CASE plan[c] >= Version[c] -> Advance(c)
         [] plan[c] < Version[c] /\ (~IsUp(c) \/ applied[Step(c).db] # plan[c])
              -> Fail(c)
         [] OTHER ->
              /\ applied' = [applied EXCEPT ![Step(c).db] = @ + 1]
              /\ plan' = [plan EXCEPT ![c] = @ + 1]
              /\ UNCHANGED <<up, cacheTable, verb, state, at, loop, clock, waited>>

\* createcachetable looks for the table first ...
FindCacheTable(c) ==
    /\ Running(c, "createcachetable") /\ loop[c] = "start"
    /\ \/ ~IsUp(c) /\ Fail(c)
       \/ IsUp(c) /\ cacheTable /\ Advance(c)
       \/ /\ IsUp(c) /\ ~cacheTable
          /\ Enter(c, "create")
          /\ UNCHANGED <<databases, verb, state, at, clock, waited, plan>>

\* ... and fails to create one that somebody else has created meanwhile.
CreateCacheTable(c) ==
    /\ Running(c, "createcachetable") /\ loop[c] = "create"
    /\ IF IsUp(c) /\ ~cacheTable
       THEN /\ cacheTable' = TRUE
            /\ at' = [at EXCEPT ![c] = @ + 1]
            /\ Clear(c)
            /\ UNCHANGED <<up, applied, verb, state>>
       ELSE Fail(c)

StartupCommand(c) == Running(c, "command") /\ IsUp(c) /\ Advance(c)

\* A startup command fails, for a database or for a reason of its own.
CommandFails(c) == Running(c, "command") /\ Fail(c)

\* The server runs until it is stopped; it needs no database to start.
StartServer(c) ==
    /\ Running(c, "start api") \/ Running(c, "start task-processor")
    /\ state' = [state EXCEPT ![c] = "serving"]
    /\ UNCHANGED <<databases, verb, at, inside>>

Finish(c) ==
    /\ state[c] = "running" /\ at[c] > Len(Script(c))
    /\ state' = [state EXCEPT ![c] = "done"]
    /\ UNCHANGED <<databases, verb, at, inside>>

-----------------------------------------------------------------------------
(* The platform, the databases and time.                                     *)

Kill(c) == state[c] \in {"running", "serving"} /\ Exit(c, "killed")

Restart(c) ==
    /\ state[c] \in {"failed", "killed"}
    /\ state' = [state EXCEPT ![c] = "running"]
    /\ UNCHANGED <<databases, verb, at, inside>>

Toggle(d) ==
    /\ up' = [up EXCEPT ![d] = ~@]
    /\ UNCHANGED <<applied, cacheTable, verb, state, at, inside>>

Looping(c) == Waits(c) /\ loop[c] # "start"

\* The loops turn four times a second: none lets a tick pass that it could use.
TurnDue(c) ==
    \/ Overdue(c)
    \/ IF loop[c] = "connect" THEN IsUp(c) ELSE ~IsUp(c) \/ ~Pending(c)

Tick ==
    LET more(c) == IF Looping(c) THEN 1 ELSE 0
    IN  /\ \E c \in Container : Looping(c)
        /\ \A c \in Container : Looping(c) => ~TurnDue(c)
        /\ clock' = [c \in Container |-> clock[c] + more(c)]
        /\ waited' = [c \in Container |-> waited[c] + more(c)]
        /\ UNCHANGED <<databases, verb, state, at, loop, plan>>

Proceed(c) ==
    \/ Connect(c) \/ CheckMigrations(c)
    \/ PlanMigrations(c) \/ ApplyMigration(c)
    \/ FindCacheTable(c) \/ CreateCacheTable(c)
    \/ StartupCommand(c) \/ CommandFails(c) \/ StartServer(c) \/ Finish(c)

Next ==
    \/ \E c \in Container : Proceed(c) \/ Kill(c) \/ Restart(c)
    \/ \E d \in Database : Toggle(d)
    \/ Tick

Spec == Init /\ [][Next]_vars

\* Processes run, the platform restarts what failed, and in the end the
\* databases are up, the startup commands succeed and nobody kills a container.
Fairness ==
    /\ \A c \in Container : WF_vars(Proceed(c)) /\ WF_vars(Restart(c))
    /\ WF_vars(Tick)
    /\ <>[](\A d \in Database : up[d])
    /\ <>[][\A c \in Container : ~Kill(c) /\ ~CommandFails(c)]_vars

FairSpec == Spec /\ Fairness

-----------------------------------------------------------------------------
(* Properties.                                                               *)

Named(dbs) == {dbs[k] : k \in DOMAIN dbs}
Migrated(c, dbs) == \A d \in Named(dbs) : applied[d] >= Version[c]

\* A container that migrates serves, and runs its startup commands, only on
\* the schema of its own code, whoever applied it and whatever it collided
\* with; the task processor's holds in the databases it waits for, too.
NoServiceOnOldSchema ==
    \A c \in Container :
       state[c] = "serving" \/ Running(c, "command") =>
          /\ verb[c] \in {"migrate-and-serve", "run-task-processor"}
                => Migrated(c, MigrateDatabases[c])
          /\ verb[c] = "run-task-processor" /\ ~SkipWait
                => Migrated(c, WaitDatabases[c])

\* waitfordb gives up one turn after --waitfor, both loops together.
WaitBounded ==
    \A c \in Container : Waits(c) => waited[c] <= Step(c).patience + 1

\* Containers that collide, wait in vain or are killed get there in the end.
EveryContainerGetsThere ==
    \A c \in Container : <>[](state[c] \in {"serving", "done"})

\* run.py: "Migrate, wait for migrations to be applied, then start the task
\* processor."  So what serves as a task processor knows the recurring tasks
\* and runs what it pops.
ProcessorMode ==
    \A c \in Container :
       state[c] = "serving" /\ Step(c).op = "start task-processor"
          => RegistersRecurring(c) /\ RunsTasks(c)
=============================================================================

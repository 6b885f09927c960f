--------------------------- MODULE StartupProofs ---------------------------
(* Any number of containers of any releases, verbs and databases, whoever    *)
(* migrates first and whatever is killed: the proofs of NoServiceOnOldSchema *)
(* and WaitBounded of Startup.  Whatever raises in the life of a process,    *)
(* for any levels of logging: those of TornDown, TelemetryIsTaken and        *)
(* PrintedAndSent of CliEnvironment.                                         *)
EXTENDS Startup, CliEnvironment, SequenceTheorems, TLAPS

USE DEF Place

OpName == {"waitfordb", "waitfordb --migrations", "migrate", "createcachetable",
           "command", "start api", "start task-processor"}
             \cup UNION {Verbs[c] : c \in Container}
StepType == [op : OpName, db : Database, patience : Nat]

\* What a step leaves behind for good: a schema is never taken back.
Through(c, step) ==
    step.op \in {"migrate", "waitfordb --migrations"} => applied[step.db] >= Version[c]

\* Nothing of a script is started before its step `op` of database d.
Started == {"command", "start api", "start task-processor"}
After(s, op, d) == \A k \in 1 .. Len(s) : s[k].op \in Started =>
                      \E j \in 1 .. k - 1 : s[j].op = op /\ s[j].db = d

\* The type invariant without the bound of `at`; `waited` is never apart from
\* `clock`, which is what the comparison with one `start` comes to.
Typed ==
    /\ verb \in [Container -> OpName] /\ \A c \in Container : verb[c] \in Verbs[c]
    /\ applied \in [Database -> Nat]
    /\ state \in [Container -> State] /\ at \in [Container -> Nat \ {0}]
    /\ loop \in [Container -> Place]
    /\ plan \in [Container -> Nat]
    /\ clock \in [Container -> Nat] /\ waited = clock

\* The container has been through the steps before its own.
Passed(c) == \A k \in 1 .. at[c] - 1 : k <= Len(Script(c)) => Through(c, Script(c)[k])

\* Its plan goes no further than what is recorded, whoever recorded it.
Planned(c) == loop[c] = "apply" =>
                 at[c] <= Len(Script(c)) /\ plan[c] <= applied[Step(c).db]

\* What serves stands at the step that started it.
Stands(c) == state[c] = "serving" =>
                at[c] <= Len(Script(c)) /\ Step(c).op \in Started

\* No tick passes that an overdue loop could use, and what comes back starts
\* from zero.
Patient(c) == at[c] <= Len(Script(c)) => clock[c] <= Step(c).patience + 1

StartInv ==
    /\ Typed
    /\ \A c \in Container : Passed(c) /\ Planned(c) /\ Stands(c) /\ Patient(c)

-----------------------------------------------------------------------------
(* The scripts.                                                              *)

LEMMA FunctionIsSeq ==
  ASSUME NEW S, NEW n \in Nat, NEW f \in [1 .. n -> S]
  PROVE  f \in Seq(S) /\ Len(f) = n
OBVIOUS

LEMMA DoType ==
  ASSUME NEW op \in OpName, NEW dbs \in Seq(Database), NEW n \in Nat
  PROVE  /\ Do(op, dbs, n) \in Seq(StepType)
         /\ Len(Do(op, dbs, n)) = Len(dbs)
         /\ DOMAIN Do(op, dbs, n) = DOMAIN dbs
         /\ \A k \in DOMAIN dbs : Do(op, dbs, n)[k] = [op |-> op, db |-> dbs[k], patience |-> n]
<1>1. Len(dbs) \in Nat /\ DOMAIN dbs = 1 .. Len(dbs)
      /\ \A k \in 1 .. Len(dbs) : dbs[k] \in Database
  BY LenProperties, ElementOfSeq
<1>2. \A k \in 1 .. Len(dbs) : [op |-> op, db |-> dbs[k], patience |-> n] \in StepType
  BY <1>1 DEF StepType
<1>3. Do(op, dbs, n) \in [1 .. Len(dbs) -> StepType]
  BY <1>1, <1>2 DEF Do
<1>4. Do(op, dbs, n) \in Seq(StepType) /\ Len(Do(op, dbs, n)) = Len(dbs)
  BY <1>1, <1>3, FunctionIsSeq
<1> QED
  BY <1>4 DEF Do

\* Where the ops of a concatenation come from.
LEMMA OpsOf ==
  ASSUME NEW s \in Seq(StepType), NEW t \in Seq(StepType)
  PROVE  /\ s \o t \in Seq(StepType) /\ Len(s \o t) = Len(s) + Len(t)
         /\ Len(s) \in Nat /\ Len(t) \in Nat
         /\ \A k \in 1 .. Len(s) : (s \o t)[k] = s[k]
         /\ \A k \in 1 .. Len(t) : (s \o t)[Len(s) + k] = t[k]
         /\ \A k \in 1 .. Len(s) + Len(t) : k > Len(s) =>
               k - Len(s) \in 1 .. Len(t) /\ (s \o t)[k] = t[k - Len(s)]
<1>1. Len(s) \in Nat /\ Len(t) \in Nat
  BY LenProperties
<1>2. /\ s \o t \in Seq(StepType) /\ Len(s \o t) = Len(s) + Len(t)
      /\ \A k \in 1 .. Len(s) + Len(t) :
            (s \o t)[k] = IF k <= Len(s) THEN s[k] ELSE t[k - Len(s)]
  BY ConcatProperties
<1> QED
  BY <1>1, <1>2
OpsIn(s, X)    == \A k \in 1 .. Len(s) : s[k].op \in X
Has(s, op, d)  == \E k \in 1 .. Len(s) : s[k].op = op /\ s[k].db = d

LEMMA OpNames ==
  /\ "waitfordb" \in OpName /\ "waitfordb --migrations" \in OpName
  /\ "migrate" \in OpName /\ "createcachetable" \in OpName /\ "command" \in OpName
  /\ "start api" \in OpName /\ "start task-processor" \in OpName
BY DEF OpName

LEMMA Joined ==
  ASSUME NEW s \in Seq(StepType), NEW t \in Seq(StepType)
  PROVE  /\ s \o t \in Seq(StepType)
         /\ \A X : OpsIn(s, X) /\ OpsIn(t, X) => OpsIn(s \o t, X)
         /\ \A op, d : Has(s, op, d) \/ Has(t, op, d) => Has(s \o t, op, d)
<1>1. ASSUME NEW X, OpsIn(s, X), OpsIn(t, X) PROVE OpsIn(s \o t, X)
  <2> SUFFICES ASSUME NEW k \in 1 .. Len(s \o t) PROVE (s \o t)[k].op \in X
    BY DEF OpsIn
  <2>1. \/ k \in 1 .. Len(s) /\ (s \o t)[k] = s[k]
        \/ k - Len(s) \in 1 .. Len(t) /\ (s \o t)[k] = t[k - Len(s)]
    BY OpsOf
  <2> QED
    BY <1>1, <2>1 DEF OpsIn
<1>2. ASSUME NEW op, NEW d, Has(s, op, d) PROVE Has(s \o t, op, d)
  <2>1. PICK k \in 1 .. Len(s) : s[k].op = op /\ s[k].db = d
    BY <1>2 DEF Has
  <2>2. k \in 1 .. Len(s \o t) /\ (s \o t)[k] = s[k]
    BY OpsOf
  <2> QED
    BY <2>1, <2>2 DEF Has
<1>3. ASSUME NEW op, NEW d, Has(t, op, d) PROVE Has(s \o t, op, d)
  <2>1. PICK k \in 1 .. Len(t) : t[k].op = op /\ t[k].db = d
    BY <1>3 DEF Has
  <2>2. Len(s) + k \in 1 .. Len(s \o t) /\ (s \o t)[Len(s) + k] = t[k]
    BY OpsOf
  <2> QED
    BY <2>1, <2>2 DEF Has
<1> QED
  BY <1>1, <1>2, <1>3, OpsOf

\* What the second half starts comes after all of the first.
LEMMA Before ==
  ASSUME NEW s \in Seq(StepType), NEW t \in Seq(StepType), NEW X, OpsIn(s, X),
         Started \cap X = {}, NEW op, NEW d, Has(s, op, d)
  PROVE  After(s \o t, op, d)
<1> SUFFICES ASSUME NEW k \in 1 .. Len(s \o t), (s \o t)[k].op \in Started
             PROVE  \E j \in 1 .. k - 1 : (s \o t)[j].op = op /\ (s \o t)[j].db = d
  BY DEF After
<1>1. k > Len(s) /\ Len(s) \in Nat
  BY OpsOf DEF OpsIn
<1>2. PICK j \in 1 .. Len(s) : s[j].op = op /\ s[j].db = d
  BY DEF Has
<1>3. (s \o t)[j] = s[j]
  BY OpsOf
<1> QED
  BY <1>1, <1>2, <1>3

LEMMA DoOps ==
  ASSUME NEW op \in OpName, NEW dbs \in Seq(Database), NEW n \in Nat
  PROVE  /\ Do(op, dbs, n) \in Seq(StepType) /\ OpsIn(Do(op, dbs, n), {op})
         /\ \A d \in Named(dbs) : Has(Do(op, dbs, n), op, d)
<1> DEFINE s == Do(op, dbs, n)
<1>1. DOMAIN dbs = 1 .. Len(dbs)
  BY LenProperties
<1>2. /\ s \in Seq(StepType) /\ Len(s) = Len(dbs)
      /\ \A k \in 1 .. Len(dbs) : s[k] = [op |-> op, db |-> dbs[k], patience |-> n]
  BY <1>1, DoType
<1> HIDE DEF s
<1>3. OpsIn(s, {op})
  <2> SUFFICES ASSUME NEW k \in 1 .. Len(s) PROVE s[k].op = op
    BY DEF OpsIn
  <2>1. s[k] = [op |-> op, db |-> dbs[k], patience |-> n]
    BY <1>2
  <2> QED
    BY <2>1
<1>4. \A d \in Named(dbs) : Has(s, op, d)
  <2> SUFFICES ASSUME NEW k \in 1 .. Len(dbs) PROVE Has(s, op, dbs[k])
    BY <1>1 DEF Named
  <2>1. k \in 1 .. Len(s) /\ s[k] = [op |-> op, db |-> dbs[k], patience |-> n]
    BY <1>2
  <2>2. s[k].op = op /\ s[k].db = dbs[k]
    BY <2>1
  <2> QED
    BY <2>1, <2>2 DEF Has
<1> QED
  BY <1>2, <1>3, <1>4 DEF s

LEMMA WaitOps ==
  ASSUME NEW op \in OpName, NEW dbs \in Seq(Database), NEW n \in Nat
  PROVE  /\ WaitForDb(op, dbs, n) \in Seq(StepType) /\ OpsIn(WaitForDb(op, dbs, n), {op})
         /\ ~SkipWait => \A d \in Named(dbs) : Has(WaitForDb(op, dbs, n), op, d)
<1>1. << >> \in Seq(StepType) /\ OpsIn(<< >>, {op})
  BY EmptySeq DEF OpsIn
<1> QED
  BY <1>1, DoOps DEF WaitForDb

Migrating == {"waitfordb", "migrate", "createcachetable"}

LEMMA MigrateOps ==
  ASSUME NEW c \in Container
  PROVE  /\ Migrate(c) \in Seq(StepType) /\ OpsIn(Migrate(c), Migrating)
         /\ \A d \in Named(MigrateDatabases[c]) : Has(Migrate(c), "migrate", d)
<1> DEFINE W == WaitForDb("waitfordb", Default, WaitFor)
           M == Do("migrate", MigrateDatabases[c], 0)
           C == Do("createcachetable", Default, 0)
<1>1. /\ Default \in Seq(Database) /\ MigrateDatabases[c] \in Seq(Database)
      /\ WaitFor \in Nat
  BY StartupAssumption DEF Default
<1>2. /\ W \in Seq(StepType) /\ OpsIn(W, {"waitfordb"})
      /\ M \in Seq(StepType) /\ OpsIn(M, {"migrate"})
      /\ C \in Seq(StepType) /\ OpsIn(C, {"createcachetable"})
      /\ \A d \in Named(MigrateDatabases[c]) : Has(M, "migrate", d)
  <2>1. W \in Seq(StepType) /\ OpsIn(W, {"waitfordb"})
    BY <1>1, WaitOps, OpNames
  <2>2. /\ M \in Seq(StepType) /\ OpsIn(M, {"migrate"})
        /\ \A d \in Named(MigrateDatabases[c]) : Has(M, "migrate", d)
    BY <1>1, DoOps, OpNames
  <2>3. C \in Seq(StepType) /\ OpsIn(C, {"createcachetable"})
    BY <1>1, DoOps, OpNames
  <2> QED
    BY <2>1, <2>2, <2>3
<1> HIDE DEF W, M, C
<1>3. OpsIn(W, Migrating) /\ OpsIn(M, Migrating) /\ OpsIn(C, Migrating)
  BY <1>2 DEF OpsIn, Migrating
<1>4. /\ W \o M \in Seq(StepType) /\ OpsIn(W \o M, Migrating)
      /\ \A d \in Named(MigrateDatabases[c]) : Has(W \o M, "migrate", d)
  BY <1>2, <1>3, Joined
<1>5. /\ (W \o M) \o C \in Seq(StepType) /\ OpsIn((W \o M) \o C, Migrating)
      /\ \A d \in Named(MigrateDatabases[c]) : Has((W \o M) \o C, "migrate", d)
  BY <1>2, <1>3, <1>4, Joined
<1>6. Migrate(c) = (W \o M) \o C
  BY DEF Migrate, W, M, C
<1> QED
  BY <1>5, <1>6

\* run.py: the two verbs that serve and migrate.
LEMMA MigrateAndServeOps ==
  ASSUME NEW c \in Container
  PROVE  /\ MigrateAndServe(c) \in Seq(StepType)
         /\ \A d \in Named(MigrateDatabases[c]) : After(MigrateAndServe(c), "migrate", d)
<1> DEFINE M == Migrate(c)
           C == Do("command", Default, 0)
           S == Do("start api", Default, 0)
           T == C \o S
<1>1. Default \in Seq(Database)
  BY StartupAssumption DEF Default
<1>2. C \in Seq(StepType)
  BY <1>1, DoOps, OpNames
<1>3. S \in Seq(StepType)
  BY <1>1, DoOps, OpNames
<1>4. /\ M \in Seq(StepType) /\ OpsIn(M, Migrating)
      /\ \A d \in Named(MigrateDatabases[c]) : Has(M, "migrate", d)
  BY MigrateOps
<1> HIDE DEF M, C, S
<1>5. T \in Seq(StepType)
  BY <1>2, <1>3, Joined
<1>6. MigrateAndServe(c) = M \o T
  <2>1. MigrateAndServe(c) = (M \o C) \o S
    BY DEF MigrateAndServe, M, C, S
  <2>2. M \in Seq(StepType) /\ C \in Seq(StepType) /\ S \in Seq(StepType)
    BY <1>2, <1>3, <1>4
  <2>3. (M \o C) \o S = M \o (C \o S)
    BY <2>2, ConcatAssociative
  <2> QED
    BY <2>1, <2>3
<1>7. Started \cap Migrating = {}
  BY DEF Started, Migrating
<1> HIDE DEF T
<1>8. M \o T \in Seq(StepType)
  BY <1>4, <1>5, Joined
<1>9. \A d \in Named(MigrateDatabases[c]) : After(M \o T, "migrate", d)
  BY <1>4, <1>5, <1>7, Before
<1> QED
  BY <1>6, <1>8, <1>9

LEMMA RunTaskProcessorOps ==
  ASSUME NEW c \in Container
  PROVE  /\ RunTaskProcessor(c) \in Seq(StepType)
         /\ \A d \in Named(MigrateDatabases[c]) : After(RunTaskProcessor(c), "migrate", d)
         /\ ~SkipWait => \A d \in Named(WaitDatabases[c]) :
               After(RunTaskProcessor(c), "waitfordb --migrations", d)
<1> DEFINE M == Migrate(c)
           W == WaitForDb("waitfordb --migrations", WaitDatabases[c], WaitForMigrations)
           S == Do("start task-processor", Default, 0)
           F == M \o W
           X == Migrating \cup {"waitfordb --migrations"}
<1>1. /\ Default \in Seq(Database) /\ WaitDatabases[c] \in Seq(Database)
      /\ WaitForMigrations \in Nat
  BY StartupAssumption DEF Default
<1>2. S \in Seq(StepType)
  BY <1>1, DoOps, OpNames
<1>3. /\ W \in Seq(StepType) /\ OpsIn(W, {"waitfordb --migrations"})
      /\ ~SkipWait =>
            \A d \in Named(WaitDatabases[c]) : Has(W, "waitfordb --migrations", d)
  BY <1>1, WaitOps, OpNames
<1>4. /\ M \in Seq(StepType) /\ OpsIn(M, Migrating)
      /\ \A d \in Named(MigrateDatabases[c]) : Has(M, "migrate", d)
  BY MigrateOps
<1>5. RunTaskProcessor(c) = F \o S
  BY DEF RunTaskProcessor
<1> HIDE DEF M, W, S
<1>6. OpsIn(M, X) /\ OpsIn(W, X)
  BY <1>3, <1>4 DEF OpsIn
<1>7. Started \cap X = {}
  BY DEF Started, Migrating
<1> HIDE DEF X
<1>8. /\ F \in Seq(StepType) /\ OpsIn(F, X)
      /\ \A d \in Named(MigrateDatabases[c]) : Has(F, "migrate", d)
      /\ ~SkipWait =>
            \A d \in Named(WaitDatabases[c]) : Has(F, "waitfordb --migrations", d)
  BY <1>3, <1>4, <1>6, Joined
<1> HIDE DEF F
<1>9. F \o S \in Seq(StepType)
  BY <1>2, <1>8, Joined
<1>10. /\ \A d \in Named(MigrateDatabases[c]) : After(F \o S, "migrate", d)
       /\ ~SkipWait =>
             \A d \in Named(WaitDatabases[c]) : After(F \o S, "waitfordb --migrations", d)
  BY <1>2, <1>7, <1>8, Before
<1> QED
  BY <1>5, <1>9, <1>10

LEMMA ScriptType ==
  ASSUME NEW c \in Container, NEW v \in Verbs[c]
  PROVE  Scripts[c][v] \in Seq(StepType)
<1>1. Default \in Seq(Database) /\ WaitFor \in Nat
  BY StartupAssumption DEF Default
<1>0. v \in OpName
  BY DEF OpName
<1>2. Serve \in Seq(StepType)
  <2>1. WaitForDb("waitfordb", Default, WaitFor) \in Seq(StepType)
    BY <1>1, WaitOps, OpNames
  <2>2. Do("start api", Default, 0) \in Seq(StepType)
    BY <1>1, DoOps, OpNames
  <2> QED
    BY <2>1, <2>2, Joined DEF Serve
<1>3. Do(v, Default, 0) \in Seq(StepType)
  BY <1>0, <1>1, DoOps
<1> QED
  BY <1>2, <1>3, MigrateOps, MigrateAndServeOps, RunTaskProcessorOps DEF Scripts

-----------------------------------------------------------------------------
(* The steps of a behaviour.                                                 *)

LEMMA StepIsTyped ==
  ASSUME Typed, NEW c \in Container
  PROVE  /\ Script(c) \in Seq(StepType) /\ Len(Script(c)) \in Nat
         /\ \A k \in 1 .. Len(Script(c)) :
               Script(c)[k].db \in Database /\ Script(c)[k].patience \in Nat
         /\ at[c] <= Len(Script(c)) => Step(c).db \in Database /\ Step(c).patience \in Nat
<1>0. verb[c] \in Verbs[c]
  BY DEF Typed
<1>1. Script(c) \in Seq(StepType)
  BY <1>0, ScriptType DEF Script
<1>2. Len(Script(c)) \in Nat /\ \A k \in 1 .. Len(Script(c)) : Script(c)[k] \in StepType
  BY <1>1, LenProperties, ElementOfSeq
<1>3. \A k \in 1 .. Len(Script(c)) :
         Script(c)[k].db \in Database /\ Script(c)[k].patience \in Nat
  BY <1>2 DEF StepType
<1>4. at[c] \in Nat \ {0}
  BY DEF Typed
<1> QED
  BY <1>1, <1>2, <1>3, <1>4 DEF Step

LEMMA StartInit == Init => StartInv
<1> SUFFICES ASSUME Init PROVE StartInv
  OBVIOUS
<1>1. Typed
  <2>1. verb \in [Container -> UNION {Verbs[c] : c \in Container}]
        /\ \A c \in Container : verb[c] \in Verbs[c]
    BY DEF Init
  <2>2. verb \in [Container -> OpName]
    BY <2>1 DEF OpName
  <2> QED
    BY <2>1, <2>2 DEF Init, Fresh, Typed, State
<1>2. ASSUME NEW c \in Container PROVE Passed(c) /\ Planned(c) /\ Stands(c) /\ Patient(c)
  <2>1. at[c] = 1 /\ loop[c] = "start" /\ state[c] = "running" /\ clock[c] = 0
    BY DEF Init, Fresh
  <2>2. at[c] <= Len(Script(c)) => Step(c).patience \in Nat
    BY <1>1, StepIsTyped
  <2> QED
    BY <2>1, <2>2 DEF Passed, Planned, Stands, Patient
<1> QED
  BY <1>1, <1>2 DEF StartInv

\* A schema only grows, and nobody changes the verb of a container.
LEMMA Grows ==
  ASSUME Typed, [Next]_vars
  PROVE  Typed' /\ verb' = verb /\ \A d \in Database : applied[d] <= applied'[d]
<1> DEFINE Goal == Typed' /\ verb' = verb /\ \A d \in Database : applied[d] <= applied'[d]
<1> SUFFICES Goal
  OBVIOUS
<1>typed. ASSUME UNCHANGED verb, applied' \in [Database -> Nat],
             \A d \in Database : applied[d] <= applied'[d], state' \in [Container -> State],
             at' \in [Container -> Nat \ {0}], plan' \in [Container -> Nat],
             loop' \in [Container -> Place],
             clock' \in [Container -> Nat], waited' = clock'
      PROVE  Goal
  BY <1>typed DEF Typed
<1>kept. ASSUME UNCHANGED applied, UNCHANGED verb, state' \in [Container -> State],
             at' \in [Container -> Nat \ {0}], plan' \in [Container -> Nat],
             loop' \in [Container -> Place],
             clock' \in [Container -> Nat], waited' = clock'
      PROVE  Goal
  BY <1>kept DEF Typed
<1>1. ASSUME NEW c \in Container, Clear(c)
      PROVE  /\ plan' \in [Container -> Nat]
             /\ loop' \in [Container -> Place]
             /\ clock' \in [Container -> Nat] /\ waited' = clock'
  BY <1>1 DEF Typed, Clear
<1>2. ASSUME NEW c \in Container, Advance(c) PROVE Goal
  <2>1. at' \in [Container -> Nat \ {0}] /\ UNCHANGED <<applied, verb>>
        /\ state' \in [Container -> State] /\ Clear(c)
    BY <1>2 DEF Advance, Typed, databases
  <2> QED
    BY <1>kept, <1>1, <2>1
<1>3. ASSUME NEW c \in Container, NEW how \in State, Exit(c, how) PROVE Goal
  <2>1. at' \in [Container -> Nat \ {0}] /\ UNCHANGED <<applied, verb>>
        /\ state' \in [Container -> State] /\ Clear(c)
    BY <1>3 DEF Exit, Typed, databases
  <2> QED
    BY <1>kept, <1>1, <2>1
<1>4. ASSUME NEW c \in Container, Fail(c) PROVE Goal
  BY <1>3, <1>4 DEF Fail, State
<1>5. ASSUME NEW c \in Container, Proceed(c) PROVE Goal
  <2>1. CASE Connect(c)
    <3>1. CASE Advance(c) \/ Fail(c)
      BY <1>2, <1>4, <3>1
    <3>2. CASE ~(Advance(c) \/ Fail(c))
      <4>1. PICK l \in Place :
               loop' = [loop EXCEPT ![c] = l]
        BY <2>1, <3>2 DEF Connect, Enter
      <4>2. /\ clock' = [clock EXCEPT ![c] = clock[c]]
            /\ UNCHANGED <<applied, verb, state, at, waited, plan>>
        BY <2>1, <3>2 DEF Connect, SinceStart, databases
      <4> QED
        BY <1>kept, <4>1, <4>2 DEF Typed
    <3> QED
      BY <3>1, <3>2
  <2>2. CASE CheckMigrations(c)
    BY <1>2, <1>4, <2>2 DEF CheckMigrations
  <2>3. CASE PlanMigrations(c)
    <3>1. CASE Fail(c)
      BY <1>4, <3>1
    <3>2. CASE ~Fail(c)
      <4>1. at[c] <= Len(Script(c))
        BY <2>3 DEF PlanMigrations, Running
      <4>2. applied[Step(c).db] \in Nat
        BY <4>1, StepIsTyped DEF Typed
      <4>3. /\ plan' = [plan EXCEPT ![c] = applied[Step(c).db]]
            /\ loop' = [loop EXCEPT ![c] = "apply"]
            /\ UNCHANGED <<applied, verb, state, at, clock, waited>>
        BY <2>3, <3>2 DEF PlanMigrations, Enter, databases
      <4> QED
        BY <1>kept, <4>2, <4>3 DEF Typed
    <3> QED
      BY <3>1, <3>2
  <2>4. CASE ApplyMigration(c)
    <3>1. CASE Advance(c) \/ Fail(c)
      BY <1>2, <1>4, <3>1
    <3>2. CASE ~(Advance(c) \/ Fail(c))
      <4>1. at[c] <= Len(Script(c))
        BY <2>4 DEF ApplyMigration, Running
      <4>2. /\ applied' = [applied EXCEPT ![Step(c).db] = @ + 1]
            /\ plan' = [plan EXCEPT ![c] = @ + 1]
            /\ UNCHANGED <<verb, state, at, loop, clock, waited>>
        BY <2>4, <3>2 DEF ApplyMigration
      <4>3. applied' \in [Database -> Nat] /\ plan' \in [Container -> Nat]
        <5>1. PICK d \in Database : d = Step(c).db
          BY <4>1, StepIsTyped
        <5>2. applied' = [applied EXCEPT ![d] = applied[d] + 1] /\ applied[d] + 1 \in Nat
          BY <4>2, <5>1 DEF Typed
        <5>3. plan[c] + 1 \in Nat
          BY DEF Typed
        <5>4. plan' \in [Container -> Nat]
          BY <4>2, <5>3 DEF Typed
        <5> QED
          BY <5>2, <5>4 DEF Typed
      <4>4. \A d \in Database : applied[d] <= applied'[d]
        BY <4>1, <4>2, StepIsTyped DEF Typed
      <4>5. /\ state' \in [Container -> State] /\ at' \in [Container -> Nat \ {0}]
            /\ loop' \in [Container -> Place]
            /\ clock' \in [Container -> Nat] /\ waited' = clock'
        BY <4>2 DEF Typed
      <4> QED
        BY <1>typed, <4>2, <4>3, <4>4, <4>5
    <3> QED
      BY <3>1, <3>2
  <2>5. CASE FindCacheTable(c)
    <3>1. CASE Advance(c) \/ Fail(c)
      BY <1>2, <1>4, <3>1
    <3>2. CASE ~(Advance(c) \/ Fail(c))
      <4>1. /\ loop' = [loop EXCEPT ![c] = "create"]
            /\ UNCHANGED <<applied, verb, state, at, clock, waited, plan>>
        BY <2>5, <3>2 DEF FindCacheTable, Enter, databases
      <4> QED
        BY <1>kept, <4>1 DEF Typed
    <3> QED
      BY <3>1, <3>2
  <2>6. CASE CreateCacheTable(c)
    <3>1. CASE Fail(c)
      BY <1>4, <3>1
    <3>2. CASE ~Fail(c)
      <4>1. /\ at' = [at EXCEPT ![c] = @ + 1] /\ Clear(c)
            /\ UNCHANGED <<applied, verb, state>>
        BY <2>6, <3>2 DEF CreateCacheTable
      <4>2. at' \in [Container -> Nat \ {0}] /\ state' \in [Container -> State]
        BY <4>1 DEF Typed
      <4> QED
        BY <1>kept, <1>1, <4>1, <4>2
    <3> QED
      BY <3>1, <3>2
  <2>9. CASE StartupCommand(c) \/ CommandFails(c)
    BY <1>2, <1>4, <2>9 DEF StartupCommand, CommandFails
  <2>7. CASE StartServer(c)
    BY <1>kept, <2>7 DEF StartServer, Typed, State, databases, inside
  <2>8. CASE Finish(c)
    BY <1>kept, <2>8 DEF Finish, Typed, State, databases, inside
  <2> QED
    BY <1>5, <2>1, <2>2, <2>3, <2>4, <2>5, <2>6, <2>7, <2>8, <2>9 DEF Proceed
<1>6. ASSUME NEW c \in Container, Kill(c) PROVE Goal
  BY <1>3, <1>6 DEF Kill, State
<1>7. ASSUME NEW c \in Container, Restart(c) PROVE Goal
  BY <1>kept, <1>7 DEF Restart, Typed, State, databases, inside
<1>8. ASSUME NEW d \in Database, Toggle(d) PROVE Goal
  BY <1>kept, <1>8 DEF Toggle, Typed, inside
<1>9. CASE Tick
  <2> DEFINE more(c) == IF Looping(c) THEN 1 ELSE 0
  <2>1. clock' = [c \in Container |-> clock[c] + more(c)]
        /\ waited' = [c \in Container |-> waited[c] + more(c)]
        /\ UNCHANGED <<applied, verb, state, at, loop, plan>>
    BY <1>9 DEF Tick, databases
  <2>2. \A c \in Container : more(c) \in Nat
    OBVIOUS
  <2> HIDE DEF more
  <2>3. clock' \in [Container -> Nat] /\ waited' = clock'
    BY <2>1, <2>2 DEF Typed
  <2> QED
    BY <1>kept, <2>1, <2>3 DEF Typed
<1>10. CASE UNCHANGED vars
  BY <1>kept, <1>10 DEF vars, Typed, databases, inside
<1> QED
  BY <1>5, <1>6, <1>7, <1>8, <1>9, <1>10 DEF Next

\* What a step does to one container: it leaves its script step, in order or
\* to start over, or it stays there.
Leaves(c) ==
    /\ loop'[c] = "start" /\ clock'[c] = 0 /\ state'[c] # "serving"
    /\ \/ at'[c] = 1
       \/ at'[c] = at[c] + 1 /\ at[c] <= Len(Script(c)) /\ Through(c, Step(c))

Stays(c) ==
    /\ at'[c] = at[c]
    /\ loop'[c] = "apply" =>
          \/ loop[c] = "apply" /\ plan'[c] = plan[c]
          \/ at[c] <= Len(Script(c)) /\ plan'[c] <= applied'[Step(c).db]
    /\ state'[c] = "serving" =>
          \/ state[c] = "serving"
          \/ at[c] <= Len(Script(c)) /\ Step(c).op \in Started
    /\ \/ clock'[c] = clock[c]
       \/ clock'[c] = clock[c] + 1 /\ clock[c] <= Step(c).patience

LEMMA LeavesInOrder ==
  ASSUME Typed, NEW c \in Container, Running(c, Step(c).op), Advance(c), Through(c, Step(c))
  PROVE  Leaves(c)
BY DEF Typed, Advance, Clear, Leaves, Running

LEMMA LeavesToStartOver ==
  ASSUME Typed, NEW c \in Container, NEW how \in {"failed", "killed"}, Exit(c, how)
  PROVE  Leaves(c)
BY DEF Typed, Exit, Clear, Leaves

\* What another container does is none of this one's.
LEMMA Apart ==
  ASSUME Typed, NEW e \in Container, Proceed(e) \/ Kill(e) \/ Restart(e),
         NEW c \in Container, c # e
  PROVE  Stays(c)
<1> DEFINE Same == /\ at'[c] = at[c] /\ loop'[c] = loop[c] /\ state'[c] = state[c]
                   /\ clock'[c] = clock[c] /\ plan'[c] = plan[c]
<1>1. Advance(e) => Same
  BY DEF Typed, Advance, Clear
<1>2. ASSUME NEW how, Exit(e, how) PROVE Same
  BY <1>2 DEF Typed, Exit, Clear
<1>3. Fail(e) => Same
  BY <1>2 DEF Fail
<1>4. Same
  <2>1. CASE Connect(e)
    BY <1>1, <1>3, <2>1 DEF Connect, Enter, Typed
  <2>2. CASE CheckMigrations(e)
    BY <1>1, <1>3, <2>2 DEF CheckMigrations
  <2>3. CASE PlanMigrations(e)
    BY <1>3, <2>3 DEF PlanMigrations, Enter, Typed
  <2>4. CASE ApplyMigration(e)
    BY <1>1, <1>3, <2>4 DEF ApplyMigration, Typed
  <2>5. CASE FindCacheTable(e)
    BY <1>1, <1>3, <2>5 DEF FindCacheTable, Enter, Typed
  <2>8. CASE CreateCacheTable(e)
    BY <1>3, <2>8 DEF CreateCacheTable, Clear, Typed
  <2>9. CASE StartupCommand(e) \/ CommandFails(e)
    BY <1>1, <1>3, <2>9 DEF StartupCommand, CommandFails
  <2>6. CASE StartServer(e) \/ Finish(e) \/ Restart(e)
    BY <2>6 DEF StartServer, Finish, Restart, Typed, inside
  <2>7. CASE Kill(e)
    BY <1>2, <2>7 DEF Kill
  <2> QED
    BY <2>1, <2>2, <2>3, <2>4, <2>5, <2>6, <2>7, <2>8, <2>9 DEF Proceed
<1> QED
  BY <1>4 DEF Stays

LEMMA Behaves ==
  ASSUME StartInv, Next, NEW c \in Container
  PROVE  Leaves(c) \/ Stays(c)
<1>0. /\ Typed /\ Planned(c) /\ Version[c] \in Nat
      /\ at[c] <= Len(Script(c)) => Step(c).db \in Database
  BY StepIsTyped, StartupAssumption DEF StartInv
<1>1. CASE Proceed(c)
  <2>1. ASSUME Fail(c) PROVE Leaves(c)
    BY <1>0, <2>1, LeavesToStartOver DEF Fail
  <2>2. ASSUME NEW op, Running(c, op), Advance(c), Through(c, Step(c)) PROVE Leaves(c)
    <3>1. Running(c, Step(c).op)
      BY <2>2 DEF Running
    <3> QED
      BY <1>0, <2>2, <3>1, LeavesInOrder
  <2>3. CASE Connect(c)
    <3>1. CASE Fail(c)
      BY <2>1, <3>1
    <3>2. CASE Advance(c)
      <4>1. (IsUp(c) /\ Step(c).op = "waitfordb") \/ Fail(c) \/ UNCHANGED at
        BY <2>3 DEF Connect
      <4>2. ~UNCHANGED at
        BY <1>0, <3>2 DEF Advance, Typed
      <4>3. CASE Step(c).op = "waitfordb"
        <5>1. Through(c, Step(c)) /\ Running(c, Step(c).op)
          BY <2>3, <4>3 DEF Through, Connect, Waits, Running
        <5> QED
          BY <1>0, <3>2, <5>1, LeavesInOrder
      <4> QED
        BY <2>1, <4>1, <4>2, <4>3
    <3>3. CASE ~Fail(c) /\ ~Advance(c)
      <4>1. PICK l \in {"migrations", "connect"} : loop' = [loop EXCEPT ![c] = l]
        BY <2>3, <3>3 DEF Connect, Enter
      <4>2. clock' = [clock EXCEPT ![c] = clock[c]] /\ UNCHANGED <<state, at, plan>>
        BY <2>3, <3>3 DEF Connect, SinceStart
      <4> QED
        BY <1>0, <4>1, <4>2 DEF Typed, Stays
    <3> QED
      BY <3>1, <3>2, <3>3
  <2>4. CASE CheckMigrations(c)
    <3>1. CASE Fail(c)
      BY <2>1, <3>1
    <3>2. CASE Satisfied(c) /\ Advance(c)
      <4>1. Waits(c) /\ (Step(c).op = "waitfordb" \/ ~Pending(c))
        BY <2>4, <3>2 DEF CheckMigrations, Satisfied
      <4>2. Running(c, Step(c).op) /\ at[c] <= Len(Script(c))
            /\ (Step(c).op = "waitfordb" \/ Step(c).op = "waitfordb --migrations")
        BY <4>1 DEF Waits, Running
      <4>3. applied[Step(c).db] \in Nat
        BY <1>0, <4>2 DEF Typed
      <4>4. ASSUME ~Pending(c) PROVE applied[Step(c).db] >= Version[c]
        BY <1>0, <4>3, <4>4 DEF Pending
      <4>5. Through(c, Step(c))
        BY <4>1, <4>4 DEF Through
      <4> QED
        BY <2>2, <3>2, <4>2, <4>5
    <3> QED
      BY <2>4, <3>1, <3>2 DEF CheckMigrations
  <2>5. CASE PlanMigrations(c)
    <3>1. CASE Fail(c)
      BY <2>1, <3>1
    <3>2. CASE ~Fail(c)
      <4>1. at[c] <= Len(Script(c))
        BY <2>5 DEF PlanMigrations, Running
      <4>2. /\ plan' = [plan EXCEPT ![c] = applied[Step(c).db]]
            /\ UNCHANGED <<applied, state, at, clock>>
        BY <2>5, <3>2 DEF PlanMigrations, databases
      <4>3. applied[Step(c).db] \in Nat
        BY <1>0, <4>1 DEF Typed
      <4>4. plan'[c] <= applied'[Step(c).db]
        BY <1>0, <4>2, <4>3 DEF Typed
      <4> QED
        BY <4>1, <4>2, <4>4 DEF Stays
    <3> QED
      BY <3>1, <3>2
  <2>6. CASE ApplyMigration(c)
    <3>0. /\ at[c] <= Len(Script(c)) /\ loop[c] = "apply" /\ Running(c, "migrate")
          /\ plan[c] \in Nat /\ applied[Step(c).db] \in Nat
      BY <1>0, <2>6 DEF ApplyMigration, Running, Typed
    <3>1. CASE plan[c] >= Version[c]
      <4>1. Advance(c)
        BY <1>0, <2>6, <3>0, <3>1 DEF ApplyMigration
      <4>2. applied[Step(c).db] >= Version[c]
        BY <1>0, <3>0, <3>1 DEF Planned
      <4> QED
        BY <2>2, <3>0, <4>1, <4>2 DEF Through
    <3>2. CASE ~(plan[c] >= Version[c])
      <4>1. CASE ~IsUp(c) \/ applied[Step(c).db] # plan[c]
        <5>1. plan[c] < Version[c]
          BY <1>0, <3>0, <3>2
        <5>2. Fail(c)
          BY <2>6, <3>2, <4>1, <5>1 DEF ApplyMigration
        <5> QED
          BY <2>1, <5>2
      <4>2. CASE IsUp(c) /\ applied[Step(c).db] = plan[c]
        <5>1. /\ applied' = [applied EXCEPT ![Step(c).db] = @ + 1]
              /\ plan' = [plan EXCEPT ![c] = @ + 1]
              /\ UNCHANGED <<state, at, loop, clock>>
          BY <2>6, <3>2, <4>2 DEF ApplyMigration
        <5>2. applied'[Step(c).db] = applied[Step(c).db] + 1 /\ plan'[c] = plan[c] + 1
          BY <1>0, <3>0, <5>1 DEF Typed
        <5> QED
          BY <3>0, <4>2, <5>1, <5>2 DEF Stays
      <4> QED
        BY <4>1, <4>2
    <3> QED
      BY <3>1, <3>2
  <2>7. CASE FindCacheTable(c) \/ CreateCacheTable(c) \/ StartupCommand(c)
                \/ CommandFails(c)
    <3>1. Running(c, Step(c).op) /\ Step(c).op \in {"createcachetable", "command"}
      BY <2>7 DEF FindCacheTable, CreateCacheTable, StartupCommand, CommandFails, Running
    <3>2. Through(c, Step(c))
      BY <3>1 DEF Through
    <3>3. CASE Fail(c)
      BY <2>1, <3>3
    <3>4. CASE Advance(c)
      BY <2>2, <3>1, <3>2, <3>4
    <3>5. CASE ~Fail(c) /\ ~Advance(c) /\ FindCacheTable(c)
      <4>1. loop' = [loop EXCEPT ![c] = "create"] /\ UNCHANGED <<state, at, clock, plan>>
        BY <3>5 DEF FindCacheTable, Enter
      <4> QED
        BY <1>0, <4>1 DEF Typed, Stays
    <3>6. CASE ~Fail(c) /\ CreateCacheTable(c)
      <4>1. at' = [at EXCEPT ![c] = @ + 1] /\ Clear(c) /\ UNCHANGED state
        BY <3>6 DEF CreateCacheTable
      <4> QED
        BY <1>0, <3>1, <3>2, <4>1 DEF Typed, Clear, Leaves, Running
    <3> QED
      BY <2>7, <3>3, <3>4, <3>5, <3>6 DEF StartupCommand, CommandFails
  <2>8. CASE StartServer(c)
    BY <1>0, <2>8 DEF StartServer, Running, Started, Stays, Typed, inside
  <2>9. CASE Finish(c)
    BY <1>0, <2>9 DEF Finish, Stays, Typed, inside
  <2> QED
    BY <1>1, <2>3, <2>4, <2>5, <2>6, <2>7, <2>8, <2>9 DEF Proceed
<1>2. CASE Kill(c)
  BY <1>0, <1>2, LeavesToStartOver DEF Kill
<1>3. CASE Restart(c)
  BY <1>0, <1>3 DEF Restart, Stays, Typed, inside
<1>4. CASE \E e \in Container \ {c} : Proceed(e) \/ Kill(e) \/ Restart(e)
  BY <1>0, <1>4, Apart
<1>5. CASE \E d \in Database : Toggle(d)
  BY <1>5 DEF Toggle, Stays, inside
<1>6. CASE Tick
  <2> DEFINE more(e) == IF Looping(e) THEN 1 ELSE 0
  <2>1. /\ clock' = [e \in Container |-> clock[e] + more(e)]
        /\ UNCHANGED <<state, at, loop, plan>> /\ (Looping(c) => ~TurnDue(c))
    BY <1>6 DEF Tick
  <2>2. CASE Looping(c)
    <3>1. clock'[c] = clock[c] + 1 /\ ~Overdue(c)
      BY <2>1, <2>2 DEF TurnDue
    <3>2. at[c] <= Len(Script(c))
      BY <2>2 DEF Looping, Waits, Running
    <3>3. Step(c).patience \in Nat /\ clock[c] \in Nat
      BY <1>0, <3>2, StepIsTyped DEF Typed
    <3>4. clock[c] <= Step(c).patience
      BY <3>1, <3>3 DEF Overdue
    <3> QED
      BY <2>1, <3>1, <3>4 DEF Stays
  <2>3. CASE ~Looping(c)
    <3>1. clock'[c] = clock[c]
      BY <1>0, <2>1, <2>3 DEF Typed
    <3> QED
      BY <2>1, <3>1 DEF Stays
  <2> QED
    BY <2>2, <2>3
<1> QED
  BY <1>1, <1>2, <1>3, <1>4, <1>5, <1>6 DEF Next

LEMMA StartStep == StartInv /\ [Next]_vars => StartInv'
<1> SUFFICES ASSUME StartInv, [Next]_vars PROVE StartInv'
  OBVIOUS
<1>1. Typed /\ Typed' /\ verb' = verb /\ \A d \in Database : applied[d] <= applied'[d]
  BY Grows DEF StartInv
<1>2. ASSUME NEW c \in Container
      PROVE  Passed(c)' /\ Planned(c)' /\ Stands(c)' /\ Patient(c)'
  <2> DEFINE s == Script(c)
             n == at[c]
             m == at'[c]
  <2>1. Passed(c) /\ Planned(c) /\ Stands(c) /\ Patient(c)
    BY DEF StartInv
  <2>2. Script(c)' = s
    BY <1>1 DEF Script
  <2>3. /\ Len(s) \in Nat /\ \A k \in 1 .. Len(s) : s[k].db \in Database
        /\ \A k \in 1 .. Len(s) : s[k].patience \in Nat
        /\ n \in Nat \ {0} /\ m \in Nat \ {0} /\ Version[c] \in Nat
    BY <1>1, StepIsTyped, StartupAssumption DEF Typed
  <2>4. Step(c) = s[n] /\ Step(c)' = s[m]
    BY <2>2 DEF Step
  <2>5. ASSUME NEW k \in 1 .. Len(s), Through(c, s[k])
        PROVE  s[k].op \in {"migrate", "waitfordb --migrations"}
                  => applied'[s[k].db] >= Version[c]
    <3>1. /\ applied[s[k].db] \in Nat /\ applied'[s[k].db] \in Nat
          /\ applied[s[k].db] <= applied'[s[k].db]
      BY <1>1, <2>3 DEF Typed
    <3>2. ASSUME applied[s[k].db] >= Version[c] PROVE applied'[s[k].db] >= Version[c]
      BY <2>3, <3>1, <3>2
    <3> QED
      BY <2>5, <3>2 DEF Through
  <2>6. Leaves(c) \/ Stays(c) \/ UNCHANGED vars
    BY Behaves
  <2>7. Passed(c)'
    <3> SUFFICES ASSUME NEW k \in 1 .. m - 1, k <= Len(s)
                 PROVE  s[k].op \in {"migrate", "waitfordb --migrations"}
                           => applied'[s[k].db] >= Version[c]
      BY <2>2 DEF Passed, Through
    <3>1. k \in 1 .. Len(s)
      BY <2>3
    <3>2. CASE k \in 1 .. n - 1
      <4>1. Through(c, s[k])
        BY <2>1, <3>1, <3>2 DEF Passed
      <4> QED
        BY <2>5, <3>1, <4>1
    <3>3. CASE k \notin 1 .. n - 1
      <4>1. m = n + 1 /\ Through(c, Step(c))
        BY <2>3, <2>6, <3>3 DEF Leaves, Stays, vars
      <4>2. k = n
        BY <2>3, <3>3, <4>1
      <4> QED
        BY <2>4, <2>5, <3>1, <4>1, <4>2
    <3> QED
      BY <3>2, <3>3
  <2>8. Planned(c)'
    <3> SUFFICES ASSUME loop'[c] = "apply"
                 PROVE  m <= Len(s) /\ plan'[c] <= applied'[s[m].db]
      BY <2>2, <2>4 DEF Planned
    <3>1. Stays(c) \/ UNCHANGED vars
      BY <2>6 DEF Leaves
    <3>2. m = n
      BY <3>1 DEF Stays, vars
    <3>3. CASE n <= Len(s) /\ plan'[c] <= applied'[Step(c).db]
      BY <2>4, <3>2, <3>3
    <3>4. CASE loop[c] = "apply" /\ plan'[c] = plan[c]
      <4>1. n <= Len(s) /\ plan[c] <= applied[s[n].db]
        BY <2>1, <2>4, <3>4 DEF Planned
      <4>2. s[n].db \in Database
        BY <2>3, <4>1
      <4>3. /\ applied[s[n].db] \in Nat /\ applied'[s[n].db] \in Nat /\ plan[c] \in Nat
            /\ applied[s[n].db] <= applied'[s[n].db]
        BY <1>1, <4>2 DEF Typed
      <4>4. plan[c] <= applied'[s[n].db]
        BY <4>1, <4>3
      <4> QED
        BY <3>2, <3>4, <4>1, <4>4
    <3>5. UNCHANGED vars => loop[c] = "apply" /\ plan'[c] = plan[c]
      BY DEF vars, inside
    <3> QED
      BY <3>1, <3>3, <3>4, <3>5 DEF Stays
  <2>9. Stands(c)'
    <3> SUFFICES ASSUME state'[c] = "serving"
                 PROVE  m <= Len(s) /\ s[m].op \in Started
      BY <2>2, <2>4 DEF Stands
    <3>1. Stays(c) \/ UNCHANGED vars
      BY <2>6 DEF Leaves
    <3> QED
      BY <2>1, <2>4, <3>1 DEF Stays, Stands, vars
  <2>10. Patient(c)'
    <3> SUFFICES ASSUME m <= Len(s) PROVE clock'[c] <= s[m].patience + 1
      BY <2>2, <2>4 DEF Patient
    <3>1. s[m].patience \in Nat /\ clock[c] \in Nat
      BY <1>1, <2>3 DEF Typed
    <3>2. CASE Leaves(c)
      BY <3>1, <3>2 DEF Leaves
    <3>3. CASE Stays(c) \/ UNCHANGED vars
      <4>1. m = n /\ clock[c] <= s[n].patience + 1
        BY <2>1, <2>4, <3>3 DEF Stays, vars, Patient
      <4>2. \/ clock'[c] = clock[c]
            \/ clock'[c] = clock[c] + 1 /\ clock[c] <= s[n].patience
        BY <2>4, <3>3 DEF Stays, vars, inside
      <4> QED
        BY <3>1, <4>1, <4>2
    <3> QED
      BY <2>6, <3>2, <3>3
  <2> QED
    BY <2>7, <2>8, <2>9, <2>10
<1> QED
  BY <1>1, <1>2 DEF StartInv

LEMMA StartInvariant == Spec => []StartInv
<1>1. Init => StartInv
  BY StartInit
<1>2. StartInv /\ [Next]_vars => StartInv'
  BY StartStep
<1> QED
  BY <1>1, <1>2, PTL DEF Spec

\* A container that migrates serves, and runs its startup commands, only on the
\* schema of its own code, for any number of containers of any releases that
\* migrate any databases in any order and are killed at any step.
THEOREM SchemaIsNotOld == Spec => []NoServiceOnOldSchema
<1>1. StartInv => NoServiceOnOldSchema
  <2> SUFFICES ASSUME StartInv, NEW c \in Container,
                      state[c] = "serving" \/ Running(c, "command")
               PROVE  /\ verb[c] \in {"migrate-and-serve", "run-task-processor"}
                            => Migrated(c, MigrateDatabases[c])
                      /\ verb[c] = "run-task-processor" /\ ~SkipWait
                            => Migrated(c, WaitDatabases[c])
    BY DEF NoServiceOnOldSchema
  <2>1. Typed /\ Passed(c) /\ Stands(c)
    BY DEF StartInv
  <2>2. /\ Len(Script(c)) \in Nat /\ at[c] \in Nat \ {0}
        /\ verb[c] \in Verbs[c] /\ Version[c] \in Nat
    BY <2>1, StepIsTyped, StartupAssumption DEF Typed
  <2>3. at[c] \in 1 .. Len(Script(c)) /\ Script(c)[at[c]].op \in Started
    <3>1. at[c] <= Len(Script(c)) /\ Step(c).op \in Started
      BY <2>1 DEF Stands, Running, Started
    <3> QED
      BY <2>2, <3>1 DEF Step
  <2>4. \A j \in 1 .. at[c] - 1 : Through(c, Script(c)[j])
    BY <2>1, <2>2, <2>3 DEF Passed
  <2>5. ASSUME NEW op, op \in {"migrate", "waitfordb --migrations"},
               NEW d, After(Script(c), op, d)
        PROVE  applied[d] >= Version[c]
    <3>1. PICK j \in 1 .. at[c] - 1 : Script(c)[j].op = op /\ Script(c)[j].db = d
      BY <2>3, <2>5 DEF After
    <3>2. Through(c, Script(c)[j])
      BY <2>4, <3>1
    <3> QED
      BY <2>5, <3>1, <3>2 DEF Through
  <2>6. /\ verb[c] = "migrate-and-serve" => Script(c) = MigrateAndServe(c)
        /\ verb[c] = "run-task-processor" => Script(c) = RunTaskProcessor(c)
    BY <2>2 DEF Script, Scripts
  <2>7. verb[c] \in {"migrate-and-serve", "run-task-processor"} =>
           \A d \in Named(MigrateDatabases[c]) : After(Script(c), "migrate", d)
    BY <2>6, MigrateAndServeOps, RunTaskProcessorOps
  <2>8. verb[c] = "run-task-processor" /\ ~SkipWait =>
           \A d \in Named(WaitDatabases[c]) : After(Script(c), "waitfordb --migrations", d)
    BY <2>6, RunTaskProcessorOps
  <2> QED
    BY <2>5, <2>7, <2>8 DEF Migrated
<1> QED
  BY <1>1, StartInvariant, PTL

\* waitfordb gives up one turn after its patience, whatever the databases and
\* the other containers do meanwhile, and both of its loops together.
THEOREM WaitIsBounded == Spec => []WaitBounded
<1>1. StartInv => WaitBounded
  <2> SUFFICES ASSUME StartInv, NEW c \in Container, Waits(c)
               PROVE  waited[c] <= Step(c).patience + 1
    BY DEF WaitBounded
  <2>1. at[c] <= Len(Script(c)) /\ Patient(c) /\ waited = clock
    BY DEF Waits, Running, StartInv, Typed
  <2> QED
    BY <2>1 DEF Patient
<1> QED
  BY <1>1, StartInvariant, PTL
-----------------------------------------------------------------------------
(* The life of a process (CliEnvironment).  The set-up goes through its      *)
(* steps in one order and the way out through its exits, so that a position  *)
(* in each says what is up; LifeInv says what for every position.            *)

AllSteps == SetUpOtel \o <<"logging", "structlog", "prometheus dir">>
Left(k)  == SubSeq(AllSteps, k, 12)
Exits(k) == SubSeq(CloseAll, k, 5)

Configured == [root |-> RootLevel, console |-> logLevel,
               application |-> IF appsNamed THEN logLevel ELSE RootLevel]

\* Step k of the set-up comes next.  Without OpenTelemetry it begins at step 10.
At(k) ==
    /\ ~otel => k >= 10
    /\ log_provider    = IF otel /\ k > 2 THEN "running" ELSE "none"
    /\ tracer_provider = IF otel /\ k > 3 THEN "running" ELSE "none"
    /\ ~otel \/ k <= 5 => instruments = {}
    /\ exits = IF ~otel \/ k <= 8 THEN << >> ELSE IF k = 9 THEN Untrace ELSE CloseAll
    /\ k > 10 => levels = Configured
    /\ otelEvents => otel
    /\ k > 11 /\ otel => otelEvents
    /\ raised = {}

\* Exit k comes next (6: none).  What the exits before it did not take down
\* has raised, or came after one that raised in the same finally block; as
\* long as any exit is left, nothing of that block has raised.
Gone(k) ==
    /\ exits = Exits(k)
    /\ log_provider = "running" => raised \cap {"log provider", "set-up"} # {} \/ k = 1
    /\ \A j \in 1 .. 4 : StillUp(Untrace[j]) =>
          j + 1 >= k \/ \E i \in 1 .. j : Untrace[i] \in raised
    /\ k < 6 => \A j \in 1 .. 4 : j + 1 < k => Untrace[j] \notin instruments

\* A set-up that failed has left no more than TelemetryIsTaken says.
LifeInv ==
    /\ LifeTypeOK
    /\ phase = "set-up" => \E k \in 1 .. 13 : todo = Left(k) /\ At(k)
    /\ phase = "command" => At(13)
    /\ phase = "failed" => "set-up" \in raised
    /\ phase \in {"closing", "left"} => \E k \in 1 .. 6 : Gone(k)
    /\ phase = "left" => exits = << >>
    /\ TelemetryIsTaken

\* The suffixes of a sequence, as Head and Tail walk them.
LEMMA Walk ==
  ASSUME NEW S, NEW s \in Seq(S)
  PROVE  /\ SubSeq(s, 1, Len(s)) = s /\ SubSeq(s, Len(s) + 1, Len(s)) = << >>
         /\ \A k \in 1 .. Len(s) :
               /\ SubSeq(s, k, Len(s)) # << >> /\ Head(SubSeq(s, k, Len(s))) = s[k]
               /\ Tail(SubSeq(s, k, Len(s))) = SubSeq(s, k + 1, Len(s))
<1>1. Len(s) \in Nat
  BY LenProperties
<1>2. \A k \in 1 .. Len(s) : SubSeq(s, k, Len(s)) # << >>
  <2> TAKE k \in 1 .. Len(s)
  <2>1. \A i \in k .. Len(s) : s[i] \in S
    BY <1>1, ElementOfSeq
  <2>2. Len(SubSeq(s, k, Len(s))) = Len(s) - k + 1
    BY <1>1, <2>1, SubSeqProperties
  <2> QED
    BY <1>1, <2>2, EmptySeq
<1>3. \A k \in 1 .. Len(s) : /\ Head(SubSeq(s, k, Len(s))) = s[k]
                             /\ Tail(SubSeq(s, k, Len(s))) = SubSeq(s, k + 1, Len(s))
  BY <1>1, HeadTailOfSubSeq
<1> QED
  BY <1>1, <1>2, <1>3, SubSeqFull, SubSeqEmpty

\* A sequence is the concatenation of the two that it is made of.
LEMMA Joins ==
  ASSUME NEW S, NEW s \in Seq(S), NEW t \in Seq(S), NEW u \in Seq(S),
         Len(u) = Len(s) + Len(t),
         \A k \in 1 .. Len(s) : u[k] = s[k],
         \A k \in 1 .. Len(t) : u[Len(s) + k] = t[k]
  PROVE  /\ s \o t = u
         /\ t # << >> => SubSeq(u, Len(s) + 1, Len(u)) = t
<1>1. Len(s) \in Nat /\ Len(t) \in Nat
  BY LenProperties
<1>2. s \o t \in Seq(S) /\ Len(s \o t) = Len(u)
  BY ConcatProperties
<1>3. ASSUME NEW k \in 1 .. Len(u)
      PROVE  (s \o t)[k] = u[k]
  <2>1. (s \o t)[k] = IF k <= Len(s) THEN s[k] ELSE t[k - Len(s)]
    BY ConcatProperties
  <2>2. CASE k <= Len(s)
    BY <1>1, <2>1, <2>2
  <2>3. CASE k > Len(s)
    <3>1. k - Len(s) \in 1 .. Len(t) /\ k = Len(s) + (k - Len(s))
      BY <1>1, <2>3
    <3>2. u[k] = t[k - Len(s)]
      BY <3>1
    <3> QED
      BY <1>1, <2>1, <2>3, <3>2
  <2> QED
    BY <1>1, <2>2, <2>3
<1>4. s \o t = u
  BY <1>2, <1>3, SeqEqual
<1>5. ASSUME t # << >>
      PROVE  SubSeq(u, Len(s) + 1, Len(u)) = t
  <2>1. Len(t) > 0
    BY <1>1, <1>5, EmptySeq
  <2>2. SubSeq(s \o t, Len(s) + 1, Len(s) + Len(t))
           = SubSeq(t, Len(s) + 1 - Len(s), Len(s) + Len(t) - Len(s))
    BY <1>1, <2>1, SubSeqOfConcat2
  <2>3. Len(s) + 1 - Len(s) = 1 /\ Len(s) + Len(t) - Len(s) = Len(t)
    BY <1>1
  <2> QED
    BY <1>4, <2>2, <2>3, SubSeqFull
<1> QED
  BY <1>4, <1>5

\* The two concatenations of literals that CliEnvironment makes.  Elements are
\* variables here: the provers do not compute with strings in sequences.
IsOneAndFour(a, b, c, d, e) ==
    LET five == <<a, b, c, d, e>>
    IN  /\ <<a>> \o <<b, c, d, e>> = five
        /\ five \in Seq({a, b, c, d, e}) /\ Len(five) = 5 /\ Tail(five) = <<b, c, d, e>>

LEMMA FourAfterOne ==
  ASSUME NEW a, NEW b, NEW c, NEW d, NEW e
  PROVE  IsOneAndFour(a, b, c, d, e)
<1> DEFINE one == <<a>>
           four == <<b, c, d, e>>
           five == <<a, b, c, d, e>>
           S == {a, b, c, d, e}
<1>1. /\ one \in Seq(S) /\ Len(one) = 1 /\ four \in Seq(S) /\ Len(four) = 4
      /\ five \in Seq(S) /\ Len(five) = 5 /\ Tail(five) = four
  OBVIOUS
<1>2. (\A k \in 1 .. 1 : five[k] = one[k]) /\ \A k \in 1 .. 4 : five[1 + k] = four[k]
  OBVIOUS
<1>3. one \o four = five
  <2> HIDE DEF one, four, five, S
  <2>1. /\ Len(five) = Len(one) + Len(four)
        /\ \A k \in 1 .. Len(one) : five[k] = one[k]
        /\ \A k \in 1 .. Len(four) : five[Len(one) + k] = four[k]
    BY <1>1, <1>2
  <2> QED
    BY <1>1, <2>1, Joins, Zenon
<1> QED
  BY <1>1, <1>3, Zenon DEF IsOneAndFour

IsNineAndThree(a, b, c, d, e, f, g, h, i, x, y, z) ==
    LET twelve == <<a, b, c, d, e, f, g, h, i, x, y, z>>
    IN  /\ <<a, b, c, d, e, f, g, h, i>> \o <<x, y, z>> = twelve
        /\ twelve \in Seq({a, b, c, d, e, f, g, h, i, x, y, z}) /\ Len(twelve) = 12
        /\ SubSeq(twelve, 10, 12) = <<x, y, z>>

LEMMA ThreeAfterNine ==
  ASSUME NEW a, NEW b, NEW c, NEW d, NEW e, NEW f, NEW g, NEW h, NEW i,
         NEW x, NEW y, NEW z
  PROVE  IsNineAndThree(a, b, c, d, e, f, g, h, i, x, y, z)
<1> DEFINE nine == <<a, b, c, d, e, f, g, h, i>>
           three == <<x, y, z>>
           twelve == <<a, b, c, d, e, f, g, h, i, x, y, z>>
           S == {a, b, c, d, e, f, g, h, i, x, y, z}
<1>1. /\ nine \in Seq(S) /\ Len(nine) = 9
      /\ three \in Seq(S) /\ Len(three) = 3 /\ three # << >>
      /\ twelve \in Seq(S) /\ Len(twelve) = 12
  OBVIOUS
<1>2. /\ \A k \in 1 .. 9 : twelve[k] = nine[k]
      /\ \A k \in 1 .. 3 : twelve[9 + k] = three[k]
  OBVIOUS
<1>3. nine \o three = twelve /\ SubSeq(twelve, 9 + 1, 12) = three
  <2> HIDE DEF nine, three, twelve, S
  <2>1. /\ Len(twelve) = Len(nine) + Len(three)
        /\ \A k \in 1 .. Len(nine) : twelve[k] = nine[k]
        /\ \A k \in 1 .. Len(three) : twelve[Len(nine) + k] = three[k]
    BY <1>1, <1>2
  <2>2. nine \o three = twelve /\ SubSeq(twelve, Len(nine) + 1, Len(twelve)) = three
    BY <1>1, <2>1, Joins, Zenon
  <2> QED
    BY <1>1, <2>2, Zenon
<1>4. 9 + 1 = 10
  OBVIOUS
<1> QED
  BY <1>1, <1>3, <1>4, Zenon DEF IsNineAndThree

\* The exits by position.
LEMMA TheExits ==
  /\ CloseAll = <<"log provider", "redis", "psycopg2", "django", "tracer provider">>
  /\ Len(CloseAll) = 5
  /\ Exits(1) = CloseAll /\ Exits(2) = Untrace /\ Exits(6) = << >>
  /\ \A k \in 1 .. 5 : /\ Exits(k) # << >> /\ Head(Exits(k)) = CloseAll[k]
                       /\ Tail(Exits(k)) = Exits(k + 1)
<1>1. /\ CloseAll = <<"log provider", "redis", "psycopg2", "django", "tracer provider">>
      /\ \E S : CloseAll \in Seq(S)
      /\ Len(CloseAll) = 5 /\ Tail(CloseAll) = Untrace
  <2>1. IsOneAndFour("log provider", "redis", "psycopg2", "django", "tracer provider")
    BY FourAfterOne, Zenon
  <2> QED
    BY <2>1, Zenon DEF IsOneAndFour, CloseAll, Untrace
<1>2. PICK S : CloseAll \in Seq(S)
  BY <1>1
<1>3. /\ SubSeq(CloseAll, 1, 5) = CloseAll /\ SubSeq(CloseAll, 5 + 1, 5) = << >>
      /\ \A k \in 1 .. 5 :
            /\ SubSeq(CloseAll, k, 5) # << >> /\ Head(SubSeq(CloseAll, k, 5)) = CloseAll[k]
            /\ Tail(SubSeq(CloseAll, k, 5)) = SubSeq(CloseAll, k + 1, 5)
  <2>1. /\ SubSeq(CloseAll, 1, Len(CloseAll)) = CloseAll
        /\ SubSeq(CloseAll, Len(CloseAll) + 1, Len(CloseAll)) = << >>
        /\ \A k \in 1 .. Len(CloseAll) :
              /\ SubSeq(CloseAll, k, Len(CloseAll)) # << >>
              /\ Head(SubSeq(CloseAll, k, Len(CloseAll))) = CloseAll[k]
              /\ Tail(SubSeq(CloseAll, k, Len(CloseAll))) = SubSeq(CloseAll, k + 1, Len(CloseAll))
    BY <1>2, Walk, Zenon
  <2>2. Len(CloseAll) = 5
    BY <1>1
  <2> QED
    BY <2>1, <2>2, Zenon
<1>4. Exits(1) = CloseAll /\ Exits(2) = Tail(SubSeq(CloseAll, 1, 5)) /\ Exits(6) = << >>
  BY <1>3 DEF Exits
<1> QED
  BY <1>1, <1>3, <1>4 DEF Exits

\* The steps by position.
LEMMA TheSteps ==
  /\ SetUp(TRUE) = Left(1) /\ SetUp(FALSE) = Left(10) /\ Left(13) = << >>
  /\ \A k \in 1 .. 12 : /\ Left(k) # << >> /\ Head(Left(k)) = AllSteps[k]
                        /\ Tail(Left(k)) = Left(k + 1)
  /\ AllSteps = <<"protocol", "log provider", "tracer provider", "set tracer provider",
                  "django", "psycopg2", "redis", "enter tracing", "callback",
                  "logging", "structlog", "prometheus dir">>
<1>1. /\ AllSteps = <<"protocol", "log provider", "tracer provider", "set tracer provider",
                      "django", "psycopg2", "redis", "enter tracing", "callback",
                      "logging", "structlog", "prometheus dir">>
      /\ \E S : AllSteps \in Seq(S)
      /\ Len(AllSteps) = 12
      /\ SubSeq(AllSteps, 10, 12) = <<"logging", "structlog", "prometheus dir">>
  <2>1. IsNineAndThree("protocol", "log provider", "tracer provider", "set tracer provider",
                       "django", "psycopg2", "redis", "enter tracing", "callback",
                       "logging", "structlog", "prometheus dir")
    BY ThreeAfterNine, Zenon
  <2> QED
    BY <2>1, Zenon DEF IsNineAndThree, AllSteps, SetUpOtel
<1>2. PICK S : AllSteps \in Seq(S)
  BY <1>1
<1>3. /\ SubSeq(AllSteps, 1, 12) = AllSteps /\ SubSeq(AllSteps, 12 + 1, 12) = << >>
      /\ \A k \in 1 .. 12 :
            /\ SubSeq(AllSteps, k, 12) # << >> /\ Head(SubSeq(AllSteps, k, 12)) = AllSteps[k]
            /\ Tail(SubSeq(AllSteps, k, 12)) = SubSeq(AllSteps, k + 1, 12)
  <2>1. /\ SubSeq(AllSteps, 1, Len(AllSteps)) = AllSteps
        /\ SubSeq(AllSteps, Len(AllSteps) + 1, Len(AllSteps)) = << >>
        /\ \A k \in 1 .. Len(AllSteps) :
              /\ SubSeq(AllSteps, k, Len(AllSteps)) # << >>
              /\ Head(SubSeq(AllSteps, k, Len(AllSteps))) = AllSteps[k]
              /\ Tail(SubSeq(AllSteps, k, Len(AllSteps))) = SubSeq(AllSteps, k + 1, Len(AllSteps))
    BY <1>2, Walk, Zenon
  <2>2. Len(AllSteps) = 12
    BY <1>1
  <2> QED
    BY <2>1, <2>2, Zenon
<1>4. SetUp(TRUE) = AllSteps
  BY DEF SetUp, AllSteps
<1>5. SetUp(FALSE) = <<"logging", "structlog", "prometheus dir">>
  <2>1. <<"logging", "structlog", "prometheus dir">>
           \in Seq({"logging", "structlog", "prometheus dir"})
    OBVIOUS
  <2> QED
    BY <2>1, ConcatEmptySeq DEF SetUp
<1>6. Left(1) = AllSteps /\ Left(13) = << >>
  BY <1>3 DEF Left
<1>7. SetUp(TRUE) = Left(1) /\ SetUp(FALSE) = Left(10)
  BY <1>1, <1>4, <1>5, <1>6 DEF Left
<1> QED
  BY <1>1, <1>3, <1>6, <1>7 DEF Left

\* Every step has one position.
LEMMA Positions ==
  \A k \in 1 .. 12 :
     /\ AllSteps[k] = "protocol" => k = 1
     /\ AllSteps[k] = "log provider" => k = 2
     /\ AllSteps[k] = "tracer provider" => k = 3
     /\ AllSteps[k] = "set tracer provider" => k = 4
     /\ AllSteps[k] \in Library => k \in 5 .. 7
     /\ AllSteps[k] = "enter tracing" => k = 8
     /\ AllSteps[k] = "callback" => k = 9
     /\ AllSteps[k] = "logging" => k = 10
     /\ AllSteps[k] = "structlog" => k = 11
     /\ AllSteps[k] = "prometheus dir" => k = 12
<1> TAKE k \in 1 .. 12
<1>1. k = 1 \/ k = 2 \/ k = 3 \/ k = 4 \/ k = 5 \/ k = 6 \/ k = 7 \/ k = 8 \/ k = 9
      \/ k = 10 \/ k = 11 \/ k = 12
  OBVIOUS
<1>2. /\ AllSteps[1] = "protocol" /\ AllSteps[2] = "log provider"
      /\ AllSteps[3] = "tracer provider" /\ AllSteps[4] = "set tracer provider"
      /\ AllSteps[5] = "django" /\ AllSteps[6] = "psycopg2" /\ AllSteps[7] = "redis"
      /\ AllSteps[8] = "enter tracing" /\ AllSteps[9] = "callback"
      /\ AllSteps[10] = "logging" /\ AllSteps[11] = "structlog"
      /\ AllSteps[12] = "prometheus dir"
  BY TheSteps
<1>3. 5 \in 5 .. 7 /\ 6 \in 5 .. 7 /\ 7 \in 5 .. 7
  OBVIOUS
<1> QED
  BY <1>1, <1>2, <1>3, Zenon DEF Library

\* A step that is taken is at the set-up's position, and the next follows.
LEMMA TurnAt ==
  ASSUME LifeInv, NEW s, Turn(s)
  PROVE  \E k \in 1 .. 12 : At(k) /\ AllSteps[k] = s /\ todo' = Left(k + 1)
<1>1. PICK k \in 1 .. 13 : todo = Left(k) /\ At(k)
  BY DEF LifeInv, Turn
<1>2. k # 13
  BY <1>1, TheSteps DEF Turn
<1>3. k \in 1 .. 12
  BY <1>2
<1>4. Tail(Left(k)) = Left(k + 1) /\ Head(Left(k)) = AllSteps[k]
  BY <1>3, TheSteps
<1>5. todo' = Left(k + 1) /\ AllSteps[k] = s
  BY <1>1, <1>4 DEF Turn
<1> QED
  BY <1>1, <1>3, <1>5

\* The exits' type.
LEMMA ExitsType ==
  ASSUME NEW e
  PROVE  (\E j \in 0 .. Len(CloseAll) : e = SubSeq(CloseAll, j + 1, Len(CloseAll)))
            <=> \E k \in 1 .. 6 : e = Exits(k)
<1>1. Len(CloseAll) = 5
  BY TheExits
<1>2. ASSUME NEW j \in 0 .. 5, e = SubSeq(CloseAll, j + 1, 5)
      PROVE  j + 1 \in 1 .. 6 /\ e = Exits(j + 1)
  BY <1>2 DEF Exits
<1>3. ASSUME NEW k \in 1 .. 6, e = Exits(k)
      PROVE  k - 1 \in 0 .. 5 /\ e = SubSeq(CloseAll, (k - 1) + 1, 5)
  BY <1>3 DEF Exits
<1> QED
  BY <1>1, <1>2, <1>3

LevelsOK == levels \in [root : Level, console : Level, application : Level]

\* What a step of the set-up owes the invariant: the facts of its next position.
LEMMA AfterTurn ==
  ASSUME LifeInv, phase = "set-up", UNCHANGED <<settings, phase, raised, records>>,
         NEW k \in 1 .. 13, todo' = Left(k), At(k)',
         (log_provider = "running" => log_provider' = "running"),
         instruments' \subseteq Library, LevelsOK', otelEvents' \in BOOLEAN
  PROVE  LifeInv'
<1>1. exits' \in {Exits(6), Exits(2), Exits(1)}
  BY TheExits DEF At
<1>2. \E j \in 0 .. Len(CloseAll) : exits' = SubSeq(CloseAll, j + 1, Len(CloseAll))
  BY <1>1, ExitsType
<1>3. log_provider' \in {"none", "running"} /\ tracer_provider' \in {"none", "running"}
  BY DEF At
<1>4. LifeTypeOK'
  BY <1>2, <1>3 DEF LifeInv, LifeTypeOK, LevelsOK, settings, records
<1>5. TelemetryIsTaken'
  BY DEF LifeInv, TelemetryIsTaken, At, settings, records
<1> QED
  BY <1>4, <1>5 DEF LifeInv

\* A step of the set-up leads to the next position.
LEMMA TurnKeeps ==
  ASSUME LifeInv,
         \/ Prepare \/ BuildLogProvider \/ BuildTracerProvider
         \/ \E l \in Library : Instrument(l)
         \/ EnterTracing \/ PushCallback \/ ConfigureLogging \/ ConfigureStructlog
  PROVE  LifeInv'
<1>1. CASE Prepare
  <2>1. PICK s : s \in {"protocol", "set tracer provider", "prometheus dir"} /\ Turn(s)
    <3>1. \E s \in {"protocol", "set tracer provider", "prometheus dir"} : Turn(s)
      BY <1>1 DEF Prepare
    <3> QED
      BY <3>1, Zenon
  <2>2. PICK k \in 1 .. 12 : At(k) /\ AllSteps[k] = s /\ todo' = Left(k + 1)
    BY <2>1, TurnAt
  <2>3. k = 1 \/ k = 4 \/ k = 12
    BY <2>1, <2>2, Positions, Zenon
  <2>4. At(k + 1)'
    <3>1. /\ UNCHANGED settings /\ raised' = raised
          /\ UNCHANGED <<tracer_provider, instruments, log_provider, exits, levels, otelEvents>>
      BY <1>1, <2>1 DEF Prepare, Turn, tracing, logging
    <3>2. otel' = otel /\ Configured' = Configured
      BY <3>1 DEF settings, Configured, RootLevel
    <3> HIDE DEF Configured
    <3>3. ASSUME At(1) PROVE At(2)'
      BY <3>1, <3>2, <3>3 DEF At
    <3>4. ASSUME At(4) PROVE At(5)'
      BY <3>1, <3>2, <3>4 DEF At
    <3>5. ASSUME At(12) PROVE At(13)'
      BY <3>1, <3>2, <3>5 DEF At
    <3>6. 1 + 1 = 2 /\ 4 + 1 = 5 /\ 12 + 1 = 13
      OBVIOUS
    <3> QED
      BY <2>2, <2>3, <3>3, <3>4, <3>5, <3>6, Zenon
  <2>5. /\ phase = "set-up" /\ UNCHANGED <<settings, phase, raised, records>>
        /\ log_provider = "running" => log_provider' = "running"
        /\ instruments' \subseteq Library /\ LevelsOK' /\ otelEvents' \in BOOLEAN
    BY <1>1, <2>1 DEF Prepare, Turn, LifeInv, LifeTypeOK, LevelsOK, tracing, logging
  <2>6. k + 1 \in 1 .. 13
    BY <2>2
  <2> QED
    BY <2>2, <2>4, <2>5, <2>6, AfterTurn, Zenon
<1>2. CASE BuildLogProvider
  <2>1. PICK k \in 1 .. 12 : At(k) /\ AllSteps[k] = "log provider" /\ todo' = Left(k + 1)
    BY <1>2, TurnAt DEF BuildLogProvider
  <2>2. k = 2 /\ k + 1 = 3 /\ 3 \in 1 .. 13
    <3>1. k = 2
      BY <2>1, Positions, Zenon
    <3> QED
      BY <3>1
  <2>3. At(2) /\ todo' = Left(3)
    BY <2>1, <2>2, Zenon
  <2>4. At(3)'
    <3>1. /\ log_provider' = "running" /\ UNCHANGED settings /\ raised' = raised
          /\ UNCHANGED <<tracer_provider, instruments, exits, levels, otelEvents>>
      BY <1>2 DEF BuildLogProvider, Turn, tracing, logging
    <3>2. otel' = otel /\ Configured' = Configured
      BY <3>1 DEF settings, Configured, RootLevel
    <3> HIDE DEF Configured
    <3> QED
      BY <2>3, <3>1, <3>2 DEF At
  <2>5. /\ phase = "set-up" /\ UNCHANGED <<settings, phase, raised, records>>
        /\ log_provider = "running" => log_provider' = "running"
        /\ instruments' \subseteq Library /\ LevelsOK' /\ otelEvents' \in BOOLEAN
    BY <1>2 DEF BuildLogProvider, Turn, LifeInv, LifeTypeOK, LevelsOK, tracing, logging
  <2> QED
    BY <2>2, <2>3, <2>4, <2>5, AfterTurn, Zenon
<1>3. CASE BuildTracerProvider
  <2>1. PICK k \in 1 .. 12 : At(k) /\ AllSteps[k] = "tracer provider" /\ todo' = Left(k + 1)
    BY <1>3, TurnAt DEF BuildTracerProvider
  <2>2. k = 3 /\ k + 1 = 4 /\ 4 \in 1 .. 13
    <3>1. k = 3
      BY <2>1, Positions, Zenon
    <3> QED
      BY <3>1
  <2>3. At(3) /\ todo' = Left(4)
    BY <2>1, <2>2, Zenon
  <2>4. At(4)'
    <3>1. /\ tracer_provider' = "running" /\ UNCHANGED settings /\ raised' = raised
          /\ UNCHANGED <<log_provider, instruments, exits, levels, otelEvents>>
      BY <1>3 DEF BuildTracerProvider, Turn, tracing, logging
    <3>2. otel' = otel /\ Configured' = Configured
      BY <3>1 DEF settings, Configured, RootLevel
    <3> HIDE DEF Configured
    <3> QED
      BY <2>3, <3>1, <3>2 DEF At
  <2>5. /\ phase = "set-up" /\ UNCHANGED <<settings, phase, raised, records>>
        /\ log_provider = "running" => log_provider' = "running"
        /\ instruments' \subseteq Library /\ LevelsOK' /\ otelEvents' \in BOOLEAN
    BY <1>3 DEF BuildTracerProvider, Turn, LifeInv, LifeTypeOK, LevelsOK, tracing, logging
  <2> QED
    BY <2>2, <2>3, <2>4, <2>5, AfterTurn, Zenon
<1>4. CASE \E l \in Library : Instrument(l)
  <2>1. PICK l \in Library : Instrument(l)
    BY <1>4
  <2>2. PICK k \in 1 .. 12 : At(k) /\ AllSteps[k] = l /\ todo' = Left(k + 1)
    BY <2>1, TurnAt DEF Instrument
  <2>3. k \in 5 .. 7
    BY <2>2, Positions, Zenon
  <2>4. At(k + 1)'
    <3>1. /\ UNCHANGED settings /\ raised' = raised
          /\ UNCHANGED <<tracer_provider, log_provider, exits, levels, otelEvents>>
      BY <2>1 DEF Instrument, Turn, logging
    <3>2. otel' = otel /\ Configured' = Configured
      BY <3>1 DEF settings, Configured, RootLevel
    <3>3. \A n \in 5 .. 7 : At(n) => At(n + 1)'
      <4> HIDE DEF Configured
      <4> QED
        BY <3>1, <3>2 DEF At
    <3> QED
      BY <2>2, <2>3, <3>3
  <2>5. /\ phase = "set-up" /\ UNCHANGED <<settings, phase, raised, records>>
        /\ log_provider = "running" => log_provider' = "running"
        /\ instruments' \subseteq Library /\ LevelsOK' /\ otelEvents' \in BOOLEAN
    BY <2>1 DEF Instrument, Turn, LifeInv, LifeTypeOK, LevelsOK, logging
  <2>6. k + 1 \in 1 .. 13
    BY <2>2
  <2> QED
    BY <2>2, <2>4, <2>5, <2>6, AfterTurn, Zenon
<1>5. CASE EnterTracing
  <2>1. PICK k \in 1 .. 12 : At(k) /\ AllSteps[k] = "enter tracing" /\ todo' = Left(k + 1)
    BY <1>5, TurnAt DEF EnterTracing
  <2>2. k = 8 /\ k + 1 = 9 /\ 9 \in 1 .. 13
    <3>1. k = 8
      BY <2>1, Positions, Zenon
    <3> QED
      BY <3>1
  <2>3. At(8) /\ todo' = Left(9)
    BY <2>1, <2>2, Zenon
  <2>4. At(9)'
    <3>1. /\ exits' = Untrace \o exits /\ UNCHANGED settings /\ raised' = raised
          /\ UNCHANGED <<tracer_provider, instruments, log_provider, levels, otelEvents>>
      BY <1>5 DEF EnterTracing, Turn, tracing, logging, Pushed
    <3>2. otel' = otel /\ Configured' = Configured
      BY <3>1 DEF settings, Configured, RootLevel
    <3> HIDE DEF Configured
    <3> QED
      BY <2>3, <3>1, <3>2 DEF At
  <2>5. /\ phase = "set-up" /\ UNCHANGED <<settings, phase, raised, records>>
        /\ log_provider = "running" => log_provider' = "running"
        /\ instruments' \subseteq Library /\ LevelsOK' /\ otelEvents' \in BOOLEAN
    BY <1>5 DEF EnterTracing, Turn, LifeInv, LifeTypeOK, LevelsOK, tracing, logging
  <2> QED
    BY <2>2, <2>3, <2>4, <2>5, AfterTurn, Zenon
<1>6. CASE PushCallback
  <2>1. PICK k \in 1 .. 12 : At(k) /\ AllSteps[k] = "callback" /\ todo' = Left(k + 1)
    BY <1>6, TurnAt DEF PushCallback
  <2>2. k = 9 /\ k + 1 = 10 /\ 10 \in 1 .. 13
    <3>1. k = 9
      BY <2>1, Positions, Zenon
    <3> QED
      BY <3>1
  <2>3. At(9) /\ todo' = Left(10)
    BY <2>1, <2>2, Zenon
  <2>4. At(10)'
    <3>1. /\ exits' = <<"log provider">> \o exits /\ UNCHANGED settings /\ raised' = raised
          /\ UNCHANGED <<tracer_provider, instruments, log_provider, levels, otelEvents>>
      BY <1>6 DEF PushCallback, Turn, tracing, logging, Pushed
    <3>2. otel' = otel /\ Configured' = Configured
      BY <3>1 DEF settings, Configured, RootLevel
    <3>3. exits = IF ~otel THEN << >> ELSE Untrace
      BY <2>3 DEF At
    <3>4. ~ ~otel
      BY <2>3 DEF At
    <3>5. exits' = CloseAll /\ raised' = raised
          /\ UNCHANGED <<tracer_provider, instruments, log_provider, levels, otelEvents>>
      BY <3>1, <3>3, <3>4 DEF CloseAll
    <3> HIDE DEF Configured
    <3> QED
      BY <2>3, <3>2, <3>4, <3>5 DEF At
  <2>5. /\ phase = "set-up" /\ UNCHANGED <<settings, phase, raised, records>>
        /\ log_provider = "running" => log_provider' = "running"
        /\ instruments' \subseteq Library /\ LevelsOK' /\ otelEvents' \in BOOLEAN
    BY <1>6 DEF PushCallback, Turn, LifeInv, LifeTypeOK, LevelsOK, tracing, logging
  <2> QED
    BY <2>2, <2>3, <2>4, <2>5, AfterTurn, Zenon
<1>7. CASE ConfigureLogging
  <2>1. PICK k \in 1 .. 12 : At(k) /\ AllSteps[k] = "logging" /\ todo' = Left(k + 1)
    BY <1>7, TurnAt DEF ConfigureLogging
  <2>2. k = 10 /\ k + 1 = 11 /\ 11 \in 1 .. 13
    <3>1. k = 10
      BY <2>1, Positions, Zenon
    <3> QED
      BY <3>1
  <2>3. At(10) /\ todo' = Left(11)
    BY <2>1, <2>2, Zenon
  <2>4. At(11)'
    <3>1. /\ levels' = Configured /\ UNCHANGED settings /\ raised' = raised
          /\ UNCHANGED <<tracer_provider, instruments, log_provider, exits, otelEvents>>
      BY <1>7 DEF ConfigureLogging, Turn, tracing, logging, Configured, Console
    <3>2. otel' = otel /\ Configured' = Configured
      BY <3>1 DEF settings, Configured, RootLevel
    <3> HIDE DEF Configured
    <3> QED
      BY <2>3, <3>1, <3>2 DEF At
  <2>5. /\ phase = "set-up" /\ UNCHANGED <<settings, phase, raised, records>>
        /\ log_provider = "running" => log_provider' = "running"
        /\ instruments' \subseteq Library /\ LevelsOK' /\ otelEvents' \in BOOLEAN
    <3>1. RootLevel \in Level /\ logLevel \in Level
      BY LevelAssumption DEF LifeInv, LifeTypeOK, RootLevel
    <3>2. LevelsOK'
      BY <1>7, <3>1 DEF ConfigureLogging, Console, LevelsOK
    <3> QED
      BY <1>7, <3>2 DEF ConfigureLogging, Turn, LifeInv, LifeTypeOK, tracing
  <2> QED
    BY <2>2, <2>3, <2>4, <2>5, AfterTurn, Zenon
<1>8. CASE ConfigureStructlog
  <2>1. PICK k \in 1 .. 12 : At(k) /\ AllSteps[k] = "structlog" /\ todo' = Left(k + 1)
    BY <1>8, TurnAt DEF ConfigureStructlog
  <2>2. k = 11 /\ k + 1 = 12 /\ 12 \in 1 .. 13
    <3>1. k = 11
      BY <2>1, Positions, Zenon
    <3> QED
      BY <3>1
  <2>3. At(11) /\ todo' = Left(12)
    BY <2>1, <2>2, Zenon
  <2>4. At(12)'
    <3>1. /\ otelEvents' = otel /\ UNCHANGED settings /\ raised' = raised
          /\ UNCHANGED <<tracer_provider, instruments, log_provider, exits, levels>>
      BY <1>8 DEF ConfigureStructlog, Turn, tracing, logging
    <3>2. otel' = otel /\ Configured' = Configured
      BY <3>1 DEF settings, Configured, RootLevel
    <3> HIDE DEF Configured
    <3> QED
      BY <2>3, <3>1, <3>2 DEF At
  <2>5. /\ phase = "set-up" /\ UNCHANGED <<settings, phase, raised, records>>
        /\ log_provider = "running" => log_provider' = "running"
        /\ instruments' \subseteq Library /\ LevelsOK' /\ otelEvents' \in BOOLEAN
    BY <1>8 DEF ConfigureStructlog, Turn, LifeInv, LifeTypeOK, LevelsOK, tracing, logging
  <2> QED
    BY <2>2, <2>3, <2>4, <2>5, AfterTurn, Zenon
<1> QED
  BY <1>1, <1>2, <1>3, <1>4, <1>5, <1>6, <1>7, <1>8

\* What else happens before the way out.
LEMMA BeforeTheExits ==
  ASSUME LifeInv,
         \/ SetUpRaises \/ EnterContext \/ CommandEnds
  PROVE  LifeInv'
<1>1. CASE SetUpRaises
  <2>1. /\ phase' = "failed" /\ todo' = << >> /\ raised' = {"set-up"}
        /\ UNCHANGED <<settings, exits, tracing, log_provider, records, logging>>
    BY <1>1 DEF SetUpRaises
  <2>2. LifeTypeOK'
    BY <2>1 DEF LifeInv, LifeTypeOK, settings, tracing, records, logging
  <2>3. TelemetryIsTaken'
    BY <1>1, <2>1 DEF SetUpRaises, LifeInv, TelemetryIsTaken, tracing, records
  <2> QED
    BY <2>1, <2>2, <2>3 DEF LifeInv
<1>2. CASE EnterContext
  <2>1. /\ phase = "set-up" /\ todo = << >> /\ phase' = "command"
        /\ UNCHANGED <<settings, todo, stack, tracing, log_provider, records, logging>>
    BY <1>2 DEF EnterContext
  <2>2. At(13)
    <3>1. PICK k \in 1 .. 13 : todo = Left(k) /\ At(k)
      BY <2>1 DEF LifeInv
    <3>2. ~(k \in 1 .. 12)
      BY <2>1, <3>1, TheSteps
    <3>3. k = 13
      BY <3>2
    <3> QED
      BY <3>1, <3>3
  <2>3. At(13)'
    <3>1. Configured' = Configured
      BY <2>1 DEF settings, Configured, RootLevel
    <3> QED
      BY <2>1, <2>2, <3>1 DEF At, settings, stack, tracing, logging
  <2>4. LifeTypeOK'
    BY <2>1 DEF LifeInv, LifeTypeOK, settings, stack, tracing, records, logging
  <2>5. TelemetryIsTaken'
    BY <2>1 DEF LifeInv, TelemetryIsTaken, tracing, records
  <2> QED
    BY <2>1, <2>3, <2>4, <2>5 DEF LifeInv
<1>3. CASE CommandEnds
  <2>1. /\ phase = "command" /\ phase' = "closing"
        /\ UNCHANGED <<settings, todo, stack, tracing, log_provider, records, logging>>
    BY <1>3 DEF CommandEnds
  <2>2. At(13)
    BY <2>1 DEF LifeInv
  <2>3. LifeTypeOK'
    BY <2>1 DEF LifeInv, LifeTypeOK, settings, stack, tracing, records, logging
  <2>4. TelemetryIsTaken'
    BY <2>1 DEF LifeInv, TelemetryIsTaken, tracing, records
  <2>5. \E k \in 1 .. 6 : Gone(k)'
    <3>1. Gone(1)' \/ Gone(6)'
      <4>1. CASE otel
        <5>1. exits' = Exits(1)
          <6>1. exits' = CloseAll
            BY <2>1, <2>2, <4>1 DEF At, stack
          <6> QED
            BY <6>1, TheExits
        <5>2. \A j \in 1 .. 4 : j + 1 >= 1 /\ ~(j + 1 < 1)
          OBVIOUS
        <5> QED
          BY <5>1, <5>2 DEF Gone
      <4>2. CASE ~otel
        <5>1. exits' = Exits(6) /\ log_provider' = "none" /\ tracer_provider' = "none"
              /\ instruments' = {}
          BY <2>1, <2>2, <4>2, TheExits DEF At, stack, tracing
        <5>2. \A e : ~StillUp(e)'
          BY <5>1 DEF StillUp
        <5> QED
          BY <5>1, <5>2 DEF Gone
      <4> QED
        BY <4>1, <4>2
    <3> QED
      BY <3>1
  <2> QED
    BY <2>1, <2>3, <2>4, <2>5 DEF LifeInv
<1> QED
  BY <1>1, <1>2, <1>3

\* The way out: what an exit takes down or leaves, and what is still to come.
LEMMA ExitsKeep ==
  ASSUME LifeInv, Close \/ CloseRaises
  PROVE  LifeInv'
<1>1. /\ phase = "closing" /\ exits # << >> /\ phase' = phase
      /\ UNCHANGED <<settings, todo, lost, logging>>
  BY DEF Close, CloseRaises, records
<1>2. PICK k \in 1 .. 6 : Gone(k)
  BY <1>1 DEF LifeInv
<1>3. k # 6
  BY <1>1, <1>2, TheExits, Zenon DEF Gone
<1>4. k \in 1 .. 5
  BY <1>3
<1>5. exits = Exits(k) /\ Head(exits) = CloseAll[k] /\ Tail(exits) = Exits(k + 1)
  BY <1>2, <1>4, TheExits DEF Gone
<1>6. /\ CloseAll[1] = "log provider"
      /\ \A j \in 1 .. 4 : CloseAll[j + 1] = Untrace[j] /\ Untrace[j] # "log provider"
      /\ Untrace[4] = "tracer provider" /\ {Untrace[1], Untrace[2], Untrace[3]} = Library
  <2>1. /\ CloseAll[1] = "log provider" /\ CloseAll[2] = Untrace[1]
        /\ CloseAll[3] = Untrace[2] /\ CloseAll[4] = Untrace[3] /\ CloseAll[5] = Untrace[4]
        /\ Untrace[1] = "redis" /\ Untrace[2] = "psycopg2"
        /\ Untrace[3] = "django" /\ Untrace[4] = "tracer provider"
    <3>1. CloseAll = <<"log provider", "redis", "psycopg2", "django", "tracer provider">>
      BY TheExits
    <3> QED
      BY <3>1 DEF Untrace
  <2>2. \A j \in 1 .. 4 : (j = 1 /\ j + 1 = 2) \/ (j = 2 /\ j + 1 = 3)
                            \/ (j = 3 /\ j + 1 = 4) \/ (j = 4 /\ j + 1 = 5)
    OBVIOUS
  <2> QED
    BY <2>1, <2>2, Zenon DEF Library
<1>7. LifeTypeOK /\ TelemetryIsTaken
  BY DEF LifeInv
<1>8. /\ log_provider = "running" => raised \cap {"log provider", "set-up"} # {} \/ k = 1
      /\ \A j \in 1 .. 4 : StillUp(Untrace[j]) =>
            j + 1 >= k \/ \E i \in 1 .. j : Untrace[i] \in raised
      /\ k < 6 => \A j \in 1 .. 4 : j + 1 < k => Untrace[j] \notin instruments
  BY <1>2, Zenon DEF Gone
<1>9. \A j \in 1 .. 4 : j + 1 < k => Untrace[j] \notin instruments
  <2>1. k < 6
    BY <1>4
  <2> QED
    BY <1>8, <2>1, Zenon
<1>10. CASE Close
  <2> DEFINE e == CloseAll[k]
  <2>1. /\ exits' = Exits(k + 1) /\ raised' = raised
        /\ log_provider' = IF e = "log provider" THEN "down" ELSE log_provider
        /\ pending' = (pending /\ e # "log provider")
        /\ tracer_provider' = IF e = "tracer provider" THEN "down" ELSE tracer_provider
        /\ instruments' = instruments \ {e}
    BY <1>5, <1>10 DEF Close
  <2> HIDE DEF e
  <2>2. ASSUME NEW x, StillUp(x)'
        PROVE  StillUp(x) /\ x # e
    BY <2>1, <2>2, Zenon DEF StillUp
  <2>3. Gone(k + 1)'
    <3>1. log_provider' = "running" => raised' \cap {"log provider", "set-up"} # {}
      <4>1. log_provider' = "running" => log_provider = "running" /\ k # 1
        BY <1>6, <2>1 DEF e
      <4> QED
        BY <1>2, <2>1, <4>1 DEF Gone
    <3>2. ASSUME NEW j \in 1 .. 4, StillUp(Untrace[j])'
          PROVE  j + 1 >= k + 1 \/ \E i \in 1 .. j : Untrace[i] \in raised'
      <4>1. StillUp(Untrace[j]) /\ Untrace[j] # CloseAll[k]
        BY <2>2, <3>2, Zenon DEF e
      <4>2. j + 1 >= k \/ \E i \in 1 .. j : Untrace[i] \in raised
        BY <1>2, <4>1 DEF Gone
      <4>3. j + 1 # k
        BY <1>6, <4>1, Zenon
      <4>4. j + 1 >= k => j + 1 >= k + 1
        BY <1>4, <4>3
      <4> QED
        BY <2>1, <4>2, <4>4, Zenon
    <3>3. ASSUME k + 1 < 6, NEW j \in 1 .. 4, j + 1 < k + 1
          PROVE  Untrace[j] \notin instruments'
      <4>1. CASE j + 1 < k
        BY <1>9, <2>1, <4>1, Zenon
      <4>2. CASE j + 1 = k
        BY <1>6, <2>1, <4>2, Zenon DEF e
      <4> QED
        BY <1>4, <3>3, <4>1, <4>2
    <3> QED
      BY <2>1, <3>1, <3>2, <3>3 DEF Gone
  <2>4. TelemetryIsTaken'
    <3>1. ASSUME e = "tracer provider"
          PROVE  instruments = {}
      <4>1. k # 1 /\ k # 2 /\ k # 3 /\ k # 4
        <5>1. CloseAll[1] # "tracer provider" /\ CloseAll[2] # "tracer provider"
              /\ CloseAll[3] # "tracer provider" /\ CloseAll[4] # "tracer provider"
          <6>1. CloseAll = <<"log provider", "redis", "psycopg2", "django", "tracer provider">>
            BY TheExits
          <6> QED
            BY <6>1
        <5> QED
          BY <3>1, <5>1, Zenon DEF e
      <4>2. k = 5
        BY <1>4, <4>1
      <4>3. 1 \in 1 .. 4 /\ 2 \in 1 .. 4 /\ 3 \in 1 .. 4
            /\ 1 + 1 < 5 /\ 2 + 1 < 5 /\ 3 + 1 < 5
        OBVIOUS
      <4>4. Untrace[1] \notin instruments /\ Untrace[2] \notin instruments
            /\ Untrace[3] \notin instruments
        BY <1>9, <4>2, <4>3, Zenon
      <4> QED
        BY <1>6, <1>7, <4>4, Zenon DEF LifeTypeOK
    <3> QED
      BY <1>1, <1>7, <2>1, <3>1, Zenon DEF TelemetryIsTaken
  <2>5. LifeTypeOK'
    <3>1. \E j \in 0 .. Len(CloseAll) : exits' = SubSeq(CloseAll, j + 1, Len(CloseAll))
      <4>1. k + 1 \in 1 .. 6
        BY <1>4
      <4> QED
        BY <2>1, <4>1, ExitsType
    <3> QED
      BY <1>1, <1>7, <2>1, <3>1, Zenon DEF LifeTypeOK, settings, logging
  <2>6. k + 1 \in 1 .. 6
    BY <1>4
  <2> QED
    BY <1>1, <2>3, <2>4, <2>5, <2>6 DEF LifeInv
<1>11. CASE CloseRaises
  <2>1. /\ exits' = IF CloseAll[k] = "log provider" THEN Exits(k + 1) ELSE << >>
        /\ raised' = raised \cup {CloseAll[k]}
        /\ UNCHANGED <<log_provider, pending, tracer_provider, instruments>>
    BY <1>5, <1>11 DEF CloseRaises, Remaining, tracing, records
  <2>2. \A x : StillUp(x)' = StillUp(x)
    BY <2>1 DEF StillUp
  <2>3. ASSUME k = 1
        PROVE  \E n \in 1 .. 6 : Gone(n)'
    <3>1. exits' = Exits(2) /\ "log provider" \in raised'
      <4>1. 1 + 1 = 2
        OBVIOUS
      <4> QED
        BY <1>6, <2>1, <2>3, <4>1, Zenon
    <3>2. \A j \in 1 .. 4 : j + 1 >= 2 /\ ~(j + 1 < 2)
      OBVIOUS
    <3>3. Gone(2)'
      BY <3>1, <3>2, Zenon DEF Gone
    <3> QED
      BY <3>3
  <2>4. ASSUME k # 1
        PROVE  \E n \in 1 .. 6 : Gone(n)'
    <3>1. PICK m \in 1 .. 4 : k = m + 1
      BY <1>4, <2>4
    <3>2. CloseAll[k] = Untrace[m] /\ CloseAll[k] # "log provider"
      BY <1>6, <3>1, Zenon
    <3>3. exits' = Exits(6) /\ Untrace[m] \in raised' /\ raised \subseteq raised'
      BY <2>1, <3>2, TheExits, Zenon
    <3>4. log_provider' = "running" => raised' \cap {"log provider", "set-up"} # {}
      BY <1>2, <2>1, <2>4, Zenon DEF Gone
    <3>5. ASSUME NEW j \in 1 .. 4, StillUp(Untrace[j])'
          PROVE  \E i \in 1 .. j : Untrace[i] \in raised'
      <4>1. StillUp(Untrace[j])
        BY <2>2, <3>5, Zenon
      <4>2. j + 1 >= k \/ \E i \in 1 .. j : Untrace[i] \in raised
        BY <1>2, <4>1 DEF Gone
      <4>3. j + 1 >= k => m \in 1 .. j
        BY <3>1
      <4> QED
        BY <3>3, <4>2, <4>3, Zenon
    <3>6. Gone(6)'
      <4>1. ~(6 < 6)
        OBVIOUS
      <4> QED
        BY <3>3, <3>4, <3>5, <4>1, Zenon DEF Gone
    <3> QED
      BY <3>6
  <2>5. \E n \in 1 .. 6 : Gone(n)'
    BY <2>3, <2>4
  <2>6. LifeTypeOK'
    <3>1. \E j \in 0 .. Len(CloseAll) : exits' = SubSeq(CloseAll, j + 1, Len(CloseAll))
      BY <2>5, ExitsType DEF Gone
    <3>2. CloseAll[k] \in {"log provider", "tracer provider"} \cup Library
      <4>1. k = 1 \/ \E m \in 1 .. 4 : k = m + 1
        BY <1>4
      <4>2. \A m \in 1 .. 4 : m = 1 \/ m = 2 \/ m = 3 \/ m = 4
        OBVIOUS
      <4> QED
        BY <1>6, <4>1, <4>2, Zenon
    <3> QED
      BY <1>1, <1>7, <2>1, <3>1, <3>2, Zenon DEF LifeTypeOK, settings, logging
  <2>7. TelemetryIsTaken'
    BY <1>1, <1>7, <2>1, Zenon DEF TelemetryIsTaken
  <2> QED
    BY <1>1, <2>5, <2>6, <2>7 DEF LifeInv
<1> QED
  BY <1>10, <1>11

\* The rest leaves positions alone.
LEMMA OthersKeep ==
  ASSUME LifeInv,
         \/ \E who \in Thread, name \in {"root", "application"}, l \in Level : Emit(who, name, l)
         \/ Export \/ Leave \/ FinaliseTracing \/ ExitProcess \/ UNCHANGED lifeVars
  PROVE  LifeInv'
<1>1. ASSUME UNCHANGED <<settings, phase, todo, stack, tracing, log_provider, logging>>,
             lost' \subseteq Thread, "command" \notin lost', pending' => log_provider = "running"
      PROVE  LifeInv'
  <2>1. /\ otel' = otel /\ logLevel' = logLevel /\ appsNamed' = appsNamed /\ phase' = phase
        /\ todo' = todo /\ exits' = exits /\ raised' = raised
        /\ tracer_provider' = tracer_provider /\ instruments' = instruments
        /\ log_provider' = log_provider /\ levels' = levels /\ otelEvents' = otelEvents
    BY <1>1 DEF settings, stack, tracing, logging
  <2>2. LifeTypeOK' /\ TelemetryIsTaken'
    BY <1>1, <2>1, Zenon DEF LifeInv, LifeTypeOK, TelemetryIsTaken
  <2>3. ASSUME NEW k, At(k)
        PROVE  At(k)'
    BY <2>1, <2>3, Zenon DEF At, Configured, RootLevel
  <2>4. ASSUME NEW k, Gone(k)
        PROVE  Gone(k)'
    BY <2>1, <2>4, Zenon DEF Gone, StillUp
  <2> QED
    BY <2>1, <2>2, <2>3, <2>4, Zenon DEF LifeInv
<1>2. ASSUME NEW who \in Thread, NEW name \in {"root", "application"}, NEW l \in Level,
             Emit(who, name, l)
      PROVE  LifeInv'
  <2>1. who = "command" => log_provider = "running"
    <3>1. ASSUME who = "command"
          PROVE  At(13) /\ otelEvents
      BY <1>2, <3>1 DEF Emit, Sent, LifeInv
    <3>2. 13 > 2
      OBVIOUS
    <3> QED
      BY <3>1, <3>2, Zenon DEF At
  <2>2. lost \subseteq Thread /\ "command" \notin lost
    BY DEF LifeInv, LifeTypeOK, TelemetryIsTaken
  <2>3. lost' \subseteq Thread /\ "command" \notin lost' /\ (pending' => log_provider = "running")
    <3>1. CASE log_provider = "running"
      BY <1>2, <2>2, <3>1 DEF Emit
    <3>2. CASE log_provider # "running"
      BY <1>2, <2>1, <2>2, <3>2 DEF Emit, LifeInv, LifeTypeOK
    <3> QED
      BY <3>1, <3>2
  <2> QED
    BY <1>1, <1>2, <2>3 DEF Emit
<1>3. ASSUME Export \/ UNCHANGED lifeVars
      PROVE  LifeInv'
  <2>1. /\ UNCHANGED <<settings, phase, todo, stack, tracing, log_provider, logging>>
        /\ lost' = lost /\ (pending' => pending)
    BY <1>3 DEF Export, lifeVars, records
  <2>2. lost \subseteq Thread /\ "command" \notin lost /\ (pending => log_provider = "running")
    BY DEF LifeInv, LifeTypeOK, TelemetryIsTaken
  <2> QED
    BY <1>1, <2>1, <2>2
<1>4. CASE Leave
  <2>1. /\ phase = "closing" /\ exits = << >> /\ phase' = "left" /\ exits' = << >>
        /\ UNCHANGED <<settings, todo, stack, tracing, log_provider, records, logging>>
    BY <1>4 DEF Leave, stack
  <2>2. PICK k \in 1 .. 6 : Gone(k)
    BY <2>1 DEF LifeInv
  <2>3. Gone(k)'
    BY <2>1, <2>2, Zenon DEF Gone, StillUp, stack, tracing
  <2>4. LifeTypeOK' /\ TelemetryIsTaken'
    BY <2>1, Zenon
       DEF LifeInv, LifeTypeOK, TelemetryIsTaken, settings, stack, tracing, records, logging
  <2> QED
    BY <2>1, <2>3, <2>4 DEF LifeInv
<1>5. CASE FinaliseTracing
  <2>1. /\ phase = "failed" /\ phase' = "closing" /\ exits' = Untrace
        /\ UNCHANGED <<settings, todo, raised, tracing, log_provider, records, logging>>
    BY <1>5 DEF FinaliseTracing
  <2>2. exits' = Exits(2) /\ "set-up" \in raised'
    BY <2>1, TheExits, Zenon DEF LifeInv
  <2>3. \A j \in 1 .. 4 : j + 1 >= 2 /\ ~(j + 1 < 2)
    OBVIOUS
  <2>4. Gone(2)'
    BY <2>2, <2>3, Zenon DEF Gone
  <2>5. \E j \in 0 .. Len(CloseAll) : exits' = SubSeq(CloseAll, j + 1, Len(CloseAll))
    BY <2>2, ExitsType
  <2>6. LifeTypeOK' /\ TelemetryIsTaken'
    BY <2>1, <2>5, Zenon
       DEF LifeInv, LifeTypeOK, TelemetryIsTaken, settings, tracing, records, logging
  <2> QED
    BY <2>1, <2>4, <2>6 DEF LifeInv
<1>6. CASE ExitProcess
  <2>1. /\ phase' = "exited" /\ pending' = FALSE
        /\ log_provider' \in {log_provider, "down"}
        /\ tracer_provider' \in {tracer_provider, "down"}
        /\ phase # "set-up"
        /\ UNCHANGED <<settings, todo, stack, instruments, lost, logging>>
    BY <1>6 DEF ExitProcess
  <2>2. LifeTypeOK' /\ TelemetryIsTaken'
    BY <2>1, Zenon
       DEF LifeInv, LifeTypeOK, TelemetryIsTaken, settings, stack, logging
  <2> QED
    BY <2>1, <2>2 DEF LifeInv
<1> QED
  BY <1>2, <1>3, <1>4, <1>5, <1>6

\* The set-up begins at position 1, or 10 without OpenTelemetry.
LEMMA InitLife == LifeInit => LifeInv
<1> SUFFICES ASSUME LifeInit
             PROVE  LifeInv
  OBVIOUS
<1>1. LifeTypeOK
  <2>1. \E j \in 0 .. Len(CloseAll) : exits = SubSeq(CloseAll, j + 1, Len(CloseAll))
    <3>1. exits = Exits(6)
      BY TheExits, Zenon DEF LifeInit
    <3> QED
      BY <3>1, ExitsType
  <2>2. levels \in [root : Level, console : Level, application : Level]
    BY LevelAssumption DEF LifeInit
  <2> QED
    BY <2>1, <2>2 DEF LifeInit, LifeTypeOK
<1>2. \E k \in 1 .. 13 : todo = Left(k) /\ At(k)
  <2>1. CASE otel
    <3>1. todo = Left(1)
      BY <2>1, TheSteps, Zenon DEF LifeInit
    <3>2. At(1)
      BY <2>1 DEF LifeInit, At
    <3> QED
      BY <3>1, <3>2
  <2>2. CASE ~otel
    <3>1. todo = Left(10)
      <4>1. otel = FALSE
        BY <2>2 DEF LifeInit
      <4> QED
        BY <4>1, TheSteps, Zenon DEF LifeInit
    <3>2. At(10)
      BY <2>2 DEF LifeInit, At
    <3> QED
      BY <3>1, <3>2
  <2> QED
    BY <2>1, <2>2
<1> QED
  BY <1>1, <1>2 DEF LifeInit, LifeInv, TelemetryIsTaken

\* LifeInv is inductive.
LEMMA LifeInvariant == LifeSpec => []LifeInv
<1>1. LifeInv /\ [LifeNext]_lifeVars => LifeInv'
  BY TurnKeeps, BeforeTheExits, ExitsKeep, OthersKeep DEF LifeNext
<1> QED
  BY <1>1, InitLife, PTL DEF LifeSpec

\* However the command ends and whichever exits raise: once ensure_cli_env is
\* left, what is still up failed to come down itself, or came after what did in
\* the same finally block, or belongs to a set-up that failed half way.
THEOREM AllIsTornDown == LifeSpec => []TornDown
<1>1. LifeInv => TornDown
  <2> SUFFICES ASSUME LifeInv, phase = "left"
               PROVE  /\ log_provider = "running" => raised \cap {"log provider", "set-up"} # {}
                      /\ \A j \in DOMAIN Untrace : StillUp(Untrace[j])
                            => \E i \in 1 .. j : Untrace[i] \in raised
    BY DEF TornDown
  <2>1. PICK k \in 1 .. 6 : Gone(k)
    BY DEF LifeInv
  <2>2. k = 6
    <3>1. exits = << >> /\ exits = Exits(k)
      BY <2>1, Zenon DEF LifeInv, Gone
    <3>2. ~(k \in 1 .. 5)
      BY <3>1, TheExits, Zenon
    <3> QED
      BY <3>2
  <2>3. DOMAIN Untrace = 1 .. 4
    BY DEF Untrace
  <2>4. k # 1 /\ \A j \in 1 .. 4 : ~(j + 1 >= k)
    BY <2>2
  <2> QED
    BY <2>1, <2>3, <2>4, Zenon DEF Gone
<1> QED
  BY <1>1, LifeInvariant, PTL

\* A library that is instrumented has a provider that takes its spans as long as
\* the process lives, and no event of the command comes after the shutdown.
THEOREM AllTelemetryIsTaken == LifeSpec => []TelemetryIsTaken
<1>1. LifeInv => TelemetryIsTaken
  BY DEF LifeInv
<1> QED
  BY <1>1, LifeInvariant, PTL

\* What the console prints is what setup_logging documents, and OpenTelemetry
\* gets the WARNINGs that a higher LOG_LEVEL keeps from the console as well: for
\* any levels, of which INFO and WARNING are two.
THEOREM PrintsAndSends == LifeSpec => []PrintedAndSent
<1>1. LifeInv => PrintedAndSent
  <2> DEFINE least == IF logLevel < INFO \/ logLevel > WARNING THEN logLevel ELSE WARNING
             Outputs(l) ==
               /\ Printed("root", l) <=> l >= least
               /\ Printed("application", l) <=> l >= IF appsNamed THEN logLevel ELSE least
               /\ Sent("root", l) <=> otel /\ (Printed("root", l) \/ l >= WARNING)
  <2> SUFFICES ASSUME LifeInv, phase = "command"
               PROVE  /\ \A l \in Level : Outputs(l)
                      /\ logLevel > WARNING => levels.root = WARNING
    BY DEF PrintedAndSent
  <2>1. At(13) /\ logLevel \in Level /\ appsNamed \in BOOLEAN
    BY DEF LifeInv, LifeTypeOK
  <2>2. levels = Configured /\ (otelEvents <=> otel)
    <3>1. 13 > 10 /\ 13 > 11
      OBVIOUS
    <3> QED
      BY <2>1, <3>1, Zenon DEF At
  <2>3. /\ levels.root = RootLevel /\ levels.console = logLevel
        /\ levels.application = IF appsNamed THEN logLevel ELSE RootLevel
        /\ levels["root"] = levels.root /\ levels["application"] = levels.application
    BY <2>2 DEF Configured
  <2>4. logLevel \in Nat /\ INFO \in Nat /\ WARNING \in Nat
    BY <2>1, LevelAssumption
  <2>5. ASSUME NEW l \in Level PROVE Outputs(l)
    <3>1. /\ Printed("root", l) <=> l >= RootLevel /\ l >= logLevel
          /\ Printed("application", l) <=>
                l >= (IF appsNamed THEN logLevel ELSE RootLevel) /\ l >= logLevel
          /\ Sent("root", l) <=> l >= RootLevel /\ otel
      BY <2>2, <2>3, Zenon DEF Printed, Sent, Enabled
    <3>2. l \in Nat
      BY LevelAssumption
    <3>3. Printed("root", l) <=> l >= least
      BY <2>4, <3>1, <3>2 DEF RootLevel
    <3>4. Printed("application", l) <=> l >= IF appsNamed THEN logLevel ELSE least
      BY <2>1, <2>4, <3>1, <3>2 DEF RootLevel
    <3>5. l >= RootLevel <=> (l >= RootLevel /\ l >= logLevel) \/ l >= WARNING
      BY <2>4, <3>2, LevelAssumption DEF RootLevel
    <3>6. Sent("root", l) <=> otel /\ (Printed("root", l) \/ l >= WARNING)
      BY <3>1, <3>5, Zenon
    <3> QED
      BY <3>3, <3>4, <3>6
  <2>6. logLevel > WARNING => levels.root = WARNING
    BY <2>3, <2>4, LevelAssumption DEF RootLevel
  <2> QED
    BY <2>5, <2>6
<1> QED
  BY <1>1, LifeInvariant, PTL
=============================================================================

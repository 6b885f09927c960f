-------------------------- MODULE RunnerPoolProofs --------------------------
(* Theorems about RunnerPool: its variables keep their types, the runners    *)
(* are started one by one, and only trouble is reported as unhealthy.        *)
EXTENDS RunnerPool, TLAPS

\* A runner is absent until it is in the list, the last one is created before
\* it is started, and only a started runner has looked for tasks.
SpawnInv ==
    /\ \A r \in Runner : pc[r] = "absent" <=> r > threads
    /\ \A r \in Runner : pc[r] \in {"absent", "created"} => age[r] = Never
    /\ coord = "start" => threads \in Runner /\ pc[threads] = "created"

\* How long ago a runner looked for tasks: as long as its iteration takes,
\* and then, if that was within the grace period, no longer than it sleeps.
FreshInv ==
    \A r \in Runner : age[r] # Never =>
       /\ pc[r] \in {"tasks", "recurring"} => age[r] = took[r]
       /\ pc[r] = "sleep" /\ took[r] <= Grace => age[r] + rest[r] <= Grace + Sleep
       /\ pc[r] = "loop" /\ took[r] <= Grace => age[r] <= Grace + Sleep

PoolInv == PoolTypeOK /\ SpawnInv /\ FreshInv

LEMMA InitPool == PoolInit => PoolInv
<1> SUFFICES ASSUME PoolInit PROVE PoolInv
  OBVIOUS
<1> USE ConstantsAssumption DEF PoolInit, NoRunner
<1>1. PoolTypeOK
  BY DEF PoolTypeOK, Runner, MainPhase, CoordPhase, Phase
<1>2. SpawnInv /\ FreshInv
  BY DEF SpawnInv, FreshInv, Runner
<1>3. QED
  BY <1>1, <1>2 DEF PoolInv

\* The main thread only raises flags.
LEMMA MainKeeps == PoolInv /\ (Shutdown \/ StopNext) => PoolInv'
<1> USE ConstantsAssumption DEF PoolInv, PoolTypeOK, mainVars,
        coordVars, runnerVars, Runner, MainPhase
<1>1. ASSUME PoolInv, Shutdown PROVE PoolInv'
  <2>1. PoolTypeOK'
    BY <1>1 DEF Shutdown
  <2>2. SpawnInv'
    BY <1>1 DEF Shutdown, SpawnInv
  <2>3. FreshInv'
    BY <1>1 DEF Shutdown, FreshInv
  <2>4. QED
    BY <2>1, <2>2, <2>3
<1>2. ASSUME PoolInv, StopNext PROVE PoolInv'
  <2>1. PoolTypeOK'
    <3>1. CASE stopAt <= threads
      <4>1. stopped' = [stopped EXCEPT ![stopAt] = TRUE] /\ stopAt' = stopAt + 1
        BY <1>2, <3>1 DEF StopNext
      <4>2. stopped' \in [Runner -> BOOLEAN]
        <5>1. stopped \in [Runner -> BOOLEAN]
          BY <1>2
        <5>2. DOMAIN stopped' = Runner /\ \A r \in Runner : stopped'[r] \in BOOLEAN
          BY <4>1, <5>1, Zenon
        <5>3. QED
          BY <4>1, <5>1, <5>2, Zenon
      <4>3. stopAt' \in Nat
        BY <1>2, <4>1
      <4>4. QED
        BY <1>2, <3>1, <4>2, <4>3 DEF StopNext
    <3>2. CASE ~(stopAt <= threads)
      BY <1>2, <3>2 DEF StopNext
    <3>3. QED
      BY <3>1, <3>2
  <2>2. SpawnInv'
    BY <1>2 DEF StopNext, SpawnInv
  <2>3. FreshInv'
    BY <1>2 DEF StopNext, FreshInv
  <2>4. QED
    BY <2>1, <2>2, <2>3
<1>3. QED
  BY <1>1, <1>2

\* The coordinator starts runners in the order of the list.
LEMMA CoordinatorKeeps == PoolInv /\ Coordinate => PoolInv'
<1> USE ConstantsAssumption DEF PoolInv, PoolTypeOK, mainVars,
        coordVars, runnerVars, Runner, CoordPhase, Phase
<1>1. ASSUME PoolInv, Initialise PROVE PoolInv'
  <2>1. PoolTypeOK'
    BY <1>1 DEF Initialise
  <2>2. SpawnInv'
    BY <1>1 DEF Initialise, SpawnInv
  <2>3. FreshInv'
    BY <1>1 DEF Initialise, FreshInv
  <2>4. QED
    BY <2>1, <2>2, <2>3
<1>2. ASSUME PoolInv, AppendRunner PROVE PoolInv'
  <2>1. PoolTypeOK'
    <3>1. threads' \in 0 .. NumThreads /\ threads + 1 \in 1 .. NumThreads
      BY <1>2 DEF AppendRunner
    <3>2. pc' \in [1 .. NumThreads -> Phase]
      BY <1>2, <3>1 DEF AppendRunner
    <3>3. QED
      BY <1>2, <3>1, <3>2 DEF AppendRunner
  <2>2. SpawnInv'
    <3>1. /\ threads \in Nat /\ threads' = threads + 1 /\ threads' \in 1 .. NumThreads
          /\ age' = age /\ pc'[threads'] = "created"
          /\ \A r \in 1 .. NumThreads : r # threads' => pc'[r] = pc[r]
      BY <1>2 DEF AppendRunner
    <3>2. SpawnInv /\ pc[threads'] = "absent"
      BY <1>2, <3>1 DEF SpawnInv
    <3>3. age'[threads'] = Never
      BY <3>1, <3>2 DEF SpawnInv
    <3>4. QED
      BY <3>1, <3>2, <3>3 DEF SpawnInv
  <2>3. FreshInv'
    BY <1>2 DEF AppendRunner, FreshInv
  <2>4. QED
    BY <2>1, <2>2, <2>3
<1>3. ASSUME PoolInv, StartRunner PROVE PoolInv'
  <2>1. PoolTypeOK'
    BY <1>3 DEF StartRunner
  <2>2. SpawnInv'
    BY <1>3 DEF StartRunner, SpawnInv
  <2>3. FreshInv'
    BY <1>3 DEF StartRunner, FreshInv, SpawnInv
  <2>4. QED
    BY <2>1, <2>2, <2>3
<1>4. ASSUME PoolInv, AllStarted PROVE PoolInv'
  <2>1. PoolTypeOK'
    BY <1>4 DEF AllStarted
  <2>2. SpawnInv'
    BY <1>4 DEF AllStarted, SpawnInv
  <2>3. FreshInv'
    BY <1>4 DEF AllStarted, FreshInv
  <2>4. QED
    BY <2>1, <2>2, <2>3
<1>5. ASSUME PoolInv, Watch PROVE PoolInv'
  <2>1. PoolTypeOK'
    BY <1>5 DEF Watch
  <2>2. SpawnInv'
    BY <1>5 DEF Watch, SpawnInv
  <2>3. FreshInv'
    BY <1>5 DEF Watch, FreshInv
  <2>4. QED
    BY <2>1, <2>2, <2>3
<1>6. ASSUME PoolInv, Look PROVE PoolInv'
  <2>1. PoolTypeOK'
    BY <1>6 DEF Look, Unhealthy
  <2>2. SpawnInv'
    BY <1>6 DEF Look, Unhealthy, SpawnInv
  <2>3. FreshInv'
    BY <1>6 DEF Look, Unhealthy, FreshInv
  <2>4. QED
    BY <2>1, <2>2, <2>3
<1>7. ASSUME PoolInv, Join PROVE PoolInv'
  <2>1. PoolTypeOK'
    <3>1. CASE joined < threads
      <4>1. joined' = joined + 1 /\ coord' = coord
        BY <1>7, <3>1 DEF Join
      <4>2. joined' \in 0 .. NumThreads
        BY <1>7, <3>1, <4>1
      <4>3. QED
        BY <1>7, <4>1, <4>2 DEF Join
    <3>2. CASE ~(joined < threads)
      BY <1>7, <3>2 DEF Join
    <3>3. QED
      BY <3>1, <3>2
  <2>2. SpawnInv'
    BY <1>7 DEF Join, SpawnInv
  <2>3. FreshInv'
    BY <1>7 DEF Join, FreshInv
  <2>4. QED
    BY <2>1, <2>2, <2>3
<1>8. QED
  BY <1>1, <1>2, <1>3, <1>4, <1>5, <1>6, <1>7 DEF Coordinate

\* The end of the loop body for one database.
LEMMA NextDatabaseKeeps ==
    ASSUME NEW r \in Runner, PoolInv, pc[r] \in {"tasks", "recurring"},
           NextDatabase(r), UNCHANGED <<threads, coord, age, took>>
    PROVE  /\ db' \in [Runner -> Nat] /\ rest' \in [Runner -> Nat]
           /\ pc' \in [Runner -> Phase]
           /\ SpawnInv' /\ FreshInv'
<1> USE ConstantsAssumption DEF PoolInv, PoolTypeOK, SpawnInv, FreshInv, Phase
<1>1. CASE db[r] < Len(Databases)
  <2>1. /\ db' = [db EXCEPT ![r] = @ + 1]
        /\ pc' = [pc EXCEPT ![r] = "tasks"]
        /\ rest' = rest
    BY <1>1 DEF NextDatabase
  <2>2. QED
    BY <2>1
<1>2. CASE ~(db[r] < Len(Databases))
  <2>1. /\ pc' = [pc EXCEPT ![r] = "sleep"]
        /\ rest' = [rest EXCEPT ![r] = Sleep]
        /\ db' = db
    BY <1>2 DEF NextDatabase
  <2>2. QED
    BY <2>1
<1>3. QED
  BY <1>1, <1>2

\* A runner's own step.
LEMMA RunnerKeeps ==
    ASSUME NEW r \in Runner, PoolInv,
           BeginIteration(r) \/ End(r) \/ Iterate(r) \/ Wake(r)
    PROVE  PoolInv'
<1> USE ConstantsAssumption DEF PoolInv, PoolTypeOK, mainVars,
        coordVars, Runner, Phase
<1>1. CASE BeginIteration(r)
  <2>1. PoolTypeOK'
    BY <1>1 DEF BeginIteration
  <2>2. SpawnInv'
    BY <1>1 DEF BeginIteration, SpawnInv
  <2>3. FreshInv'
    BY <1>1 DEF BeginIteration, FreshInv
  <2>4. QED
    BY <2>1, <2>2, <2>3
<1>2. CASE End(r)
  <2>1. PoolTypeOK'
    BY <1>2 DEF End
  <2>2. SpawnInv'
    BY <1>2 DEF End, SpawnInv
  <2>3. FreshInv'
    BY <1>2 DEF End, FreshInv
  <2>4. QED
    BY <2>1, <2>2, <2>3
<1>3. CASE TasksFail(r)
  <2>1. /\ db' \in [Runner -> Nat] /\ rest' \in [Runner -> Nat]
        /\ pc' \in [Runner -> Phase] /\ SpawnInv' /\ FreshInv'
    BY <1>3, NextDatabaseKeeps DEF TasksFail
  <2>2. PoolTypeOK'
    <3>1. /\ tried' = [tried EXCEPT ![r] = @ \cup {db[r]}]
          /\ UNCHANGED <<mainVars, coordVars, stopped, age, took>>
      BY <1>3 DEF TasksFail
    <3>2. tried' \in [Runner -> SUBSET Nat]
      BY <3>1
    <3>3. QED
      BY <2>1, <3>1, <3>2
  <2>3. QED
    BY <2>1, <2>2
<1>4. CASE TasksDone(r)
  <2>1. CASE HasRecurring(db[r])
    <3>1. PoolTypeOK'
      <4>1. /\ pc' = [pc EXCEPT ![r] = "recurring"]
            /\ tried' = [tried EXCEPT ![r] = @ \cup {db[r]}]
        BY <1>4, <2>1 DEF TasksDone
      <4>2. pc' \in [Runner -> Phase]
        BY <4>1
      <4>3. tried' \in [Runner -> SUBSET Nat]
        <5>1. tried[r] \cup {db[r]} \in SUBSET Nat
          OBVIOUS
        <5>2. QED
          BY <4>1, <5>1
      <4>4. QED
        BY <1>4, <2>1, <4>2, <4>3 DEF TasksDone
    <3>2. SpawnInv' /\ FreshInv'
      BY <1>4, <2>1 DEF TasksDone, SpawnInv, FreshInv
    <3>3. QED
      BY <3>1, <3>2
  <2>2. CASE ~HasRecurring(db[r])
    <3>1. /\ db' \in [Runner -> Nat] /\ rest' \in [Runner -> Nat]
          /\ pc' \in [Runner -> Phase] /\ SpawnInv' /\ FreshInv'
      BY <1>4, <2>2, NextDatabaseKeeps DEF TasksDone
    <3>2. PoolTypeOK'
      BY <1>4, <3>1 DEF TasksDone
    <3>3. QED
      BY <3>1, <3>2
  <2>3. QED
    BY <2>1, <2>2
<1>5. CASE RecurringDone(r)
  <2>1. /\ db' \in [Runner -> Nat] /\ rest' \in [Runner -> Nat]
        /\ pc' \in [Runner -> Phase] /\ SpawnInv' /\ FreshInv'
    BY <1>5, NextDatabaseKeeps DEF RecurringDone
  <2>2. PoolTypeOK'
    BY <1>5, <2>1 DEF RecurringDone
  <2>3. QED
    BY <2>1, <2>2
<1>6. CASE Die(r)
  <2>1. PoolTypeOK'
    BY <1>6 DEF Die
  <2>2. SpawnInv'
    BY <1>6 DEF Die, SpawnInv
  <2>3. FreshInv'
    BY <1>6 DEF Die, FreshInv
  <2>4. QED
    BY <2>1, <2>2, <2>3
<1>7. CASE Wake(r)
  <2>1. PoolTypeOK'
    BY <1>7 DEF Wake
  <2>2. SpawnInv'
    BY <1>7 DEF Wake, SpawnInv
  <2>3. FreshInv'
    <3>1. /\ pc' = [pc EXCEPT ![r] = "loop"] /\ pc[r] = "sleep" /\ rest[r] = 0
          /\ UNCHANGED <<age, took, rest>>
      BY <1>7 DEF Wake
    <3> SUFFICES ASSUME NEW s \in Runner, age[s] # Never
                 PROVE  /\ pc'[s] \in {"tasks", "recurring"} => age[s] = took[s]
                        /\ pc'[s] = "sleep" /\ took[s] <= Grace
                              => age[s] + rest[s] <= Grace + Sleep
                        /\ pc'[s] = "loop" /\ took[s] <= Grace
                              => age[s] <= Grace + Sleep
      BY <3>1 DEF FreshInv
    <3>2. CASE s = r
      BY <3>1, <3>2 DEF FreshInv
    <3>3. CASE s # r
      BY <3>1, <3>3 DEF FreshInv
    <3>4. QED
      BY <3>2, <3>3
  <2>4. QED
    BY <2>1, <2>2, <2>3
<1>8. QED
  BY <1>1, <1>2, <1>3, <1>4, <1>5, <1>6, <1>7 DEF Iterate

\* Time: an iteration gets longer, a sleep shorter, and everybody looks older.
LEMMA TickKeeps == PoolInv /\ PoolTick => PoolInv'
<1> SUFFICES ASSUME PoolInv, PoolTick PROVE PoolInv'
  OBVIOUS
<1> USE ConstantsAssumption DEF PoolInv, PoolTypeOK, Older, mainVars
<1>1. ASSUME NEW r \in Runner
      PROVE  /\ age'[r] = IF age[r] = Never THEN Never ELSE Older(age[r])
             /\ took'[r] = IF pc[r] \in {"tasks", "recurring"}
                           THEN Older(took[r]) ELSE took[r]
             /\ rest'[r] = IF pc[r] = "sleep" THEN rest[r] - 1 ELSE rest[r]
             /\ pc[r] # "loop" /\ (pc[r] = "sleep" => rest[r] > 0)
             /\ pc' = pc
  BY <1>1 DEF PoolTick
<1>2. PoolTypeOK'
  <2>1. nap' \in Nat
    BY DEF PoolTick
  <2>2. rest' \in [Runner -> Nat]
    BY DEF PoolTick
  <2>3. age' \in [Runner -> Nat \cup {Never}] /\ took' \in [Runner -> Nat]
    BY DEF PoolTick
  <2>4. QED
    BY <2>1, <2>2, <2>3 DEF PoolTick
<1>3. SpawnInv'
  BY <1>1 DEF SpawnInv, PoolTick
<1>4. FreshInv'
  <2> SUFFICES ASSUME NEW r \in Runner, age'[r] # Never
               PROVE  /\ pc[r] \in {"tasks", "recurring"} => age'[r] = took'[r]
                      /\ pc[r] = "sleep" /\ took'[r] <= Grace
                            => age'[r] + rest'[r] <= Grace + Sleep
                      /\ pc[r] # "loop"
    BY <1>1 DEF FreshInv
  <2>1. age[r] \in Nat /\ age'[r] = Older(age[r])
    BY <1>1, Zenon DEF PoolTypeOK
  <2>2. CASE pc[r] \in {"tasks", "recurring"}
    <3>1. age[r] = took[r]
      BY <2>1, <2>2 DEF FreshInv
    <3>2. QED
      BY <1>1, <2>1, <2>2, <3>1
  <2>3. CASE pc[r] \notin {"tasks", "recurring"}
    <3>1. took'[r] = took[r] /\ pc[r] # "loop"
      BY <1>1, <2>3
    <3>2. CASE pc[r] = "sleep" /\ took[r] <= Grace
      <4>1. age[r] + rest[r] <= Grace + Sleep
        BY <2>1, <3>2 DEF FreshInv
      <4>2. rest'[r] = rest[r] - 1 /\ rest[r] \in Nat
        BY <1>1, <3>2
      <4>3. age'[r] <= age[r] + 1
        BY <2>1
      <4>4. QED
        BY <2>1, <2>3, <3>1, <4>1, <4>2, <4>3
    <3>3. QED
      BY <2>3, <3>1, <3>2
  <2>4. QED
    BY <2>2, <2>3
<1>5. QED
  BY <1>2, <1>3, <1>4

LEMMA NextPool == PoolInv /\ [PoolNext]_poolVars => PoolInv'
<1> SUFFICES ASSUME PoolInv, [PoolNext]_poolVars PROVE PoolInv'
  OBVIOUS
<1>1. CASE UNCHANGED poolVars
  BY <1>1 DEF PoolInv, PoolTypeOK, SpawnInv, FreshInv, poolVars, mainVars, coordVars, runnerVars
<1>2. QED
  BY <1>1, MainKeeps, CoordinatorKeeps, RunnerKeeps, TickKeeps DEF PoolNext

LEMMA PoolSafe == PoolSpec => []PoolInv
  BY InitPool, NextPool, PTL DEF PoolSpec

\* The variables of the container keep their types: thread list, join and
\* stop loops stay within it, naps within their length.
THEOREM TypeCorrect == PoolSpec => []PoolTypeOK
<1>1. PoolInv => PoolTypeOK
  BY DEF PoolInv
<1>2. QED
  BY <1>1, PoolSafe, PTL

\* For any number of threads, databases and any intervals: a live runner that
\* has looked for tasks is reported only if its last iteration took longer
\* than the grace period.
THEOREM OnlyTroubleIsReported == PoolSpec => []NoFalseAlarm
<1>1. PoolInv => NoFalseAlarm
  <2> SUFFICES ASSUME PoolInv, NEW r \in Unhealthy, IsAlive(r), age[r] # Never
               PROVE  took[r] > Grace
    BY DEF NoFalseAlarm
  <2>1. r \in Runner /\ age[r] > Grace + Sleep
    BY ConstantsAssumption DEF Unhealthy, PoolInv, PoolTypeOK, Runner
  <2>2. pc[r] \in {"tasks", "recurring", "sleep", "loop"}
    BY <2>1 DEF IsAlive, PoolInv, PoolTypeOK, Phase
  <2>3. age[r] \in Nat
    BY <2>1, Zenon DEF PoolInv, PoolTypeOK
  <2>4. took[r] \in Nat /\ rest[r] \in Nat
    BY <2>1 DEF PoolInv, PoolTypeOK
  <2>5. /\ pc[r] \in {"tasks", "recurring"} => age[r] = took[r]
        /\ pc[r] = "sleep" /\ took[r] <= Grace => age[r] + rest[r] <= Grace + Sleep
        /\ pc[r] = "loop" /\ took[r] <= Grace => age[r] <= Grace + Sleep
    BY <2>1 DEF PoolInv, FreshInv
  <2>6. QED
    BY <2>1, <2>2, <2>3, <2>4, <2>5, ConstantsAssumption
<1>2. QED
  BY <1>1, PoolSafe, PTL

-----------------------------------------------------------------------------
(* The databases.  Within an iteration those before the current one have been *)
(* tried, and the current one once its tasks are over.                        *)

CoverageOK(r) ==
    /\ pc[r] \in {"tasks", "recurring"} => db[r] \in 1 .. Len(Databases)
    /\ pc[r] = "tasks" => tried[r] = 1 .. db[r] - 1
    /\ pc[r] = "recurring" => tried[r] = 1 .. db[r]
    /\ pc[r] = "sleep" => tried[r] = 1 .. Len(Databases)

CoverageInv == PoolTypeOK /\ \A r \in Runner : CoverageOK(r)

LEMMA DatabasesListed == Len(Databases) \in Nat \ {0} /\ DOMAIN Databases = 1 .. Len(Databases)
BY ConstantsAssumption

\* With the current database tried, the loop goes on to the next or sleeps.
LEMMA NextDatabaseCovers ==
    ASSUME PoolTypeOK, NEW r \in Runner, NextDatabase(r),
           db[r] \in 1 .. Len(Databases), tried'[r] = 1 .. db[r]
    PROVE  CoverageOK(r)'
<1>1. Len(Databases) \in Nat
  BY DatabasesListed
<1>2. CASE db[r] < Len(Databases)
  <2>1. pc'[r] = "tasks" /\ db'[r] = db[r] + 1
    BY <1>2 DEF NextDatabase, PoolTypeOK
  <2>2. db'[r] \in 1 .. Len(Databases) /\ db'[r] - 1 = db[r]
    BY <1>1, <1>2, <2>1
  <2>3. QED
    BY <2>1, <2>2 DEF CoverageOK
<1>3. CASE ~(db[r] < Len(Databases))
  <2>1. pc'[r] = "sleep" /\ db[r] = Len(Databases)
    BY <1>1, <1>3 DEF NextDatabase, PoolTypeOK
  <2>2. QED
    BY <2>1 DEF CoverageOK
<1>4. QED
  BY <1>2, <1>3

LEMMA CoverageNext == CoverageInv /\ PoolTypeOK' /\ [PoolNext]_poolVars => CoverageInv'
<1> SUFFICES ASSUME CoverageInv, PoolTypeOK', [PoolNext]_poolVars
             PROVE  \A r \in Runner : CoverageOK(r)'
  BY DEF CoverageInv
<1> USE DEF CoverageInv, PoolTypeOK
<1>1. ASSUME NEW r \in Runner, tried'[r] = tried[r], db'[r] = db[r],
             pc'[r] = pc[r] \/ pc'[r] \notin {"tasks", "recurring", "sleep"}
      PROVE  CoverageOK(r)'
  BY <1>1 DEF CoverageOK
<1>2. ASSUME NEW r \in Runner, BeginIteration(r) PROVE CoverageOK(r)'
  <2>1. pc'[r] = "tasks" /\ db'[r] = 1 /\ tried'[r] = {}
    BY <1>2 DEF BeginIteration
  <2>2. 1 \in 1 .. Len(Databases) /\ 1 .. 1 - 1 = {}
    BY DatabasesListed
  <2>3. QED
    BY <2>1, <2>2 DEF CoverageOK
<1>3. ASSUME NEW r \in Runner, TasksFail(r) \/ TasksDone(r) PROVE CoverageOK(r)'
  <2>1. /\ pc[r] = "tasks" /\ tried'[r] = tried[r] \cup {db[r]}
        /\ db[r] \in 1 .. Len(Databases) /\ tried[r] = 1 .. db[r] - 1
    BY <1>3 DEF TasksFail, TasksDone, CoverageOK
  <2>2. tried'[r] = 1 .. db[r]
    <3>1. db[r] \in Nat \ {0}
      BY <2>1, DatabasesListed
    <3>2. (1 .. db[r] - 1) \cup {db[r]} = 1 .. db[r]
      BY <3>1
    <3>3. QED
      BY <2>1, <3>2
  <2>3. CASE NextDatabase(r)
    BY <2>1, <2>2, <2>3, NextDatabaseCovers
  <2>4. CASE pc' = [pc EXCEPT ![r] = "recurring"] /\ UNCHANGED <<db, rest>>
    BY <2>1, <2>2, <2>4 DEF CoverageOK
  <2>5. QED
    BY <1>3, <2>3, <2>4 DEF TasksFail, TasksDone
<1>4. ASSUME NEW r \in Runner, RecurringDone(r) PROVE CoverageOK(r)'
  <2>1. db[r] \in 1 .. Len(Databases) /\ tried'[r] = 1 .. db[r]
    BY <1>4 DEF RecurringDone, CoverageOK
  <2>2. QED
    BY <1>4, <2>1, NextDatabaseCovers DEF RecurringDone
<1>5. ASSUME NEW r \in Runner, End(r) \/ Die(r) \/ Wake(r) PROVE CoverageOK(r)'
  BY <1>1, <1>5 DEF End, Die, Wake
<1>6. ASSUME NEW r \in Runner, BeginIteration(r) \/ End(r) \/ Iterate(r) \/ Wake(r)
      PROVE  \A s \in Runner : CoverageOK(s)'
  <2>1. CoverageOK(r)'
    BY <1>2, <1>3, <1>4, <1>5, <1>6 DEF Iterate
  <2>2. ASSUME NEW s \in Runner, s # r PROVE CoverageOK(s)'
    <3>1. pc'[s] = pc[s] /\ db'[s] = db[s] /\ tried'[s] = tried[s]
      <4>1. CASE BeginIteration(r) \/ End(r) \/ Die(r) \/ Wake(r)
        BY <1>1, <2>2, <4>1 DEF BeginIteration, End, Die, Wake
      <4>2. CASE TasksFail(r) \/ TasksDone(r) \/ RecurringDone(r)
        <5>1. /\ \E d : db' = [db EXCEPT ![r] = d]
              /\ \E p : pc' = [pc EXCEPT ![r] = p]
              /\ \E d : tried' = [tried EXCEPT ![r] = d]
          <6>1. /\ db' = [db EXCEPT ![r] = db'[r]] /\ pc' = [pc EXCEPT ![r] = pc'[r]]
            BY <1>1, <4>2 DEF TasksFail, TasksDone, RecurringDone, NextDatabase
          <6>2. tried' = [tried EXCEPT ![r] = tried'[r]]
            BY <1>1, <4>2 DEF TasksFail, TasksDone, RecurringDone
          <6>3. QED
            BY <6>1, <6>2
        <5>2. QED
          BY <1>1, <2>2, <5>1
      <4>3. QED
        BY <1>6, <4>1, <4>2 DEF Iterate
    <3>2. QED
      BY <1>1, <3>1
  <2>3. QED
    BY <2>1, <2>2
<1>7. ASSUME AppendRunner \/ StartRunner PROVE \A r \in Runner : CoverageOK(r)'
  BY <1>1, <1>7 DEF AppendRunner, StartRunner
<1>8. ASSUME UNCHANGED <<pc, db, tried>> PROVE \A r \in Runner : CoverageOK(r)'
  BY <1>1, <1>8
<1>9. \/ Shutdown \/ StopNext \/ Initialise \/ AllStarted \/ Watch \/ Look \/ Join
      \/ PoolTick \/ UNCHANGED poolVars
      => UNCHANGED <<pc, db, tried>>
  BY DEF Shutdown, StopNext, Initialise, AllStarted, Watch, Look, Join, PoolTick,
         poolVars, runnerVars
<1>10. QED
  BY <1>6, <1>7, <1>8, <1>9 DEF PoolNext, Coordinate

\* For any list of databases, an error in one keeps no runner from the next:
\* a runner sleeps only after it has tried all of them.
THEOREM AllDatabasesTried == PoolSpec => []EveryDatabaseTried
<1>1. PoolInit => CoverageInv
  <2>1. PoolInit => PoolTypeOK
    BY InitPool DEF PoolInv
  <2>2. QED
    BY <2>1 DEF PoolInit, NoRunner, CoverageInv, CoverageOK
<1>2. CoverageInv /\ PoolTypeOK' /\ [PoolNext]_poolVars => CoverageInv'
  BY CoverageNext
<1>3. CoverageInv => EveryDatabaseTried
  BY DatabasesListed DEF CoverageInv, CoverageOK, EveryDatabaseTried
<1>4. PoolInv => PoolTypeOK
  BY DEF PoolInv
<1>5. QED
  BY <1>1, <1>2, <1>3, <1>4, PoolSafe, PTL DEF PoolSpec
=============================================================================

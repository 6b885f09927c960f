-------------------------- MODULE TaskQueueSafety --------------------------
(* Why no task is claimed twice or started too often, whatever crashes: types *)
(* first, then the inductive invariant of the queue, the theorems that follow *)
(* from it, and the refinement of TaskLifecycle, for every number of tasks,   *)
(* workers, processes and producers, every batch size and number of attempts. *)
EXTENDS TaskQueue, FiniteSetTheorems, TLAPS

-----------------------------------------------------------------------------
(* Type correctness.                                                         *)

\* A worker that awaits a future knows the task, which has no result yet.
AwaitOK ==
    \A w \in Worker : pc[w] = "exec" =>
       current[w] \in claimed[w] /\ result[w][current[w]] = "NONE"

TypeInv == TypeOK /\ AwaitOK

LEMMA BlankType == Blank \in Row /\ NoCopies \in [Task -> Row]
                   /\ NoResults \in [Task -> Result] /\ NoRuns \in Runs
                   /\ Zero \in [Task -> Nat]
<1>1. (CHOOSE i \in Ident : TRUE) \in Ident
  BY ConstantsAssumption
<1>2. Blank \in Row
  BY <1>1 DEF Blank, Row
<1>3. QED
  BY <1>2 DEF NoCopies, NoResults, NoRuns, Zero, Result, Runs

\* The updates of rows and instances that the actions make are well typed.
LEMMA RowLocked ==
    ASSUME NEW r \in Row
    PROVE  [r EXCEPT !.locked = TRUE] \in Row
BY DEF Row

LEMMA RowMarked ==
    ASSUME NEW r \in Row
    PROVE  MarkSuccess(r) \in Row /\ MarkFailure(r) \in Row
<1>1. MarkSuccess(r) \in Row
  BY DEF Row, MarkSuccess
<1>2. ASSUME NEW n \in Nat PROVE [r EXCEPT !.locked = FALSE, !.fails = n] \in Row
  BY DEF Row
<1>3. r.fails + 1 \in Nat
  BY DEF Row
<1>4. [r EXCEPT !.locked = FALSE, !.fails = r.fails + 1] \in Row
  BY <1>2, <1>3, Zenon
<1>5. MarkFailure(r) \in Row
  BY <1>4, Zenon DEF MarkFailure
<1>6. QED
  BY <1>1, <1>5

LEMMA RowRescheduled ==
    ASSUME NEW r \in Row, NEW n \in Nat
    PROVE  [r EXCEPT !.sched = n] \in Row
BY DEF Row

LEMMA RowSaved ==
    ASSUME NEW r \in Row, NEW c \in Row
    PROVE  Written(r, c) \in Row
<1>1. ASSUME NEW d \in BOOLEAN, NEW n \in Nat, NEW l \in BOOLEAN, NEW s \in Nat
      PROVE  [r EXCEPT !.completed = d, !.fails = n, !.locked = l, !.sched = s] \in Row
  BY DEF Row
<1>2. c.completed \in BOOLEAN /\ c.fails \in Nat /\ c.locked \in BOOLEAN /\ c.sched \in Nat
  BY DEF Row
<1>3. QED
  BY <1>1, <1>2, Zenon DEF Written

LEMMA RowCreated ==
    ASSUME NEW q \in Request, NEW n \in Nat
    PROVE  [Blank EXCEPT !.ident = q.ident, !.sched = q.sched, !.created = n] \in Row
<1>1. q.ident \in Ident /\ q.sched \in Nat
  BY DEF Request
<1>2. QED
  BY <1>1, BlankType DEF Row

LEMMA LockType ==
    ASSUME TypeOK, NEW S \in SUBSET Task, Lock(S)
    PROVE  row' \in [Task -> Row]
BY RowLocked DEF TypeOK, Lock

\* What Reset makes of the worker's variables is well typed.
LEMMA ResetType ==
    ASSUME TypeInv, NEW w \in Worker, NEW phase \in {"idle", "dead"}, Reset(w, phase)
    PROVE  /\ pc' \in [Worker -> Phase]
           /\ claimed' \in [Worker -> SUBSET Task]
           /\ copy' \in [Worker -> [Task -> Row]]
           /\ result' \in [Worker -> [Task -> Result]]
           /\ current' \in [Worker -> Task \cup {None}]
           /\ AwaitOK'
<1>1. /\ pc' \in [Worker -> Phase]
      /\ claimed' \in [Worker -> SUBSET Task]
      /\ copy' \in [Worker -> [Task -> Row]]
      /\ result' \in [Worker -> [Task -> Result]]
      /\ current' \in [Worker -> Task \cup {None}]
  BY BlankType DEF TypeInv, TypeOK, Reset, Phase
<1>2. AwaitOK'
  BY DEF TypeInv, TypeOK, AwaitOK, Reset
<1>3. QED
  BY <1>1, <1>2

\* The outcome of an awaited task is well typed, whatever it is.
LEMMA FinishType ==
    ASSUME TypeInv, NEW w \in Worker, pc[w] = "exec", NEW r \in Row,
           NEW res \in Result, Finish(w, r, res)
    PROVE  /\ pc' \in [Worker -> Phase]
           /\ copy' \in [Worker -> [Task -> Row]]
           /\ result' \in [Worker -> [Task -> Result]]
           /\ current' \in [Worker -> Task \cup {None}]
           /\ AwaitOK'
<1>1. current[w] \in Task
  BY DEF TypeInv, TypeOK, AwaitOK
<1>2. /\ pc' \in [Worker -> Phase]
      /\ copy' \in [Worker -> [Task -> Row]]
      /\ result' \in [Worker -> [Task -> Result]]
      /\ current' \in [Worker -> Task \cup {None}]
  BY <1>1 DEF TypeInv, TypeOK, Finish, Phase
<1>3. AwaitOK'
  BY <1>1 DEF TypeInv, TypeOK, AwaitOK, Finish
<1>4. QED
  BY <1>2, <1>3

LEMMA InitType == Init => TypeInv
BY BlankType DEF Init, TypeInv, TypeOK, AwaitOK, Status, Phase

LEMMA NextType == TypeInv /\ [Next]_vars => TypeInv'
<1> SUFFICES ASSUME TypeInv, [Next]_vars PROVE TypeInv'
  OBVIOUS
<1>1. ASSUME NEW p \in Producer, NEW i \in Ident, CreateTask(p, i) PROVE TypeInv'
  <2>1. PICK d \in Delays :
           request' = [request EXCEPT ![p] = [ident |-> i, sched |-> now + d]]
    BY <1>1 DEF CreateTask
  <2>2. [ident |-> i, sched |-> now + d] \in Request
    BY ConstantsAssumption DEF Request, TypeInv, TypeOK
  <2>3. request' \in [Producer -> Request \cup {None}]
    BY <2>1, <2>2 DEF TypeInv, TypeOK
  <2>4. QED
    BY <1>1, <2>3 DEF CreateTask, dbVars, workerVars, history, TypeInv, TypeOK, AwaitOK
<1>2. ASSUME NEW p \in Producer, SaveTask(p) PROVE TypeInv'
  <2>1. PICK t \in Task :
          /\ status' = [status EXCEPT ![t] = "present"]
          /\ row' = [row EXCEPT ![t] =
                       [Blank EXCEPT !.ident = request[p].ident,
                                     !.sched = request[p].sched,
                                     !.created = now]]
    BY <1>2 DEF SaveTask
  <2>2. request[p] \in Request /\ now \in Nat
    BY <1>2 DEF SaveTask, TypeInv, TypeOK
  <2>3. [Blank EXCEPT !.ident = request[p].ident, !.sched = request[p].sched,
                      !.created = now] \in Row
    BY <2>2, RowCreated
  <2>4. row' \in [Task -> Row] /\ status' \in [Task -> Status]
    BY <2>1, <2>3 DEF TypeInv, TypeOK, Status
  <2>5. QED
    BY <1>2, <2>4 DEF SaveTask, workerVars, history, TypeInv, TypeOK, AwaitOK
<1>3. ASSUME NEW p \in Producer, DropRequest(p) PROVE TypeInv'
  BY <1>3 DEF DropRequest, dbVars, workerVars, history, TypeInv, TypeOK, AwaitOK
<1>4. ASSUME NEW w \in Worker, Pop(w) PROVE TypeInv'
  <2>1. PICK S \in SUBSET Task :
          /\ Lock(S)
          /\ claimed' = [claimed EXCEPT ![w] = S]
          /\ copy' = [copy EXCEPT ![w] =
                        [t \in Task |-> IF t \in S
                                        THEN [row[t] EXCEPT !.locked = TRUE]
                                        ELSE Blank]]
    BY <1>4 DEF Pop, Eligible
  <2>2. row' \in [Task -> Row]
    BY <2>1, LockType DEF TypeInv
  <2>3. \A t \in Task : [row[t] EXCEPT !.locked = TRUE] \in Row
    BY RowLocked DEF TypeInv, TypeOK
  <2>4. [t \in Task |-> IF t \in S THEN [row[t] EXCEPT !.locked = TRUE]
                                    ELSE Blank] \in [Task -> Row]
    BY <2>3, BlankType
  <2>5. copy' \in [Worker -> [Task -> Row]]
    BY <2>1, <2>4 DEF TypeInv, TypeOK
  <2>6. claimed' \in [Worker -> SUBSET Task] /\ pc' \in [Worker -> Phase]
    BY <1>4, <2>1 DEF Pop, TypeInv, TypeOK, Phase
  <2>7. AwaitOK'
    BY <1>4, <2>1 DEF Pop, TypeInv, TypeOK, AwaitOK
  <2>8. QED
    BY <1>4, <2>2, <2>5, <2>6, <2>7 DEF Pop, history, TypeInv, TypeOK
<1>5. ASSUME NEW w \in Worker, StartTask(w) PROVE TypeInv'
  <2>1. PICK t \in Task : /\ IsNextOf(w, t)
                          /\ current' = [current EXCEPT ![w] = t]
                          /\ execs' = [execs EXCEPT ![t] = @ + 1]
    BY <1>5 DEF StartTask
  <2>2. current' \in [Worker -> Task \cup {None}] /\ execs' \in [Task -> Nat]
        /\ pc' \in [Worker -> Phase]
    BY <1>5, <2>1 DEF StartTask, TypeInv, TypeOK, Phase
  <2>3. AwaitOK'
    BY <1>5, <2>1 DEF StartTask, IsNextOf, Todo, TypeInv, TypeOK, AwaitOK
  <2>4. QED
    BY <1>5, <2>2, <2>3 DEF StartTask, dbVars, TypeInv, TypeOK
<1>6. ASSUME NEW w \in Worker, Await(w) PROVE TypeInv'
  <2>1. pc[w] = "exec" /\ current[w] \in Task /\ copy[w] \in [Task -> Row]
    BY <1>6 DEF Await, Succeed, Fail, BackOff, TimeOut, TypeInv, TypeOK, AwaitOK
  <2>2. copy[w][current[w]] \in Row
    BY <2>1
  <2>3. PICK r \in Row, res \in Result : Finish(w, r, res)
    <3>1. /\ MarkSuccess(copy[w][current[w]]) \in Row
          /\ MarkFailure(copy[w][current[w]]) \in Row
      BY <2>2, RowMarked
    <3>2. "SUCCESS" \in Result /\ "FAILURE" \in Result
      BY DEF Result
    <3>3. CASE Succeed(w) \/ Fail(w) \/ TimeOut(w)
      BY <3>1, <3>2, <3>3 DEF Succeed, Fail, TimeOut
    <3>4. CASE BackOff(w)
      <4>1. PICK d \in Delays :
               Finish(w, [MarkFailure(copy[w][current[w]]) EXCEPT !.sched = now + d],
                      "FAILURE")
        BY <3>4 DEF BackOff
      <4>2. now + d \in Nat
        BY ConstantsAssumption DEF TypeInv, TypeOK
      <4>3. QED
        BY <3>1, <3>2, <4>1, <4>2, RowRescheduled
    <3>5. QED
      BY <1>6, <3>3, <3>4 DEF Await
  <2>4. CASE Succeed(w)
    <3>1. effects' = [effects EXCEPT ![current[w]] = @ + 1]
      BY <2>4 DEF Succeed
    <3>2. effects' \in [Task -> Nat]
      BY <2>1, <3>1 DEF TypeInv, TypeOK
    <3>3. timeouts' = timeouts /\ zombies' = zombies
      BY <2>4 DEF Succeed
    <3>4. QED
      BY <2>3, <3>2, <3>3, FinishType, <2>1 DEF Finish, dbVars, TypeInv, TypeOK
  <2>5. CASE Fail(w) \/ BackOff(w)
    <3>1. effects' = effects /\ timeouts' = timeouts /\ zombies' = zombies
      BY <2>5 DEF Fail, BackOff
    <3>2. QED
      BY <2>3, <3>1, FinishType, <2>1 DEF Finish, dbVars, TypeInv, TypeOK
  <2>6. CASE TimeOut(w)
    <3>1. /\ timeouts' = [timeouts EXCEPT ![current[w]] = @ + 1]
          /\ zombies' = [zombies EXCEPT ![ProcessOf[w]][current[w]] = @ + 1]
          /\ effects' = effects
      BY <2>6, Zenon DEF TimeOut
    <3>2. timeouts' \in [Task -> Nat]
      BY <2>1, <3>1 DEF TypeInv, TypeOK
    <3>3. ProcessOf[w] \in Process
      BY ConstantsAssumption
    <3>4. zombies' \in [Process -> [Task -> Nat]]
      BY <2>1, <3>1, <3>3 DEF TypeInv, TypeOK
    <3>5. QED
      BY <2>3, <3>1, <3>2, <3>4, FinishType, <2>1 DEF Finish, dbVars, TypeInv, TypeOK
  <2>7. QED
    BY <1>6, <2>4, <2>5, <2>6 DEF Await
<1>7. ASSUME NEW w \in Worker, SaveTasks(w) PROVE TypeInv'
  <2>1. \A t \in Task : Written(row[t], copy[w][t]) \in Row
    BY RowSaved DEF TypeInv, TypeOK
  <2>2. row' \in [Task -> Row]
    BY <1>7, <2>1 DEF SaveTasks, TypeInv, TypeOK
  <2>3. copy' \in [Worker -> [Task -> Row]] /\ pc' \in [Worker -> Phase]
    BY <1>7, BlankType DEF SaveTasks, TypeInv, TypeOK, Phase
  <2>4. AwaitOK'
    BY <1>7 DEF SaveTasks, TypeInv, TypeOK, AwaitOK
  <2>5. QED
    BY <1>7, <2>2, <2>3, <2>4 DEF SaveTasks, history, TypeInv, TypeOK
<1>8. ASSUME NEW w \in Worker, SaveRuns(w) PROVE TypeInv'
  <2>1. \A t \in Task : /\ [runs[t] EXCEPT !.ok = @ + 1] \in Runs
                        /\ [runs[t] EXCEPT !.fail = @ + 1] \in Runs
    BY DEF TypeInv, TypeOK, Runs
  <2>2. runs' \in [Task -> Runs]
    BY <1>8, <2>1 DEF SaveRuns, TypeInv, TypeOK
  <2>3. QED
    BY <1>8, <2>2, ResetType DEF SaveRuns, history, TypeInv, TypeOK
<1>9. ASSUME NEW w \in Worker,
             AbortUnregistered(w) \/ SaveError(w) \/ ThreadDies(w)
      PROVE  TypeInv'
  BY <1>9, ResetType
     DEF AbortUnregistered, SaveError, ThreadDies, dbVars, history, TypeInv, TypeOK
<1>10. ASSUME NEW p \in Process, NEW t \in Task, ZombieEnds(p, t) PROVE TypeInv'
  <2>1. zombies' \in [Process -> [Task -> Nat]] /\ effects' \in [Task -> Nat]
    BY <1>10 DEF ZombieEnds, TypeInv, TypeOK
  <2>2. QED
    BY <1>10, <2>1 DEF ZombieEnds, dbVars, workerVars, TypeInv, TypeOK, AwaitOK
<1>11. CASE CleanUp
  <2>1. PICK S \in SUBSET Task :
          /\ status' = [t \in Task |-> IF t \in S THEN "deleted" ELSE status[t]]
          /\ row' = [t \in Task |-> IF t \in S THEN Blank ELSE row[t]]
          /\ runs' = [t \in Task |-> IF t \in S THEN NoRuns ELSE runs[t]]
    BY <1>11 DEF CleanUp, Purgeable
  <2>2. /\ status' \in [Task -> Status] /\ row' \in [Task -> Row]
        /\ runs' \in [Task -> Runs]
    BY <2>1, BlankType DEF TypeInv, TypeOK, Status
  <2>3. QED
    BY <1>11, <2>2 DEF CleanUp, workerVars, history, TypeInv, TypeOK, AwaitOK
<1>12. CASE Tick
  BY <1>12 DEF Tick, dbVars, workerVars, history, TypeInv, TypeOK, AwaitOK
<1>13. ASSUME NEW w \in Worker, PopReplyLost(w) PROVE TypeInv'
  <2>1. PICK S \in SUBSET Task : Lock(S)
    BY <1>13 DEF PopReplyLost, Eligible
  <2>2. row' \in [Task -> Row]
    BY <2>1, LockType DEF TypeInv
  <2>3. QED
    BY <1>13, <2>2 DEF PopReplyLost, workerVars, history, TypeInv, TypeOK, AwaitOK
<1>14. ASSUME NEW p \in Process, Crash(p) PROVE TypeInv'
  <2>1. /\ pc' \in [Worker -> Phase] /\ claimed' \in [Worker -> SUBSET Task]
        /\ copy' \in [Worker -> [Task -> Row]]
        /\ result' \in [Worker -> [Task -> Result]]
        /\ current' \in [Worker -> Task \cup {None}]
        /\ zombies' \in [Process -> [Task -> Nat]]
    BY <1>14, BlankType DEF Crash, TypeInv, TypeOK, Phase
  <2>2. AwaitOK'
    BY <1>14 DEF Crash, TypeInv, TypeOK, AwaitOK
  <2>3. QED
    BY <1>14, <2>1, <2>2 DEF Crash, dbVars, TypeInv, TypeOK
<1>15. ASSUME NEW p \in Process, Restart(p) PROVE TypeInv'
  BY <1>15 DEF Restart, dbVars, history, TypeInv, TypeOK, AwaitOK, Phase
<1>16. CASE UNCHANGED vars
  BY <1>16 DEF vars, dbVars, workerVars, history, TypeInv, TypeOK, AwaitOK
<1>17. QED
  BY <1>1, <1>2, <1>3, <1>4, <1>5, <1>6, <1>7, <1>8, <1>9, <1>10, <1>11, <1>12,
     <1>13, <1>14, <1>15, <1>16
     DEF Next, ReliableNext, Fault, Produce, Loop

\* Tables, workers and history variables keep their types in every behaviour.
THEOREM TypeCorrect == Spec => []TypeOK
<1>1. TypeInv => TypeOK
  BY DEF TypeInv
<1>2. QED
  BY <1>1, InitType, NextType, PTL DEF Spec

-----------------------------------------------------------------------------
(* The inductive invariant.                                                  *)

\* The row of a held task is locked and unfinished.
RowHeld(t) ==
    /\ status[t] = "present"
    /\ row[t].locked /\ ~row[t].completed
    /\ row[t].fails < MaxFailures

\* Its instance still is the row, or differs from it by exactly one outcome.
InstanceOK(w, t) ==
    IF result[w][t] = "NONE"
    THEN /\ pc[w] # "save"
         /\ copy[w][t].locked /\ ~copy[w][t].completed
         /\ copy[w][t].fails = row[t].fails
    ELSE /\ ~copy[w][t].locked
         /\ copy[w][t].fails = IF copy[w][t].completed THEN row[t].fails
                                                       ELSE row[t].fails + 1

ClaimInv == \A w \in Worker : \A t \in Held(w) : RowHeld(t) /\ InstanceOK(w, t)

ClaimsDisjoint == \A w, v \in Worker : w # v => Held(w) \cap Held(v) = {}

\* A worker without a batch has no TaskRuns to save.
RestInv ==
    \A w \in Worker : pc[w] \in {"idle", "dead", "down"} => result[w] = NoResults

\* Every start is accounted for by a failure on the row, or by the one that
\* the lock or the completion stands for.
RowAttempts(t) ==
    /\ row[t].fails <= MaxFailures
    /\ row[t].locked => ~row[t].completed
    /\ IF row[t].locked \/ row[t].completed
       THEN row[t].fails < MaxFailures /\ execs[t] <= row[t].fails + 1
       ELSE execs[t] <= row[t].fails

AttemptInv ==
    \A t \in Task :
       /\ status[t] = "absent" => execs[t] = 0
       /\ status[t] = "present" => RowAttempts(t)
       /\ status[t] = "deleted" => execs[t] <= MaxFailures

\* A held task that has not been started in this batch.
FreshInv ==
    \A w \in Worker : \A t \in Held(w) :
       result[w][t] = "NONE" /\ ~(pc[w] = "exec" /\ current[w] = t)
       => execs[t] <= row[t].fails

QueueInv == ClaimInv /\ ClaimsDisjoint /\ RestInv /\ AttemptInv /\ FreshInv

SafetyInv == TypeInv /\ QueueInv

-----------------------------------------------------------------------------
(* Steps that leave the batches and the rows alone, or only drop batches.    *)

LEMMA RowFacts ==
    ASSUME TypeInv, NEW t \in Task
    PROVE  row[t] \in Row /\ row[t].fails \in Nat /\ row[t].locked \in BOOLEAN
           /\ row[t].completed \in BOOLEAN /\ execs[t] \in Nat
           /\ status[t] \in Status
BY DEF TypeInv, TypeOK, Row

LEMMA HeldType == TypeInv => \A w \in Worker : Held(w) \in SUBSET Task
BY DEF TypeInv, TypeOK, Held

\* Each worker either goes on as it was or lets its batch go.
LetGo ==
    /\ UNCHANGED <<status, row, execs>>
    /\ \A v \in Worker :
          \/ /\ pc'[v] = pc[v] /\ claimed'[v] = claimed[v] /\ copy'[v] = copy[v]
             /\ result'[v] = result[v] /\ current'[v] = current[v]
          \/ pc'[v] \in {"idle", "dead", "down"} /\ result'[v] = NoResults

LEMMA LetGoStep == SafetyInv /\ LetGo => QueueInv'
<1> SUFFICES ASSUME SafetyInv, LetGo PROVE QueueInv'
  OBVIOUS
<1>1. \A v \in Worker : \/ Held(v)' = {}
                        \/ /\ Held(v)' = Held(v)
                           /\ pc'[v] = pc[v] /\ copy'[v] = copy[v]
                           /\ result'[v] = result[v] /\ current'[v] = current[v]
  BY DEF LetGo, Held
<1>2. status' = status /\ row' = row /\ execs' = execs
  BY DEF LetGo
<1>3. ClaimInv'
  BY <1>1, <1>2 DEF SafetyInv, QueueInv, ClaimInv, RowHeld, InstanceOK
<1>4. ClaimsDisjoint'
  BY <1>1 DEF SafetyInv, QueueInv, ClaimsDisjoint
<1>5. RestInv'
  BY DEF LetGo, SafetyInv, QueueInv, RestInv
<1>6. AttemptInv'
  BY <1>2 DEF SafetyInv, QueueInv, AttemptInv, RowAttempts
<1>7. FreshInv'
  BY <1>1, <1>2 DEF SafetyInv, QueueInv, FreshInv
<1>8. QED
  BY <1>3, <1>4, <1>5, <1>6, <1>7 DEF QueueInv

LEMMA ResetStep ==
    ASSUME SafetyInv, NEW w \in Worker, NEW phase \in {"idle", "dead"},
           Reset(w, phase), UNCHANGED <<status, row, execs>>
    PROVE  QueueInv'
<1>1. LetGo
  BY DEF Reset, LetGo, SafetyInv, TypeInv, TypeOK
<1>2. QED
  BY <1>1, LetGoStep

LEMMA QuietStep ==
    ASSUME SafetyInv, UNCHANGED <<status, row, workerVars, execs>>
    PROVE  QueueInv'
<1>1. LetGo
  BY DEF workerVars, LetGo
<1>2. QED
  BY <1>1, LetGoStep

-----------------------------------------------------------------------------
(* Steps that write rows.                                                    *)

\* A new row is nobody's.
LEMMA SaveTaskStep ==
    ASSUME SafetyInv, NEW p \in Producer, SaveTask(p)
    PROVE  QueueInv'
<1>1. PICK t \in Task :
        /\ status[t] = "absent"
        /\ status' = [status EXCEPT ![t] = "present"]
        /\ row' = [row EXCEPT ![t] =
                     [Blank EXCEPT !.ident = request[p].ident,
                                   !.sched = request[p].sched,
                                   !.created = now]]
  BY DEF SaveTask
<1>2. /\ row'[t].fails = 0 /\ row'[t].locked = FALSE /\ row'[t].completed = FALSE
      /\ status'[t] = "present"
      /\ \A u \in Task \ {t} : row'[u] = row[u] /\ status'[u] = status[u]
  BY <1>1 DEF SafetyInv, TypeInv, TypeOK, Blank
<1>3. /\ execs' = execs /\ copy' = copy /\ result' = result /\ pc' = pc
      /\ current' = current /\ claimed' = claimed
      /\ \A w \in Worker : Held(w)' = Held(w)
  BY DEF SaveTask, workerVars, history, Held
<1>4. \A w \in Worker : t \notin Held(w) /\ Held(w) \subseteq Task
  BY <1>1, HeldType DEF SafetyInv, QueueInv, ClaimInv, RowHeld
<1>5. ClaimInv'
  BY <1>2, <1>3, <1>4 DEF SafetyInv, QueueInv, ClaimInv, RowHeld, InstanceOK
<1>6. ClaimsDisjoint' /\ RestInv'
  BY <1>3 DEF SafetyInv, QueueInv, ClaimsDisjoint, RestInv
<1>7. AttemptInv'
  BY <1>1, <1>2, <1>3, ConstantsAssumption
     DEF SafetyInv, QueueInv, AttemptInv, RowAttempts
<1>8. FreshInv'
  BY <1>2, <1>3, <1>4 DEF SafetyInv, QueueInv, FreshInv
<1>9. QED
  BY <1>5, <1>6, <1>7, <1>8 DEF QueueInv

\* What locking the rows of S does to them.
LEMMA LockEffect ==
    ASSUME TypeInv, NEW S \in SUBSET Task, Lock(S)
    PROVE  \A t \in Task :
              /\ row'[t].fails = row[t].fails
              /\ row'[t].completed = row[t].completed
              /\ row'[t].locked = (t \in S \/ row[t].locked)
<1> SUFFICES ASSUME NEW t \in Task
             PROVE  /\ row'[t].fails = row[t].fails
                    /\ row'[t].completed = row[t].completed
                    /\ row'[t].locked = (t \in S \/ row[t].locked)
  OBVIOUS
<1>1. row[t] \in Row
  BY RowFacts
<1>2. CASE t \in S
  <2>1. row'[t] = [row[t] EXCEPT !.locked = TRUE]
    BY <1>2 DEF Lock
  <2>2. QED
    BY <1>1, <1>2, <2>1 DEF Row
<1>3. CASE t \notin S
  <2>1. row'[t] = row[t]
    BY <1>3 DEF Lock
  <2>2. QED
    BY <1>1, <1>3, <2>1 DEF Row
<1>4. QED
  BY <1>2, <1>3

\* A batch of eligible rows is locked; nobody held them.
LEMMA LockStep ==
    ASSUME SafetyInv, NEW S \in SUBSET Eligible, Lock(S), UNCHANGED <<status, execs>>
    PROVE  /\ AttemptInv'
           /\ \A t \in S : RowHeld(t)' /\ execs'[t] <= row'[t].fails
           /\ \A w \in Worker : S \cap Held(w) = {}
           /\ \A t \in Task \ S : row'[t] = row[t]
<1>1. S \in SUBSET Task
  BY DEF Eligible
<1>2. \A t \in Task : /\ row'[t].fails = row[t].fails
                      /\ row'[t].completed = row[t].completed
                      /\ row'[t].locked = (t \in S \/ row[t].locked)
  BY <1>1, LockEffect DEF SafetyInv
<1>3. \A t \in S : /\ status[t] = "present" /\ row[t].fails < MaxFailures
                   /\ ~row[t].completed /\ ~row[t].locked
  BY DEF Eligible
<1>4. \A t \in S : execs[t] <= row[t].fails
  BY <1>1, <1>3 DEF SafetyInv, QueueInv, AttemptInv, RowAttempts
<1>5. AttemptInv'
  <2> SUFFICES ASSUME NEW t \in Task
               PROVE  /\ status[t] = "absent" => execs[t] = 0
                      /\ status[t] = "present" => RowAttempts(t)'
                      /\ status[t] = "deleted" => execs[t] <= MaxFailures
    BY DEF AttemptInv
  <2>1. /\ status[t] = "absent" => execs[t] = 0
        /\ status[t] = "present" => RowAttempts(t)
        /\ status[t] = "deleted" => execs[t] <= MaxFailures
    BY DEF SafetyInv, QueueInv, AttemptInv
  <2>2. row[t].fails \in Nat /\ execs[t] \in Nat
    BY RowFacts DEF SafetyInv
  <2>3. CASE t \in S
    BY <1>2, <1>3, <1>4, <2>1, <2>2, <2>3 DEF RowAttempts
  <2>4. CASE t \notin S
    BY <1>2, <2>1, <2>2, <2>4 DEF RowAttempts
  <2>5. QED
    BY <2>3, <2>4
<1>6. \A t \in S : RowHeld(t)' /\ execs'[t] <= row'[t].fails
  BY <1>1, <1>2, <1>3, <1>4 DEF RowHeld
<1>7. \A w \in Worker : S \cap Held(w) = {}
  BY <1>3 DEF SafetyInv, QueueInv, ClaimInv, RowHeld
<1>8. \A t \in Task \ S : row'[t] = row[t]
  BY DEF Lock
<1>9. QED
  BY <1>5, <1>6, <1>7, <1>8

LEMMA PopReplyLostStep ==
    ASSUME SafetyInv, NEW w \in Worker, PopReplyLost(w)
    PROVE  QueueInv'
<1>1. PICK S \in SUBSET Eligible : Lock(S)
  BY DEF PopReplyLost
<1>2. /\ status' = status /\ execs' = execs /\ copy' = copy /\ result' = result
      /\ pc' = pc /\ current' = current /\ claimed' = claimed
      /\ \A v \in Worker : Held(v)' = Held(v)
  BY DEF PopReplyLost, workerVars, history, Held
<1>3. /\ AttemptInv'
      /\ \A v \in Worker : S \cap Held(v) = {}
      /\ \A t \in Task \ S : row'[t] = row[t]
  BY <1>1, <1>2, LockStep
<1>4. \A v \in Worker : \A t \in Held(v) : row'[t] = row[t]
  BY <1>3, HeldType DEF SafetyInv
<1>5. ClaimInv' /\ FreshInv'
  BY <1>2, <1>4 DEF SafetyInv, QueueInv, ClaimInv, FreshInv, RowHeld, InstanceOK
<1>6. ClaimsDisjoint' /\ RestInv'
  BY <1>2 DEF SafetyInv, QueueInv, ClaimsDisjoint, RestInv
<1>7. QED
  BY <1>3, <1>5, <1>6 DEF QueueInv

LEMMA PopStep ==
    ASSUME SafetyInv, NEW w \in Worker, Pop(w)
    PROVE  QueueInv'
<1>1. PICK S \in SUBSET Eligible :
        /\ Lock(S)
        /\ claimed' = [claimed EXCEPT ![w] = S]
        /\ copy' = [copy EXCEPT ![w] =
                      [t \in Task |-> IF t \in S
                                      THEN [row[t] EXCEPT !.locked = TRUE]
                                      ELSE Blank]]
  BY DEF Pop
<1>2. /\ status' = status /\ execs' = execs /\ result' = result
      /\ current' = current /\ pc[w] = "idle" /\ pc' = [pc EXCEPT ![w] = "run"]
  BY DEF Pop, history
<1>3. /\ AttemptInv'
      /\ \A t \in S : RowHeld(t)' /\ execs'[t] <= row'[t].fails
      /\ \A v \in Worker : S \cap Held(v) = {}
      /\ \A t \in Task \ S : row'[t] = row[t]
  BY <1>1, <1>2, LockStep
<1>4. Held(w)' = S /\ pc'[w] = "run"
  BY <1>1, <1>2 DEF Held, SafetyInv, TypeInv, TypeOK
<1>5. \A v \in Worker \ {w} :
         /\ Held(v)' = Held(v) /\ pc'[v] = pc[v] /\ copy'[v] = copy[v]
         /\ \A t \in Held(v) : row'[t] = row[t]
  <2>1. \A v \in Worker \ {w} :
           Held(v)' = Held(v) /\ pc'[v] = pc[v] /\ copy'[v] = copy[v]
    BY <1>1, <1>2 DEF Held, SafetyInv, TypeInv, TypeOK
  <2>2. \A v \in Worker : \A t \in Held(v) : row'[t] = row[t]
    BY <1>3, HeldType DEF SafetyInv
  <2>3. QED
    BY <2>1, <2>2
<1>6. \A t \in S : result'[w][t] = "NONE"
  BY <1>2 DEF SafetyInv, QueueInv, RestInv, NoResults, Eligible
<1>7. \A t \in S : InstanceOK(w, t)'
  <2> SUFFICES ASSUME NEW t \in S PROVE InstanceOK(w, t)'
    OBVIOUS
  <2>1. t \in Task /\ row[t] \in Row /\ ~row[t].completed
    BY RowFacts DEF SafetyInv, Eligible
  <2>2. copy'[w][t] = [row[t] EXCEPT !.locked = TRUE]
    BY <1>1, <2>1 DEF SafetyInv, TypeInv, TypeOK
  <2>3. copy'[w][t].locked /\ ~copy'[w][t].completed /\ copy'[w][t].fails = row[t].fails
    BY <2>1, <2>2 DEF Row
  <2>4. row'[t].fails = row[t].fails
    BY <1>1, <2>1, LockEffect DEF SafetyInv, Eligible
  <2>5. QED
    BY <1>4, <1>6, <2>3, <2>4 DEF InstanceOK
<1>8. ClaimInv'
  <2> SUFFICES ASSUME NEW v \in Worker, NEW t \in Held(v)'
               PROVE  RowHeld(t)' /\ InstanceOK(v, t)'
    BY DEF ClaimInv
  <2>1. CASE v = w
    BY <1>3, <1>4, <1>7, <2>1
  <2>2. CASE v # w
    <3>1. t \in Held(v) /\ RowHeld(t) /\ InstanceOK(v, t)
      BY <1>5, <2>2 DEF SafetyInv, QueueInv, ClaimInv
    <3>2. QED
      BY <1>2, <1>5, <2>2, <3>1 DEF RowHeld, InstanceOK
  <2>3. QED
    BY <2>1, <2>2
<1>9. ClaimsDisjoint'
  BY <1>3, <1>4, <1>5 DEF SafetyInv, QueueInv, ClaimsDisjoint
<1>10. RestInv'
  BY <1>2 DEF SafetyInv, TypeInv, TypeOK, QueueInv, RestInv
<1>11. FreshInv'
  <2> SUFFICES ASSUME NEW v \in Worker, NEW t \in Held(v)', result'[v][t] = "NONE",
                      ~(pc'[v] = "exec" /\ current'[v] = t)
               PROVE  execs'[t] <= row'[t].fails
    BY DEF FreshInv
  <2>1. CASE v = w
    BY <1>3, <1>4, <2>1
  <2>2. CASE v # w
    BY <1>2, <1>5, <2>2 DEF SafetyInv, QueueInv, FreshInv
  <2>3. QED
    BY <2>1, <2>2
<1>12. QED
  BY <1>3, <1>8, <1>9, <1>10, <1>11 DEF QueueInv

\* The clean-up never touches a row that is held.
LEMMA CleanUpStep ==
    ASSUME SafetyInv, CleanUp
    PROVE  QueueInv'
<1>1. PICK S \in SUBSET Purgeable :
        /\ status' = [t \in Task |-> IF t \in S THEN "deleted" ELSE status[t]]
        /\ row' = [t \in Task |-> IF t \in S THEN Blank ELSE row[t]]
  BY DEF CleanUp
<1>2. /\ execs' = execs /\ copy' = copy /\ result' = result
      /\ pc' = pc /\ current' = current
      /\ \A w \in Worker : Held(w)' = Held(w)
  BY DEF CleanUp, workerVars, history, Held
<1>3. \A t \in S : /\ t \in Task /\ status[t] = "present"
                   /\ row[t].completed \/ row[t].fails >= MaxFailures
  BY DEF Purgeable
<1>4. \A w \in Worker : \A t \in Held(w) :
         t \in Task /\ t \notin S /\ row'[t] = row[t] /\ status'[t] = status[t]
  <2> SUFFICES ASSUME NEW w \in Worker, NEW t \in Held(w)
               PROVE  t \in Task /\ t \notin S /\ row'[t] = row[t] /\ status'[t] = status[t]
    OBVIOUS
  <2>1. t \in Task
    BY HeldType DEF SafetyInv
  <2>2. ~row[t].completed /\ row[t].fails < MaxFailures /\ row[t].fails \in Nat
    BY <2>1, RowFacts DEF SafetyInv, QueueInv, ClaimInv, RowHeld
  <2>3. t \notin S
    BY <1>3, <2>2, ConstantsAssumption
  <2>4. QED
    BY <1>1, <2>1, <2>3
<1>5. ClaimInv' /\ FreshInv'
  BY <1>2, <1>4 DEF SafetyInv, QueueInv, ClaimInv, FreshInv, RowHeld, InstanceOK
<1>6. ClaimsDisjoint' /\ RestInv'
  BY <1>2 DEF SafetyInv, QueueInv, ClaimsDisjoint, RestInv
<1>7. AttemptInv'
  <2> SUFFICES ASSUME NEW t \in Task
               PROVE  /\ status'[t] = "absent" => execs'[t] = 0
                      /\ status'[t] = "present" => RowAttempts(t)'
                      /\ status'[t] = "deleted" => execs'[t] <= MaxFailures
    BY DEF AttemptInv
  <2>1. /\ status[t] = "absent" => execs[t] = 0
        /\ status[t] = "present" => RowAttempts(t)
        /\ status[t] = "deleted" => execs[t] <= MaxFailures
    BY DEF SafetyInv, QueueInv, AttemptInv
  <2>2. CASE t \in S
    <3>1. row[t].fails \in Nat /\ execs[t] \in Nat
      BY RowFacts DEF SafetyInv
    <3>2. execs[t] <= MaxFailures
      BY <1>3, <2>1, <2>2, <3>1, ConstantsAssumption DEF RowAttempts
    <3>3. QED
      BY <1>1, <1>2, <2>2, <3>2
  <2>3. CASE t \notin S
    BY <1>1, <1>2, <2>1, <2>3 DEF RowAttempts
  <2>4. QED
    BY <2>2, <2>3
<1>8. QED
  BY <1>5, <1>6, <1>7 DEF QueueInv

-----------------------------------------------------------------------------
(* Steps of a worker through its batch.                                      *)

LEMMA StartTaskStep ==
    ASSUME SafetyInv, NEW w \in Worker, StartTask(w)
    PROVE  QueueInv'
<1>1. PICK t \in Task : /\ IsNextOf(w, t)
                        /\ current' = [current EXCEPT ![w] = t]
                        /\ execs' = [execs EXCEPT ![t] = @ + 1]
  BY DEF StartTask
<1>2. /\ status' = status /\ row' = row /\ copy' = copy /\ result' = result
      /\ claimed' = claimed /\ pc[w] = "run" /\ pc' = [pc EXCEPT ![w] = "exec"]
  BY DEF StartTask, dbVars
<1>3. \A v \in Worker : Held(v)' = Held(v)
  BY <1>2 DEF Held, SafetyInv, TypeInv, TypeOK
<1>4. t \in Held(w) /\ result[w][t] = "NONE"
  BY <1>1, <1>2 DEF IsNextOf, Todo, Held
<1>5. RowHeld(t) /\ execs[t] <= row[t].fails
  BY <1>2, <1>4 DEF SafetyInv, QueueInv, ClaimInv, FreshInv
<1>6. execs'[t] = execs[t] + 1 /\ \A u \in Task \ {t} : execs'[u] = execs[u]
  BY <1>1 DEF SafetyInv, TypeInv, TypeOK
<1>7. pc'[w] = "exec" /\ \A v \in Worker \ {w} : pc'[v] = pc[v] /\ current'[v] = current[v]
  BY <1>1, <1>2 DEF SafetyInv, TypeInv, TypeOK
<1>8. ClaimInv'
  BY <1>2, <1>3, <1>7 DEF SafetyInv, QueueInv, ClaimInv, RowHeld, InstanceOK
<1>9. ClaimsDisjoint' /\ RestInv'
  BY <1>2, <1>3, <1>7 DEF SafetyInv, QueueInv, ClaimsDisjoint, RestInv
<1>10. AttemptInv'
  <2> SUFFICES ASSUME NEW u \in Task
               PROVE  /\ status[u] = "absent" => execs'[u] = 0
                      /\ status[u] = "present" => RowAttempts(u)'
                      /\ status[u] = "deleted" => execs'[u] <= MaxFailures
    BY <1>2 DEF AttemptInv
  <2>1. /\ status[u] = "absent" => execs[u] = 0
        /\ status[u] = "present" => RowAttempts(u)
        /\ status[u] = "deleted" => execs[u] <= MaxFailures
    BY DEF SafetyInv, QueueInv, AttemptInv
  <2>2. CASE u = t
    <3>1. row[t].fails \in Nat /\ execs[t] \in Nat
      BY RowFacts DEF SafetyInv
    <3>2. QED
      BY <1>2, <1>5, <1>6, <2>1, <2>2, <3>1 DEF RowHeld, RowAttempts
  <2>3. CASE u # t
    BY <1>2, <1>6, <2>1, <2>3 DEF RowAttempts
  <2>4. QED
    BY <2>2, <2>3
<1>11. FreshInv'
  <2> SUFFICES ASSUME NEW v \in Worker, NEW u \in Held(v), result[v][u] = "NONE",
                      ~(pc'[v] = "exec" /\ current'[v] = u)
               PROVE  execs'[u] <= row[u].fails
    BY <1>2, <1>3 DEF FreshInv
  <2>1. u # t
    <3>1. CASE v = w
      BY <1>1, <1>7, <3>1 DEF SafetyInv, TypeInv, TypeOK
    <3>2. CASE v # w
      BY <1>4, <3>2 DEF SafetyInv, QueueInv, ClaimsDisjoint
    <3>3. QED
      BY <3>1, <3>2
  <2>2. ~(pc[v] = "exec" /\ current[v] = u)
    BY <1>2, <1>7
  <2>3. u \in Task
    BY HeldType DEF SafetyInv
  <2>4. QED
    BY <1>6, <2>1, <2>2, <2>3 DEF SafetyInv, QueueInv, FreshInv
<1>12. QED
  BY <1>8, <1>9, <1>10, <1>11 DEF QueueInv

\* An instance marked with an outcome differs from the row by that outcome.
LEMMA MarkedFacts ==
    ASSUME NEW c \in Row, NEW s \in Nat
    PROVE  /\ ~MarkSuccess(c).locked /\ MarkSuccess(c).completed
           /\ MarkSuccess(c).fails = c.fails
           /\ ~MarkFailure(c).locked /\ MarkFailure(c).completed = c.completed
           /\ MarkFailure(c).fails = c.fails + 1
           /\ LET r == [MarkFailure(c) EXCEPT !.sched = s]
              IN  ~r.locked /\ r.completed = c.completed /\ r.fails = c.fails + 1
<1>1. ~MarkSuccess(c).locked /\ MarkSuccess(c).completed /\ MarkSuccess(c).fails = c.fails
  BY DEF Row, MarkSuccess
<1>2. /\ ~MarkFailure(c).locked /\ MarkFailure(c).completed = c.completed
      /\ MarkFailure(c).fails = c.fails + 1
  BY DEF Row, MarkFailure
<1>3. MarkFailure(c) \in Row
  BY RowMarked
<1>4. ASSUME NEW f \in Row
      PROVE  /\ [f EXCEPT !.sched = s].locked = f.locked
             /\ [f EXCEPT !.sched = s].completed = f.completed
             /\ [f EXCEPT !.sched = s].fails = f.fails
  BY DEF Row
<1>5. QED
  BY <1>1, <1>2, <1>3, <1>4

\* The outcome of the awaited task, whichever it is.
LEMMA AwaitOutcome ==
    ASSUME SafetyInv, NEW w \in Worker, Await(w)
    PROVE  \E r \in Row, res \in Result \ {"NONE"} :
              /\ Finish(w, r, res)
              /\ ~r.locked
              /\ r.completed <=> res = "SUCCESS"
              /\ IF r.completed THEN r.fails = copy[w][current[w]].fails
                                ELSE r.fails = copy[w][current[w]].fails + 1
<1> DEFINE c == copy[w][current[w]]
<1>1. /\ pc[w] = "exec" /\ current[w] \in Held(w) /\ result[w][current[w]] = "NONE"
      /\ current[w] \in Task
  BY DEF Await, Succeed, Fail, BackOff, TimeOut, SafetyInv, TypeInv, TypeOK, AwaitOK, Held
<1>2. c \in Row
  BY <1>1 DEF SafetyInv, TypeInv, TypeOK
<1>3. ~c.completed
  BY <1>1 DEF SafetyInv, QueueInv, ClaimInv, InstanceOK
<1>4. "SUCCESS" \in Result \ {"NONE"} /\ "FAILURE" \in Result \ {"NONE"}
  BY DEF Result
<1>5. MarkSuccess(c) \in Row /\ MarkFailure(c) \in Row
  BY <1>2, RowMarked
<1> HIDE DEF c
<1>6. CASE Succeed(w)
  <2>1. Finish(w, MarkSuccess(c), "SUCCESS")
    BY <1>6 DEF Succeed, c
  <2>2. ~MarkSuccess(c).locked /\ MarkSuccess(c).completed /\ MarkSuccess(c).fails = c.fails
    BY <1>2, MarkedFacts
  <2>3. QED
    BY <1>4, <1>5, <2>1, <2>2 DEF c
<1>7. CASE Fail(w) \/ TimeOut(w)
  <2>1. Finish(w, MarkFailure(c), "FAILURE")
    BY <1>7 DEF Fail, TimeOut, c
  <2>2. ~MarkFailure(c).locked /\ ~MarkFailure(c).completed /\ MarkFailure(c).fails = c.fails + 1
    BY <1>2, <1>3, MarkedFacts
  <2>3. QED
    BY <1>4, <1>5, <2>1, <2>2 DEF c
<1>8. CASE BackOff(w)
  <2>1. PICK d \in Delays :
           Finish(w, [MarkFailure(copy[w][current[w]]) EXCEPT !.sched = now + d], "FAILURE")
    BY <1>8 DEF BackOff
  <2>2. now + d \in Nat
    BY ConstantsAssumption DEF SafetyInv, TypeInv, TypeOK
  <2> DEFINE r == [MarkFailure(c) EXCEPT !.sched = now + d]
  <2>3. r \in Row
    BY <1>5, <2>2, RowRescheduled
  <2>4. ~r.locked /\ ~r.completed /\ r.fails = c.fails + 1
    BY <1>2, <1>3, <2>2, MarkedFacts
  <2>5. Finish(w, r, "FAILURE")
    BY <2>1 DEF c
  <2> HIDE DEF r
  <2>6. QED
    BY <1>4, <2>3, <2>4, <2>5 DEF c
<1>9. QED
  BY <1>6, <1>7, <1>8 DEF Await

LEMMA AwaitStep ==
    ASSUME SafetyInv, NEW w \in Worker, Await(w)
    PROVE  QueueInv'
<1>0. PICK t \in Task : t = current[w]
  BY DEF Await, Succeed, Fail, BackOff, TimeOut, SafetyInv, TypeInv, TypeOK, AwaitOK
<1>1. PICK r \in Row, res \in Result \ {"NONE"} :
        /\ Finish(w, r, res)
        /\ ~r.locked
        /\ IF r.completed THEN r.fails = copy[w][t].fails
                          ELSE r.fails = copy[w][t].fails + 1
  BY <1>0, AwaitOutcome
<1>2. /\ status' = status /\ row' = row /\ execs' = execs /\ claimed' = claimed
      /\ copy' = [copy EXCEPT ![w][t] = r]
      /\ result' = [result EXCEPT ![w][t] = res]
      /\ current' = [current EXCEPT ![w] = None]
      /\ pc' = [pc EXCEPT ![w] = IF Todo(w) = {t} THEN "save" ELSE "run"]
  BY <1>0, <1>1 DEF Finish, dbVars
<1>3. pc[w] = "exec" /\ t \in claimed[w] /\ result[w][t] = "NONE" /\ t \in Task
  BY <1>0 DEF Await, Succeed, Fail, BackOff, TimeOut, SafetyInv, TypeInv, TypeOK, AwaitOK
<1>4. /\ pc'[w] = IF Todo(w) = {t} THEN "save" ELSE "run"
      /\ \A v \in Worker \ {w} : pc'[v] = pc[v] /\ current'[v] = current[v]
      /\ \A v \in Worker, u \in Task :
            /\ copy'[v][u] = IF v = w /\ u = t THEN r ELSE copy[v][u]
            /\ result'[v][u] = IF v = w /\ u = t THEN res ELSE result[v][u]
  BY <1>2, <1>3 DEF SafetyInv, TypeInv, TypeOK
<1>5. \A v \in Worker : Held(v)' = Held(v)
  BY <1>2, <1>3, <1>4 DEF Held
<1>6. t \in Held(w) /\ RowHeld(t) /\ InstanceOK(w, t)
  BY <1>3 DEF Held, SafetyInv, QueueInv, ClaimInv
<1>7. \A v \in Worker : Held(v) \subseteq Task
  BY HeldType DEF SafetyInv
<1>8. ClaimInv'
  <2> SUFFICES ASSUME NEW v \in Worker, NEW u \in Held(v)
               PROVE  RowHeld(u)' /\ InstanceOK(v, u)'
    BY <1>5 DEF ClaimInv
  <2>1. RowHeld(u) /\ InstanceOK(v, u) /\ u \in Task
    BY <1>7 DEF SafetyInv, QueueInv, ClaimInv
  <2>2. RowHeld(u)'
    BY <1>2, <2>1 DEF RowHeld
  <2>3. CASE v # w
    <3>1. pc'[v] = pc[v] /\ copy'[v][u] = copy[v][u] /\ result'[v][u] = result[v][u]
      BY <1>4, <2>1, <2>3
    <3>2. QED
      BY <1>2, <2>1, <2>2, <3>1 DEF InstanceOK
  <2>4. CASE v = w /\ u = t
    <3>1. copy'[w][t] = r /\ result'[w][t] = res
      BY <1>3, <1>4
    <3>2. copy[w][t].fails = row[t].fails
      BY <1>3, <1>6 DEF InstanceOK
    <3>3. InstanceOK(w, t)'
      BY <1>1, <1>2, <3>1, <3>2 DEF InstanceOK
    <3>4. QED
      BY <2>2, <2>4, <3>3
  <2>5. CASE v = w /\ u # t
    <3>1. copy'[w][u] = copy[w][u] /\ result'[w][u] = result[w][u]
      BY <1>4, <2>1, <2>5
    <3>2. pc'[w] = "save" => result[w][u] # "NONE"
      <4> SUFFICES ASSUME pc'[w] = "save", result[w][u] = "NONE" PROVE FALSE
        OBVIOUS
      <4>1. Todo(w) = {t}
        BY <1>4
      <4>2. u \in Todo(w)
        BY <2>5 DEF Todo, Held
      <4>3. QED
        BY <2>5, <4>1, <4>2
    <3>3. QED
      BY <1>2, <2>1, <2>2, <2>5, <3>1, <3>2 DEF InstanceOK
  <2>6. QED
    BY <2>3, <2>4, <2>5
<1>9. ClaimsDisjoint'
  BY <1>5 DEF SafetyInv, QueueInv, ClaimsDisjoint
<1>10. RestInv'
  <2>1. \A v \in Worker \ {w} : result'[v] = result[v]
    BY <1>2 DEF SafetyInv, TypeInv, TypeOK
  <2>2. QED
    BY <1>4, <2>1 DEF SafetyInv, QueueInv, RestInv
<1>11. AttemptInv'
  BY <1>2 DEF SafetyInv, QueueInv, AttemptInv, RowAttempts
<1>12. FreshInv'
  <2> SUFFICES ASSUME NEW v \in Worker, NEW u \in Held(v), result'[v][u] = "NONE",
                      ~(pc'[v] = "exec" /\ current'[v] = u)
               PROVE  execs[u] <= row[u].fails
    BY <1>2, <1>5 DEF FreshInv
  <2>1. CASE v = w
    <3>1. u # t /\ result[w][u] = "NONE"
      BY <1>1, <1>4, <1>7, <2>1
    <3>2. QED
      BY <1>0, <2>1, <3>1 DEF SafetyInv, QueueInv, FreshInv
  <2>2. CASE v # w
    BY <1>4, <1>7, <2>2 DEF SafetyInv, QueueInv, FreshInv
  <2>3. QED
    BY <2>1, <2>2
<1>13. QED
  BY <1>8, <1>9, <1>10, <1>11, <1>12 DEF QueueInv

LEMMA SavedFields ==
    ASSUME NEW r \in Row, NEW c \in Row
    PROVE  /\ Written(r, c).completed = c.completed
           /\ Written(r, c).fails = c.fails
           /\ Written(r, c).locked = c.locked
<1>1. PICK d \in BOOLEAN, n \in Nat, l \in BOOLEAN, s \in Nat :
         d = c.completed /\ n = c.fails /\ l = c.locked /\ s = c.sched
  BY DEF Row
<1>2. Written(r, c) = [r EXCEPT !.completed = d, !.fails = n, !.locked = l, !.sched = s]
  BY <1>1, Zenon DEF Written
<1>3. /\ Written(r, c).completed = d /\ Written(r, c).fails = n
      /\ Written(r, c).locked = l
  BY <1>2 DEF Row
<1>4. QED
  BY <1>1, <1>3

\* What bulk_update makes of the rows of its batch.
LEMMA SaveEffect ==
    ASSUME SafetyInv, NEW w \in Worker, SaveTasks(w), NEW t \in Task
    PROVE  /\ t \in Held(w) =>
                /\ row'[t].locked = FALSE
                /\ row'[t].completed = copy[w][t].completed
                /\ row'[t].fails = IF copy[w][t].completed THEN row[t].fails
                                                           ELSE row[t].fails + 1
           /\ t \notin Held(w) => row'[t] = row[t]
<1>1. Held(w) = claimed[w]
  BY DEF SaveTasks, Held
<1>2. row[t] \in Row /\ copy[w][t] \in Row
  BY DEF SafetyInv, TypeInv, TypeOK
<1>3. CASE t \in Held(w)
  <2>1. RowHeld(t) /\ InstanceOK(w, t) /\ pc[w] = "save"
    BY <1>3 DEF SafetyInv, QueueInv, ClaimInv, SaveTasks
  <2>2. /\ ~copy[w][t].locked
        /\ copy[w][t].fails = IF copy[w][t].completed THEN row[t].fails
                                                      ELSE row[t].fails + 1
    BY <2>1 DEF InstanceOK
  <2>3. row'[t] = Written(row[t], copy[w][t])
    BY <1>1, <1>3, <2>1 DEF SaveTasks, RowHeld
  <2>4. /\ copy[w][t].completed \in BOOLEAN /\ copy[w][t].fails \in Nat
        /\ copy[w][t].locked \in BOOLEAN /\ copy[w][t].sched \in Nat
    BY <1>2 DEF Row
  <2>5. /\ row'[t].completed = copy[w][t].completed
        /\ row'[t].fails = copy[w][t].fails
        /\ row'[t].locked = copy[w][t].locked
    BY <1>2, <2>3, SavedFields
  <2>6. row'[t].locked = FALSE
    BY <2>2, <2>4, <2>5
  <2>7. QED
    BY <1>3, <2>2, <2>5, <2>6
<1>4. CASE t \notin Held(w)
  BY <1>1, <1>4 DEF SaveTasks
<1>5. QED
  BY <1>3, <1>4

LEMMA SaveTasksStep ==
    ASSUME SafetyInv, NEW w \in Worker, SaveTasks(w)
    PROVE  QueueInv'
<1>1. /\ status' = status /\ execs' = execs /\ claimed' = claimed
      /\ result' = result /\ current' = current
      /\ pc[w] = "save" /\ pc'[w] = "saveRuns"
      /\ \A v \in Worker \ {w} : pc'[v] = pc[v] /\ copy'[v] = copy[v]
  BY DEF SaveTasks, history, SafetyInv, TypeInv, TypeOK
<1>2. Held(w)' = {} /\ \A v \in Worker \ {w} : Held(v)' = Held(v)
  BY <1>1 DEF Held
<1>3. \A v \in Worker \ {w} : \A t \in Held(v) : row'[t] = row[t]
  BY SaveEffect, HeldType DEF SafetyInv, QueueInv, ClaimsDisjoint
<1>4. ClaimInv'
  <2> SUFFICES ASSUME NEW v \in Worker, NEW t \in Held(v)'
               PROVE  RowHeld(t)' /\ InstanceOK(v, t)'
    BY DEF ClaimInv
  <2>1. v # w /\ t \in Held(v)
    BY <1>2
  <2>2. RowHeld(t) /\ InstanceOK(v, t)
    BY <2>1 DEF SafetyInv, QueueInv, ClaimInv
  <2>3. QED
    BY <1>1, <1>3, <2>1, <2>2 DEF RowHeld, InstanceOK
<1>5. ClaimsDisjoint'
  BY <1>2 DEF SafetyInv, QueueInv, ClaimsDisjoint
<1>6. RestInv'
  BY <1>1 DEF SafetyInv, QueueInv, RestInv
<1>7. AttemptInv'
  <2> SUFFICES ASSUME NEW t \in Task
               PROVE  /\ status[t] = "absent" => execs[t] = 0
                      /\ status[t] = "present" => RowAttempts(t)'
                      /\ status[t] = "deleted" => execs[t] <= MaxFailures
    BY <1>1 DEF AttemptInv
  <2>1. /\ status[t] = "absent" => execs[t] = 0
        /\ status[t] = "present" => RowAttempts(t)
        /\ status[t] = "deleted" => execs[t] <= MaxFailures
    BY DEF SafetyInv, QueueInv, AttemptInv
  <2>2. CASE t \in Held(w)
    <3>1. RowHeld(t)
      BY <2>2 DEF SafetyInv, QueueInv, ClaimInv
    <3>2. /\ row'[t].locked = FALSE
          /\ row'[t].completed = copy[w][t].completed
          /\ row'[t].fails = IF copy[w][t].completed THEN row[t].fails
                                                     ELSE row[t].fails + 1
      BY <2>2, SaveEffect
    <3>3. row[t].fails \in Nat /\ execs[t] \in Nat /\ copy[w][t].completed \in BOOLEAN
      BY RowFacts DEF SafetyInv, TypeInv, TypeOK, Row
    <3>4. execs[t] <= row[t].fails + 1 /\ row[t].fails < MaxFailures
      BY <2>1, <3>1 DEF RowHeld, RowAttempts
    <3>5. RowAttempts(t)'
      BY <1>1, <3>2, <3>3, <3>4, ConstantsAssumption DEF RowAttempts
    <3>6. QED
      BY <2>1, <3>1, <3>5 DEF RowHeld
  <2>3. CASE t \notin Held(w)
    <3>1. row'[t] = row[t]
      BY <2>3, SaveEffect
    <3>2. QED
      BY <1>1, <2>1, <3>1 DEF RowAttempts
  <2>4. QED
    BY <2>2, <2>3
<1>8. FreshInv'
  <2> SUFFICES ASSUME NEW v \in Worker, NEW t \in Held(v)', result[v][t] = "NONE",
                      ~(pc'[v] = "exec" /\ current[v] = t)
               PROVE  execs[t] <= row'[t].fails
    BY <1>1 DEF FreshInv
  <2>1. v # w /\ t \in Held(v)
    BY <1>2
  <2>2. QED
    BY <1>1, <1>3, <2>1 DEF SafetyInv, QueueInv, FreshInv
<1>9. QED
  BY <1>4, <1>5, <1>6, <1>7, <1>8 DEF QueueInv

-----------------------------------------------------------------------------
(* The invariant is inductive.                                               *)

LEMMA InitSafe == Init => SafetyInv
<1> SUFFICES ASSUME Init PROVE SafetyInv
  OBVIOUS
<1>1. TypeInv
  BY InitType
<1>2. \A w \in Worker : Held(w) = {}
  BY DEF Init, Held
<1>3. ClaimInv /\ ClaimsDisjoint /\ FreshInv
  BY <1>2 DEF ClaimInv, ClaimsDisjoint, FreshInv
<1>4. RestInv /\ AttemptInv
  BY DEF Init, RestInv, AttemptInv, Zero
<1>5. QED
  BY <1>1, <1>3, <1>4 DEF SafetyInv, QueueInv

LEMMA NextSafe == SafetyInv /\ [Next]_vars => SafetyInv'
<1> SUFFICES ASSUME SafetyInv, [Next]_vars PROVE QueueInv'
  BY NextType DEF SafetyInv
<1>1. ASSUME NEW p \in Producer, NEW i \in Ident, CreateTask(p, i) PROVE QueueInv'
  BY <1>1, QuietStep DEF CreateTask, dbVars, history
<1>2. ASSUME NEW p \in Producer, SaveTask(p) PROVE QueueInv'
  BY <1>2, SaveTaskStep
<1>3. ASSUME NEW p \in Producer, DropRequest(p) PROVE QueueInv'
  BY <1>3, QuietStep DEF DropRequest, dbVars, history
<1>4. ASSUME NEW w \in Worker, Loop(w) PROVE QueueInv'
  <2>1. CASE Pop(w)
    BY <2>1, PopStep
  <2>2. CASE StartTask(w)
    BY <2>2, StartTaskStep
  <2>3. CASE SaveTasks(w)
    BY <2>3, SaveTasksStep
  <2>4. CASE SaveRuns(w)
    BY <2>4, ResetStep DEF SaveRuns, history
  <2>5. QED
    BY <1>4, <2>1, <2>2, <2>3, <2>4 DEF Loop
<1>5. ASSUME NEW w \in Worker, Await(w) PROVE QueueInv'
  BY <1>5, AwaitStep
<1>6. ASSUME NEW p \in Process, NEW t \in Task, ZombieEnds(p, t) PROVE QueueInv'
  BY <1>6, QuietStep DEF ZombieEnds, dbVars
<1>7. CASE CleanUp
  BY <1>7, CleanUpStep
<1>8. CASE Tick
  BY <1>8, QuietStep DEF Tick, dbVars, history
<1>9. ASSUME NEW w \in Worker,
             AbortUnregistered(w) \/ SaveError(w) \/ ThreadDies(w)
      PROVE  QueueInv'
  BY <1>9, ResetStep DEF AbortUnregistered, SaveError, ThreadDies, dbVars, history
<1>10. ASSUME NEW w \in Worker, PopReplyLost(w) PROVE QueueInv'
  BY <1>10, PopReplyLostStep
<1>11. ASSUME NEW p \in Process, Crash(p) PROVE QueueInv'
  <2>1. LetGo
    BY <1>11 DEF Crash, LetGo, dbVars
  <2>2. QED
    BY <2>1, LetGoStep
<1>12. ASSUME NEW p \in Process, Restart(p) PROVE QueueInv'
  <2>1. LetGo
    BY <1>12 DEF Restart, LetGo, dbVars, history, SafetyInv, QueueInv, RestInv
  <2>2. QED
    BY <2>1, LetGoStep
<1>13. CASE UNCHANGED vars
  BY <1>13, QuietStep DEF vars, dbVars, history
<1>14. QED
  BY <1>1, <1>2, <1>3, <1>4, <1>5, <1>6, <1>7, <1>8, <1>9, <1>10, <1>11, <1>12, <1>13
     DEF Next, ReliableNext, Fault, Produce

LEMMA AlwaysSafe == Spec => []SafetyInv
BY InitSafe, NextSafe, PTL DEF Spec

-----------------------------------------------------------------------------
(* What follows from it.                                                     *)

\* Whatever crashes, a popped task has one holder and a locked, unfinished row
\* (SELECT ... FOR UPDATE SKIP LOCKED and is_locked in get_tasks_to_process).
THEOREM ClaimIsExclusive == Spec => []ExclusiveClaim
<1>1. SafetyInv => ExclusiveClaim
  BY DEF SafetyInv, QueueInv, ClaimInv, ClaimsDisjoint, RowHeld, ExclusiveClaim
<1>2. QED
  BY <1>1, AlwaysSafe, PTL

\* No task function is started more often than MaxFailures times: the filter
\* num_failures < 3 and a lock that is never broken suffice.
THEOREM AttemptsAreBounded == Spec => []AttemptsBounded
<1>1. SafetyInv => AttemptsBounded
  <2> SUFFICES ASSUME SafetyInv, NEW t \in Task PROVE execs[t] <= MaxFailures
    BY DEF AttemptsBounded
  <2>1. row[t].fails \in Nat /\ execs[t] \in Nat /\ status[t] \in Status
    BY RowFacts DEF SafetyInv
  <2>2. QED
    BY <2>1, ConstantsAssumption DEF SafetyInv, QueueInv, AttemptInv, RowAttempts, Status
<1>2. QED
  BY <1>1, AlwaysSafe, PTL

\* The actions that leave the task table alone.
LEMMA QuietActions ==
    ASSUME [Next]_vars,
           \A p \in Producer : ~SaveTask(p),
           \A w \in Worker : ~Pop(w) /\ ~PopReplyLost(w) /\ ~SaveTasks(w),
           ~CleanUp
    PROVE  UNCHANGED <<status, row>>
<1>1. ASSUME NEW p \in Producer, NEW i \in Ident, CreateTask(p, i)
      PROVE  UNCHANGED <<status, row>>
  BY <1>1 DEF CreateTask, dbVars
<1>2. ASSUME NEW p \in Producer, DropRequest(p) PROVE UNCHANGED <<status, row>>
  BY <1>2 DEF DropRequest, dbVars
<1>3. ASSUME NEW w \in Worker, StartTask(w) \/ SaveRuns(w) PROVE UNCHANGED <<status, row>>
  BY <1>3 DEF StartTask, SaveRuns, dbVars
<1>4. ASSUME NEW w \in Worker, Await(w) PROVE UNCHANGED <<status, row>>
  BY <1>4 DEF Await, Succeed, Fail, BackOff, TimeOut, Finish, dbVars
<1>5. ASSUME NEW p \in Process, NEW t \in Task, ZombieEnds(p, t)
      PROVE  UNCHANGED <<status, row>>
  BY <1>5 DEF ZombieEnds, dbVars
<1>6. CASE Tick
  BY <1>6 DEF Tick, dbVars
<1>7. ASSUME NEW w \in Worker, AbortUnregistered(w) \/ SaveError(w) \/ ThreadDies(w)
      PROVE  UNCHANGED <<status, row>>
  BY <1>7 DEF AbortUnregistered, SaveError, ThreadDies, dbVars
<1>8. ASSUME NEW p \in Process, Crash(p) \/ Restart(p) PROVE UNCHANGED <<status, row>>
  BY <1>8 DEF Crash, Restart, dbVars
<1>9. CASE UNCHANGED vars
  BY <1>9 DEF vars, dbVars
<1>10. QED
  BY <1>1, <1>2, <1>3, <1>4, <1>5, <1>6, <1>7, <1>8, <1>9
     DEF Next, ReliableNext, Fault, Produce, Loop

LEMMA ExecsQuiet ==
    ASSUME [Next]_vars, \A w \in Worker : ~StartTask(w)
    PROVE  execs' = execs
<1>1. CASE Produce
  BY <1>1 DEF Produce, CreateTask, SaveTask, history
<1>2. ASSUME NEW w \in Worker, Loop(w) PROVE execs' = execs
  BY <1>2 DEF Loop, Pop, SaveTasks, SaveRuns, history
<1>3. ASSUME NEW w \in Worker, Await(w) PROVE execs' = execs
  BY <1>3 DEF Await, Succeed, Fail, BackOff, TimeOut, Finish
<1>4. ASSUME NEW p \in Process, NEW t \in Task, ZombieEnds(p, t) PROVE execs' = execs
  BY <1>4 DEF ZombieEnds
<1>5. CASE CleanUp \/ Tick
  BY <1>5 DEF CleanUp, Tick, history
<1>6. CASE Fault
  BY <1>6 DEF Fault, DropRequest, AbortUnregistered, PopReplyLost, SaveError,
              ThreadDies, Crash, Restart, history
<1>7. CASE UNCHANGED vars
  BY <1>7 DEF vars, history
<1>8. QED
  BY <1>1, <1>2, <1>3, <1>4, <1>5, <1>6, <1>7 DEF Next, ReliableNext

LEMMA FinishedStep ==
    ASSUME SafetyInv, [Next]_vars, NEW t \in Task, Finished(t)
    PROVE  execs'[t] = execs[t] /\ (Finished(t)' \/ status'[t] = "deleted")
<1>1. row[t].fails \in Nat
  BY RowFacts DEF SafetyInv
<1>2. \A w \in Worker : t \notin Held(w)
  BY <1>1, ConstantsAssumption
     DEF SafetyInv, QueueInv, ClaimInv, RowHeld, Finished
<1>3. t \notin Eligible
  BY <1>1, ConstantsAssumption DEF Eligible, Finished
<1>4. execs'[t] = execs[t]
  <2>1. ASSUME NEW w \in Worker, StartTask(w) PROVE execs'[t] = execs[t]
    <3>1. PICK u \in Task : IsNextOf(w, u) /\ execs' = [execs EXCEPT ![u] = @ + 1]
      BY <2>1 DEF StartTask
    <3>2. u \in Held(w)
      BY <2>1, <3>1 DEF StartTask, IsNextOf, Todo, Held
    <3>3. QED
      BY <1>2, <3>1, <3>2 DEF SafetyInv, TypeInv, TypeOK
  <2>2. QED
    BY <2>1, ExecsQuiet
<1>5. ASSUME row'[t] = row[t], status'[t] = status[t] PROVE Finished(t)'
  BY <1>5 DEF Finished
<1>6. ASSUME NEW p \in Producer, SaveTask(p) PROVE row'[t] = row[t] /\ status'[t] = status[t]
  BY <1>6 DEF SaveTask, Finished, SafetyInv, TypeInv, TypeOK
<1>7. ASSUME NEW w \in Worker, Pop(w) \/ PopReplyLost(w)
      PROVE  row'[t] = row[t] /\ status'[t] = status[t]
  BY <1>3, <1>7 DEF Pop, PopReplyLost, Lock
<1>8. ASSUME NEW w \in Worker, SaveTasks(w)
      PROVE  row'[t] = row[t] /\ status'[t] = status[t]
  BY <1>2, <1>8, SaveEffect DEF SaveTasks
<1>9. ASSUME CleanUp
      PROVE  \/ status'[t] = "deleted"
             \/ row'[t] = row[t] /\ status'[t] = status[t]
  BY <1>9 DEF CleanUp
<1>10. QED
  BY <1>4, <1>5, <1>6, <1>7, <1>8, <1>9, QuietActions

\* A completed task, or one without attempts left, is never started again, and
\* no bulk_update of any worker turns its row back.
THEOREM FinishedIsFinal == Spec => FinishedStaysFinished
<1>1. SafetyInv /\ [Next]_vars =>
         [\A t \in Task : Finished(t) =>
             /\ execs'[t] = execs[t]
             /\ Finished(t)' \/ status'[t] = "deleted"]_vars
  BY FinishedStep
<1>2. QED
  BY <1>1, AlwaysSafe, PTL DEF Spec, FinishedStaysFinished

-----------------------------------------------------------------------------
(* The task queue implements TaskLifecycle: each statement that a worker, a  *)
(* producer or the clean-up commits is one step of the life of some tasks,   *)
(* and nothing else that happens shows in it.                                *)

PhaseOf    == [t \in Task |-> TaskPhase(t)]
FailuresOf == [t \in Task |-> row[t].fails]

\* A row that was never inserted is blank, so a new one changes no count.
AbsentInv == \A t \in Task : status[t] = "absent" => row[t].fails = 0

MapInv == SafetyInv /\ AbsentInv

-----------------------------------------------------------------------------
(* What the actions that write rows do to the rows and their phases.         *)

LEMMA RowsQuiet ==
    ASSUME UNCHANGED <<status, row>>
    PROVE  PhaseOf' = PhaseOf /\ FailuresOf' = FailuresOf
BY DEF PhaseOf, FailuresOf, TaskPhase

LEMMA SaveTaskMaps ==
    ASSUME MapInv, NEW p \in Producer, SaveTask(p)
    PROVE  /\ AbsentInv'
           /\ \E t \in Task : /\ PhaseOf[t] = "none"
                              /\ PhaseOf' = [PhaseOf EXCEPT ![t] = "queued"]
                              /\ FailuresOf' = FailuresOf
<1>1. PICK t \in Task :
        /\ status[t] = "absent"
        /\ status' = [status EXCEPT ![t] = "present"]
        /\ row' = [row EXCEPT ![t] =
                     [Blank EXCEPT !.ident = request[p].ident,
                                   !.sched = request[p].sched,
                                   !.created = now]]
  BY DEF SaveTask
<1>2. /\ row'[t].fails = 0 /\ row'[t].locked = FALSE /\ row'[t].completed = FALSE
      /\ status'[t] = "present"
      /\ \A u \in Task \ {t} : row'[u] = row[u] /\ status'[u] = status[u]
  BY <1>1 DEF MapInv, SafetyInv, TypeInv, TypeOK, Blank
<1>3. row[t].fails = 0
  BY <1>1 DEF MapInv, AbsentInv
<1>4. TaskPhase(t) = "none" /\ TaskPhase(t)' = "queued"
  BY <1>1, <1>2, ConstantsAssumption DEF TaskPhase
<1>5. \A u \in Task \ {t} : TaskPhase(u)' = TaskPhase(u)
  BY <1>2 DEF TaskPhase
<1>6. AbsentInv'
  BY <1>2 DEF MapInv, AbsentInv
<1>7. QED
  BY <1>2, <1>3, <1>4, <1>5, <1>6 DEF PhaseOf, FailuresOf

LEMMA LockMaps ==
    ASSUME MapInv, NEW S \in SUBSET Eligible, Lock(S), status' = status
    PROVE  /\ AbsentInv'
           /\ S \in SUBSET Task
           /\ \A t \in S : PhaseOf[t] = "queued" /\ FailuresOf[t] < MaxFailures
           /\ PhaseOf' = [t \in Task |-> IF t \in S THEN "claimed" ELSE PhaseOf[t]]
           /\ FailuresOf' = FailuresOf
<1>1. S \in SUBSET Task
  BY DEF Eligible
<1>2. \A t \in Task : /\ row'[t].fails = row[t].fails
                      /\ row'[t].completed = row[t].completed
                      /\ row'[t].locked = (t \in S \/ row[t].locked)
  BY <1>1, LockEffect DEF MapInv, SafetyInv
<1>3. \A t \in S : /\ status[t] = "present" /\ row[t].fails < MaxFailures
                   /\ ~row[t].completed /\ ~row[t].locked
  BY DEF Eligible
<1>4. \A t \in S : TaskPhase(t) = "queued" /\ TaskPhase(t)' = "claimed"
  BY <1>1, <1>2, <1>3 DEF TaskPhase
<1>5. \A t \in Task \ S : TaskPhase(t)' = TaskPhase(t)
  <2>1. \A t \in Task \ S : row'[t] = row[t]
    BY DEF Lock
  <2>2. QED
    BY <2>1 DEF TaskPhase
<1>6. AbsentInv'
  BY <1>2 DEF MapInv, AbsentInv
<1>7. QED
  BY <1>1, <1>2, <1>3, <1>4, <1>5, <1>6 DEF PhaseOf, FailuresOf

LEMMA SaveTasksMaps ==
    ASSUME MapInv, NEW w \in Worker, SaveTasks(w)
    PROVE  /\ AbsentInv'
           /\ \E good, bad \in SUBSET Task :
                 /\ \A t \in good \cup bad : PhaseOf[t] = "claimed"
                 /\ good \cap bad = {}
                 /\ FailuresOf' = [t \in Task |-> IF t \in bad THEN FailuresOf[t] + 1
                                                               ELSE FailuresOf[t]]
                 /\ PhaseOf' = [t \in Task |->
                        IF t \in good THEN "done"
                        ELSE IF t \in bad
                             THEN IF FailuresOf[t] + 1 < MaxFailures
                                  THEN "queued" ELSE "exhausted"
                             ELSE PhaseOf[t]]
<1> DEFINE good == {t \in Held(w) : copy[w][t].completed}
           bad  == Held(w) \ good
<1>1. good \in SUBSET Task /\ bad \in SUBSET Task
  BY HeldType DEF MapInv, SafetyInv
<1>2. status' = status
  BY DEF SaveTasks
<1>3. \A t \in Held(w) : RowHeld(t) /\ TaskPhase(t) = "claimed"
  BY DEF MapInv, SafetyInv, QueueInv, ClaimInv, RowHeld, TaskPhase
<1>4. \A t \in good : TaskPhase(t)' = "done" /\ row'[t].fails = row[t].fails
  <2> SUFFICES ASSUME NEW t \in good
               PROVE  TaskPhase(t)' = "done" /\ row'[t].fails = row[t].fails
    OBVIOUS
  <2>1. t \in Task /\ t \in Held(w) /\ copy[w][t].completed
    BY <1>1
  <2>2. /\ row'[t].locked = FALSE /\ row'[t].completed = copy[w][t].completed
        /\ row'[t].fails = row[t].fails
    BY <2>1, SaveEffect DEF MapInv
  <2>3. QED
    BY <1>2, <1>3, <2>1, <2>2 DEF TaskPhase, RowHeld
<1>5. \A t \in bad : /\ row'[t].fails = row[t].fails + 1
                     /\ TaskPhase(t)' = IF row[t].fails + 1 < MaxFailures
                                        THEN "queued" ELSE "exhausted"
  <2> SUFFICES ASSUME NEW t \in bad
               PROVE  /\ row'[t].fails = row[t].fails + 1
                      /\ TaskPhase(t)' = IF row[t].fails + 1 < MaxFailures
                                         THEN "queued" ELSE "exhausted"
    OBVIOUS
  <2>1. t \in Task /\ t \in Held(w) /\ ~copy[w][t].completed
    BY <1>1
  <2>2. /\ row'[t].locked = FALSE /\ row'[t].completed = copy[w][t].completed
        /\ row'[t].fails = row[t].fails + 1
    BY <2>1, SaveEffect DEF MapInv
  <2>3. QED
    BY <1>2, <1>3, <2>1, <2>2 DEF TaskPhase, RowHeld
<1>6. \A t \in Task \ (good \cup bad) : row'[t] = row[t] /\ TaskPhase(t)' = TaskPhase(t)
  <2>1. \A t \in Task \ (good \cup bad) : row'[t] = row[t]
    BY SaveEffect DEF MapInv
  <2>2. QED
    BY <1>2, <2>1 DEF TaskPhase
<1>7. AbsentInv'
  <2>1. \A t \in Task : status[t] = "absent" => t \notin good \cup bad
    BY <1>3 DEF RowHeld
  <2>2. QED
    BY <1>2, <1>6, <2>1 DEF MapInv, AbsentInv
<1>8. good \cap bad = {}
  OBVIOUS
<1>9. \A t \in good \cup bad : PhaseOf[t] = "claimed"
  BY <1>1, <1>3 DEF PhaseOf
<1> HIDE DEF good, bad
<1>10. /\ FailuresOf' = [t \in Task |-> IF t \in bad THEN FailuresOf[t] + 1
                                                     ELSE FailuresOf[t]]
       /\ PhaseOf' = [t \in Task |->
              IF t \in good THEN "done"
              ELSE IF t \in bad
                   THEN IF FailuresOf[t] + 1 < MaxFailures THEN "queued" ELSE "exhausted"
                   ELSE PhaseOf[t]]
  BY <1>4, <1>5, <1>6, <1>8 DEF PhaseOf, FailuresOf
<1>11. QED
  BY <1>1, <1>7, <1>8, <1>9, <1>10

LEMMA CleanUpMaps ==
    ASSUME MapInv, CleanUp
    PROVE  /\ AbsentInv'
           /\ \E S \in SUBSET Task :
                 /\ \A t \in S : PhaseOf[t] \in {"done", "exhausted"}
                 /\ PhaseOf' = [t \in Task |-> IF t \in S THEN "purged" ELSE PhaseOf[t]]
                 /\ FailuresOf' = [t \in Task |-> IF t \in S THEN 0 ELSE FailuresOf[t]]
<1>1. PICK S \in SUBSET Purgeable :
        /\ status' = [t \in Task |-> IF t \in S THEN "deleted" ELSE status[t]]
        /\ row' = [t \in Task |-> IF t \in S THEN Blank ELSE row[t]]
  BY DEF CleanUp
<1>2. S \in SUBSET Task
  BY DEF Purgeable
<1>3. \A t \in S : TaskPhase(t) \in {"done", "exhausted"}
  <2> SUFFICES ASSUME NEW t \in S PROVE TaskPhase(t) \in {"done", "exhausted"}
    OBVIOUS
  <2>1. t \in Task /\ status[t] = "present"
        /\ (row[t].completed \/ row[t].fails >= MaxFailures)
    BY DEF Purgeable
  <2>2. RowAttempts(t) /\ row[t].fails \in Nat
    BY <2>1, RowFacts DEF MapInv, SafetyInv, QueueInv, AttemptInv
  <2>3. ~row[t].locked
    BY <2>1, <2>2, ConstantsAssumption DEF RowAttempts
  <2>4. QED
    BY <2>1, <2>2, <2>3, ConstantsAssumption DEF TaskPhase
<1>4. \A t \in S : TaskPhase(t)' = "purged" /\ row'[t].fails = 0
  <2>1. Blank.fails = 0
    BY DEF Blank
  <2>2. QED
    BY <1>1, <1>2, <2>1 DEF TaskPhase
<1>5. \A t \in Task \ S : TaskPhase(t)' = TaskPhase(t) /\ row'[t] = row[t]
  BY <1>1 DEF TaskPhase
<1>6. AbsentInv'
  BY <1>1, <1>5 DEF MapInv, AbsentInv
<1>7. QED
  BY <1>2, <1>3, <1>4, <1>5, <1>6 DEF PhaseOf, FailuresOf

-----------------------------------------------------------------------------
(* The refinement.                                                           *)

LEMMA InitMaps == Init => AbsentInv /\ Lifecycle!Init
<1> SUFFICES ASSUME Init PROVE AbsentInv /\ Lifecycle!Init
  OBVIOUS
<1>1. \A t \in Task : row[t].fails = 0 /\ status[t] = "absent"
  BY DEF Init, NoCopies, Blank
<1>2. QED
  BY <1>1 DEF AbsentInv, Lifecycle!Init, TaskPhase

LEMMA NextMaps == MapInv /\ [Next]_vars => AbsentInv' /\ [Lifecycle!Next]_(Lifecycle!vars)
<1> SUFFICES ASSUME MapInv, [Next]_vars
             PROVE  AbsentInv' /\ [Lifecycle!Next]_(Lifecycle!vars)
  OBVIOUS
<1>1. ASSUME NEW p \in Producer, SaveTask(p)
      PROVE  AbsentInv' /\ Lifecycle!Next
  BY <1>1, SaveTaskMaps DEF PhaseOf, FailuresOf, Lifecycle!Next, Lifecycle!Submit
<1>2. ASSUME NEW w \in Worker, Pop(w) \/ PopReplyLost(w)
      PROVE  AbsentInv' /\ Lifecycle!Next
  <2>1. PICK S \in SUBSET Eligible : Lock(S) /\ status' = status
    BY <1>2 DEF Pop, PopReplyLost
  <2>2. QED
    BY <2>1, LockMaps DEF PhaseOf, FailuresOf, Lifecycle!Next, Lifecycle!Claim
<1>3. ASSUME NEW w \in Worker, SaveTasks(w)
      PROVE  AbsentInv' /\ Lifecycle!Next
  BY <1>3, SaveTasksMaps DEF PhaseOf, FailuresOf, Lifecycle!Next, Lifecycle!Settle
<1>4. ASSUME CleanUp PROVE AbsentInv' /\ Lifecycle!Next
  BY <1>4, CleanUpMaps DEF PhaseOf, FailuresOf, Lifecycle!Next, Lifecycle!Purge
<1>5. CASE UNCHANGED <<status, row>>
  <2>1. AbsentInv'
    BY <1>5 DEF MapInv, AbsentInv
  <2>2. UNCHANGED Lifecycle!vars
    BY <1>5, RowsQuiet DEF Lifecycle!vars, PhaseOf, FailuresOf
  <2>3. QED
    BY <2>1, <2>2
<1>6. QED
  BY <1>1, <1>2, <1>3, <1>4, <1>5, QuietActions

\* The queue of the database, with any number of workers, processes and
\* producers, batches of any size and every fault, keeps the promise of
\* TaskLifecycle: claims come from tasks with attempts left, each claim is
\* settled at most once, and only finished tasks are deleted.
THEOREM QueueImplementsLifecycle == Spec => LifecycleSpec
<1>1. Spec => []MapInv
  <2>1. Init => MapInv
    BY InitSafe, InitMaps DEF MapInv
  <2>2. MapInv /\ [Next]_vars => MapInv'
    BY NextSafe, NextMaps DEF MapInv
  <2>3. QED
    BY <2>1, <2>2, PTL DEF Spec
<1>2. QED
  BY <1>1, InitMaps, NextMaps, PTL DEF Spec, LifecycleSpec, Lifecycle!Spec
=============================================================================

------------------------ MODULE RecurringTasksProofs ------------------------
(* Proofs about RecurringTasks, for every number of tasks and workers and    *)
(* every timeout, period and bound.                                          *)
EXTENDS RecurringTasks, SequenceTheorems, FiniteSetTheorems, TLAPS

-----------------------------------------------------------------------------
(* Type correctness.                                                         *)

\* A worker that is past Pick has a task.
HoldersOK == \A w \in Worker : Holding(w) => task[w] \in Task

TypeInv == TypeOK /\ HoldersOK

\* What Leave makes of the worker's variables is well typed.
LEMMA LeaveType ==
    ASSUME TypeInv, NEW w \in Worker, NEW phase \in {"idle", "down"},
           Leave(w, phase)
    PROVE  /\ pc' \in [Worker -> Phase]
           /\ task' \in [Worker -> Task \cup {None}]
           /\ copy' \in [Worker -> Copy]
           /\ run' \in [Worker -> Nat]
           /\ result' \in [Worker -> Result]
           /\ startedAt' \in [Worker -> Nat]
           /\ finishedAt' \in [Worker -> Moment]
           /\ stray' \in [Worker -> Nat]
           /\ HoldersOK'
<1>1. NoCopy \in Copy
  BY DEF NoCopy, Copy, Moment
<1>2. QED
  BY <1>1 DEF TypeInv, TypeOK, HoldersOK, Holding, Leave, Goto, Result, Phase, Moment

\* The updates of rows and instances that the actions make are well typed.
LEMMA RowPicked ==
    ASSUME NEW r \in Row, NEW m \in Moment
    PROVE  [r EXCEPT !.locked = TRUE, !.lockedAt = m] \in Row
BY DEF Row

LEMMA RowSaved ==
    ASSUME NEW r \in Row, NEW c \in Copy
    PROVE  [r EXCEPT !.locked = c.locked, !.lockedAt = c.lockedAt,
                     !.disabled = c.disabled, !.failures = c.failures] \in Row
<1>1. ASSUME NEW l \in BOOLEAN, NEW m \in Moment, NEW d \in BOOLEAN, NEW n \in Nat
      PROVE  [r EXCEPT !.locked = l, !.lockedAt = m,
                       !.disabled = d, !.failures = n] \in Row
  BY DEF Row
<1>2. /\ c.locked \in BOOLEAN /\ c.lockedAt \in Moment
      /\ c.disabled \in BOOLEAN /\ c.failures \in Nat
  BY DEF Copy
<1>3. QED
  BY <1>1, <1>2, Zenon

LEMMA RowAdmin ==
    ASSUME NEW r \in Row
    PROVE  /\ [r EXCEPT !.locked = FALSE] \in Row
           /\ [r EXCEPT !.disabled = FALSE, !.failures = 0] \in Row
BY DEF Row

LEMMA CopyMarked ==
    ASSUME NEW c \in Copy
    PROVE  /\ Unlocked(c) \in Copy
           /\ MarkSuccess(c) \in Copy
           /\ MarkFailure(c) \in Copy
<1> DEFINE d == c.disabled \/ c.failures + 1 >= MaxConsecutive
           n == c.failures + 1
<1>1. Unlocked(c) \in Copy /\ MarkSuccess(c) \in Copy
  BY DEF Copy, Unlocked, MarkSuccess, Moment
<1>2. d \in BOOLEAN /\ n \in Nat
  BY DEF Copy
<1>3. MarkFailure(c) = [c EXCEPT !.locked = FALSE, !.lockedAt = None,
                                 !.failures = n, !.disabled = d]
  BY DEF MarkFailure
<1>4. ASSUME NEW e \in BOOLEAN, NEW m \in Nat
      PROVE  [c EXCEPT !.locked = FALSE, !.lockedAt = None,
                       !.failures = m, !.disabled = e] \in Copy
  BY DEF Copy, Moment
<1>5. [c EXCEPT !.locked = FALSE, !.lockedAt = None,
                !.failures = n, !.disabled = d] \in Copy
  BY <1>2, <1>4, Zenon
<1>6. QED
  BY <1>1, <1>3, <1>5, Zenon

\* Writing the result of one run keeps the table of runs well typed.
LEMMA ResultType ==
    ASSUME TypeInv, NEW t \in Task, NEW k \in DOMAIN runs[t],
           NEW r \in Result, NEW f \in Moment
    PROVE  WithResult(t, k, r, f) \in [Task -> Seq(Run)]
<1> DEFINE written == [runs[t][k] EXCEPT !.result = r, !.finished = f]
           changed == [runs[t] EXCEPT ![k] = written]
<1>1. runs[t] \in Seq(Run)
  BY DEF TypeInv, TypeOK
<1>2. runs[t][k] \in Run
  BY <1>1
<1>3. written \in Run
  BY <1>2 DEF Run
<1> HIDE DEF written
<1>4. changed \in Seq(Run)
  BY <1>1, <1>3
<1>5. WithResult(t, k, r, f) = [runs EXCEPT ![t] = changed]
  BY DEF WithResult, written, TypeInv, TypeOK
<1> HIDE DEF changed
<1>6. QED
  BY <1>4, <1>5 DEF TypeInv, TypeOK

\* The end of a run is a moment.
LEMMA FinishedType == TypeInv => FinishedNow \in Moment /\ None \in Moment
BY DEF TypeInv, TypeOK, FinishedNow, Moment

LEMMA InitType == Init => TypeInv
<1>1. Blank \in Row /\ NoCopy \in Copy
  BY DEF Blank, Row, NoCopy, Copy, Moment
<1>2. QED
  BY <1>1 DEF Init, TypeInv, TypeOK, HoldersOK, Holding, Status, Phase, Result, Moment

LEMMA FinishType ==
    ASSUME TypeInv, NEW w \in Worker, NEW c \in Copy, NEW res \in Result,
           Holding(w), Finish(w, c, res)
    PROVE  TypeInv'
<1> DEFINE f == IF res = "SUCCESS" THEN FinishedNow ELSE None
<1>1. f \in Moment
  BY FinishedType
<1>2. finishedAt' = [finishedAt EXCEPT ![w] = f]
  BY DEF Finish
<1> HIDE DEF f
<1>3. finishedAt' \in [Worker -> Moment]
  BY <1>1, <1>2 DEF TypeInv, TypeOK
<1>4. QED
  BY <1>3 DEF TypeInv, TypeOK, HoldersOK, Holding, Finish, Goto, dbVars, Phase

\* A table of runs in which some are marked as deleted.
LEMMA CleanedType ==
    ASSUME NEW s \in Seq(Run), NEW old
    PROVE  [k \in DOMAIN s |-> IF k \in old
                               THEN [s[k] EXCEPT !.result = "deleted", !.cleaned = TRUE]
                               ELSE s[k]] \in Seq(Run)
<1> DEFINE run1(k) == IF k \in old
                      THEN [s[k] EXCEPT !.result = "deleted", !.cleaned = TRUE]
                      ELSE s[k]
<1>1. DOMAIN s = 1 .. Len(s) /\ Len(s) \in Nat
  OBVIOUS
<1>2. ASSUME NEW k \in DOMAIN s PROVE run1(k) \in Run
  <2>1. s[k] \in Run
    BY <1>1
  <2>2. [s[k] EXCEPT !.result = "deleted", !.cleaned = TRUE] \in Run
    BY <2>1 DEF Run
  <2>3. QED
    BY <2>1, <2>2
<1> HIDE DEF run1
<1>3. [k \in DOMAIN s |-> run1(k)] \in [1 .. Len(s) -> Run]
  BY <1>1, <1>2
<1>4. [k \in DOMAIN s |-> run1(k)] \in Seq(Run)
  BY <1>1, <1>3, SeqDef
<1>5. QED
  BY <1>4 DEF run1

LEMMA CleanUpType == TypeInv /\ CleanUpRuns => TypeInv'
<1> SUFFICES ASSUME TypeInv, CleanUpRuns PROVE TypeInv'
  OBVIOUS
<1>1. ASSUME NEW t \in Task PROVE runs'[t] \in Seq(Run)
  <2>1. runs[t] \in Seq(Run)
    BY DEF TypeInv, TypeOK
  <2>2. runs'[t] = [k \in DOMAIN runs[t] |->
           IF k \in Outdated(t)
           THEN [runs[t][k] EXCEPT !.result = "deleted", !.cleaned = TRUE]
           ELSE runs[t][k]]
    BY DEF CleanUpRuns
  <2> DEFINE cleaned(old) == [k \in DOMAIN runs[t] |->
           IF k \in old
           THEN [runs[t][k] EXCEPT !.result = "deleted", !.cleaned = TRUE]
           ELSE runs[t][k]]
  <2>3. \A old : cleaned(old) \in Seq(Run)
    BY <2>1, CleanedType
  <2>4. runs'[t] = cleaned(Outdated(t))
    BY <2>2
  <2> HIDE DEF cleaned
  <2>5. QED
    BY <2>3, <2>4
<1>2. runs' \in [Task -> Seq(Run)]
  BY <1>1 DEF CleanUpRuns
<1>3. QED
  BY <1>2 DEF CleanUpRuns, TypeInv, TypeOK, HoldersOK, Holding, workerVars

LEMMA NextType == TypeInv /\ [Next]_vars => TypeInv'
<1> SUFFICES ASSUME TypeInv, [Next]_vars PROVE TypeInv'
  OBVIOUS
<1> USE DEF Goto
<1>1. Blank \in Row /\ NoCopy \in Copy
  BY DEF Blank, Row, NoCopy, Copy, Moment
<1>2. ASSUME NEW t \in Task, Register(t) PROVE TypeInv'
  <2>1. [Blank EXCEPT !.created = now] \in Row
    BY <1>1 DEF TypeInv, TypeOK, Row
  <2>2. QED
    BY <2>1, <1>2 DEF TypeInv, TypeOK, HoldersOK, Holding, Register, workerVars, Status
<1>3. ASSUME NEW w \in Worker, Pick(w) PROVE TypeInv'
  <2>1. PICK t \in Pickable :
          /\ row' = [row EXCEPT ![t] = [@ EXCEPT !.locked = TRUE,
                                                 !.lockedAt = now]]
          /\ task' = [task EXCEPT ![w] = t]
          /\ copy' = [copy EXCEPT ![w] = [locked   |-> TRUE,
                                          lockedAt |-> now,
                                          disabled |-> row[t].disabled,
                                          failures |-> row[t].failures]]
    BY <1>3 DEF Pick
  <2>2. t \in Task
    BY DEF Pickable
  <2>3. row' \in [Task -> Row]
    <3>1. row[t] \in Row /\ now \in Moment
      BY <2>2 DEF TypeInv, TypeOK, Moment
    <3>2. [row[t] EXCEPT !.locked = TRUE, !.lockedAt = now] \in Row
      BY <3>1, RowPicked
    <3>3. QED
      BY <2>1, <3>2 DEF TypeInv, TypeOK
  <2>4. copy' \in [Worker -> Copy]
    BY <2>1, <2>2 DEF TypeInv, TypeOK, Row, Copy, Moment
  <2>5. earlier' \in SUBSET (Task \X Task) /\ lapses' \in [Task -> Nat]
    <3>1. PICK s \in Pickable :
            /\ earlier' = {p \in earlier : p[1] # s} \cup ((Task \ {s}) \X {s})
            /\ lapses' \in {[lapses EXCEPT ![s] = @ + 1], lapses}
      BY <1>3 DEF Pick
    <3>2. s \in Task /\ earlier \subseteq Task \X Task /\ lapses \in [Task -> Nat]
      BY DEF Pickable, TypeInv, TypeOK
    <3>3. QED
      BY <3>1, <3>2
  <2>6. QED
    BY <1>3, <2>1, <2>2, <2>3, <2>4, <2>5
       DEF Pick, TypeInv, TypeOK, HoldersOK, Holding, Phase
<1>4. ASSUME NEW w \in Worker, FindAbandoned(w) PROVE TypeInv'
  <2>1. task[w] \in Task
    BY <1>4 DEF FindAbandoned, TypeInv, HoldersOK, Holding
  <2>2. DOMAIN runs[task[w]] \subseteq Nat
    BY <2>1 DEF TypeInv, TypeOK
  <2>3. stray' \in [Worker -> Nat]
    BY <1>4, <2>2 DEF FindAbandoned, TypeInv, TypeOK
  <2>4. pc' \in [Worker -> Phase]
    BY <1>4 DEF FindAbandoned, TypeInv, TypeOK, Phase
  <2>5. HoldersOK'
    BY <1>4, <2>1 DEF FindAbandoned, TypeInv, TypeOK, HoldersOK, Holding
  <2>6. QED
    BY <1>4, <2>3, <2>4, <2>5 DEF FindAbandoned, TypeInv, TypeOK, dbVars
<1>5. ASSUME NEW w \in Worker, MarkAbandoned(w) PROVE TypeInv'
  <2>1. task[w] \in Task
    BY <1>5 DEF MarkAbandoned, TypeInv, HoldersOK, Holding
  <2>2. CASE stray[w] \in Kept(task[w])
    <3>1. runs' \in [Task -> Seq(Run)]
      <4>1. "FAILURE" \in Result /\ stray[w] \in DOMAIN runs[task[w]]
        BY <2>2 DEF Result, Kept
      <4>2. WithResult(task[w], stray[w], "FAILURE", FinishedNow) \in [Task -> Seq(Run)]
        BY <2>1, <4>1, ResultType, FinishedType
      <4>3. QED
        BY <1>5, <2>2, <4>2 DEF MarkAbandoned
    <3>2. pc' = [pc EXCEPT ![w] = "decide"] /\ task' = task
          /\ stray' = [stray EXCEPT ![w] = 0]
      BY <1>5, <2>2 DEF MarkAbandoned
    <3>3. HoldersOK' /\ stray' \in [Worker -> Nat] /\ pc' \in [Worker -> Phase]
      BY <2>1, <3>2 DEF TypeInv, TypeOK, HoldersOK, Holding, Phase
    <3>4. QED
      BY <1>5, <2>2, <3>1, <3>2, <3>3 DEF MarkAbandoned, TypeInv, TypeOK
  <2>3. CASE stray[w] \notin Kept(task[w])
    BY <1>5, <2>3, LeaveType DEF MarkAbandoned, TypeInv, TypeOK
  <2>4. QED
    BY <2>2, <2>3
<1>6. ASSUME NEW w \in Worker, SkipUnregistered(w) PROVE TypeInv'
  <2>1. task[w] \in Task
    BY <1>6 DEF SkipUnregistered, TypeInv, HoldersOK, Holding
  <2>2. status' \in [Task -> Status] /\ row' \in [Task -> Row]
        /\ runs' \in [Task -> Seq(Run)]
    <3>1. <<>> \in Seq(Run) /\ "deleted" \in Status
      BY DEF Status
    <3>2. CASE UNCHANGED dbVars
      BY <3>2 DEF TypeInv, TypeOK, dbVars
    <3>3. CASE /\ status' = [status EXCEPT ![task[w]] = "deleted"]
               /\ row' = [row EXCEPT ![task[w]] = Blank]
               /\ runs' = [runs EXCEPT ![task[w]] = <<>>]
      BY <1>1, <2>1, <3>1, <3>3 DEF TypeInv, TypeOK
    <3>4. QED
      BY <1>6, <3>2, <3>3 DEF SkipUnregistered
  <2>3. earlier' = earlier
    BY <1>6 DEF SkipUnregistered, dbVars
  <2>4. QED
    BY <1>6, <2>2, <2>3, LeaveType DEF SkipUnregistered, TypeInv, TypeOK
<1>7. ASSUME NEW w \in Worker, Decide(w) PROVE TypeInv'
  <2>1. task[w] \in Task
    BY <1>7 DEF Decide, TypeInv, HoldersOK, Holding
  <2>2. copy' \in [Worker -> Copy]
    <3>1. copy[w] \in Copy
      BY DEF TypeInv, TypeOK
    <3>2. Unlocked(copy[w]) \in Copy
      BY <3>1, CopyMarked
    <3>3. QED
      BY <1>7, <3>2 DEF Decide, TypeInv, TypeOK
  <2>3. pc' \in [Worker -> Phase]
    BY <1>7 DEF Decide, TypeInv, TypeOK, Phase
  <2>4. HoldersOK'
    BY <1>7, <2>1 DEF Decide, TypeInv, TypeOK, HoldersOK, Holding
  <2>5. QED
    BY <1>7, <2>2, <2>3, <2>4 DEF Decide, TypeInv, TypeOK, dbVars
<1>8. ASSUME NEW w \in Worker, InsertRun(w) PROVE TypeInv'
  <2>1. task[w] \in Task
    BY <1>8 DEF InsertRun, TypeInv, HoldersOK, Holding
  <2>2. CASE status[task[w]] = "present"
    <3>1. [started |-> now, finished |-> None, result |-> None, cleaned |-> FALSE] \in Run
      BY DEF TypeInv, TypeOK, Run, Result, Moment
    <3>2. runs[task[w]] \in Seq(Run)
      BY <2>1 DEF TypeInv, TypeOK
    <3>3. Append(runs[task[w]], [started |-> now, finished |-> None, result |-> None,
                                 cleaned |-> FALSE]) \in Seq(Run)
      BY <3>1, <3>2
    <3>4. runs' \in [Task -> Seq(Run)]
      BY <1>8, <2>1, <2>2, <3>3 DEF InsertRun, TypeInv, TypeOK
    <3>5. Len(runs[task[w]]) + 1 \in Nat
      BY <3>2
    <3>6. run' \in [Worker -> Nat] /\ startedAt' \in [Worker -> Nat]
      <4>1. /\ run' = [run EXCEPT ![w] = Len(runs[task[w]]) + 1]
            /\ startedAt' = [startedAt EXCEPT ![w] = now]
        BY <1>8, <2>2 DEF InsertRun
      <4>2. now \in Nat /\ run \in [Worker -> Nat] /\ startedAt \in [Worker -> Nat]
        BY DEF TypeInv, TypeOK
      <4>3. QED
        BY <3>5, <4>1, <4>2
    <3>7. QED
      BY <1>8, <2>1, <2>2, <3>4, <3>6
         DEF InsertRun, TypeInv, TypeOK, HoldersOK, Holding, Phase
  <2>3. CASE status[task[w]] # "present"
    BY <1>8, <2>3, LeaveType DEF InsertRun, TypeInv, TypeOK
  <2>4. QED
    BY <2>2, <2>3
<1>9. ASSUME NEW w \in Worker, Execute(w) PROVE TypeInv'
  <2>1. pc[w] = "exec" /\ Holding(w)
    BY <1>9 DEF Execute, Succeed, Fail, TimeOut, BackOff, Holding
  <2>2. copy[w] \in Copy
    BY DEF TypeInv, TypeOK
  <2>3. MarkSuccess(copy[w]) \in Copy /\ MarkFailure(copy[w]) \in Copy
    BY <2>2, CopyMarked
  <2>4. "SUCCESS" \in Result /\ "FAILURE" \in Result
    BY DEF Result
  <2>5. CASE BackOff(w)
    BY <2>5, LeaveType DEF BackOff, TypeInv, TypeOK, dbVars
  <2>6. CASE Succeed(w) \/ Fail(w) \/ TimeOut(w)
    BY <2>1, <2>3, <2>4, <2>6, FinishType DEF Succeed, Fail, TimeOut
  <2>7. QED
    BY <1>9, <2>5, <2>6 DEF Execute
<1>10. ASSUME NEW w \in Worker, SaveTask(w) PROVE TypeInv'
  <2>1. task[w] \in Task
    BY <1>10 DEF SaveTask, TypeInv, HoldersOK, Holding
  <2>2. row' \in [Task -> Row]
    <3>1. row[task[w]] \in Row /\ copy[w] \in Copy
      BY <2>1 DEF TypeInv, TypeOK
    <3>2. [row[task[w]] EXCEPT !.locked   = copy[w].locked,
                               !.lockedAt = copy[w].lockedAt,
                               !.disabled = copy[w].disabled,
                               !.failures = copy[w].failures] \in Row
      BY <3>1, RowSaved
    <3>3. QED
      BY <1>10, <3>2 DEF SaveTask, TypeInv, TypeOK
  <2>3. CASE Leave(w, "idle")
    BY <1>10, <2>2, <2>3, LeaveType DEF SaveTask, TypeInv, TypeOK
  <2>4. CASE /\ Goto(w, "saveRun")
             /\ UNCHANGED <<task, copy, run, result, startedAt, finishedAt, stray>>
    BY <1>10, <2>1, <2>2, <2>4
       DEF SaveTask, TypeInv, TypeOK, HoldersOK, Holding, Phase
  <2>5. QED
    BY <1>10, <2>3, <2>4 DEF SaveTask
<1>11. ASSUME NEW w \in Worker, SaveRun(w) PROVE TypeInv'
  <2>1. task[w] \in Task
    BY <1>11 DEF SaveRun, TypeInv, HoldersOK, Holding
  <2>2. runs' \in [Task -> Seq(Run)]
    BY <1>11, <2>1, ResultType DEF SaveRun, TypeInv, TypeOK
  <2>3. QED
    BY <1>11, <2>2, LeaveType DEF SaveRun, TypeInv, TypeOK
<1>12. ASSUME NEW w \in Worker,
              DatabaseError(w) \/ Crash(w)
       PROVE  TypeInv'
  BY <1>12, LeaveType DEF DatabaseError, Crash, TypeInv, TypeOK, dbVars
<1>13. ASSUME NEW w \in Worker, Restart(w) PROVE TypeInv'
  BY <1>13 DEF Restart, TypeInv, TypeOK, HoldersOK, Holding, dbVars, Phase
<1>14. CASE Tick
  BY <1>14 DEF Tick, TypeInv, TypeOK, HoldersOK, Holding, dbVars, workerVars
<1>15. ASSUME NEW t \in Task, AdminUnlock(t) \/ AdminEnable(t) PROVE TypeInv'
  <2>1. row' \in [Task -> Row]
    <3>1. row[t] \in Row
      BY DEF TypeInv, TypeOK
    <3>2. /\ [row[t] EXCEPT !.locked = FALSE] \in Row
          /\ [row[t] EXCEPT !.disabled = FALSE, !.failures = 0] \in Row
      BY <3>1, RowAdmin
    <3>3. QED
      BY <1>15, <3>2 DEF AdminUnlock, AdminEnable, TypeInv, TypeOK
  <2>2. lapses' \in [Task -> Nat]
    BY <1>15 DEF AdminUnlock, AdminEnable, TypeInv, TypeOK
  <2>3. QED
    BY <1>15, <2>1, <2>2 DEF AdminUnlock, AdminEnable, TypeInv, TypeOK, HoldersOK,
                             Holding, workerVars
<1>16. CASE CleanUpRuns
  BY <1>16, CleanUpType
<1>17. CASE UNCHANGED vars
  BY <1>17 DEF vars, dbVars, workerVars, TypeInv, TypeOK, HoldersOK, Holding
<1>18. QED
  BY <1>2, <1>3, <1>4, <1>5, <1>6, <1>7, <1>8, <1>9, <1>10, <1>11, <1>12,
     <1>13, <1>14, <1>15, <1>16, <1>17
     DEF Next, Loop

\* The tables and the workers' variables keep their types in every behaviour,
\* whatever the deployment, with
\* crashes, database errors, clean-ups and the admin site.
THEOREM TypeCorrect == Spec => []TypeOK
<1>1. TypeInv => TypeOK
  BY DEF TypeInv
<1>2. QED
  BY <1>1, InitType, NextType, PTL DEF Spec


-----------------------------------------------------------------------------
(* Steps.  A step is that of one worker, and leaves the variables of every    *)
(* other worker alone, or one of the rest, which touches no worker.           *)

WorkerStep(w) == Pick(w) \/ Loop(w) \/ DatabaseError(w) \/ Crash(w) \/ Restart(w)

OutsideStep ==
    \/ \E t \in Task : Register(t) \/ AdminUnlock(t) \/ AdminEnable(t)
    \/ CleanUpRuns \/ Tick \/ UNCHANGED vars

LEMMA StepSplit ==
    [Next]_vars => (\E w \in Worker : WorkerStep(w)) \/ OutsideStep
BY DEF Next, WorkerStep, OutsideStep

LEMMA OutsideAlone == OutsideStep => UNCHANGED workerVars
BY DEF OutsideStep, Register, AdminUnlock, AdminEnable, CleanUpRuns, Tick, vars

LEMMA OthersAlone ==
    ASSUME TypeInv, NEW w \in Worker, WorkerStep(w), NEW v \in Worker, v # w
    PROVE  /\ pc'[v] = pc[v] /\ task'[v] = task[v]
           /\ copy'[v] = copy[v] /\ run'[v] = run[v] /\ result'[v] = result[v]
           /\ stray'[v] = stray[v]
<1> DEFINE Same == /\ pc'[v] = pc[v] /\ task'[v] = task[v]
                   /\ copy'[v] = copy[v] /\ run'[v] = run[v] /\ result'[v] = result[v]
                   /\ stray'[v] = stray[v]
<1> USE DEF TypeInv, TypeOK
<1>1. ASSUME NEW phase, Leave(w, phase) PROVE Same
  BY <1>1 DEF Leave, Goto
<1>2. CASE Pick(w)
  BY <1>2 DEF Pick, Goto
<1>3. CASE FindAbandoned(w)
  BY <1>3 DEF FindAbandoned, Goto
<1>4. CASE MarkAbandoned(w)
  BY <1>1, <1>4 DEF MarkAbandoned, Goto
<1>5. CASE SkipUnregistered(w) \/ DatabaseError(w) \/ Crash(w)
  BY <1>1, <1>5 DEF SkipUnregistered, DatabaseError, Crash
<1>6. CASE Decide(w)
  BY <1>6 DEF Decide, Goto
<1>7. CASE InsertRun(w)
  BY <1>1, <1>7 DEF InsertRun, Goto
<1>8. ASSUME NEW c, NEW res, Finish(w, c, res) PROVE Same
  BY <1>8 DEF Finish, Goto
<1>9. CASE Execute(w)
  BY <1>1, <1>8, <1>9 DEF Execute, Succeed, Fail, TimeOut, BackOff
<1>10. CASE SaveTask(w)
  BY <1>1, <1>10 DEF SaveTask, Goto
<1>11. CASE SaveRun(w)
  BY <1>1, <1>11 DEF SaveRun
<1>12. CASE Restart(w)
  BY <1>12 DEF Restart, Goto
<1>13. QED
  BY <1>2, <1>3, <1>4, <1>5, <1>6, <1>7, <1>9, <1>10, <1>11, <1>12
     DEF WorkerStep, Loop

-----------------------------------------------------------------------------
(* What a worker has in memory, phase by phase.                              *)

\* A worker has a run from its insert on, and a result from the end of the
\* call on; its task was registered.
PhaseOK(w) ==
    /\ pc[w] \notin {"exec", "saveTask", "saveRun"} => run[w] = 0
    /\ pc[w] \in {"exec", "saveRun"} => run[w] # 0
    /\ result[w] # None <=> pc[w] \in {"saveTask", "saveRun"} /\ run[w] # 0
    /\ Holding(w) => status[task[w]] # "absent"

PhaseInv == \A w \in Worker : PhaseOK(w)

LEMMA PhaseInit == Init => PhaseInv
BY DEF Init, PhaseInv, PhaseOK, Holding

\* Nothing unregisters a task.
LEMMA StaysRegistered ==
    ASSUME TypeInv, [Next]_vars, NEW t \in Task, status[t] # "absent"
    PROVE  status'[t] # "absent"
<1> USE DEF TypeInv, TypeOK
<1>1. ASSUME NEW s \in Task, Register(s) PROVE status'[t] # "absent"
  BY <1>1 DEF Register
<1>2. ASSUME NEW w \in Worker, SkipUnregistered(w) PROVE status'[t] # "absent"
  BY <1>2 DEF SkipUnregistered, dbVars
<1>3. ASSUME NEW w \in Worker,
             \/ Pick(w) \/ FindAbandoned(w) \/ MarkAbandoned(w) \/ Decide(w)
             \/ InsertRun(w) \/ Execute(w) \/ SaveTask(w) \/ SaveRun(w)
             \/ DatabaseError(w) \/ Crash(w) \/ Restart(w)
      PROVE  status'[t] # "absent"
  BY <1>3 DEF Pick, FindAbandoned, MarkAbandoned, Decide, InsertRun, Execute,
              Succeed, Fail, TimeOut, BackOff, Finish, SaveTask, SaveRun,
              DatabaseError, Crash, Restart, dbVars
<1>4. CASE \/ CleanUpRuns \/ Tick \/ UNCHANGED vars
         \/ \E s \in Task : AdminUnlock(s) \/ AdminEnable(s)
  BY <1>4 DEF CleanUpRuns, Tick, vars, dbVars, AdminUnlock, AdminEnable
<1>5. QED
  BY <1>1, <1>2, <1>3, <1>4 DEF Next, Loop

\* Nothing makes a row again but the first registration.
LEMMA StaysPresent ==
    ASSUME TypeInv, [Next]_vars, NEW t \in Task, status[t] # "absent",
           status'[t] = "present"
    PROVE  status[t] = "present"
<1> USE DEF TypeInv, TypeOK
<1>1. ASSUME NEW s \in Task, Register(s) PROVE status'[t] = status[t]
  BY <1>1 DEF Register
<1>2. ASSUME NEW w \in Worker, SkipUnregistered(w) PROVE status[t] = "present"
  BY <1>2 DEF SkipUnregistered, dbVars
<1>3. ASSUME NEW w \in Worker,
             \/ Pick(w) \/ FindAbandoned(w) \/ MarkAbandoned(w) \/ Decide(w)
             \/ InsertRun(w) \/ Execute(w) \/ SaveTask(w) \/ SaveRun(w)
             \/ DatabaseError(w) \/ Crash(w) \/ Restart(w)
      PROVE  status'[t] = status[t]
  BY <1>3 DEF Pick, FindAbandoned, MarkAbandoned, Decide, InsertRun, Execute,
              Succeed, Fail, TimeOut, BackOff, Finish, SaveTask, SaveRun,
              DatabaseError, Crash, Restart, dbVars
<1>4. CASE \/ CleanUpRuns \/ Tick \/ UNCHANGED vars
         \/ \E s \in Task : AdminUnlock(s) \/ AdminEnable(s)
  BY <1>4 DEF CleanUpRuns, Tick, vars, dbVars, AdminUnlock, AdminEnable
<1>5. QED
  BY <1>1, <1>2, <1>3, <1>4 DEF Next, Loop

LEMMA PhaseNext == TypeInv /\ PhaseInv /\ [Next]_vars => PhaseInv'
<1> SUFFICES ASSUME TypeInv, PhaseInv, [Next]_vars PROVE PhaseInv'
  OBVIOUS
<1> USE DEF Goto
<1>1. \A w \in Worker : Holding(w) => /\ task[w] \in Task
                                      /\ status[task[w]] # "absent"
                                      /\ status'[task[w]] # "absent"
  BY StaysRegistered DEF TypeInv, HoldersOK, PhaseInv, PhaseOK
<1>2. ASSUME NEW v \in Worker, pc'[v] = pc[v], task'[v] = task[v], run'[v] = run[v],
             result'[v] = result[v]
      PROVE  PhaseOK(v)'
  BY <1>1, <1>2 DEF PhaseInv, PhaseOK, Holding
<1>3. ASSUME NEW w \in Worker, NEW phase \in {"idle", "down"}, Leave(w, phase)
      PROVE  PhaseOK(w)'
  BY <1>3 DEF Leave, PhaseOK, Holding, TypeInv, TypeOK
<1>4. ASSUME NEW w \in Worker, WorkerStep(w), PhaseOK(w)' PROVE PhaseInv'
  BY <1>2, <1>4, OthersAlone DEF PhaseInv
<1>5. ASSUME NEW w \in Worker, Pick(w) PROVE PhaseOK(w)'
  <2>1. PICK t \in Pickable : task' = [task EXCEPT ![w] = t]
    BY <1>5 DEF Pick
  <2>2. status'[task'[w]] # "absent"
    BY <1>5, <2>1 DEF Pick, Pickable, TypeInv, TypeOK
  <2>3. QED
    BY <1>5, <2>2 DEF Pick, PhaseInv, PhaseOK, TypeInv, TypeOK
<1>6. ASSUME NEW w \in Worker, FindAbandoned(w) \/ Decide(w) \/ Restart(w)
      PROVE  PhaseOK(w)'
  <2>1. /\ task'[w] = task[w] /\ run'[w] = run[w] /\ result'[w] = result[w]
        /\ pc[w] \in {"reconcile", "decide", "down"}
    BY <1>6 DEF FindAbandoned, Decide, Restart
  <2>2. \/ pc'[w] \in {"decide", "abandon", "insert", "saveTask"} /\ Holding(w)
        \/ pc'[w] = "idle"
    BY <1>6 DEF FindAbandoned, Decide, Restart, Holding, TypeInv, TypeOK
  <2>3. QED
    BY <1>1, <2>1, <2>2 DEF PhaseInv, PhaseOK, Holding
<1>7. ASSUME NEW w \in Worker, MarkAbandoned(w) PROVE PhaseOK(w)'
  <2>1. CASE Leave(w, "idle")
    BY <1>3, <2>1
  <2>2. CASE /\ Goto(w, "decide")
             /\ UNCHANGED <<task, copy, run, result, startedAt, finishedAt>>
    BY <1>1, <1>7, <2>2 DEF MarkAbandoned, PhaseInv, PhaseOK, Holding, TypeInv, TypeOK
  <2>3. QED
    BY <1>7, <2>1, <2>2 DEF MarkAbandoned
<1>8. ASSUME NEW w \in Worker,
             SkipUnregistered(w) \/ BackOff(w) \/ SaveRun(w) \/ DatabaseError(w) \/ Crash(w)
      PROVE  PhaseOK(w)'
  BY <1>3, <1>8 DEF SkipUnregistered, BackOff, SaveRun, DatabaseError, Crash
<1>9. ASSUME NEW w \in Worker, InsertRun(w) PROVE PhaseOK(w)'
  <2>1. CASE status[task[w]] = "present"
    <3>1. /\ pc'[w] = "exec" /\ pc[w] = "insert"
          /\ task'[w] = task[w] /\ result'[w] = result[w]
          /\ run'[w] = Len(runs[task[w]]) + 1
      BY <1>9, <2>1 DEF InsertRun, TypeInv, TypeOK
    <3>2. task[w] \in Task /\ status'[task[w]] # "absent"
      BY <1>1, <3>1 DEF Holding
    <3>3. Len(runs[task[w]]) \in Nat
      BY <3>2 DEF TypeInv, TypeOK
    <3>4. run'[w] # 0
      BY <3>1, <3>3
    <3>5. QED
      BY <3>1, <3>2, <3>4 DEF PhaseInv, PhaseOK
  <2>2. CASE status[task[w]] # "present"
    BY <1>3, <1>9, <2>2 DEF InsertRun
  <2>3. QED
    BY <2>1, <2>2
<1>10. ASSUME NEW w \in Worker, Succeed(w) \/ Fail(w) \/ TimeOut(w)
       PROVE  PhaseOK(w)'
  <2>1. /\ pc[w] = "exec" /\ pc'[w] = "saveTask"
        /\ task'[w] = task[w] /\ run'[w] = run[w]
        /\ result'[w] \in {"SUCCESS", "FAILURE"}
    BY <1>10 DEF Succeed, Fail, TimeOut, Finish, TypeInv, TypeOK
  <2>2. None \notin {"SUCCESS", "FAILURE"}
    BY ConstantsAssumption
  <2>3. Holding(w) /\ run[w] # 0
    BY <2>1 DEF PhaseInv, PhaseOK, Holding
  <2>4. QED
    BY <1>1, <2>1, <2>2, <2>3 DEF PhaseOK
<1>11. ASSUME NEW w \in Worker, SaveTask(w) PROVE PhaseOK(w)'
  <2>1. CASE Leave(w, "idle")
    BY <1>3, <2>1
  <2>2. CASE /\ run[w] # 0 /\ Goto(w, "saveRun")
             /\ UNCHANGED <<task, copy, run, result, startedAt, finishedAt, stray>>
    BY <1>1, <1>11, <2>2 DEF SaveTask, PhaseInv, PhaseOK, Holding, TypeInv, TypeOK
  <2>3. QED
    BY <1>11, <2>1, <2>2 DEF SaveTask
<1>12. ASSUME NEW w \in Worker, WorkerStep(w) PROVE PhaseInv'
  BY <1>4, <1>5, <1>6, <1>7, <1>8, <1>9, <1>10, <1>11, <1>12
     DEF WorkerStep, Loop, Execute
<1>13. ASSUME UNCHANGED workerVars PROVE PhaseInv'
  BY <1>2, <1>13 DEF workerVars, PhaseInv
<1>14. QED
  BY <1>12, <1>13, StepSplit, OutsideAlone

-----------------------------------------------------------------------------
(* The lock.  A picked task is locked, and whoever unlocks it leaves: every   *)
(* holder but the first has a lapse to its name.                             *)

Locking(w) == Holding(w) /\ pc[w] # "saveRun"

Free(t) == IF row[t].locked THEN 0 ELSE 1

HolderOK(t) == /\ IsFiniteSet(Holders(t))
               /\ Cardinality(Holders(t)) + Free(t) <= 1 + lapses[t]

HolderInv == \A t \in Task : HolderOK(t)

BaseInv == TypeInv /\ PhaseInv /\ HolderInv

\* How a worker comes to hold a task, and to have a run.
LEMMA HoldStep ==
    ASSUME TypeInv, [Next]_vars, NEW w \in Worker, Holding(w)'
    PROVE  \/ Pick(w)
           \/ /\ Holding(w) /\ task'[w] = task[w]
              /\ Locking(w)' => Locking(w)
              /\ run'[w] = run[w] \/ (InsertRun(w) /\ status[task[w]] = "present")
<1> DEFINE Stays == /\ Holding(w) /\ task'[w] = task[w]
                    /\ Locking(w)' => Locking(w)
                    /\ run'[w] = run[w] \/ (InsertRun(w) /\ status[task[w]] = "present")
<1>1. ASSUME pc'[w] = pc[w], task'[w] = task[w], run'[w] = run[w] PROVE Stays
  BY <1>1 DEF Holding, Locking
<1>2. ASSUME NEW phase \in {"idle", "down"} PROVE ~Leave(w, phase)
  BY DEF Leave, Goto, Holding, TypeInv, TypeOK
<1>3. CASE FindAbandoned(w) \/ Decide(w)
  BY <1>3 DEF FindAbandoned, Decide, Goto, Holding, Locking
<1>4. CASE MarkAbandoned(w)
  BY <1>2, <1>4 DEF MarkAbandoned, Goto, Holding, Locking
<1>5. CASE InsertRun(w)
  BY <1>2, <1>5 DEF InsertRun, Goto, Holding, Locking
<1>6. CASE Execute(w)
  BY <1>2, <1>6 DEF Execute, Succeed, Fail, TimeOut, BackOff, Finish, Goto, Holding, Locking
<1>7. CASE SaveTask(w)
  BY <1>2, <1>7 DEF SaveTask, Goto, Holding, Locking
<1>8. CASE SkipUnregistered(w) \/ SaveRun(w) \/ DatabaseError(w) \/ Crash(w)
  BY <1>2, <1>8 DEF SkipUnregistered, SaveRun, DatabaseError, Crash
<1>9. ~Restart(w)
  BY DEF Restart, Goto, Holding, TypeInv, TypeOK
<1>10. ASSUME NEW v \in Worker, v # w, WorkerStep(v) PROVE Stays
  BY <1>1, <1>10, OthersAlone
<1>11. CASE OutsideStep
  BY <1>1, <1>11, OutsideAlone DEF workerVars
<1>12. CASE WorkerStep(w)
  BY <1>3, <1>4, <1>5, <1>6, <1>7, <1>8, <1>9, <1>12 DEF WorkerStep, Loop
<1>13. QED
  BY <1>10, <1>11, <1>12, StepSplit

\* The four columns SaveTask writes are the instance's.
LEMMA SavedColumns ==
    ASSUME TypeInv, NEW w \in Worker, SaveTask(w), status[task[w]] = "present"
    PROVE  /\ task[w] \in Task
           /\ row'[task[w]].locked = copy[w].locked
           /\ row'[task[w]].lockedAt = copy[w].lockedAt
           /\ row'[task[w]].disabled = copy[w].disabled
           /\ row'[task[w]].failures = copy[w].failures
           /\ \A t \in Task \ {task[w]} : row'[t] = row[t]
<1>1. task[w] \in Task
  BY DEF SaveTask, TypeInv, HoldersOK, Holding
<1>2. row[task[w]] \in Row
  BY <1>1 DEF TypeInv, TypeOK
<1> DEFINE saved == [row[task[w]] EXCEPT !.locked   = copy[w].locked,
                                         !.lockedAt = copy[w].lockedAt,
                                         !.disabled = copy[w].disabled,
                                         !.failures = copy[w].failures]
<1>3. row' = [row EXCEPT ![task[w]] = saved]
  BY DEF SaveTask
<1>4. /\ saved.locked = copy[w].locked /\ saved.lockedAt = copy[w].lockedAt
      /\ saved.disabled = copy[w].disabled /\ saved.failures = copy[w].failures
  BY <1>2 DEF Row
<1> HIDE DEF saved
<1>5. QED
  BY <1>1, <1>3, <1>4 DEF TypeInv, TypeOK


\* Lapses are never forgotten.
LEMMA LapsesGrow ==
    ASSUME TypeInv, [Next]_vars, NEW t \in Task
    PROVE  lapses[t] \in Nat /\ lapses'[t] \in Nat /\ lapses[t] <= lapses'[t]
<1> DEFINE Grows == \E s \in Task : lapses' = [lapses EXCEPT ![s] = @ + 1]
<1>1. lapses \in [Task -> Nat]
  BY DEF TypeInv, TypeOK
<1>2. lapses' = lapses \/ Grows
  <2>1. ASSUME NEW w \in Worker, Pick(w) PROVE lapses' = lapses \/ Grows
    BY <2>1 DEF Pick, Pickable
  <2>2. ASSUME NEW s \in Task, AdminUnlock(s) PROVE lapses' = lapses \/ Grows
    BY <2>2 DEF AdminUnlock
  <2>3. ASSUME NEW w \in Worker,
               \/ FindAbandoned(w) \/ MarkAbandoned(w) \/ SkipUnregistered(w) \/ Decide(w)
               \/ InsertRun(w) \/ Execute(w) \/ SaveTask(w) \/ SaveRun(w)
               \/ DatabaseError(w) \/ Crash(w) \/ Restart(w)
        PROVE  lapses' = lapses
    BY <2>3 DEF FindAbandoned, MarkAbandoned, SkipUnregistered, Decide, InsertRun,
                Execute, Succeed, Fail, TimeOut, BackOff, Finish, SaveTask, SaveRun,
                DatabaseError, Crash, Restart
  <2>4. CASE \/ CleanUpRuns \/ Tick \/ UNCHANGED vars
             \/ \E s \in Task : Register(s) \/ AdminEnable(s)
    BY <2>4 DEF CleanUpRuns, Tick, vars, Register, AdminEnable
  <2>5. QED
    BY <2>1, <2>2, <2>3, <2>4 DEF Next, Loop
<1>3. QED
  BY <1>1, <1>2

\* Only Pick makes a holder.
LEMMA HoldersStep ==
    ASSUME TypeInv, [Next]_vars, NEW t \in Task
    PROVE  \A w \in Holders(t)' : w \in Holders(t) \/ (Pick(w) /\ task'[w] = t)
<1> SUFFICES ASSUME NEW w \in Worker, Locking(w)', task'[w] = t, ~Pick(w)
             PROVE  Locking(w) /\ task[w] = t
  BY DEF Holders, Locking
<1>1. Holding(w)'
  BY DEF Locking
<1>2. QED
  BY <1>1, HoldStep

\* What Pick does to the task it picks.
LEMMA Picked ==
    ASSUME TypeInv, NEW w \in Worker, Pick(w)
    PROVE  /\ task'[w] \in Pickable
           /\ row'[task'[w]].locked
           /\ \A s \in Task : /\ s # task'[w] => row'[s] = row[s]
                              /\ row'[s].disabled = row[s].disabled
                              /\ row'[s].failures = row[s].failures
           /\ copy'[w].locked /\ copy'[w].failures = row[task'[w]].failures
           /\ copy'[w].disabled = row[task'[w]].disabled
           /\ lapses' = IF /\ row[task'[w]].locked /\ LockExpired(task'[w])
                          /\ Holders(task'[w]) # {}
                       THEN [lapses EXCEPT ![task'[w]] = @ + 1] ELSE lapses
<1>1. PICK t \in Pickable :
        /\ row' = [row EXCEPT ![t] = [@ EXCEPT !.locked = TRUE, !.lockedAt = now]]
        /\ task' = [task EXCEPT ![w] = t]
        /\ copy' = [copy EXCEPT ![w] = [locked   |-> TRUE,
                                        lockedAt |-> now,
                                        disabled |-> row[t].disabled,
                                        failures |-> row[t].failures]]
        /\ lapses' = IF row[t].locked /\ LockExpired(t) /\ Holders(t) # {}
                     THEN [lapses EXCEPT ![t] = @ + 1] ELSE lapses
  BY DEF Pick
<1>2. t \in Task /\ task'[w] = t
  BY <1>1 DEF Pickable, TypeInv, TypeOK
<1> DEFINE picked == [row[t] EXCEPT !.locked = TRUE, !.lockedAt = now]
<1>3. row[t] \in Row
  BY <1>2 DEF TypeInv, TypeOK
<1>4. /\ picked.locked = TRUE /\ picked.disabled = row[t].disabled
      /\ picked.failures = row[t].failures
  BY <1>3 DEF Row
<1>5. row' = [row EXCEPT ![t] = picked]
  BY <1>1
<1> HIDE DEF picked
<1>6. row'[t] = picked /\ \A s \in Task : s # t => row'[s] = row[s]
  BY <1>2, <1>5 DEF TypeInv, TypeOK
<1>7. /\ copy'[w].locked = TRUE /\ copy'[w].failures = row[t].failures
      /\ copy'[w].disabled = row[t].disabled
  BY <1>1 DEF TypeInv, TypeOK
<1>8. \A s \in Task : /\ row'[s].disabled = row[s].disabled
                      /\ row'[s].failures = row[s].failures
  BY <1>4, <1>6
<1>9. QED
  BY <1>1, <1>2, <1>4, <1>6, <1>7, <1>8

\* Who changes whether a task is locked: besides the registration, the query
\* and the admin, only a holder that gives the task up.
LEMMA LockedStep ==
    ASSUME TypeInv, [Next]_vars, NEW t \in Task
    PROVE  \/ row'[t].locked = row[t].locked
           \/ Register(t)
           \/ \E w \in Worker : Pick(w) /\ task'[w] = t
           \/ \E w \in Holders(t) : w \notin Holders(t)'
           \/ AdminUnlock(t)
<1>1. ASSUME NEW s \in Task, Register(s) PROVE row'[t] = row[t] \/ Register(t)
  BY <1>1 DEF Register, TypeInv, TypeOK
<1>2. ASSUME NEW w \in Worker, Pick(w)
      PROVE  row'[t] = row[t] \/ task'[w] = t
  BY <1>2, Picked
<1>3. ASSUME NEW w \in Worker, SkipUnregistered(w) \/ SaveTask(w)
      PROVE  row'[t] = row[t] \/ (w \in Holders(t) /\ w \notin Holders(t)')
  <2>1. w \in Holders(task[w]) /\ ~Locking(w)'
    BY <1>3 DEF SkipUnregistered, SaveTask, Leave, Goto, Locking, Holders, Holding,
                TypeInv, TypeOK
  <2>2. w \notin Holders(t)'
    BY <2>1 DEF Holders, Locking
  <2>3. row'[t] = row[t] \/ task[w] = t
    <3>1. CASE SkipUnregistered(w)
      BY <3>1 DEF SkipUnregistered, dbVars, TypeInv, TypeOK
    <3>2. CASE SaveTask(w) /\ status[task[w]] = "present"
      BY <3>2, SavedColumns
    <3>3. CASE SaveTask(w) /\ status[task[w]] # "present"
      BY <3>3 DEF SaveTask
    <3>4. QED
      BY <1>3, <3>1, <3>2, <3>3
  <2>4. QED
    BY <2>1, <2>2, <2>3
<1>4. ASSUME NEW w \in Worker,
             \/ FindAbandoned(w) \/ MarkAbandoned(w) \/ Decide(w) \/ InsertRun(w)
             \/ Execute(w) \/ SaveRun(w) \/ DatabaseError(w) \/ Crash(w) \/ Restart(w)
      PROVE  row' = row
  BY <1>4 DEF FindAbandoned, MarkAbandoned, Decide, InsertRun, Execute, Succeed, Fail,
              TimeOut, BackOff, Finish, SaveRun, DatabaseError, Crash, Restart, dbVars
<1>5. ASSUME NEW s \in Task, AdminUnlock(s)
      PROVE  row'[t] = row[t] \/ AdminUnlock(t)
  BY <1>5 DEF AdminUnlock, TypeInv, TypeOK
<1>6. ASSUME NEW s \in Task, AdminEnable(s) PROVE row'[t].locked = row[t].locked
  <2>1. row[t] \in Row
    BY DEF TypeInv, TypeOK
  <2>2. row'[t] \in {row[t], [row[t] EXCEPT !.disabled = FALSE, !.failures = 0]}
    BY <1>6 DEF AdminEnable, TypeInv, TypeOK
  <2>3. QED
    BY <2>1, <2>2 DEF Row
<1>7. CleanUpRuns \/ Tick \/ UNCHANGED vars => row' = row
  BY DEF CleanUpRuns, Tick, vars, dbVars
<1>8. QED
  BY <1>1, <1>2, <1>3, <1>4, <1>5, <1>6, <1>7 DEF Next, Loop

LEMMA BaseInit == Init => BaseInv
<1> SUFFICES ASSUME Init PROVE BaseInv
  OBVIOUS
<1>1. TypeInv /\ PhaseInv
  BY InitType, PhaseInit
<1>2. ASSUME NEW t \in Task PROVE HolderOK(t)
  <2>1. Holders(t) = {} /\ lapses[t] = 0
    BY DEF Init, Holders, Holding
  <2>2. Cardinality({}) = 0 /\ IsFiniteSet({})
    BY FS_EmptySet
  <2>3. Free(t) \in {0, 1}
    BY DEF Free
  <2>4. QED
    BY <2>1, <2>2, <2>3 DEF HolderOK
<1>3. QED
  BY <1>1, <1>2 DEF BaseInv, HolderInv

\* The holders of one task across any step.
LEMMA HolderNext ==
    ASSUME BaseInv, [Next]_vars, NEW t \in Task
    PROVE  HolderOK(t)'
<1>1. TypeInv /\ TypeInv' /\ HolderOK(t)
  BY NextType DEF BaseInv, HolderInv
<1> DEFINE H == Holders(t)
           Hn == Holders(t)'
<1>2. /\ IsFiniteSet(H) /\ Cardinality(H) \in Nat
      /\ Cardinality(H) + Free(t) <= 1 + lapses[t]
  BY <1>1, FS_CardinalityType DEF HolderOK
<1>3. /\ lapses[t] \in Nat /\ lapses'[t] \in Nat /\ lapses[t] <= lapses'[t]
      /\ Free(t) \in {0, 1} /\ Free(t)' \in {0, 1}
  BY <1>1, LapsesGrow DEF Free
<1> SUFFICES IsFiniteSet(Hn) /\ Cardinality(Hn) + Free(t)' <= 1 + lapses'[t]
  BY DEF HolderOK
<1>4. CASE \E w \in Worker : Pick(w) /\ task'[w] = t
  <2>1. PICK w \in Worker : Pick(w) /\ task'[w] = t
    BY <1>4
  <2>2. /\ Free(t)' = 0
        /\ lapses' = IF row[t].locked /\ LockExpired(t) /\ H # {}
                     THEN [lapses EXCEPT ![t] = @ + 1] ELSE lapses
        /\ ~row[t].locked \/ LockExpired(t)
    BY <1>1, <2>1, Picked DEF Free, Pickable
  <2>3. Hn \subseteq H \cup {w}
    <3> SUFFICES ASSUME NEW v \in Hn, v \notin H PROVE v = w
      OBVIOUS
    <3>1. v \in Worker /\ Pick(v)
      BY <1>1, HoldersStep DEF Holders
    <3>2. QED
      BY <1>1, <2>1, <3>1 DEF Pick, Goto, TypeInv, TypeOK
  <2>4. IsFiniteSet(H \cup {w}) /\ Cardinality(H \cup {w}) <= Cardinality(H) + 1
        /\ Cardinality(H \cup {w}) \in Nat
    <3>1. /\ IsFiniteSet(H \cup {w})
          /\ Cardinality(H \cup {w}) = IF w \in H THEN Cardinality(H) ELSE Cardinality(H) + 1
      BY <1>2, FS_AddElement, Zenon
    <3>2. QED
      BY <1>2, <3>1
  <2>5. /\ IsFiniteSet(Hn) /\ Cardinality(Hn) \in Nat
        /\ Cardinality(Hn) <= Cardinality(H \cup {w})
    BY <2>3, <2>4, FS_Subset, FS_CardinalityType
  <2>6. CASE ~row[t].locked
    <3>1. Free(t) = 1
      BY <2>6 DEF Free
    <3>2. QED
      BY <1>2, <1>3, <2>2, <2>4, <2>5, <3>1
  <2>7. CASE row[t].locked /\ H # {}
    <3>1. lapses'[t] = lapses[t] + 1
      BY <1>1, <2>2, <2>7 DEF TypeInv, TypeOK
    <3>2. QED
      BY <1>2, <1>3, <2>2, <2>4, <2>5, <3>1
  <2>8. CASE H = {}
    <3>1. Cardinality(H) = 0
      BY <2>8, FS_EmptySet
    <3>2. QED
      BY <1>3, <2>2, <2>4, <2>5, <3>1
  <2>9. QED
    BY <2>6, <2>7, <2>8
<1>5. CASE ~\E w \in Worker : Pick(w) /\ task'[w] = t
  <2>1. Hn \subseteq H
    <3> SUFFICES ASSUME NEW v \in Hn PROVE v \in H
      OBVIOUS
    <3>1. v \in Worker
      BY DEF Holders
    <3>2. QED
      BY <1>1, <1>5, <3>1, HoldersStep
  <2>2. /\ IsFiniteSet(Hn) /\ Cardinality(Hn) \in Nat
        /\ Cardinality(Hn) <= Cardinality(H)
    BY <1>2, <2>1, FS_Subset, FS_CardinalityType
  <2>3. CASE row'[t].locked = row[t].locked
    <3>1. Free(t)' = Free(t)
      BY <2>3 DEF Free
    <3>2. QED
      BY <1>2, <1>3, <2>2, <3>1
  <2>4. CASE H = {}
    <3>1. Cardinality(H) = 0
      BY <2>4, FS_EmptySet
    <3>2. QED
      BY <1>3, <2>2, <3>1
  <2>5. CASE Register(t)
    <3>1. H = {}
      BY <2>5 DEF Register, BaseInv, PhaseInv, PhaseOK, Holders
    <3>2. QED
      BY <2>4, <3>1
  <2>6. CASE \E w \in H : w \notin Hn
    <3>1. PICK w \in H : w \notin Hn
      BY <2>6
    <3>2. /\ IsFiniteSet(H \ {w}) /\ Cardinality(H \ {w}) = Cardinality(H) - 1
      BY <1>2, <3>1, FS_RemoveElement
    <3>3. Hn \subseteq H \ {w}
      BY <2>1, <3>1
    <3>4. Cardinality(Hn) <= Cardinality(H \ {w})
      BY <3>2, <3>3, FS_Subset
    <3>5. QED
      BY <1>2, <1>3, <2>2, <3>2, <3>4
  <2>7. CASE AdminUnlock(t)
    <3>1. CASE H # {}
      <4>1. lapses'[t] = lapses[t] + 1 /\ Free(t) = 0
        BY <1>1, <2>7, <3>1 DEF AdminUnlock, Free, TypeInv, TypeOK
      <4>2. QED
        BY <1>2, <1>3, <2>2, <4>1
    <3>2. QED
      BY <2>4, <3>1
  <2>8. QED
    BY <1>1, <1>5, <2>3, <2>5, <2>6, <2>7, LockedStep
<1>6. QED
  BY <1>4, <1>5

LEMMA BaseNext == BaseInv /\ [Next]_vars => BaseInv'
<1> SUFFICES ASSUME BaseInv, [Next]_vars PROVE BaseInv'
  OBVIOUS
<1>1. TypeInv' /\ PhaseInv'
  BY NextType, PhaseNext DEF BaseInv
<1>2. \A t \in Task : HolderOK(t)'
  BY HolderNext
<1>3. QED
  BY <1>1, <1>2 DEF BaseInv, HolderInv

\* is_locked and locked_at, for any number of workers of any speed, with every
\* fault and the admin site: as many workers are on a task at once as live ones
\* have lost its lock, and one more.
THEOREM HoldersAreAccounted == Spec => []HoldersAccounted
<1>1. BaseInv => HoldersAccounted
  BY DEF BaseInv, HolderInv, HolderOK, Free, HoldersAccounted
<1>2. QED
  BY <1>1, BaseInit, BaseNext, PTL DEF Spec

\* Without a lapse the lock excludes.
LEMMA SoleHolder ==
    ASSUME BaseInv, NEW t \in Task, lapses[t] = 0,
           NEW v \in Worker, NEW w \in Worker, Locking(v), Locking(w),
           task[v] = t, task[w] = t
    PROVE  v = w
<1>1. v \in Holders(t) /\ w \in Holders(t)
  BY DEF Holders, Locking
<1>2. IsFiniteSet(Holders(t)) /\ Cardinality(Holders(t)) <= 1
  <2>1. IsFiniteSet(Holders(t)) /\ Cardinality(Holders(t)) + Free(t) <= 1
    BY DEF BaseInv, HolderInv, HolderOK
  <2>2. Free(t) \in {0, 1} /\ Cardinality(Holders(t)) \in Nat
    BY <2>1, FS_CardinalityType DEF Free
  <2>3. QED
    BY <2>1, <2>2
<1> SUFFICES ASSUME v # w PROVE FALSE
  OBVIOUS
<1>3. Cardinality({v} \cup {w}) = 2
  <2>1. IsFiniteSet({v}) /\ Cardinality({v}) = 1
    BY FS_Singleton
  <2>2. Cardinality({v} \cup {w}) = IF w \in {v} THEN Cardinality({v}) ELSE Cardinality({v}) + 1
    BY <2>1, FS_AddElement, Zenon
  <2>3. QED
    BY <2>1, <2>2
<1>4. Cardinality({v} \cup {w}) <= Cardinality(Holders(t))
  <2>1. {v} \cup {w} \subseteq Holders(t)
    BY <1>1
  <2>2. QED
    BY <1>2, <2>1, FS_Subset
<1>5. Cardinality(Holders(t)) \in Nat
  BY <1>2, FS_CardinalityType
<1>6. QED
  BY <1>2, <1>3, <1>4, <1>5
-----------------------------------------------------------------------------
(* The counter and the flag.  What a worker will save was read from the row  *)
(* in one statement and is changed as a whole, so it agrees with itself even *)
(* when it is stale; a picked task is enabled, and only a failure disables.  *)

Agrees(r) == r.disabled <=> r.failures >= MaxConsecutive

AgreementInv ==
    /\ TypeInv
    /\ \A t \in Task : Agrees(row[t])
    /\ \A w \in Worker :
          /\ Agrees(copy[w])
          /\ pc[w] \notin {"saveTask", "saveRun"} => ~copy[w].disabled

\* mark_success, mark_failure and unlock turn an enabled instance that agrees
\* with itself into one that still does.
LEMMA MarkedAgrees ==
    ASSUME NEW c \in Copy, Agrees(c), ~c.disabled
    PROVE  /\ Agrees(Unlocked(c)) /\ Agrees(MarkSuccess(c)) /\ Agrees(MarkFailure(c))
           /\ ~Unlocked(c).disabled /\ ~MarkSuccess(c).disabled
<1>1. c.failures \in Nat /\ MaxConsecutive \in Nat \ {0}
  BY ConstantsAssumption DEF Copy
<1>2. /\ Unlocked(c).disabled = c.disabled /\ Unlocked(c).failures = c.failures
      /\ MarkSuccess(c).disabled = c.disabled /\ MarkSuccess(c).failures = 0
  BY DEF Unlocked, MarkSuccess, Copy
<1>3. MarkFailure(c).failures = c.failures + 1
  BY DEF MarkFailure, Copy
<1>4. MarkFailure(c).disabled <=> c.failures + 1 >= MaxConsecutive
  <2>1. MarkFailure(c).disabled = (c.disabled \/ c.failures + 1 >= MaxConsecutive)
    BY DEF MarkFailure, Copy
  <2>2. QED
    BY <2>1
<1>5. Agrees(MarkFailure(c))
  BY <1>3, <1>4, Zenon DEF Agrees
<1>6. ~Unlocked(c).disabled /\ ~MarkSuccess(c).disabled
  BY <1>2
<1>7. ~(c.failures >= MaxConsecutive) /\ ~(0 >= MaxConsecutive)
  BY <1>1 DEF Agrees
<1>8. Agrees(Unlocked(c)) /\ Agrees(MarkSuccess(c))
  BY <1>2, <1>6, <1>7, Zenon DEF Agrees
<1>9. QED
  BY <1>5, <1>6, <1>8

LEMMA AgreementInit == Init => AgreementInv
<1> SUFFICES ASSUME Init PROVE AgreementInv
  OBVIOUS
<1>1. ~(0 >= MaxConsecutive)
  BY ConstantsAssumption
<1>2. Agrees(Blank) /\ Agrees(NoCopy) /\ ~NoCopy.disabled
  BY <1>1 DEF Agrees, Blank, NoCopy
<1>3. \A t \in Task : row[t] = Blank
  BY DEF Init
<1>4. \A w \in Worker : copy[w] = NoCopy
  BY DEF Init
<1>5. TypeInv
  BY InitType
<1>6. QED
  BY <1>2, <1>3, <1>4, <1>5 DEF AgreementInv

LEMMA AgreementNext == AgreementInv /\ [Next]_vars => AgreementInv'
<1> SUFFICES ASSUME AgreementInv, [Next]_vars PROVE AgreementInv'
  OBVIOUS
<1>1. TypeInv /\ TypeInv'
  BY NextType DEF AgreementInv
<1>2. ~(0 >= MaxConsecutive)
  BY ConstantsAssumption
<1>3. Agrees(NoCopy) /\ ~NoCopy.disabled
  BY <1>2 DEF Agrees, NoCopy
<1> DEFINE RowsAgree == \A t \in Task : Agrees(row[t])
           CopyOK(w)  == /\ Agrees(copy[w])
                         /\ pc[w] \notin {"saveTask", "saveRun"} => ~copy[w].disabled
<1>4. RowsAgree /\ \A w \in Worker : CopyOK(w)
  BY DEF AgreementInv
<1>5. ASSUME NEW w \in Worker, WorkerStep(w), CopyOK(w)'
      PROVE  \A v \in Worker : CopyOK(v)'
  BY <1>1, <1>4, <1>5, OthersAlone DEF Agrees
<1>6. ASSUME NEW w \in Worker, NEW phase, Leave(w, phase) PROVE CopyOK(w)'
  <2>1. copy'[w] = NoCopy
    BY <1>1, <1>6 DEF Leave, TypeInv, TypeOK
  <2>2. QED
    BY <1>3, <2>1 DEF Agrees
<1> SUFFICES RowsAgree' /\ \A w \in Worker : CopyOK(w)'
  BY <1>1 DEF AgreementInv
<1>7. ASSUME NEW t \in Task, Register(t)
      PROVE  RowsAgree' /\ \A w \in Worker : CopyOK(w)'
  <2>1. Agrees([Blank EXCEPT !.created = now])
    BY <1>2 DEF Agrees, Blank
  <2>2. row' = [row EXCEPT ![t] = [Blank EXCEPT !.created = now]]
    BY <1>7 DEF Register
  <2>3. \A s \in Task : row'[s] = row[s] \/ row'[s] = [Blank EXCEPT !.created = now]
    BY <1>1, <2>2 DEF TypeInv, TypeOK
  <2>4. RowsAgree'
    BY <1>4, <2>1, <2>3 DEF Agrees
  <2>5. QED
    BY <1>4, <1>7, <2>4 DEF Register, workerVars
<1>8. ASSUME NEW w \in Worker, Pick(w)
      PROVE  RowsAgree' /\ \A v \in Worker : CopyOK(v)'
  <2>1. task'[w] \in Task /\ ~row[task'[w]].disabled
    BY <1>1, <1>8, Picked DEF Pickable
  <2>2. RowsAgree'
    BY <1>1, <1>4, <1>8, Picked DEF Agrees
  <2>3. CopyOK(w)'
    BY <1>1, <1>4, <1>8, <2>1, Picked DEF Agrees
  <2>4. QED
    BY <1>5, <1>8, <2>2, <2>3 DEF WorkerStep
<1>9. ASSUME NEW w \in Worker,
             \/ FindAbandoned(w) \/ MarkAbandoned(w) \/ InsertRun(w) \/ SaveRun(w)
             \/ DatabaseError(w) \/ Crash(w) \/ Restart(w) \/ BackOff(w)
      PROVE  RowsAgree' /\ \A v \in Worker : CopyOK(v)'
  <2>1. row' = row
    BY <1>9 DEF FindAbandoned, MarkAbandoned, InsertRun, SaveRun, DatabaseError,
                Crash, Restart, BackOff, dbVars
  <2>2. \/ \E phase : Leave(w, phase)
        \/ /\ copy' = copy
           /\ pc[w] \notin {"saveTask", "saveRun"}
    BY <1>9 DEF FindAbandoned, MarkAbandoned, InsertRun, SaveRun, DatabaseError,
                Crash, Restart, BackOff
  <2>3. CopyOK(w)'
    BY <1>4, <1>6, <2>2 DEF Agrees
  <2>4. QED
    BY <1>4, <1>5, <1>9, <2>1, <2>3 DEF WorkerStep, Loop, Execute
<1>10. ASSUME NEW w \in Worker, SkipUnregistered(w)
       PROVE  RowsAgree' /\ \A v \in Worker : CopyOK(v)'
  <2>1. CopyOK(w)'
    BY <1>6, <1>10 DEF SkipUnregistered
  <2>2. row' = row \/ row' = [row EXCEPT ![task[w]] = Blank]
    BY <1>10 DEF SkipUnregistered, dbVars
  <2>3. Agrees(Blank)
    BY <1>2 DEF Agrees, Blank
  <2>4. \A t \in Task : row'[t] = row[t] \/ row'[t] = Blank
    BY <1>1, <2>2 DEF TypeInv, TypeOK
  <2>5. RowsAgree'
    BY <1>4, <2>3, <2>4 DEF Agrees
  <2>6. QED
    BY <1>5, <1>10, <2>1, <2>5 DEF WorkerStep, Loop
<1>11. ASSUME NEW w \in Worker, Decide(w)
       PROVE  RowsAgree' /\ \A v \in Worker : CopyOK(v)'
  <2>1. row' = row /\ pc[w] = "decide"
    BY <1>11 DEF Decide, dbVars
  <2>2. copy'[w] = copy[w] \/ copy'[w] = Unlocked(copy[w])
    BY <1>1, <1>11 DEF Decide, TypeInv, TypeOK
  <2>3. copy[w] \in Copy /\ Agrees(copy[w]) /\ ~copy[w].disabled
    BY <1>1, <1>4, <2>1 DEF TypeInv, TypeOK
  <2>4. Agrees(copy'[w]) /\ ~copy'[w].disabled
    BY <2>2, <2>3, MarkedAgrees
  <2>5. CopyOK(w)'
    BY <2>4 DEF Agrees
  <2>6. QED
    BY <1>4, <1>5, <1>11, <2>1, <2>5 DEF WorkerStep, Loop
<1>12. ASSUME NEW w \in Worker, Succeed(w) \/ Fail(w) \/ TimeOut(w)
       PROVE  RowsAgree' /\ \A v \in Worker : CopyOK(v)'
  <2>1. row' = row /\ pc[w] = "exec"
    BY <1>12 DEF Succeed, Fail, TimeOut, Finish, dbVars
  <2>2. copy'[w] = MarkSuccess(copy[w]) \/ copy'[w] = MarkFailure(copy[w])
    BY <1>1, <1>12 DEF Succeed, Fail, TimeOut, Finish, TypeInv, TypeOK
  <2>3. copy[w] \in Copy /\ Agrees(copy[w]) /\ ~copy[w].disabled
    BY <1>1, <1>4, <2>1 DEF TypeInv, TypeOK
  <2>4. Agrees(copy'[w])
    BY <2>2, <2>3, MarkedAgrees
  <2>5. pc'[w] = "saveTask"
    BY <1>1, <1>12 DEF Succeed, Fail, TimeOut, Finish, Goto, TypeInv, TypeOK
  <2>6. CopyOK(w)'
    BY <2>4, <2>5 DEF Agrees
  <2>7. QED
    BY <1>4, <1>5, <1>12, <2>1, <2>6 DEF WorkerStep, Loop, Execute
<1>13. ASSUME NEW w \in Worker, SaveTask(w)
       PROVE  RowsAgree' /\ \A v \in Worker : CopyOK(v)'
  <2>1. RowsAgree'
    <3>1. CASE status[task[w]] = "present"
      BY <1>1, <1>4, <1>13, <3>1, SavedColumns DEF Agrees
    <3>2. CASE status[task[w]] # "present"
      BY <1>4, <1>13, <3>2 DEF SaveTask
    <3>3. QED
      BY <3>1, <3>2
  <2>2. CopyOK(w)'
    <3>1. CASE \E phase : Leave(w, phase)
      BY <1>6, <3>1
    <3>2. CASE copy' = copy /\ Goto(w, "saveRun")
      BY <1>1, <1>4, <3>2 DEF Goto, Agrees, TypeInv, TypeOK
    <3>3. QED
      BY <1>13, <3>1, <3>2 DEF SaveTask
  <2>3. QED
    BY <1>5, <1>13, <2>1, <2>2 DEF WorkerStep, Loop
<1>14. CASE CleanUpRuns \/ Tick \/ UNCHANGED vars
  BY <1>4, <1>14 DEF CleanUpRuns, Tick, vars, dbVars, workerVars
<1>15. ASSUME NEW t \in Task, AdminUnlock(t) \/ AdminEnable(t)
       PROVE  RowsAgree' /\ \A w \in Worker : CopyOK(w)'
  <2>1. row[t] \in Row
    BY <1>1 DEF TypeInv, TypeOK
  <2>2. \A s \in Task : \/ /\ row'[s].disabled = row[s].disabled
                           /\ row'[s].failures = row[s].failures
                        \/ row'[s].disabled = FALSE /\ row'[s].failures = 0
    <3>1. /\ [row[t] EXCEPT !.locked = FALSE].disabled = row[t].disabled
          /\ [row[t] EXCEPT !.locked = FALSE].failures = row[t].failures
          /\ [row[t] EXCEPT !.disabled = FALSE, !.failures = 0].disabled = FALSE
          /\ [row[t] EXCEPT !.disabled = FALSE, !.failures = 0].failures = 0
      BY <2>1 DEF Row
    <3>2. \/ row' = [row EXCEPT ![t] = [row[t] EXCEPT !.locked = FALSE]]
          \/ row' = [row EXCEPT ![t] = [row[t] EXCEPT !.disabled = FALSE, !.failures = 0]]
      BY <1>15 DEF AdminUnlock, AdminEnable
    <3>3. row \in [Task -> Row]
      BY <1>1 DEF TypeInv, TypeOK
    <3>4. \A s \in Task : \/ row'[s] = row[s]
                          \/ s = t /\ row'[s] = [row[t] EXCEPT !.locked = FALSE]
                          \/ s = t /\ row'[s] = [row[t] EXCEPT !.disabled = FALSE,
                                                              !.failures = 0]
      BY <3>2, <3>3, Zenon
    <3>5. QED
      BY <3>1, <3>4
  <2>3. RowsAgree'
    BY <1>2, <1>4, <2>2 DEF Agrees
  <2>4. QED
    BY <1>4, <1>15, <2>3 DEF AdminUnlock, AdminEnable, workerVars
<1>16. QED
  BY <1>7, <1>8, <1>9, <1>10, <1>11, <1>12, <1>13, <1>14, <1>15
     DEF Next, Loop, Execute

\* Whatever stale saves and the admin site do to each other, for any number of
\* workers and with no assumption about their speed, a task is disabled exactly
\* when its counter has reached the limit.
THEOREM FlagAgreesWithCounter == Spec => []DisabledMatchesCounter
<1>1. AgreementInv => DisabledMatchesCounter
  BY DEF AgreementInv, DisabledMatchesCounter, Agrees
<1>2. QED
  BY <1>1, AgreementInit, AgreementNext, PTL DEF Spec

-----------------------------------------------------------------------------
(* The table of runs, and what each statement does to it.                    *)

\* Writing the result of a run changes that run only, and neither its start
\* nor whether it was cleaned up.
LEMMA ResultWritten ==
    ASSUME TypeInv, NEW t \in Task, NEW k \in DOMAIN runs[t], NEW r, NEW f,
           runs' = WithResult(t, k, r, f), NEW s \in Task
    PROVE  /\ DOMAIN runs'[s] = DOMAIN runs[s] /\ Len(runs'[s]) = Len(runs[s])
           /\ \A j \in DOMAIN runs[s] :
                 /\ runs'[s][j].started = runs[s][j].started
                 /\ runs'[s][j].cleaned = runs[s][j].cleaned
                 /\ runs'[s][j].result = IF s = t /\ j = k THEN r ELSE runs[s][j].result
<1>1. runs[s] \in Seq(Run) /\ runs[t] \in Seq(Run)
  BY DEF TypeInv, TypeOK
<1> DEFINE written == [runs[t][k] EXCEPT !.result = r, !.finished = f]
<1>2. runs' = [runs EXCEPT ![t] = [runs[t] EXCEPT ![k] = written]]
  BY DEF WithResult, TypeInv, TypeOK
<1>3. runs[t][k] \in Run
  BY <1>1
<1>4. /\ written.started = runs[t][k].started /\ written.result = r
      /\ written.cleaned = runs[t][k].cleaned
  BY <1>3 DEF Run
<1> HIDE DEF written
<1>5. CASE s # t
  <2>1. runs'[s] = runs[s]
    BY <1>2, <1>5 DEF TypeInv, TypeOK
  <2>2. QED
    BY <1>5, <2>1
<1>6. CASE s = t
  <2>1. runs'[s] = [runs[t] EXCEPT ![k] = written]
    BY <1>2, <1>6 DEF TypeInv, TypeOK
  <2>2. DOMAIN runs'[s] = DOMAIN runs[s] /\ Len(runs'[s]) = Len(runs[s])
    BY <1>1, <1>6, <2>1
  <2>3. \A j \in DOMAIN runs[s] :
           runs'[s][j] = IF j = k THEN written ELSE runs[s][j]
    BY <1>1, <1>6, <2>1
  <2>4. QED
    BY <1>4, <1>6, <2>2, <2>3
<1>7. QED
  BY <1>5, <1>6

\* The clean-up marks the runs it deletes, and touches no other.
LEMMA CleanedUp ==
    ASSUME TypeInv, CleanUpRuns, NEW s \in Task
    PROVE  /\ DOMAIN runs'[s] = DOMAIN runs[s] /\ Len(runs'[s]) = Len(runs[s])
           /\ \A j \in DOMAIN runs[s] :
                 /\ runs'[s][j].started = runs[s][j].started
                 /\ \/ runs'[s][j] = runs[s][j]
                    \/ runs'[s][j].result = "deleted" /\ runs'[s][j].cleaned = TRUE
<1>1. runs'[s] = [k \in DOMAIN runs[s] |->
         IF k \in Outdated(s)
         THEN [runs[s][k] EXCEPT !.result = "deleted", !.cleaned = TRUE]
         ELSE runs[s][k]]
  BY DEF CleanUpRuns
<1>2. runs[s] \in Seq(Run) /\ runs'[s] \in Seq(Run)
  BY CleanUpType DEF TypeInv, TypeOK
<1>3. DOMAIN runs'[s] = DOMAIN runs[s]
  BY <1>1
<1>4. Len(runs'[s]) = Len(runs[s])
  <2>1. /\ DOMAIN runs[s] = 1 .. Len(runs[s]) /\ DOMAIN runs'[s] = 1 .. Len(runs'[s])
        /\ Len(runs[s]) \in Nat /\ Len(runs'[s]) \in Nat
    BY <1>2
  <2>2. 1 .. Len(runs[s]) = 1 .. Len(runs'[s])
    BY <1>3, <2>1
  <2> HIDE <1>1
  <2>3. QED
    BY <2>1, <2>2
<1>5. ASSUME NEW j \in DOMAIN runs[s]
      PROVE  /\ runs'[s][j].started = runs[s][j].started
             /\ \/ runs'[s][j] = runs[s][j]
                \/ runs'[s][j].result = "deleted" /\ runs'[s][j].cleaned = TRUE
  <2> DEFINE gone == [runs[s][j] EXCEPT !.result = "deleted", !.cleaned = TRUE]
  <2>1. runs[s][j] \in Run
    BY <1>2
  <2>2. /\ gone.started = runs[s][j].started /\ gone.result = "deleted"
        /\ gone.cleaned = TRUE
    BY <2>1 DEF Run
  <2>3. runs'[s][j] = gone \/ runs'[s][j] = runs[s][j]
    BY <1>1
  <2> HIDE DEF gone
  <2>4. QED
    BY <2>2, <2>3
<1>6. QED
  BY <1>3, <1>4, <1>5

\* The insert appends one open run, and leaves the runs there as they are.
LEMMA Inserted ==
    ASSUME TypeInv, NEW w \in Worker, InsertRun(w), status[task[w]] = "present"
    PROVE  /\ task[w] \in Task
           /\ run'[w] = Len(runs[task[w]]) + 1
           /\ \A s \in Task \ {task[w]} : runs'[s] = runs[s]
           /\ Len(runs[task[w]]) \in Nat
           /\ Len(runs'[task[w]]) = Len(runs[task[w]]) + 1
           /\ DOMAIN runs[task[w]] = 1 .. Len(runs[task[w]])
           /\ DOMAIN runs'[task[w]] = 1 .. Len(runs[task[w]]) + 1
           /\ \A j \in DOMAIN runs[task[w]] : runs'[task[w]][j] = runs[task[w]][j]
           /\ runs'[task[w]][Len(runs[task[w]]) + 1] =
                 [started |-> now, finished |-> None, result |-> None, cleaned |-> FALSE]
<1>1. task[w] \in Task
  BY DEF InsertRun, TypeInv, HoldersOK, Holding
<1> DEFINE new == [started |-> now, finished |-> None, result |-> None, cleaned |-> FALSE]
<1>2. new \in Run
  BY DEF TypeInv, TypeOK, Run, Result, Moment
<1>3. runs[task[w]] \in Seq(Run)
  BY <1>1 DEF TypeInv, TypeOK
<1>4. runs' = [runs EXCEPT ![task[w]] = Append(runs[task[w]], new)]
  BY DEF InsertRun
<1> HIDE DEF new
<1>5. runs'[task[w]] = Append(runs[task[w]], new)
  BY <1>1, <1>4 DEF TypeInv, TypeOK
<1>6. \A s \in Task \ {task[w]} : runs'[s] = runs[s]
  BY <1>4 DEF TypeInv, TypeOK
<1>7. /\ Len(runs[task[w]]) \in Nat
      /\ Len(runs'[task[w]]) = Len(runs[task[w]]) + 1
      /\ DOMAIN runs[task[w]] = 1 .. Len(runs[task[w]])
      /\ DOMAIN runs'[task[w]] = 1 .. Len(runs[task[w]]) + 1
      /\ \A j \in DOMAIN runs[task[w]] : runs'[task[w]][j] = runs[task[w]][j]
      /\ runs'[task[w]][Len(runs[task[w]]) + 1] = new
  BY <1>2, <1>3, <1>5
<1>8. run'[w] = Len(runs[task[w]]) + 1
  BY DEF InsertRun, TypeInv, TypeOK
<1>9. QED
  BY <1>1, <1>6, <1>7, <1>8 DEF new

\* An old task its process does not know takes its runs with it.
LEMMA Dropped ==
    ASSUME TypeInv, NEW w \in Worker, SkipUnregistered(w), NEW s \in Task
    PROVE  \/ runs'[s] = runs[s]
           \/ runs'[s] = <<>> /\ status'[s] = "deleted"
BY DEF SkipUnregistered, HoldersOK, Holding, dbVars, TypeInv, TypeOK

\* Run k of t is a success, or is about to be saved as one.
Succeeded(t, k) ==
    \/ runs[t][k].result = "SUCCESS"
    \/ \E v \in Worker : /\ pc[v] = "saveRun" /\ task[v] = t
                         /\ run[v] = k /\ result[v] = "SUCCESS"

\* A table of runs that is as it was but for its results: none is opened, only
\* the clean-up deletes and only a worker's own success becomes one.
Rewritten(t) ==
    /\ DOMAIN runs'[t] = DOMAIN runs[t] /\ Len(runs'[t]) = Len(runs[t])
    /\ \A j \in DOMAIN runs[t] :
          /\ runs'[t][j].started = runs[t][j].started
          /\ ~runs'[t][j].cleaned => ~runs[t][j].cleaned
          /\ runs'[t][j].result = None => runs[t][j].result = None
          /\ runs'[t][j].result = "deleted" =>
                \/ runs'[t][j].cleaned
                \/ runs[t][j].result = "deleted" /\ runs'[t][j].cleaned = runs[t][j].cleaned
          /\ runs'[t][j].result = "SUCCESS" => Succeeded(t, j)

\* No step but an insert adds a run.
LEMMA RunsKept ==
    ASSUME TypeInv, PhaseInv, [Next]_vars, NEW t \in Task,
           \A w \in Worker : InsertRun(w) /\ status[task[w]] = "present" => task[w] # t
    PROVE  (runs'[t] = <<>> /\ status'[t] = "deleted") \/ Rewritten(t)
<1>1. \A w \in Worker : Holding(w) => task[w] \in Task
  BY DEF TypeInv, HoldersOK
<1>2. ASSUME runs'[t] = runs[t] PROVE Rewritten(t)
  BY <1>2 DEF Rewritten, Succeeded
<1>3. ASSUME NEW w \in Worker, MarkAbandoned(w) PROVE Rewritten(t)
  <2>1. CASE stray[w] \in Kept(task[w])
    <3>1. task[w] \in Task /\ stray[w] \in DOMAIN runs[task[w]]
      BY <1>1, <1>3, <2>1 DEF MarkAbandoned, Holding, Kept
    <3>2. runs' = WithResult(task[w], stray[w], "FAILURE", FinishedNow)
      BY <1>3, <2>1 DEF MarkAbandoned
    <3>3. "FAILURE" # None
      BY ConstantsAssumption
    <3>4. QED
      BY <3>1, <3>2, <3>3, ResultWritten DEF Rewritten, Succeeded
  <2>2. CASE stray[w] \notin Kept(task[w])
    BY <1>2, <1>3, <2>2 DEF MarkAbandoned
  <2>3. QED
    BY <2>1, <2>2
<1>4. ASSUME NEW w \in Worker, SaveRun(w) PROVE Rewritten(t)
  <2>1. task[w] \in Task /\ pc[w] = "saveRun"
    BY <1>1, <1>4 DEF SaveRun, Holding
  <2>2. result[w] \in Result \ {None}
    BY <2>1 DEF PhaseInv, PhaseOK, TypeInv, TypeOK
  <2>3. result[w] # "deleted"
    BY <2>2 DEF Result
  <2>4. CASE run[w] \in DOMAIN runs[task[w]]
    <3>1. runs' = WithResult(task[w], run[w], result[w], finishedAt[w])
      BY <1>4, <2>4 DEF SaveRun
    <3>2. QED
      BY <2>1, <2>2, <2>3, <2>4, <3>1, ResultWritten DEF Rewritten, Succeeded
  <2>5. CASE run[w] \notin DOMAIN runs[task[w]]
    BY <1>2, <1>4, <2>5 DEF SaveRun
  <2>6. QED
    BY <2>4, <2>5
<1>5. ASSUME NEW w \in Worker, InsertRun(w) PROVE Rewritten(t)
  <2>1. CASE status[task[w]] = "present"
    BY <1>2, <1>5, <2>1, Inserted
  <2>2. CASE status[task[w]] # "present"
    BY <1>2, <1>5, <2>2 DEF InsertRun
  <2>3. QED
    BY <2>1, <2>2
<1>6. ASSUME NEW w \in Worker, SkipUnregistered(w)
      PROVE  (runs'[t] = <<>> /\ status'[t] = "deleted") \/ Rewritten(t)
  BY <1>2, <1>6, Dropped
<1>7. CASE CleanUpRuns
  <2>1. "SUCCESS" # "deleted" /\ "deleted" # None
    BY ConstantsAssumption
  <2>2. QED
    BY <1>7, <2>1, CleanedUp DEF Rewritten, Succeeded
<1>8. ASSUME NEW w \in Worker,
             \/ Pick(w) \/ FindAbandoned(w) \/ Decide(w) \/ Execute(w) \/ SaveTask(w)
             \/ DatabaseError(w) \/ Crash(w) \/ Restart(w)
      PROVE  Rewritten(t)
  BY <1>2, <1>8 DEF Pick, FindAbandoned, Decide, Execute, Succeed, Fail, TimeOut,
                    BackOff, Finish, SaveTask, DatabaseError, Crash, Restart, dbVars
<1>9. CASE \/ Tick \/ UNCHANGED vars
           \/ \E s \in Task : Register(s) \/ AdminUnlock(s) \/ AdminEnable(s)
  BY <1>2, <1>9 DEF Register, AdminUnlock, AdminEnable, Tick, vars, dbVars
<1>10. QED
  BY <1>3, <1>4, <1>5, <1>6, <1>7, <1>8, <1>9 DEF Next, Loop

-----------------------------------------------------------------------------
(* Open runs.  A worker that found no open run, or closed the one it found,  *)
(* is the only one to insert a run until it gives the task up or loses it.   *)

Open(t) == {k \in DOMAIN runs[t] : runs[t][k].result = None}

AtMostOne(t) == \A j, k \in Open(t) : j = k

OpenSeen(w) ==
    lapses[task[w]] = 0 =>
       /\ pc[w] \in {"decide", "insert"} => Open(task[w]) = {}
       /\ pc[w] = "abandon" => Open(task[w]) \subseteq {stray[w]}

OpenInv ==
    /\ BaseInv
    /\ \A t \in Task : lapses[t] = 0 => AtMostOne(t)
    /\ \A w \in Worker : OpenSeen(w)

\* This step inserts a run of t.
Grows(t) == \E w \in Worker : /\ InsertRun(w) /\ status[task[w]] = "present"
                              /\ task[w] = t

\* Without a lapse, who inserts a run has the task for itself.
LEMMA InsertAlone ==
    ASSUME BaseInv, NEW t \in Task, lapses[t] = 0,
           NEW w \in Worker, InsertRun(w), task[w] = t,
           NEW v \in Worker, v # w, Locking(v)
    PROVE  task[v] # t
<1>1. Locking(w)
  BY DEF InsertRun, Locking, Holding
<1>2. QED
  BY <1>1, SoleHolder

LEMMA OpenInit == Init => OpenInv
<1> SUFFICES ASSUME Init PROVE OpenInv
  OBVIOUS
<1>1. \A t \in Task : DOMAIN runs[t] = {}
  BY DEF Init
<1>2. QED
  BY <1>1, BaseInit DEF Init, OpenInv, AtMostOne, Open, OpenSeen

LEMMA OpenNext == OpenInv /\ [Next]_vars => OpenInv'
<1> SUFFICES ASSUME OpenInv, [Next]_vars PROVE OpenInv'
  OBVIOUS
<1>1. BaseInv /\ BaseInv' /\ TypeInv /\ TypeInv' /\ PhaseInv
  BY BaseNext DEF OpenInv, BaseInv
<1>2. \A w \in Worker : Holding(w) => task[w] \in Task
  BY <1>1 DEF TypeInv, HoldersOK
<1>3. \A t \in Task : lapses'[t] = 0 => lapses[t] = 0
  BY <1>1, LapsesGrow
<1>4. ASSUME NEW t \in Task, ~Grows(t) PROVE Open(t)' \subseteq Open(t)
  <2>1. runs'[t] = <<>> \/ Rewritten(t)
    BY <1>1, <1>4, RunsKept DEF Grows
  <2>2. CASE runs'[t] = <<>>
    <3>1. DOMAIN runs'[t] = {}
      BY <2>2
    <3>2. QED
      BY <3>1 DEF Open
  <2>3. CASE Rewritten(t)
    BY <2>3 DEF Rewritten, Open
  <2>4. QED
    BY <2>1, <2>2, <2>3
<1>5. ASSUME NEW t \in Task, lapses'[t] = 0 PROVE AtMostOne(t)'
  <2>1. lapses[t] = 0 /\ AtMostOne(t)
    BY <1>3, <1>5 DEF OpenInv
  <2>2. CASE ~Grows(t)
    BY <1>4, <2>1, <2>2 DEF AtMostOne
  <2>3. CASE Grows(t)
    <3>1. PICK w \in Worker : /\ InsertRun(w) /\ status[task[w]] = "present"
                              /\ task[w] = t
      BY <2>3 DEF Grows
    <3>2. Open(t) = {}
      <4>1. pc[w] = "insert"
        BY <3>1 DEF InsertRun
      <4>2. QED
        BY <2>1, <3>1, <4>1 DEF OpenInv, OpenSeen, Open
    <3>3. /\ DOMAIN runs[t] = 1 .. Len(runs[t]) /\ Len(runs[t]) \in Nat
          /\ DOMAIN runs'[t] = 1 .. Len(runs[t]) + 1
          /\ \A j \in DOMAIN runs[t] : runs'[t][j] = runs[t][j]
      BY <1>1, <3>1, Inserted
    <3>4. \A j \in Open(t)' : j = Len(runs[t]) + 1
      BY <3>2, <3>3 DEF Open
    <3>5. QED
      BY <3>4 DEF AtMostOne
  <2>4. QED
    BY <2>2, <2>3
<1>6. ASSUME NEW v \in Worker, pc'[v] = pc[v], task'[v] = task[v], stray'[v] = stray[v]
      PROVE  OpenSeen(v)'
  <2> SUFFICES ASSUME pc[v] \in {"decide", "insert", "abandon"}, lapses'[task[v]] = 0
               PROVE  Open(task[v])' \subseteq Open(task[v]) /\ lapses[task[v]] = 0
    BY <1>6 DEF OpenInv, OpenSeen, Open
  <2>1. Locking(v)
    BY DEF Locking, Holding
  <2>2. PICK t \in Task : t = task[v]
    BY <1>2, <2>1 DEF Locking
  <2>3. lapses[t] = 0
    BY <1>3, <2>2
  <2>4. ~Grows(t)
    <3>1. ASSUME NEW w \in Worker, InsertRun(w), status[task[w]] = "present", task[w] = t
          PROVE  FALSE
      <4>1. pc[w] = "insert" /\ pc'[w] = "exec"
        BY <1>1, <3>1 DEF InsertRun, Goto, TypeInv, TypeOK
      <4>2. w # v
        BY <1>6, <4>1
      <4>3. QED
        BY <1>1, <2>1, <2>2, <2>3, <3>1, <4>2, InsertAlone
    <3>2. QED
      BY <3>1 DEF Grows
  <2>5. Open(t)' \subseteq Open(t)
    BY <1>4, <2>4
  <2>6. QED
    BY <1>6, <2>2, <2>3, <2>5 DEF Open
<1>7. ASSUME NEW w \in Worker, FindAbandoned(w) PROVE OpenSeen(w)'
  <2>1. /\ task[w] \in Task /\ task'[w] = task[w] /\ runs' = runs /\ lapses' = lapses
        /\ pc[w] = "reconcile"
    BY <1>2, <1>7 DEF FindAbandoned, Holding, dbVars
  <2>2. CASE Open(task[w]) = {}
    BY <1>1, <1>7, <2>1, <2>2 DEF FindAbandoned, Open, OpenSeen, Goto, TypeInv, TypeOK
  <2>3. CASE Open(task[w]) # {}
    <3>1. PICK k \in Open(task[w]) : stray' = [stray EXCEPT ![w] = k]
      BY <1>7, <2>3 DEF FindAbandoned, Open
    <3>2. pc'[w] = "abandon" /\ stray'[w] = k
      BY <1>1, <1>7, <2>3, <3>1 DEF FindAbandoned, Open, Goto, TypeInv, TypeOK
    <3>3. lapses[task[w]] = 0 => \A j \in Open(task[w]) : j = k
      BY <2>1, <3>1 DEF OpenInv, AtMostOne
    <3>4. QED
      BY <2>1, <3>2, <3>3 DEF OpenSeen, Open
  <2>4. QED
    BY <2>2, <2>3
<1>8. ASSUME NEW w \in Worker, MarkAbandoned(w) PROVE OpenSeen(w)'
  <2>1. CASE stray[w] \in Kept(task[w])
    <3>1. /\ task[w] \in Task /\ task'[w] = task[w] /\ lapses' = lapses
          /\ stray[w] \in DOMAIN runs[task[w]] /\ pc[w] = "abandon"
      BY <1>2, <1>8, <2>1 DEF MarkAbandoned, Holding, Kept
    <3>2. runs' = WithResult(task[w], stray[w], "FAILURE", FinishedNow)
      BY <1>8, <2>1 DEF MarkAbandoned
    <3>3. lapses[task[w]] = 0 => Open(task[w]) \subseteq {stray[w]}
      BY <3>1 DEF OpenInv, OpenSeen
    <3>4. "FAILURE" # None
      BY ConstantsAssumption
    <3>5. /\ DOMAIN runs'[task[w]] = DOMAIN runs[task[w]]
          /\ \A j \in DOMAIN runs[task[w]] : runs'[task[w]][j].result =
                IF j = stray[w] THEN "FAILURE" ELSE runs[task[w]][j].result
      BY <1>1, <3>1, <3>2, ResultWritten
    <3>6. lapses[task[w]] = 0 => Open(task[w])' = {}
      BY <3>1, <3>3, <3>4, <3>5 DEF Open
    <3>7. pc'[w] = "decide"
      BY <1>1, <1>8, <2>1 DEF MarkAbandoned, Goto, TypeInv, TypeOK
    <3>8. QED
      BY <3>1, <3>6, <3>7 DEF OpenSeen
  <2>2. CASE stray[w] \notin Kept(task[w])
    BY <1>1, <1>8, <2>2 DEF MarkAbandoned, Leave, Goto, OpenSeen, TypeInv, TypeOK
  <2>3. QED
    BY <2>1, <2>2
<1>9. ASSUME NEW w \in Worker, Decide(w) PROVE OpenSeen(w)'
  <2>1. /\ pc[w] = "decide" /\ pc'[w] \in {"insert", "saveTask"}
        /\ task' = task /\ runs' = runs /\ lapses' = lapses
    BY <1>1, <1>9 DEF Decide, Goto, dbVars, TypeInv, TypeOK
  <2>2. QED
    BY <2>1 DEF OpenInv, OpenSeen, Open
<1>10. ASSUME NEW w \in Worker,
             \/ Pick(w) \/ SkipUnregistered(w) \/ InsertRun(w) \/ Execute(w)
             \/ SaveTask(w) \/ SaveRun(w) \/ DatabaseError(w) \/ Crash(w) \/ Restart(w)
      PROVE  OpenSeen(w)'
  <2>1. pc'[w] \in {"reconcile", "idle", "exec", "saveTask", "saveRun", "down"}
    BY <1>1, <1>10 DEF Pick, SkipUnregistered, InsertRun, Execute, Succeed, Fail,
                      TimeOut, BackOff, Finish, SaveTask, SaveRun, DatabaseError,
                      Crash, Restart, Leave, Goto, TypeInv, TypeOK
  <2>2. QED
    BY <2>1 DEF OpenSeen
<1>11. ASSUME NEW w \in Worker, WorkerStep(w) PROVE \A v \in Worker : OpenSeen(v)'
  <2>1. OpenSeen(w)'
    BY <1>7, <1>8, <1>9, <1>10, <1>11 DEF WorkerStep, Loop
  <2>2. ASSUME NEW v \in Worker, v # w PROVE OpenSeen(v)'
    <3>1. pc'[v] = pc[v] /\ task'[v] = task[v] /\ stray'[v] = stray[v]
      BY <1>1, <1>11, <2>2, OthersAlone
    <3>2. QED
      BY <1>6, <3>1
  <2>3. QED
    BY <2>1, <2>2
<1>12. ASSUME UNCHANGED workerVars PROVE \A v \in Worker : OpenSeen(v)'
  BY <1>6, <1>12 DEF workerVars
<1>13. \A v \in Worker : OpenSeen(v)'
  BY <1>11, <1>12, StepSplit, OutsideAlone
<1>14. QED
  BY <1>1, <1>5, <1>13 DEF OpenInv

\* As long as no live worker has lost its lock, a task has at most one run
\* without a result, however many workers died, timed out or lost the database:
\* whoever picks it next closes the run left behind before it starts its own,
\* and a worker that saves late opens none again.
THEOREM OneRunIsOpen == Spec => []OneOpenRun
<1>1. OpenInv => OneOpenRun
  <2> SUFFICES ASSUME OpenInv, NEW t \in Task, NEW j \in DOMAIN runs[t],
                      NEW k \in DOMAIN runs[t], runs[t][j].result = None,
                      runs[t][k].result = None, j # k
               PROVE  lapses[t] > 0
    BY DEF OneOpenRun
  <2>1. lapses[t] # 0
    BY DEF OpenInv, AtMostOne, Open
  <2>2. lapses[t] \in Nat
    BY DEF OpenInv, BaseInv, TypeInv, TypeOK
  <2>3. QED
    BY <2>1, <2>2
<1>2. QED
  BY <1>1, OpenInit, OpenNext, PTL DEF Spec

-----------------------------------------------------------------------------
(* Retries.  A worker that decided to run a task counted the runs of the last *)
(* run_every.  Others may have decided so with it, one for each lapse.        *)

Fresh(t) == {k \in DOMAIN runs[t] : ~runs[t][k].cleaned /\ runs[t][k].started > now - RunEvery}

\* Workers that will insert a run of t, whatever the others do.
Inserting(t) == {w \in Worker : pc[w] = "insert" /\ task[w] = t}

Room(t) == Cardinality(Fresh(t)) + Cardinality(Inserting(t)) <= MaxRetries + 1 + lapses[t]

\* Run k and those before it, in the stretch of run_every that it ends.
Stretch(t, k) == {j \in 1 .. k : /\ ~runs[t][j].cleaned
                                 /\ runs[t][j].started > runs[t][k].started - RunEvery}

Bounded(t) ==
    \A k \in DOMAIN runs[t] : Cardinality(Stretch(t, k)) <= MaxRetries + 1 + lapses[t]

DeletedMarked ==
    \A t \in Task : \A k \in DOMAIN runs[t] :
       runs[t][k].result = "deleted" => runs[t][k].cleaned

RetryInv ==
    /\ BaseInv
    /\ DeletedMarked
    /\ \A t \in Task : Room(t) /\ Bounded(t)

\* The clock does not go back.
LEMMA ClockForward ==
    ASSUME TypeInv, [Next]_vars
    PROVE  now \in Nat /\ now' \in Nat /\ now <= now'
<1>1. now \in Nat
  BY DEF TypeInv, TypeOK
<1>2. ASSUME NEW w \in Worker, WorkerStep(w) PROVE now' = now
  BY <1>2 DEF WorkerStep, Loop, Pick, FindAbandoned, MarkAbandoned, SkipUnregistered,
              Decide, InsertRun, Execute, Succeed, Fail, TimeOut, BackOff, Finish,
              SaveTask, SaveRun, DatabaseError, Crash, Restart
<1>3. OutsideStep => now' = now \/ now' = now + 1
  BY DEF OutsideStep, Register, AdminUnlock, AdminEnable, CleanUpRuns, Tick, vars
<1>4. now' = now \/ now' = now + 1
  BY <1>2, <1>3, StepSplit
<1>5. QED
  BY <1>1, <1>4

\* The runs of a task and what is known of one of them.
LEMMA RunFacts ==
    ASSUME TypeInv, NEW t \in Task
    PROVE  /\ Len(runs[t]) \in Nat /\ DOMAIN runs[t] = 1 .. Len(runs[t])
           /\ \A k \in DOMAIN runs[t] : runs[t][k].started \in Nat
           /\ \A S : S \subseteq DOMAIN runs[t] => IsFiniteSet(S) /\ Cardinality(S) \in Nat
<1>1. runs[t] \in Seq(Run)
  BY DEF TypeInv, TypeOK
<1>2. Len(runs[t]) \in Nat /\ DOMAIN runs[t] = 1 .. Len(runs[t])
  BY <1>1
<1>3. ASSUME NEW k \in DOMAIN runs[t] PROVE runs[t][k].started \in Nat
  <2>1. runs[t][k] \in Run
    BY <1>1
  <2>2. QED
    BY <2>1 DEF Run
<1>4. IsFiniteSet(DOMAIN runs[t])
  BY <1>2, FS_Interval
<1>5. ASSUME NEW S, S \subseteq DOMAIN runs[t]
      PROVE  IsFiniteSet(S) /\ Cardinality(S) \in Nat
  <2>1. S \in SUBSET DOMAIN runs[t]
    BY <1>5
  <2>2. IsFiniteSet(S)
    BY <1>4, <2>1, FS_Subset
  <2>3. QED
    BY <2>2, FS_CardinalityType
<1>6. QED
  BY <1>2, <1>3, <1>5

\* What should_execute allows: no more than MaxRetries runs are fresh.
LEMMA DueMeansFewFresh ==
    ASSUME TypeInv, DeletedMarked,
           NEW t \in Task, ShouldExecute(t)
    PROVE  Cardinality(Fresh(t)) <= MaxRetries
<1>1. /\ now \in Nat /\ RunEvery \in Nat /\ MaxRetries \in Nat
  BY ConstantsAssumption DEF TypeInv, TypeOK
<1>2. \A k \in DOMAIN runs[t] : runs[t][k].started \in Nat
  BY RunFacts
<1>3. Fresh(t) \subseteq Kept(t)
  BY DEF DeletedMarked, Fresh, Kept
<1>4. CASE Fresh(t) = {}
  BY <1>1, <1>4, FS_EmptySet
<1>5. CASE Fresh(t) # {}
  <2>1. PICK k \in Kept(t) :
           /\ IsLast(t, k)
           /\ \/ now - runs[t][k].started >= RunEvery
              \/ /\ runs[t][k].result # "SUCCESS"
                 /\ Cardinality(Recent(t)) <= MaxRetries
    BY <1>3, <1>5 DEF ShouldExecute
  <2>2. PICK j \in Fresh(t) : TRUE
    BY <1>5
  <2>3. runs[t][j].started <= runs[t][k].started
    BY <1>3, <2>1, <2>2 DEF IsLast
  <2>4. runs[t][j].started > now - RunEvery
    BY <2>2 DEF Fresh
  <2>5. runs[t][j].started \in Nat /\ runs[t][k].started \in Nat
    BY <1>2, <2>1, <2>2 DEF Fresh, Kept
  <2>6. ~(now - runs[t][k].started >= RunEvery)
    BY <1>1, <2>3, <2>4, <2>5
  <2>7. Cardinality(Recent(t)) <= MaxRetries
    BY <2>1, <2>6
  <2>8. Fresh(t) \subseteq Recent(t)
    BY <1>1, <1>2, <1>3 DEF Fresh, Recent
  <2>9. IsFiniteSet(Recent(t))
    BY RunFacts DEF Recent, Kept
  <2>10. /\ Cardinality(Fresh(t)) \in Nat /\ Cardinality(Recent(t)) \in Nat
         /\ Cardinality(Fresh(t)) <= Cardinality(Recent(t))
    BY <2>8, <2>9, FS_Subset, FS_CardinalityType
  <2>11. QED
    BY <1>1, <2>7, <2>10
<1>6. QED
  BY <1>4, <1>5

\* Only Decide makes a worker insert, and only if the task is due.
LEMMA InsertingStep ==
    ASSUME TypeInv, [Next]_vars, NEW t \in Task
    PROVE  \A w \in Inserting(t)' :
              w \in Inserting(t) \/ (Decide(w) /\ task[w] = t /\ ShouldExecute(t))
<1> SUFFICES ASSUME NEW w \in Worker, pc'[w] = "insert", task'[w] = t
             PROVE  \/ pc[w] = "insert" /\ task[w] = t
                    \/ Decide(w) /\ task[w] = t /\ ShouldExecute(t)
  BY DEF Inserting
<1>1. CASE Decide(w)
  <2>1. task[w] = t
    BY <1>1 DEF Decide
  <2>2. ShouldExecute(task[w])
    BY <1>1 DEF Decide, Goto, TypeInv, TypeOK
  <2>3. QED
    BY <1>1, <2>1, <2>2
<1>2. CASE \/ Pick(w) \/ FindAbandoned(w) \/ MarkAbandoned(w) \/ SkipUnregistered(w)
           \/ InsertRun(w) \/ Execute(w) \/ SaveTask(w) \/ SaveRun(w)
           \/ DatabaseError(w) \/ Crash(w) \/ Restart(w)
  <2>1. pc'[w] # "insert"
    BY <1>2 DEF Pick, FindAbandoned, MarkAbandoned, SkipUnregistered, InsertRun,
                Execute, Succeed, Fail, TimeOut, BackOff, Finish, SaveTask,
                SaveRun, DatabaseError, Crash, Restart, Leave, Goto, TypeInv, TypeOK
  <2>2. QED
    BY <2>1
<1>3. CASE WorkerStep(w)
  BY <1>1, <1>2, <1>3 DEF WorkerStep, Loop
<1>4. ASSUME NEW v \in Worker, v # w, WorkerStep(v) PROVE pc[w] = "insert" /\ task[w] = t
  BY <1>4, OthersAlone
<1>5. CASE OutsideStep
  BY <1>5, OutsideAlone DEF workerVars
<1>6. QED
  BY <1>3, <1>4, <1>5, StepSplit

\* Workers that will insert hold the task.
LEMMA InsertingHold ==
    ASSUME BaseInv, NEW t \in Task
    PROVE  /\ IsFiniteSet(Inserting(t)) /\ Cardinality(Inserting(t)) \in Nat
           /\ Cardinality(Inserting(t)) <= 1 + lapses[t]
<1>1. Inserting(t) \subseteq Holders(t)
  BY DEF Inserting, Holders, Holding
<1>2. /\ IsFiniteSet(Holders(t)) /\ Cardinality(Holders(t)) + Free(t) <= 1 + lapses[t]
      /\ lapses[t] \in Nat /\ Free(t) \in {0, 1}
  BY DEF BaseInv, HolderInv, HolderOK, TypeInv, TypeOK, Free
<1>3. /\ IsFiniteSet(Inserting(t)) /\ Cardinality(Inserting(t)) <= Cardinality(Holders(t))
  BY <1>1, <1>2, FS_Subset
<1>4. Cardinality(Inserting(t)) \in Nat /\ Cardinality(Holders(t)) \in Nat
  BY <1>2, <1>3, FS_CardinalityType
<1>5. QED
  BY <1>2, <1>3, <1>4

\* Without an insert the fresh runs are among those that were.
LEMMA FreshKept ==
    ASSUME TypeInv, PhaseInv, [Next]_vars, NEW t \in Task, ~Grows(t)
    PROVE  /\ Fresh(t)' \subseteq Fresh(t)
           /\ Cardinality(Fresh(t)') \in Nat /\ Cardinality(Fresh(t)) \in Nat
           /\ Cardinality(Fresh(t)') <= Cardinality(Fresh(t))
<1>1. now \in Nat /\ now' \in Nat /\ now <= now' /\ RunEvery \in Nat
  BY ClockForward, ConstantsAssumption
<1>2. Fresh(t)' \subseteq Fresh(t)
  <2>1. CASE runs'[t] = <<>>
    <3>1. DOMAIN runs'[t] = {}
      BY <2>1
    <3>2. QED
      BY <3>1 DEF Fresh
  <2>2. CASE Rewritten(t)
    <3>1. \A k \in DOMAIN runs[t] : runs[t][k].started \in Nat
      BY RunFacts
    <3>2. QED
      BY <1>1, <2>2, <3>1 DEF Rewritten, Fresh
  <2>3. QED
    BY <2>1, <2>2, RunsKept DEF Grows
<1>3. IsFiniteSet(Fresh(t)) /\ Cardinality(Fresh(t)) \in Nat
  BY RunFacts DEF Fresh
<1>4. Cardinality(Fresh(t)') \in Nat /\ Cardinality(Fresh(t)') <= Cardinality(Fresh(t))
  BY <1>2, <1>3, FS_Subset, FS_CardinalityType
<1>5. QED
  BY <1>2, <1>3, <1>4

LEMMA RetryInit == Init => RetryInv
<1> SUFFICES ASSUME Init PROVE RetryInv
  OBVIOUS
<1>1. \A t \in Task : DOMAIN runs[t] = {}
  BY DEF Init
<1>2. ASSUME NEW t \in Task PROVE Room(t)
  <2>1. Fresh(t) = {} /\ Inserting(t) = {} /\ lapses[t] = 0
    BY <1>1 DEF Init, Fresh, Inserting
  <2>2. Cardinality({}) = 0 /\ MaxRetries \in Nat
    BY FS_EmptySet, ConstantsAssumption
  <2>3. QED
    BY <2>1, <2>2 DEF Room
<1>3. QED
  BY <1>1, <1>2, BaseInit DEF RetryInv, DeletedMarked, Bounded

LEMMA RunsMarked ==
    ASSUME RetryInv, [Next]_vars
    PROVE  DeletedMarked'
<1>1. TypeInv /\ PhaseInv
  BY DEF RetryInv, BaseInv
<1> SUFFICES ASSUME NEW t \in Task, NEW k \in DOMAIN runs'[t],
                    runs'[t][k].result = "deleted"
             PROVE  runs'[t][k].cleaned
  BY DEF DeletedMarked
<1>2. CASE Grows(t)
  <2>1. PICK w \in Worker : InsertRun(w) /\ status[task[w]] = "present" /\ task[w] = t
    BY <1>2 DEF Grows
  <2>2. /\ Len(runs[t]) \in Nat /\ DOMAIN runs[t] = 1 .. Len(runs[t])
        /\ DOMAIN runs'[t] = 1 .. Len(runs[t]) + 1
        /\ \A j \in DOMAIN runs[t] : runs'[t][j] = runs[t][j]
    BY <1>1, <2>1, Inserted
  <2>3. runs'[t][Len(runs[t]) + 1].result = None
    BY <1>1, <2>1, Inserted
  <2>4. "deleted" # None
    BY ConstantsAssumption
  <2>5. k \in DOMAIN runs[t]
    BY <2>2, <2>3, <2>4
  <2>6. QED
    BY <2>2, <2>5 DEF RetryInv, DeletedMarked
<1>3. CASE ~Grows(t)
  <2>1. runs'[t] # <<>>
    <3> SUFFICES ASSUME runs'[t] = <<>> PROVE FALSE
      OBVIOUS
    <3>1. DOMAIN runs'[t] = {}
      OBVIOUS
    <3>2. QED
      BY <3>1
  <2>2. Rewritten(t)
    BY <1>1, <1>3, <2>1, RunsKept DEF Grows
  <2>3. k \in DOMAIN runs[t]
    BY <2>2 DEF Rewritten
  <2>4. CASE runs'[t][k].cleaned
    BY <2>4
  <2>5. CASE ~runs'[t][k].cleaned
    <3>1. runs[t][k].result = "deleted" /\ ~runs[t][k].cleaned
      BY <2>2, <2>3, <2>5 DEF Rewritten
    <3>2. QED
      BY <2>3, <3>1 DEF RetryInv, DeletedMarked
  <2>6. QED
    BY <2>4, <2>5
<1>4. QED
  BY <1>2, <1>3

\* An insert takes the room its worker had kept.
LEMMA RoomTaken ==
    ASSUME RetryInv, BaseInv', [Next]_vars, NEW t \in Task, Grows(t)
    PROVE  Room(t)' /\ Bounded(t)'
<1>1. TypeInv /\ TypeInv' /\ PhaseInv /\ BaseInv
  BY DEF RetryInv, BaseInv
<1>2. PICK w \in Worker : InsertRun(w) /\ status[task[w]] = "present" /\ task[w] = t
  BY DEF Grows
<1>3. PICK n \in Nat :
        /\ DOMAIN runs[t] = 1 .. n /\ DOMAIN runs'[t] = 1 .. n + 1
        /\ \A j \in 1 .. n : runs'[t][j] = runs[t][j]
        /\ runs'[t][n + 1].started = now
  <2>1. /\ Len(runs[t]) \in Nat
        /\ DOMAIN runs[t] = 1 .. Len(runs[t]) /\ DOMAIN runs'[t] = 1 .. Len(runs[t]) + 1
        /\ \A j \in 1 .. Len(runs[t]) : runs'[t][j] = runs[t][j]
    BY <1>1, <1>2, Inserted
  <2>2. runs'[t][Len(runs[t]) + 1].started = now
    BY <1>1, <1>2, Inserted
  <2>3. QED
    BY <2>1, <2>2, Zenon
<1>4. /\ now' = now /\ lapses' = lapses /\ pc[w] = "insert" /\ pc'[w] = "exec"
      /\ task' = task
  BY <1>1, <1>2 DEF InsertRun, Goto, TypeInv, TypeOK
<1>5. /\ now \in Nat /\ RunEvery \in Nat /\ MaxRetries \in Nat /\ lapses[t] \in Nat
  BY <1>1, ConstantsAssumption DEF TypeInv, TypeOK
<1>6. /\ Cardinality(Fresh(t)) + Cardinality(Inserting(t)) <= MaxRetries + 1 + lapses[t]
      /\ Bounded(t)
  BY DEF RetryInv, Room
<1>7. /\ IsFiniteSet(Fresh(t)) /\ Cardinality(Fresh(t)) \in Nat
      /\ IsFiniteSet(Inserting(t)) /\ Cardinality(Inserting(t)) \in Nat
  BY <1>1, RunFacts, InsertingHold DEF Fresh
<1>8. /\ Cardinality(Fresh(t)') \in Nat
      /\ IsFiniteSet(Fresh(t)')
      /\ Cardinality(Fresh(t)') <= Cardinality(Fresh(t)) + 1
  <2>1. Fresh(t)' \subseteq Fresh(t) \cup {n + 1}
    BY <1>3, <1>4 DEF Fresh
  <2>2. /\ IsFiniteSet(Fresh(t) \cup {n + 1})
        /\ Cardinality(Fresh(t) \cup {n + 1}) =
              IF n + 1 \in Fresh(t) THEN Cardinality(Fresh(t)) ELSE Cardinality(Fresh(t)) + 1
    BY <1>7, FS_AddElement, Zenon
  <2>3. Cardinality(Fresh(t) \cup {n + 1}) <= Cardinality(Fresh(t)) + 1
    BY <1>7, <2>2
  <2>4. /\ IsFiniteSet(Fresh(t)')
        /\ Cardinality(Fresh(t)') <= Cardinality(Fresh(t) \cup {n + 1})
    BY <2>1, <2>2, FS_Subset
  <2>5. Cardinality(Fresh(t)') \in Nat /\ Cardinality(Fresh(t) \cup {n + 1}) \in Nat
    BY <2>2, <2>4, FS_CardinalityType
  <2>6. QED
    BY <1>7, <2>3, <2>4, <2>5
<1>9. /\ Cardinality(Inserting(t)') \in Nat
      /\ Cardinality(Inserting(t)') + 1 <= Cardinality(Inserting(t))
  <2>1. w \in Inserting(t)
    BY <1>2, <1>4 DEF Inserting
  <2>2. Inserting(t)' \subseteq Inserting(t) \ {w}
    <3> SUFFICES ASSUME NEW v \in Worker, pc'[v] = "insert", task'[v] = t
                 PROVE  pc[v] = "insert" /\ task[v] = t /\ v # w
      BY DEF Inserting
    <3>1. v # w
      BY <1>4
    <3>2. QED
      BY <1>1, <1>2, <3>1, OthersAlone DEF WorkerStep, Loop
  <2>3. /\ IsFiniteSet(Inserting(t) \ {w})
        /\ Cardinality(Inserting(t) \ {w}) = Cardinality(Inserting(t)) - 1
    BY <1>7, <2>1, FS_RemoveElement
  <2>4. /\ IsFiniteSet(Inserting(t)')
        /\ Cardinality(Inserting(t)') <= Cardinality(Inserting(t) \ {w})
    BY <2>2, <2>3, FS_Subset
  <2>5. Cardinality(Inserting(t)') \in Nat
    BY <2>4, FS_CardinalityType
  <2>6. QED
    BY <1>7, <2>3, <2>4, <2>5
<1>10. Room(t)'
  BY <1>4, <1>5, <1>6, <1>7, <1>8, <1>9 DEF Room
<1>11. ASSUME NEW k \in DOMAIN runs'[t]
       PROVE  Cardinality(Stretch(t, k)') <= MaxRetries + 1 + lapses'[t]
  <2>1. CASE k \in 1 .. n
    <3>1. \A j \in 1 .. k : j \in 1 .. n
      BY <1>3, <2>1
    <3>2. Stretch(t, k)' = Stretch(t, k)
      BY <1>3, <2>1, <3>1 DEF Stretch
    <3>3. QED
      BY <1>3, <1>4, <1>6, <2>1, <3>2 DEF Bounded
  <2>2. CASE k = n + 1
    <3>1. Stretch(t, k)' \subseteq Fresh(t)'
      BY <1>3, <1>4, <2>2 DEF Stretch, Fresh
    <3>2. /\ Cardinality(Stretch(t, k)') <= Cardinality(Fresh(t)')
          /\ Cardinality(Stretch(t, k)') \in Nat
      BY <1>8, <3>1, FS_Subset, FS_CardinalityType
    <3>3. QED
      BY <1>4, <1>5, <1>6, <1>7, <1>8, <1>9, <3>2
  <2>3. k \in 1 .. n \/ k = n + 1
    BY <1>3
  <2>4. QED
    BY <2>1, <2>2, <2>3
<1>12. QED
  BY <1>10, <1>11 DEF Bounded

\* Without an insert the runs keep their starts, and room is taken by Decide
\* only, which counted.
LEMMA RoomKept ==
    ASSUME RetryInv, BaseInv', [Next]_vars, NEW t \in Task, ~Grows(t)
    PROVE  Room(t)' /\ Bounded(t)'
<1>1. TypeInv /\ TypeInv' /\ PhaseInv /\ BaseInv /\ DeletedMarked
  BY DEF RetryInv, BaseInv
<1>2. /\ MaxRetries \in Nat /\ lapses[t] \in Nat /\ lapses'[t] \in Nat
      /\ lapses[t] <= lapses'[t]
  BY <1>1, LapsesGrow, ConstantsAssumption
<1>3. /\ Cardinality(Fresh(t)') \in Nat /\ Cardinality(Fresh(t)) \in Nat
      /\ Cardinality(Fresh(t)') <= Cardinality(Fresh(t))
  BY <1>1, FreshKept
<1>4. /\ IsFiniteSet(Inserting(t)) /\ Cardinality(Inserting(t)) \in Nat
  BY <1>1, InsertingHold
<1>5. /\ Cardinality(Inserting(t)') \in Nat
      /\ Cardinality(Inserting(t)') <= 1 + lapses'[t]
  <2>1. BaseInv => /\ Cardinality(Inserting(t)) \in Nat
                   /\ Cardinality(Inserting(t)) <= 1 + lapses[t]
    BY InsertingHold
  <2>2. (BaseInv => /\ Cardinality(Inserting(t)) \in Nat
                    /\ Cardinality(Inserting(t)) <= 1 + lapses[t])'
    BY InsertingHold, PTL
  <2>3. QED
    BY <2>2
<1>6. Room(t)'
  <2>1. CASE \E w \in Worker : Decide(w) /\ task[w] = t /\ ShouldExecute(t)
    <3>1. Cardinality(Fresh(t)) <= MaxRetries
      BY <1>1, <2>1, DueMeansFewFresh
    <3>2. QED
      BY <1>2, <1>3, <1>5, <3>1 DEF Room
  <2>2. CASE ~\E w \in Worker : Decide(w) /\ task[w] = t /\ ShouldExecute(t)
    <3>1. Inserting(t)' \subseteq Inserting(t)
      <4> SUFFICES ASSUME NEW v \in Inserting(t)' PROVE v \in Inserting(t)
        OBVIOUS
      <4>1. v \in Worker
        BY DEF Inserting
      <4>2. QED
        BY <1>1, <2>2, <4>1, InsertingStep
    <3>2. Cardinality(Inserting(t)') <= Cardinality(Inserting(t))
      BY <1>4, <3>1, FS_Subset
    <3>3. Room(t)
      BY DEF RetryInv
    <3>4. QED
      BY <1>2, <1>3, <1>4, <1>5, <3>2, <3>3 DEF Room
  <2>3. QED
    BY <2>1, <2>2
<1>7. Bounded(t)'
  <2>1. CASE runs'[t] = <<>>
    <3>1. DOMAIN runs'[t] = {}
      BY <2>1
    <3>2. QED
      BY <3>1 DEF Bounded
  <2>2. CASE Rewritten(t)
    <3> SUFFICES ASSUME NEW k \in DOMAIN runs'[t]
                 PROVE  Cardinality(Stretch(t, k)') <= MaxRetries + 1 + lapses'[t]
      BY DEF Bounded
    <3>1. /\ DOMAIN runs'[t] = DOMAIN runs[t]
          /\ \A j \in DOMAIN runs[t] : /\ runs'[t][j].started = runs[t][j].started
                                       /\ ~runs'[t][j].cleaned => ~runs[t][j].cleaned
      BY <2>2 DEF Rewritten
    <3>2. Len(runs[t]) \in Nat /\ DOMAIN runs[t] = 1 .. Len(runs[t])
      BY <1>1, RunFacts
    <3>3. \A j \in 1 .. k : j \in DOMAIN runs[t]
      BY <3>1, <3>2
    <3>4. Stretch(t, k)' \subseteq Stretch(t, k)
      BY <3>1, <3>3 DEF Stretch
    <3>5. IsFiniteSet(Stretch(t, k))
      <4>1. Stretch(t, k) \subseteq DOMAIN runs[t]
        BY <3>3 DEF Stretch
      <4>2. QED
        BY <1>1, <4>1, RunFacts
    <3>6. /\ Cardinality(Stretch(t, k)') \in Nat /\ Cardinality(Stretch(t, k)) \in Nat
          /\ Cardinality(Stretch(t, k)') <= Cardinality(Stretch(t, k))
      BY <3>4, <3>5, FS_Subset, FS_CardinalityType
    <3>7. Cardinality(Stretch(t, k)) <= MaxRetries + 1 + lapses[t]
      BY <3>1 DEF RetryInv, Bounded
    <3>8. QED
      BY <1>2, <3>6, <3>7
  <2>3. QED
    BY <1>1, <2>1, <2>2, RunsKept DEF Grows
<1>8. QED
  BY <1>6, <1>7

LEMMA RetryNext == RetryInv /\ [Next]_vars => RetryInv'
<1> SUFFICES ASSUME RetryInv, [Next]_vars PROVE RetryInv'
  OBVIOUS
<1>1. BaseInv'
  BY BaseNext DEF RetryInv
<1>2. \A t \in Task : Room(t)' /\ Bounded(t)'
  BY <1>1, RoomTaken, RoomKept
<1>3. QED
  BY <1>1, <1>2, RunsMarked DEF RetryInv

\* No stretch of run_every sees more than the run that was due, MaxRetries more
\* and one for each time a live worker lost the lock, the runs of workers that
\* died, timed out or were reconciled counted, whatever the retention is.
THEOREM RetriesAreBounded == Spec => []RetriesBounded
<1>1. RetryInv => RetriesBounded
  BY DEF RetryInv, Bounded, Stretch, RetriesBounded
<1>2. QED
  BY <1>1, RetryInit, RetryNext, PTL DEF Spec

-----------------------------------------------------------------------------
(* The counter.  The instance of a worker counts from the row as it was      *)
(* picked; without a lapse nobody else has run the task since.  A success    *)
(* saved late was counted when its task was saved, before its own run got    *)
(* the result.                                                               *)

\* A counter of f is backed by the runs of t since each success.
CountsTo(t, f) == \A k \in DOMAIN runs[t] : Succeeded(t, k) => f <= Len(runs[t]) - k

\* With its own run inserted, a worker has one failure more to report.
Ahead(w) == IF run[w] # 0 /\ result[w] = None THEN 1 ELSE 0

CopyBacked(w) ==
    Locking(w) /\ lapses[task[w]] = 0 => CountsTo(task[w], copy[w].failures + Ahead(w))

SuccessResets(w) == Locking(w) /\ result[w] = "SUCCESS" => copy[w].failures = 0

RunThere(w) ==
    Holding(w) /\ status[task[w]] = "present" => run[w] <= Len(runs[task[w]])

CounterInv ==
    /\ BaseInv
    /\ \A t \in Task : lapses[t] = 0 => CountsTo(t, row[t].failures)
    /\ \A w \in Worker : CopyBacked(w) /\ SuccessResets(w) /\ RunThere(w)

\* The counter of a row is written by SaveTask, reset by the admin, or is that
\* of a new or gone row.
LEMMA FailuresStep ==
    ASSUME TypeInv, [Next]_vars, NEW t \in Task
    PROVE  \/ row'[t].failures \in {row[t].failures, 0}
           \/ \E w \in Worker : /\ SaveTask(w) /\ task[w] = t /\ status[t] = "present"
                                /\ row'[t].failures = copy[w].failures
<1>1. ASSUME NEW s \in Task, Register(s)
      PROVE  row'[t] = row[t] \/ (Register(t) /\ row'[t].failures = 0)
  <2>1. CASE s = t
    BY <1>1, <2>1 DEF Register, Blank, TypeInv, TypeOK
  <2>2. CASE s # t
    BY <1>1, <2>2 DEF Register, TypeInv, TypeOK
  <2>3. QED
    BY <2>1, <2>2
<1>2. ASSUME NEW w \in Worker, Pick(w) PROVE row'[t].failures = row[t].failures
  BY <1>2, Picked
<1>3. ASSUME NEW w \in Worker, SkipUnregistered(w)
      PROVE  \/ row'[t] = row[t]
             \/ task[w] = t /\ row'[t].failures = 0
  BY <1>3 DEF SkipUnregistered, Blank, dbVars, TypeInv, TypeOK
<1>4. ASSUME NEW w \in Worker, SaveTask(w)
      PROVE  \/ row'[t] = row[t]
             \/ /\ task[w] = t /\ status[t] = "present"
                /\ row'[t].failures = copy[w].failures
  <2>1. CASE status[task[w]] = "present"
    BY <1>4, <2>1, SavedColumns
  <2>2. CASE status[task[w]] # "present"
    BY <1>4, <2>2 DEF SaveTask
  <2>3. QED
    BY <2>1, <2>2
<1>5. ASSUME NEW w \in Worker,
             \/ FindAbandoned(w) \/ MarkAbandoned(w) \/ Decide(w) \/ InsertRun(w)
             \/ Execute(w) \/ SaveRun(w) \/ DatabaseError(w) \/ Crash(w) \/ Restart(w)
      PROVE  row' = row
  BY <1>5 DEF FindAbandoned, MarkAbandoned, Decide, InsertRun, Execute, Succeed, Fail,
              TimeOut, BackOff, Finish, SaveRun, DatabaseError, Crash, Restart, dbVars
<1>6. CleanUpRuns \/ Tick \/ UNCHANGED vars => row' = row
  BY DEF CleanUpRuns, Tick, vars, dbVars
<1>7. ASSUME NEW s \in Task, AdminUnlock(s) \/ AdminEnable(s)
      PROVE  row'[t].failures \in {row[t].failures, 0}
  <2>1. row[t] \in Row
    BY DEF TypeInv, TypeOK
  <2>2. row'[t] \in {row[t], [row[t] EXCEPT !.locked = FALSE],
                     [row[t] EXCEPT !.disabled = FALSE, !.failures = 0]}
    BY <1>7 DEF AdminUnlock, AdminEnable, TypeInv, TypeOK
  <2>3. QED
    BY <2>1, <2>2 DEF Row
<1>8. QED
  BY <1>1, <1>2, <1>3, <1>4, <1>5, <1>6, <1>7 DEF Next, Loop

\* A success is that of the run already, or becomes one as its task is saved.
LEMMA SuccessStep ==
    ASSUME TypeInv, [Next]_vars, NEW t \in Task, NEW k,
           Succeeded(t, k)', runs'[t][k].result = "SUCCESS" => Succeeded(t, k)
    PROVE  \/ Succeeded(t, k)
           \/ \E w \in Worker : /\ SaveTask(w) /\ status[t] = "present" /\ task[w] = t
                                /\ run[w] = k /\ result[w] = "SUCCESS"
<1> SUFFICES ASSUME NEW v \in Worker, pc'[v] = "saveRun", task'[v] = t,
                    run'[v] = k, result'[v] = "SUCCESS"
             PROVE  \/ Succeeded(t, k)
                    \/ /\ SaveTask(v) /\ status[t] = "present" /\ task[v] = t
                       /\ run[v] = k /\ result[v] = "SUCCESS"
  BY DEF Succeeded
<1>1. ASSUME pc'[v] = pc[v], task'[v] = task[v], run'[v] = run[v], result'[v] = result[v]
      PROVE  Succeeded(t, k)
  BY <1>1 DEF Succeeded
<1>2. ASSUME NEW phase \in {"idle", "down"} PROVE ~Leave(v, phase)
  BY DEF Leave, Goto, TypeInv, TypeOK
<1>3. CASE SaveTask(v)
  BY <1>2, <1>3 DEF SaveTask
<1>4. CASE \/ Pick(v) \/ FindAbandoned(v) \/ MarkAbandoned(v) \/ SkipUnregistered(v)
           \/ Decide(v) \/ InsertRun(v) \/ Execute(v) \/ SaveRun(v)
           \/ DatabaseError(v) \/ Crash(v) \/ Restart(v)
  <2>1. pc'[v] # "saveRun"
    BY <1>4 DEF Pick, FindAbandoned, MarkAbandoned, SkipUnregistered, Decide, InsertRun,
                Execute, Succeed, Fail, TimeOut, BackOff, Finish, SaveRun, DatabaseError,
                Crash, Restart, Leave, Goto, TypeInv, TypeOK
  <2>2. QED
    BY <2>1
<1>5. ASSUME NEW w \in Worker, w # v, WorkerStep(w) PROVE Succeeded(t, k)
  BY <1>1, <1>5, OthersAlone
<1>6. CASE OutsideStep
  BY <1>1, <1>6, OutsideAlone DEF workerVars
<1>7. QED
  BY <1>3, <1>4, <1>5, <1>6, StepSplit DEF WorkerStep, Loop

\* A counter of zero is always backed.
LEMMA ZeroCounts ==
    ASSUME TypeInv', NEW t \in Task
    PROVE  CountsTo(t, 0)'
<1> SUFFICES ASSUME NEW k \in DOMAIN runs'[t] PROVE 0 <= Len(runs'[t]) - k
  BY DEF CountsTo
<1>1. runs'[t] \in Seq(Run)
  BY DEF TypeInv, TypeOK
<1>2. QED
  BY <1>1

\* What backs a counter backs it across a step that neither inserts a run of
\* the task nor saves the task after a success.
LEMMA NoNewSuccess ==
    ASSUME TypeInv, PhaseInv, [Next]_vars, NEW t \in Task, ~Grows(t),
           \A w \in Worker : ~ /\ SaveTask(w) /\ status[t] = "present"
                               /\ task[w] = t /\ result[w] = "SUCCESS",
           NEW f, CountsTo(t, f)
    PROVE  CountsTo(t, f)'
<1>1. CASE runs'[t] = <<>>
  <2>1. DOMAIN runs'[t] = {}
    BY <1>1
  <2>2. QED
    BY <2>1 DEF CountsTo
<1>2. CASE Rewritten(t)
  <2> SUFFICES ASSUME NEW k \in DOMAIN runs'[t], Succeeded(t, k)'
               PROVE  f <= Len(runs'[t]) - k
    BY DEF CountsTo
  <2>1. /\ k \in DOMAIN runs[t] /\ Len(runs'[t]) = Len(runs[t])
        /\ runs'[t][k].result = "SUCCESS" => Succeeded(t, k)
    BY <1>2 DEF Rewritten
  <2>2. Succeeded(t, k)
    BY <2>1, SuccessStep
  <2>3. QED
    BY <2>1, <2>2 DEF CountsTo
<1>3. QED
  BY <1>1, <1>2, RunsKept DEF Grows

\* A run inserted backs one failure more.
LEMMA GrowSuccess ==
    ASSUME TypeInv, PhaseInv, \A v \in Worker : RunThere(v), [Next]_vars,
           NEW t \in Task, Grows(t), NEW f \in Nat, CountsTo(t, f)
    PROVE  CountsTo(t, f + 1)'
<1> SUFFICES ASSUME NEW k \in DOMAIN runs'[t], Succeeded(t, k)'
             PROVE  f + 1 <= Len(runs'[t]) - k
  BY DEF CountsTo
<1>1. PICK w \in Worker : InsertRun(w) /\ status[task[w]] = "present" /\ task[w] = t
  BY DEF Grows
<1>2. /\ task'[w] = task[w] /\ pc'[w] = "exec"
  BY <1>1 DEF InsertRun, Goto, TypeInv, TypeOK
<1>3. PICK n \in Nat :
        /\ n = Len(runs[t]) /\ Len(runs'[t]) = n + 1
        /\ DOMAIN runs[t] = 1 .. n /\ DOMAIN runs'[t] = 1 .. n + 1
        /\ \A j \in 1 .. n : runs'[t][j] = runs[t][j]
        /\ runs'[t][n + 1].result = None
  <2>1. /\ Len(runs[t]) \in Nat
        /\ Len(runs'[t]) = Len(runs[t]) + 1
        /\ DOMAIN runs[t] = 1 .. Len(runs[t])
        /\ DOMAIN runs'[t] = 1 .. Len(runs[t]) + 1
        /\ \A j \in 1 .. Len(runs[t]) : runs'[t][j] = runs[t][j]
    BY <1>1, Inserted
  <2>2. runs'[t][Len(runs[t]) + 1].result = None
    BY <1>1, Inserted
  <2>3. QED
    BY <2>1, <2>2, Zenon
<1>4. None # "SUCCESS"
  BY ConstantsAssumption
<1>5. ASSUME NEW v \in Worker, pc'[v] = "saveRun", task'[v] = t, run'[v] = k,
             result'[v] = "SUCCESS"
      PROVE  k <= n /\ Succeeded(t, k)
  <2>1. v # w
    BY <1>2, <1>5
  <2>2. pc[v] = "saveRun" /\ task[v] = t /\ run[v] = k /\ result[v] = "SUCCESS"
    BY <1>1, <1>5, <2>1, OthersAlone DEF WorkerStep, Loop
  <2>3. run[v] <= Len(runs[t])
    BY <1>1, <2>2 DEF RunThere, Holding
  <2>4. QED
    BY <1>3, <2>2, <2>3 DEF Succeeded
<1>6. k \in 1 .. n /\ Succeeded(t, k)
  <2>1. CASE runs'[t][k].result = "SUCCESS"
    BY <1>3, <1>4, <2>1 DEF Succeeded
  <2>2. CASE runs'[t][k].result # "SUCCESS"
    <3>1. PICK v \in Worker : /\ pc'[v] = "saveRun" /\ task'[v] = t
                              /\ run'[v] = k /\ result'[v] = "SUCCESS"
      BY <2>2 DEF Succeeded
    <3>2. QED
      BY <1>3, <1>5, <3>1
  <2>3. QED
    BY <2>1, <2>2
<1>7. f <= n - k
  BY <1>3, <1>6 DEF CountsTo
<1>8. QED
  BY <1>3, <1>6, <1>7

\* What happens in memory to a worker that keeps its task.
LEMMA CopyStep ==
    ASSUME TypeInv, PhaseInv, [Next]_vars, NEW v \in Worker, Locking(v), Locking(v)',
           ~Pick(v), ~(InsertRun(v) /\ status[task[v]] = "present")
    PROVE  \/ /\ copy'[v].failures = copy[v].failures
              /\ run'[v] = run[v] /\ result'[v] = result[v]
           \/ copy'[v].failures = 0 /\ result'[v] = "SUCCESS"
           \/ /\ copy'[v].failures = copy[v].failures + 1 /\ result'[v] = "FAILURE"
              /\ run[v] # 0 /\ result[v] = None
<1> DEFINE Same == /\ copy'[v].failures = copy[v].failures
                   /\ run'[v] = run[v] /\ result'[v] = result[v]
<1>1. copy[v] \in Copy /\ copy \in [Worker -> Copy] /\ result \in [Worker -> Result]
  BY DEF TypeInv, TypeOK
<1>2. ASSUME NEW phase \in {"idle", "down"} PROVE ~Leave(v, phase)
  BY DEF Leave, Goto, Locking, Holding, TypeInv, TypeOK
<1>3. CASE FindAbandoned(v) \/ MarkAbandoned(v) \/ InsertRun(v)
  BY <1>2, <1>3 DEF FindAbandoned, MarkAbandoned, InsertRun
<1>4. CASE Decide(v)
  <2>1. Unlocked(copy[v]).failures = copy[v].failures
    BY <1>1 DEF Unlocked, Copy
  <2>2. copy'[v] \in {copy[v], Unlocked(copy[v])}
    BY <1>1, <1>4 DEF Decide
  <2>3. QED
    BY <1>4, <2>1, <2>2 DEF Decide
<1>5. CASE Succeed(v)
  <2>1. MarkSuccess(copy[v]).failures = 0
    BY <1>1 DEF MarkSuccess, Copy
  <2>2. QED
    BY <1>1, <1>5, <2>1 DEF Succeed, Finish
<1>6. CASE Fail(v) \/ TimeOut(v)
  <2>1. MarkFailure(copy[v]).failures = copy[v].failures + 1
    <3> DEFINE d == copy[v].disabled \/ copy[v].failures + 1 >= MaxConsecutive
    <3>1. MarkFailure(copy[v]) = [copy[v] EXCEPT !.locked = FALSE, !.lockedAt = None,
                                    !.failures = copy[v].failures + 1, !.disabled = d]
      BY DEF MarkFailure
    <3> HIDE DEF d
    <3>2. QED
      BY <1>1, <3>1 DEF Copy
  <2>2. run[v] # 0 /\ result[v] = None
    BY <1>6 DEF Fail, TimeOut, PhaseInv, PhaseOK
  <2>3. copy'[v] = MarkFailure(copy[v]) /\ result'[v] = "FAILURE"
    BY <1>1, <1>6 DEF Fail, TimeOut, Finish
  <2>4. QED
    BY <2>1, <2>2, <2>3
<1>7. CASE BackOff(v) \/ SkipUnregistered(v) \/ SaveRun(v) \/ DatabaseError(v) \/ Crash(v)
  BY <1>2, <1>7 DEF BackOff, SkipUnregistered, SaveRun, DatabaseError, Crash
<1>8. ~SaveTask(v)
  BY <1>2 DEF SaveTask, Goto, Locking, Holding, TypeInv, TypeOK
<1>9. ~Restart(v)
  BY DEF Restart, Locking, Holding
<1>10. ASSUME NEW w \in Worker, w # v, WorkerStep(w) PROVE Same
  BY <1>10, OthersAlone
<1>11. CASE OutsideStep
  BY <1>11, OutsideAlone DEF workerVars
<1>12. QED
  BY <1>3, <1>4, <1>5, <1>6, <1>7, <1>8, <1>9, <1>10, <1>11, StepSplit
     DEF WorkerStep, Loop, Execute

LEMMA CounterInit == Init => CounterInv
<1> SUFFICES ASSUME Init PROVE CounterInv
  OBVIOUS
<1>1. \A t \in Task : DOMAIN runs[t] = {}
  BY DEF Init
<1>2. \A w \in Worker : ~Holding(w)
  BY DEF Init, Holding
<1>3. QED
  BY <1>1, <1>2, BaseInit
     DEF CounterInv, CountsTo, CopyBacked, SuccessResets, RunThere, Locking

\* The runs that are there stay there as long as their task does.
LEMMA RunThereNext ==
    ASSUME BaseInv, BaseInv', \A u \in Worker : RunThere(u), [Next]_vars, NEW v \in Worker
    PROVE  RunThere(v)'
<1>1. TypeInv /\ TypeInv' /\ PhaseInv
  BY DEF BaseInv
<1> SUFFICES ASSUME Holding(v)', status'[task'[v]] = "present"
             PROVE  run'[v] <= Len(runs'[task'[v]])
  BY DEF RunThere
<1>2. task'[v] \in Task /\ Len(runs'[task'[v]]) \in Nat
  <2>1. task'[v] \in Task
    BY <1>1 DEF TypeInv, HoldersOK
  <2>2. runs'[task'[v]] \in Seq(Run)
    BY <1>1, <2>1 DEF TypeInv, TypeOK
  <2>3. QED
    BY <2>1, <2>2
<1>3. CASE Pick(v)
  <2>1. run'[v] = 0
    BY <1>1, <1>3 DEF Pick, PhaseInv, PhaseOK
  <2>2. QED
    BY <1>2, <2>1
<1>4. CASE InsertRun(v) /\ status[task[v]] = "present"
  <2>1. task'[v] = task[v]
    BY <1>4 DEF InsertRun
  <2>2. run'[v] = Len(runs'[task[v]])
    BY <1>1, <1>4, Inserted
  <2>3. QED
    BY <1>2, <2>1, <2>2
<1>5. CASE ~Pick(v) /\ ~(InsertRun(v) /\ status[task[v]] = "present")
  <2>1. Holding(v) /\ task'[v] = task[v] /\ run'[v] = run[v]
    BY <1>1, <1>5, HoldStep
  <2>2. PICK t \in Task : t = task[v]
    BY <1>2, <2>1
  <2>3. status[t] # "absent"
    BY <1>1, <2>1, <2>2 DEF PhaseInv, PhaseOK
  <2>4. status[t] = "present"
    BY <1>1, <2>1, <2>2, <2>3, StaysPresent
  <2>5. run[v] <= Len(runs[t]) /\ run[v] \in Nat
    BY <1>1, <2>1, <2>2, <2>4 DEF RunThere, TypeInv, TypeOK
  <2>6. CASE Grows(t)
    <3>1. Len(runs'[t]) = Len(runs[t]) + 1 /\ Len(runs[t]) \in Nat
      BY <1>1, <2>6, Inserted DEF Grows
    <3>2. QED
      BY <2>1, <2>2, <2>5, <3>1
  <2>7. CASE ~Grows(t)
    <3>1. Rewritten(t)
      BY <1>1, <2>1, <2>2, <2>7, RunsKept DEF Grows
    <3>2. QED
      BY <2>1, <2>2, <2>5, <3>1 DEF Rewritten
  <2>8. QED
    BY <2>6, <2>7
<1>6. QED
  BY <1>3, <1>4, <1>5

\* The task is saved after a success in this step.
ResetBy(w, t) == /\ SaveTask(w) /\ status[t] = "present"
                 /\ task[w] = t /\ result[w] = "SUCCESS"

\* A row is backed across any step.
LEMMA RowBackedNext ==
    ASSUME CounterInv, BaseInv', [Next]_vars, NEW t \in Task, lapses[t] = 0
    PROVE  CountsTo(t, row[t].failures)'
<1>1. /\ TypeInv /\ TypeInv' /\ PhaseInv /\ BaseInv
      /\ \A v \in Worker : RunThere(v) /\ CopyBacked(v) /\ SuccessResets(v)
      /\ CountsTo(t, row[t].failures)
  BY DEF CounterInv, BaseInv
<1>2. PICK f \in Nat : f = row[t].failures
  <2>1. row[t] \in Row
    BY <1>1 DEF TypeInv, TypeOK
  <2>2. QED
    BY <2>1 DEF Row
<1>3. PICK g : g = row'[t].failures
  OBVIOUS
<1>4. CountsTo(t, f) /\ CountsTo(t, 0)'
  BY <1>1, <1>2, ZeroCounts
<1> SUFFICES CountsTo(t, g)'
  BY <1>3 DEF CountsTo
<1>5. CASE Grows(t)
  <2>1. g = f
    BY <1>2, <1>3, <1>5 DEF Grows, InsertRun
  <2>2. CountsTo(t, f + 1)'
    BY <1>1, <1>4, <1>5, GrowSuccess
  <2>3. \A k \in DOMAIN runs'[t] : k \in Nat /\ Len(runs'[t]) \in Nat
    <3>1. runs'[t] \in Seq(Run)
      BY <1>1 DEF TypeInv, TypeOK
    <3>2. QED
      BY <3>1
  <2>4. QED
    BY <2>1, <2>2, <2>3 DEF CountsTo
<1>6. ASSUME NEW w \in Worker, ResetBy(w, t) PROVE CountsTo(t, g)'
  <2>1. g = copy[w].failures
    BY <1>1, <1>3, <1>6, SavedColumns DEF ResetBy
  <2>2. copy[w].failures = 0
    BY <1>1, <1>6 DEF ResetBy, SaveTask, Locking, Holding, SuccessResets
  <2>3. g = 0
    BY <2>1, <2>2
  <2>4. QED
    BY <1>4, <2>3
<1>7. CASE ~Grows(t) /\ \A w \in Worker : ~ResetBy(w, t)
  <2>1. \A h : CountsTo(t, h) => CountsTo(t, h)'
    BY <1>1, <1>7, NoNewSuccess DEF ResetBy
  <2>2. CASE g \in {f, 0}
    <3>1. CASE g = f
      BY <1>4, <2>1, <3>1
    <3>2. CASE g = 0
      BY <1>4, <3>2
    <3>3. QED
      BY <2>2, <3>1, <3>2
  <2>3. ASSUME NEW w \in Worker, SaveTask(w), task[w] = t, status[t] = "present",
               g = copy[w].failures
        PROVE  CountsTo(t, g)'
    <3>1. Locking(w) /\ Ahead(w) = 0
      BY <1>1, <2>3 DEF SaveTask, Locking, Holding, Ahead, PhaseInv, PhaseOK
    <3>2. copy[w].failures \in Nat
      BY <1>1 DEF TypeInv, TypeOK, Copy
    <3>3. CountsTo(t, copy[w].failures)
      BY <1>1, <2>3, <3>1, <3>2 DEF CopyBacked
    <3>4. CountsTo(t, g)
      BY <2>3, <3>3
    <3>5. QED
      BY <2>1, <3>4
  <2>4. QED
    BY <1>1, <1>2, <1>3, <2>2, <2>3, FailuresStep
<1>8. QED
  BY <1>5, <1>6, <1>7

\* An instance is backed across any step.
LEMMA CopyBackedNext ==
    ASSUME CounterInv, BaseInv', [Next]_vars, NEW v \in Worker
    PROVE  CopyBacked(v)' /\ SuccessResets(v)'
<1>1. /\ TypeInv /\ TypeInv' /\ PhaseInv /\ PhaseInv' /\ BaseInv
      /\ \A u \in Worker : RunThere(u) /\ CopyBacked(u) /\ SuccessResets(u)
  BY DEF CounterInv, BaseInv
<1> SUFFICES ASSUME Locking(v)' PROVE CopyBacked(v)' /\ SuccessResets(v)'
  BY DEF CopyBacked, SuccessResets
<1>2. Holding(v)'
  BY DEF Locking
<1>3. PICK t \in Task : t = task'[v]
  BY <1>1, <1>2 DEF TypeInv, HoldersOK
<1>4. /\ lapses'[t] = 0 => lapses[t] = 0
  BY <1>1, LapsesGrow
<1>5. CASE Pick(v)
  <2>1. /\ copy'[v].failures = row[t].failures
        /\ row[t].failures \in Nat
    <3>1. row[t] \in Row
      BY <1>1 DEF TypeInv, TypeOK
    <3>2. QED
      BY <1>1, <1>3, <1>5, <3>1, Picked DEF Row
  <2>2. run' = run /\ result' = result /\ runs' = runs /\ run[v] = 0 /\ result[v] = None
    BY <1>1, <1>5 DEF Pick, PhaseInv, PhaseOK
  <2>3. \A u \in Worker : pc'[u] = "saveRun" => pc[u] = "saveRun" /\ task'[u] = task[u]
    <3>1. pc'[v] = "reconcile"
      BY <1>1, <1>5 DEF Pick, Goto, TypeInv, TypeOK
    <3>2. QED
      BY <1>1, <1>5, <3>1, OthersAlone DEF WorkerStep
  <2>4. \A k : Succeeded(t, k)' => Succeeded(t, k)
    BY <2>2, <2>3 DEF Succeeded
  <2>5. \A f : CountsTo(t, f) => CountsTo(t, f)'
    BY <2>2, <2>4 DEF CountsTo
  <2>6. lapses[t] = 0 => CountsTo(t, row[t].failures)
    BY DEF CounterInv
  <2>7. Ahead(v)' = 0
    BY <2>2 DEF Ahead
  <2>8. result'[v] # "SUCCESS"
    BY <2>2, ConstantsAssumption
  <2>9. PICK g : g = row[t].failures
    OBVIOUS
  <2>10. CopyBacked(v)'
    <3>1. lapses'[t] = 0 => CountsTo(t, g)
      BY <1>4, <2>6, <2>9
    <3>2. (copy[v].failures + Ahead(v))' = g
      BY <2>1, <2>7, <2>9
    <3>3. QED
      BY <1>3, <2>5, <3>1, <3>2 DEF CopyBacked
  <2>11. QED
    BY <2>8, <2>10 DEF SuccessResets
<1>6. CASE InsertRun(v) /\ status[task[v]] = "present"
  <2>1. /\ task'[v] = t /\ task[v] = t /\ copy'[v] = copy[v] /\ result'[v] = result[v]
        /\ run[v] = 0 /\ run'[v] # 0 /\ result[v] = None /\ Locking(v)
    <3>1. pc'[v] = "exec"
      BY <1>1, <1>6 DEF InsertRun, Goto, TypeInv, TypeOK
    <3>2. QED
      BY <1>1, <1>3, <1>6, <3>1 DEF InsertRun, PhaseInv, PhaseOK, Locking, Holding
  <2>2. Ahead(v) = 0 /\ Ahead(v)' = 1
    BY <2>1 DEF Ahead
  <2>3. PICK f \in Nat : f = copy[v].failures
    BY <1>1 DEF TypeInv, TypeOK, Copy
  <2>4. lapses[t] = 0 => CountsTo(t, f)
    BY <1>1, <2>1, <2>2, <2>3 DEF CopyBacked
  <2>5. Grows(t)
    BY <1>6, <2>1 DEF Grows
  <2>6. lapses[t] = 0 => CountsTo(t, f + 1)'
    BY <1>1, <2>4, <2>5, GrowSuccess
  <2>7. CopyBacked(v)'
    <3>1. (copy[v].failures + Ahead(v))' = f + 1
      BY <2>1, <2>2, <2>3
    <3>2. QED
      BY <1>4, <2>1, <2>6, <3>1 DEF CopyBacked
  <2>8. SuccessResets(v)'
    BY <2>1, ConstantsAssumption DEF SuccessResets
  <2>9. QED
    BY <2>7, <2>8
<1>7. CASE ~Pick(v) /\ ~(InsertRun(v) /\ status[task[v]] = "present")
  <2>1. Locking(v) /\ task[v] = t
    BY <1>1, <1>2, <1>3, <1>7, HoldStep
  <2>2. \/ /\ copy'[v].failures = copy[v].failures
           /\ run'[v] = run[v] /\ result'[v] = result[v]
        \/ copy'[v].failures = 0 /\ result'[v] = "SUCCESS"
        \/ /\ copy'[v].failures = copy[v].failures + 1 /\ result'[v] = "FAILURE"
           /\ run[v] # 0 /\ result[v] = None
    BY <1>1, <1>7, <2>1, CopyStep
  <2>3. SuccessResets(v)'
    BY <1>1, <2>1, <2>2 DEF SuccessResets
  <2>4. PICK g : g = (copy[v].failures + Ahead(v))'
    OBVIOUS
  <2> SUFFICES ASSUME lapses'[t] = 0 PROVE CountsTo(t, g)'
    BY <1>3, <2>3, <2>4 DEF CopyBacked
  <2>5. lapses[t] = 0
    BY <1>4
  <2>6. ~Grows(t)
    <3> SUFFICES ASSUME NEW w \in Worker, InsertRun(w), status[task[w]] = "present",
                        task[w] = t
                 PROVE  FALSE
      BY DEF Grows
    <3>1. w # v
      BY <1>7
    <3>2. QED
      BY <1>1, <2>1, <2>5, <3>1, InsertAlone
  <2>7. \A w \in Worker : ~ResetBy(w, t)
    <3> SUFFICES ASSUME NEW w \in Worker, ResetBy(w, t) PROVE FALSE
      OBVIOUS
    <3>1. Locking(w) /\ ~Locking(w)' /\ task[w] = t
      BY <1>1 DEF ResetBy, SaveTask, Leave, Goto, Locking, Holding, TypeInv, TypeOK
    <3>2. w # v
      BY <3>1
    <3>3. QED
      BY <1>1, <2>1, <2>5, <3>1, <3>2, SoleHolder
  <2>8. CountsTo(t, copy[v].failures + Ahead(v))
    BY <1>1, <2>1, <2>5 DEF CopyBacked
  <2>9. \A f : CountsTo(t, f) => CountsTo(t, f)'
    BY <1>1, <2>6, <2>7, NoNewSuccess DEF ResetBy
  <2>10. copy[v].failures \in Nat /\ Locking(v)'
    BY <1>1 DEF TypeInv, TypeOK, Copy
  <2>11. CASE g = copy[v].failures + Ahead(v)
    <3>1. CountsTo(t, g)
      BY <2>8, <2>11
    <3>2. QED
      BY <2>9, <3>1
  <2>12. CASE g = 0
    <3>1. CountsTo(t, 0)'
      BY <1>1, ZeroCounts
    <3>2. QED
      BY <2>12, <3>1
  <2>13. g = copy[v].failures + Ahead(v) \/ g = 0
    <3>1. "SUCCESS" # None /\ "FAILURE" # None
      BY ConstantsAssumption
    <3>2. QED
      BY <2>2, <2>4, <2>10, <3>1 DEF Ahead
  <2>14. QED
    BY <2>11, <2>12, <2>13
<1>8. QED
  BY <1>5, <1>6, <1>7

LEMMA CounterNext == CounterInv /\ [Next]_vars => CounterInv'
<1> SUFFICES ASSUME CounterInv, [Next]_vars PROVE CounterInv'
  OBVIOUS
<1>1. BaseInv /\ BaseInv' /\ \A w \in Worker : RunThere(w)
  BY BaseNext DEF CounterInv
<1>2. \A t \in Task : lapses'[t] = 0 => lapses[t] = 0
  BY <1>1, LapsesGrow DEF BaseInv
<1>3. \A t \in Task : lapses'[t] = 0 => CountsTo(t, row[t].failures)'
  BY <1>1, <1>2, RowBackedNext
<1>4. \A w \in Worker : CopyBacked(w)' /\ SuccessResets(w)' /\ RunThere(w)'
  BY <1>1, CopyBackedNext, RunThereNext
<1>5. QED
  BY <1>1, <1>3, <1>4 DEF CounterInv

\* The counter that disables a task exceeds the number of runs since its last
\* success only if a live worker has lost the lock, whatever saves were lost or
\* late and whatever the admin site did.
THEOREM CounterIsBacked == Spec => []CounterBackedByHistory
<1>1. CounterInv => CounterBackedByHistory
  <2> SUFFICES ASSUME CounterInv, NEW t \in Task, NEW k \in DOMAIN runs[t],
                      runs[t][k].result = "SUCCESS", ~(lapses[t] > 0)
               PROVE  ~(row[t].failures > Len(runs[t]) - k)
    BY DEF CounterBackedByHistory
  <2>1. TypeInv /\ row[t] \in Row /\ runs[t] \in Seq(Run) /\ lapses[t] \in Nat
    BY DEF CounterInv, BaseInv, TypeInv, TypeOK
  <2>2. row[t].failures \in Nat /\ Len(runs[t]) \in Nat /\ k \in Nat
    BY <2>1 DEF Row
  <2>3. lapses[t] = 0
    BY <2>1
  <2>4. row[t].failures <= Len(runs[t]) - k
    BY <2>3 DEF CounterInv, CountsTo, Succeeded
  <2>5. QED
    BY <2>2, <2>4
<1>2. QED
  BY <1>1, CounterInit, CounterNext, PTL DEF Spec
=============================================================================

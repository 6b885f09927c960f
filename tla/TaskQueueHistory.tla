-------------------------- MODULE TaskQueueHistory --------------------------
(* What the TaskRun history may claim, how often a task function may run to  *)
(* its end, and in which order a pop takes tasks: proofs on top of the       *)
(* inductive invariant of TaskQueueSafety.                                   *)
EXTENDS TaskQueueSafety

-----------------------------------------------------------------------------
(* TaskRuns between bulk_update and bulk_create.                             *)

\* The workers that owe task t a TaskRun: its row is written, its run is not.
FailPending(t) == {w \in Worker : pc[w] = "saveRuns" /\ result[w][t] = "FAILURE"}
OkPending(t)   == {w \in Worker : pc[w] = "saveRuns" /\ result[w][t] = "SUCCESS"}

PendingFinite(t) == IsFiniteSet(FailPending(t)) /\ IsFiniteSet(OkPending(t))

\* TaskRuns saved or still owed.
FailTotal(t) == runs[t].fail + Cardinality(FailPending(t))
OkTotal(t)   == runs[t].ok + Cardinality(OkPending(t))

Done(t) == IF row[t].completed THEN 1 ELSE 0

\* A worker has results only for its batch, and its batch was submitted.
BatchKnown ==
    \A w \in Worker : \A t \in Task :
       /\ t \in claimed[w] => status[t] # "absent"
       /\ result[w][t] # "NONE" => t \in claimed[w]

\* The result says what the instance says.
OutcomeInv ==
    \A w \in Worker : \A t \in Held(w) :
       result[w][t] # "NONE" => (copy[w][t].completed <=> result[w][t] = "SUCCESS")

\* The accounts of one task: nothing before it is submitted, and afterwards
\* never more TaskRuns than its row admits.
Accounts(t) ==
    /\ PendingFinite(t)
    /\ status[t] = "absent" => runs[t] = NoRuns
    /\ status[t] = "present" =>
          FailTotal(t) <= row[t].fails /\ OkTotal(t) <= Done(t)

BatchInv == BatchKnown /\ OutcomeInv

HistoryInv == SafetyInv /\ BatchInv /\ \A t \in Task : Accounts(t)

-----------------------------------------------------------------------------
(* Counting what is owed.                                                    *)

LEMMA RunFacts ==
    ASSUME TypeInv, NEW t \in Task
    PROVE  runs[t] \in Runs /\ runs[t].ok \in Nat /\ runs[t].fail \in Nat
BY DEF TypeInv, TypeOK, Runs

LEMMA TotalsType ==
    ASSUME TypeInv, NEW t \in Task, PendingFinite(t)
    PROVE  /\ Cardinality(FailPending(t)) \in Nat /\ Cardinality(OkPending(t)) \in Nat
           /\ FailTotal(t) \in Nat /\ OkTotal(t) \in Nat
BY RunFacts, FS_CardinalityType DEF PendingFinite, FailTotal, OkTotal

\* Nobody owes a TaskRun to a task that was not submitted.
LEMMA AbsentOwesNothing ==
    ASSUME HistoryInv, NEW t \in Task, status[t] = "absent"
    PROVE  FailTotal(t) = 0 /\ OkTotal(t) = 0
<1>1. \A w \in Worker : result[w][t] = "NONE"
  BY DEF HistoryInv, BatchInv, BatchKnown
<1>2. FailPending(t) = {} /\ OkPending(t) = {}
  BY <1>1 DEF FailPending, OkPending
<1>3. runs[t] = NoRuns
  BY DEF HistoryInv, Accounts
<1>4. QED
  BY <1>2, <1>3, FS_EmptySet DEF FailTotal, OkTotal, NoRuns

\* Debts that are dropped leave the totals where they are or lower.
LEMMA PendingShrinks ==
    ASSUME HistoryInv, NEW t \in Task, runs'[t] = runs[t],
           FailPending(t)' \subseteq FailPending(t), OkPending(t)' \subseteq OkPending(t)
    PROVE  /\ PendingFinite(t)'
           /\ FailTotal(t)' \in Nat /\ OkTotal(t)' \in Nat
           /\ FailTotal(t)' <= FailTotal(t) /\ OkTotal(t)' <= OkTotal(t)
<1>1. IsFiniteSet(FailPending(t)) /\ IsFiniteSet(OkPending(t))
  BY DEF HistoryInv, Accounts, PendingFinite
<1>2. /\ IsFiniteSet(FailPending(t)') /\ Cardinality(FailPending(t)') <= Cardinality(FailPending(t))
      /\ IsFiniteSet(OkPending(t)') /\ Cardinality(OkPending(t)') <= Cardinality(OkPending(t))
  BY <1>1, FS_Subset
<1>3. /\ Cardinality(FailPending(t)) \in Nat /\ Cardinality(FailPending(t)') \in Nat
      /\ Cardinality(OkPending(t)) \in Nat /\ Cardinality(OkPending(t)') \in Nat
  BY <1>1, <1>2, FS_CardinalityType
<1>4. runs[t].ok \in Nat /\ runs[t].fail \in Nat
  BY RunFacts DEF HistoryInv, SafetyInv
<1>5. QED
  BY <1>2, <1>3, <1>4 DEF PendingFinite, FailTotal, OkTotal

\* Workers that are not between the two saves owe nothing.
LEMMA PendingKept ==
    ASSUME NEW t \in Task,
           \A w \in Worker : \/ pc'[w] = pc[w] /\ result'[w] = result[w]
                             \/ pc[w] # "saveRuns" /\ pc'[w] # "saveRuns"
    PROVE  FailPending(t)' = FailPending(t) /\ OkPending(t)' = OkPending(t)
BY DEF FailPending, OkPending

\* The totals stand when nothing is saved and nothing is dropped.
LEMMA TotalsKept ==
    ASSUME NEW t \in Task, runs'[t] = runs[t],
           \A w \in Worker : \/ pc'[w] = pc[w] /\ result'[w] = result[w]
                             \/ pc[w] # "saveRuns" /\ pc'[w] # "saveRuns"
    PROVE  /\ FailTotal(t)' = FailTotal(t) /\ OkTotal(t)' = OkTotal(t)
           /\ PendingFinite(t) => PendingFinite(t)'
<1>1. FailPending(t)' = FailPending(t) /\ OkPending(t)' = OkPending(t)
  BY PendingKept
<1>2. QED
  BY <1>1 DEF FailTotal, OkTotal, PendingFinite

-----------------------------------------------------------------------------
(* Steps that save nothing.                                                  *)

\* Each worker either goes on as it was or lets its batch go.
DropsBatches ==
    /\ UNCHANGED dbVars
    /\ \A v \in Worker :
          \/ /\ pc'[v] = pc[v] /\ claimed'[v] = claimed[v] /\ copy'[v] = copy[v]
             /\ result'[v] = result[v]
          \/ /\ pc'[v] \in {"idle", "dead", "down"} /\ result'[v] = NoResults
             /\ claimed'[v] \subseteq claimed[v]

LEMMA DropStep ==
    ASSUME HistoryInv, DropsBatches
    PROVE  BatchInv' /\ \A t \in Task : Accounts(t)'
<1>1. status' = status /\ row' = row /\ runs' = runs
  BY DEF DropsBatches, dbVars
<1>2. \A w \in Worker : claimed[w] \in SUBSET Task
  BY DEF HistoryInv, SafetyInv, TypeInv, TypeOK
<1>3. BatchKnown'
  BY <1>1, <1>2 DEF DropsBatches, HistoryInv, BatchInv, BatchKnown, NoResults
<1>4. OutcomeInv'
  <2>1. \A v \in Worker : \/ Held(v)' = {}
                          \/ Held(v)' = Held(v) /\ copy'[v] = copy[v] /\ result'[v] = result[v]
    BY DEF DropsBatches, Held
  <2>2. QED
    BY <2>1 DEF HistoryInv, BatchInv, OutcomeInv
<1>5. ASSUME NEW t \in Task PROVE Accounts(t)'
  <2>1. FailPending(t)' \subseteq FailPending(t) /\ OkPending(t)' \subseteq OkPending(t)
    BY DEF DropsBatches, FailPending, OkPending
  <2>2. /\ PendingFinite(t)' /\ FailTotal(t)' \in Nat /\ OkTotal(t)' \in Nat
        /\ FailTotal(t)' <= FailTotal(t) /\ OkTotal(t)' <= OkTotal(t)
    BY <1>1, <2>1, PendingShrinks
  <2>3. FailTotal(t) \in Nat /\ OkTotal(t) \in Nat /\ row[t].fails \in Nat
    BY TotalsType, RowFacts DEF HistoryInv, SafetyInv, Accounts
  <2>4. Accounts(t)
    BY DEF HistoryInv
  <2>5. Done(t)' = Done(t) /\ Done(t) \in Nat
    BY <1>1 DEF Done
  <2>6. QED
    BY <1>1, <2>2, <2>3, <2>4, <2>5 DEF Accounts
<1>6. QED
  BY <1>3, <1>4, <1>5 DEF BatchInv

\* What a worker does with its batch between the pop and the save is not yet
\* in the tables.
LEMMA BatchAccounts ==
    ASSUME HistoryInv, UNCHANGED dbVars,
           \A w \in Worker : \/ pc'[w] = pc[w] /\ result'[w] = result[w]
                             \/ pc[w] # "saveRuns" /\ pc'[w] # "saveRuns"
    PROVE  \A t \in Task : /\ Accounts(t)' /\ FailTotal(t)' = FailTotal(t)
                           /\ OkTotal(t)' = OkTotal(t)
<1> SUFFICES ASSUME NEW t \in Task
             PROVE  /\ Accounts(t)' /\ FailTotal(t)' = FailTotal(t)
                    /\ OkTotal(t)' = OkTotal(t)
  OBVIOUS
<1>1. status' = status /\ row' = row /\ runs' = runs
  BY DEF dbVars
<1>2. /\ FailTotal(t)' = FailTotal(t) /\ OkTotal(t)' = OkTotal(t)
      /\ PendingFinite(t) => PendingFinite(t)'
  BY <1>1, TotalsKept
<1>3. QED
  BY <1>1, <1>2 DEF HistoryInv, Accounts, Done

LEMMA StartTaskHistory ==
    ASSUME HistoryInv, NEW w \in Worker, StartTask(w)
    PROVE  /\ BatchInv'
           /\ \A t \in Task : /\ Accounts(t)' /\ FailTotal(t)' = FailTotal(t)
                              /\ OkTotal(t)' = OkTotal(t)
<1>1. /\ UNCHANGED dbVars /\ copy' = copy /\ result' = result /\ claimed' = claimed
      /\ pc[w] = "run" /\ pc' = [pc EXCEPT ![w] = "exec"]
  BY DEF StartTask
<1>2. \A v \in Worker : Held(v)' = Held(v)
  BY <1>1 DEF Held, HistoryInv, SafetyInv, TypeInv, TypeOK
<1>3. BatchInv'
  BY <1>1, <1>2 DEF HistoryInv, BatchInv, BatchKnown, OutcomeInv, dbVars
<1>4. \A v \in Worker : \/ pc'[v] = pc[v] /\ result'[v] = result[v]
                        \/ pc[v] # "saveRuns" /\ pc'[v] # "saveRuns"
  BY <1>1 DEF HistoryInv, SafetyInv, TypeInv, TypeOK
<1>5. QED
  BY <1>1, <1>3, <1>4, BatchAccounts

LEMMA AwaitHistory ==
    ASSUME HistoryInv, NEW w \in Worker, Await(w)
    PROVE  /\ BatchInv'
           /\ \A t \in Task : /\ Accounts(t)' /\ FailTotal(t)' = FailTotal(t)
                              /\ OkTotal(t)' = OkTotal(t)
<1>1. PICK t \in Task : t = current[w]
  BY DEF Await, Succeed, Fail, BackOff, TimeOut, HistoryInv, SafetyInv, TypeInv,
         TypeOK, AwaitOK
<1>2. PICK r \in Row, res \in Result \ {"NONE"} :
        Finish(w, r, res) /\ (r.completed <=> res = "SUCCESS")
  BY AwaitOutcome DEF HistoryInv
<1>3. pc[w] = "exec" /\ t \in claimed[w]
  BY <1>1 DEF Await, Succeed, Fail, BackOff, TimeOut, HistoryInv, SafetyInv, TypeInv, AwaitOK
<1>4. /\ UNCHANGED dbVars /\ claimed' = claimed
      /\ copy' = [copy EXCEPT ![w][t] = r]
      /\ result' = [result EXCEPT ![w][t] = res]
      /\ pc' = [pc EXCEPT ![w] = IF Todo(w) = {t} THEN "save" ELSE "run"]
  BY <1>1, <1>2 DEF Finish
<1>5. \A v \in Worker, u \in Task :
         /\ copy'[v][u] = IF v = w /\ u = t THEN r ELSE copy[v][u]
         /\ result'[v][u] = IF v = w /\ u = t THEN res ELSE result[v][u]
  BY <1>4 DEF HistoryInv, SafetyInv, TypeInv, TypeOK
<1>6. \A v \in Worker : \/ pc'[v] = pc[v] /\ result'[v] = result[v]
                        \/ pc[v] # "saveRuns" /\ pc'[v] # "saveRuns"
  BY <1>3, <1>4 DEF HistoryInv, SafetyInv, TypeInv, TypeOK
<1>7. \A v \in Worker : Held(v)' = Held(v) /\ Held(v) \subseteq Task
  BY <1>3, <1>4 DEF Held, HistoryInv, SafetyInv, TypeInv, TypeOK
<1>8. BatchKnown'
  BY <1>3, <1>4, <1>5 DEF HistoryInv, BatchInv, BatchKnown, dbVars
<1>9. OutcomeInv'
  BY <1>2, <1>5, <1>7 DEF HistoryInv, BatchInv, OutcomeInv
<1>10. QED
  BY <1>4, <1>6, <1>8, <1>9, BatchAccounts DEF BatchInv

-----------------------------------------------------------------------------
(* Steps that write the task table.                                          *)

\* A new row starts with empty accounts.
LEMMA SaveTaskHistory ==
    ASSUME HistoryInv, NEW p \in Producer, SaveTask(p)
    PROVE  /\ BatchInv'
           /\ \A t \in Task : /\ Accounts(t)' /\ FailTotal(t)' = FailTotal(t)
                              /\ OkTotal(t)' = OkTotal(t)
           /\ \E t \in Task :
                 /\ status[t] = "absent" /\ status' = [status EXCEPT ![t] = "present"]
                 /\ row'[t].fails = 0 /\ ~row'[t].completed /\ ~row'[t].locked
                 /\ \A u \in Task \ {t} : row'[u] = row[u]
<1>1. PICK t \in Task :
        /\ status[t] = "absent"
        /\ status' = [status EXCEPT ![t] = "present"]
        /\ row' = [row EXCEPT ![t] =
                     [Blank EXCEPT !.ident = request[p].ident,
                                   !.sched = request[p].sched,
                                   !.created = now]]
  BY DEF SaveTask
<1>2. /\ row'[t].fails = 0 /\ ~row'[t].completed /\ ~row'[t].locked
      /\ status'[t] = "present"
      /\ \A u \in Task \ {t} : row'[u] = row[u] /\ status'[u] = status[u]
  BY <1>1 DEF HistoryInv, SafetyInv, TypeInv, TypeOK, Blank
<1>3. runs' = runs /\ copy' = copy /\ result' = result /\ pc' = pc /\ claimed' = claimed
  BY DEF SaveTask, workerVars
<1>4. \A w \in Worker : Held(w)' = Held(w)
  BY <1>3 DEF Held
<1>5. BatchKnown'
  BY <1>2, <1>3 DEF HistoryInv, BatchInv, BatchKnown
<1>6. OutcomeInv'
  BY <1>3, <1>4 DEF HistoryInv, BatchInv, OutcomeInv
<1>7. \A u \in Task : /\ FailTotal(u)' = FailTotal(u) /\ OkTotal(u)' = OkTotal(u)
                      /\ PendingFinite(u) => PendingFinite(u)'
  BY <1>3, TotalsKept
<1>8. ASSUME NEW u \in Task PROVE Accounts(u)'
  <2>1. CASE u = t
    <3>1. FailTotal(t) = 0 /\ OkTotal(t) = 0
      BY <1>1, AbsentOwesNothing
    <3>2. QED
      BY <1>2, <1>3, <1>7, <2>1, <3>1 DEF HistoryInv, Accounts, Done
  <2>2. CASE u # t
    BY <1>2, <1>3, <1>7, <2>2 DEF HistoryInv, Accounts, Done
  <2>3. QED
    BY <2>1, <2>2
<1>9. QED
  BY <1>1, <1>2, <1>5, <1>6, <1>7, <1>8 DEF BatchInv

\* Locking rows is no event of the history, whoever gets the batch.
LEMMA LockAccounts ==
    ASSUME HistoryInv, NEW S \in SUBSET Task, Lock(S), UNCHANGED <<status, runs>>,
           \A w \in Worker : \/ pc'[w] = pc[w] /\ result'[w] = result[w]
                             \/ pc[w] # "saveRuns" /\ pc'[w] # "saveRuns"
    PROVE  \A t \in Task : /\ Accounts(t)' /\ FailTotal(t)' = FailTotal(t)
                           /\ OkTotal(t)' = OkTotal(t)
                           /\ row'[t].fails = row[t].fails /\ Done(t)' = Done(t)
<1> SUFFICES ASSUME NEW t \in Task
             PROVE  /\ Accounts(t)' /\ FailTotal(t)' = FailTotal(t)
                    /\ OkTotal(t)' = OkTotal(t)
                    /\ row'[t].fails = row[t].fails /\ Done(t)' = Done(t)
  OBVIOUS
<1>1. row'[t].fails = row[t].fails /\ row'[t].completed = row[t].completed
  BY LockEffect DEF HistoryInv, SafetyInv
<1>2. /\ FailTotal(t)' = FailTotal(t) /\ OkTotal(t)' = OkTotal(t)
      /\ PendingFinite(t) => PendingFinite(t)'
  BY TotalsKept
<1>3. QED
  BY <1>1, <1>2 DEF HistoryInv, Accounts, Done

LEMMA PopHistory ==
    ASSUME HistoryInv, NEW w \in Worker, Pop(w)
    PROVE  /\ BatchInv'
           /\ \A t \in Task : /\ Accounts(t)' /\ FailTotal(t)' = FailTotal(t)
                              /\ OkTotal(t)' = OkTotal(t)
                              /\ row'[t].fails = row[t].fails /\ Done(t)' = Done(t)
<1>1. PICK S \in SUBSET Eligible :
        /\ Lock(S)
        /\ claimed' = [claimed EXCEPT ![w] = S]
  BY DEF Pop
<1>2. /\ status' = status /\ runs' = runs /\ result' = result
      /\ pc[w] = "idle" /\ pc' = [pc EXCEPT ![w] = "run"]
      /\ \A v \in Worker \ {w} : copy'[v] = copy[v]
  BY DEF Pop, HistoryInv, SafetyInv, TypeInv, TypeOK
<1>3. \A t \in S : t \in Task /\ status[t] = "present"
  BY DEF Eligible
<1>4. result[w] = NoResults
  BY <1>2 DEF HistoryInv, SafetyInv, QueueInv, RestInv
<1>5. \A t \in Task : result[w][t] = "NONE"
  BY <1>4 DEF NoResults
<1>6. claimed'[w] = S /\ \A v \in Worker \ {w} : claimed'[v] = claimed[v]
  BY <1>1 DEF HistoryInv, SafetyInv, TypeInv, TypeOK
<1>7. BatchKnown'
  BY <1>2, <1>3, <1>5, <1>6 DEF HistoryInv, BatchInv, BatchKnown
<1>8. \A v \in Worker \ {w} : Held(v)' = Held(v)
  BY <1>2, <1>6 DEF Held, HistoryInv, SafetyInv, TypeInv, TypeOK
<1>9. Held(w)' \subseteq Task
  BY <1>3, <1>6 DEF Held
<1>10. OutcomeInv'
  BY <1>2, <1>5, <1>8, <1>9 DEF HistoryInv, BatchInv, OutcomeInv
<1>11. \A v \in Worker : \/ pc'[v] = pc[v] /\ result'[v] = result[v]
                         \/ pc[v] # "saveRuns" /\ pc'[v] # "saveRuns"
  BY <1>2 DEF HistoryInv, SafetyInv, TypeInv, TypeOK
<1>12. S \in SUBSET Task
  BY <1>3
<1>13. QED
  BY <1>1, <1>2, <1>7, <1>10, <1>11, <1>12, LockAccounts DEF BatchInv

LEMMA PopReplyLostHistory ==
    ASSUME HistoryInv, NEW w \in Worker, PopReplyLost(w)
    PROVE  BatchInv' /\ \A t \in Task : Accounts(t)'
<1>1. PICK S \in SUBSET Task : Lock(S)
  BY DEF PopReplyLost, Eligible
<1>2. /\ status' = status /\ runs' = runs /\ result' = result /\ pc' = pc
      /\ claimed' = claimed /\ copy' = copy
  BY DEF PopReplyLost, workerVars
<1>3. \A v \in Worker : Held(v)' = Held(v)
  BY <1>2 DEF Held
<1>4. BatchInv'
  BY <1>2, <1>3 DEF HistoryInv, BatchInv, BatchKnown, OutcomeInv
<1>5. QED
  BY <1>1, <1>2, <1>4, LockAccounts

\* A deleted row takes its history with it.
LEMMA CleanUpHistory ==
    ASSUME HistoryInv, CleanUp
    PROVE  BatchInv' /\ \A t \in Task : Accounts(t)'
<1>1. PICK S \in SUBSET Task :
        /\ status' = [t \in Task |-> IF t \in S THEN "deleted" ELSE status[t]]
        /\ row' = [t \in Task |-> IF t \in S THEN Blank ELSE row[t]]
        /\ runs' = [t \in Task |-> IF t \in S THEN NoRuns ELSE runs[t]]
  BY DEF CleanUp, Purgeable
<1>2. result' = result /\ pc' = pc /\ claimed' = claimed /\ copy' = copy
  BY DEF CleanUp, workerVars
<1>3. \A v \in Worker : Held(v)' = Held(v)
  BY <1>2 DEF Held
<1>4. BatchInv'
  BY <1>1, <1>2, <1>3 DEF HistoryInv, BatchInv, BatchKnown, OutcomeInv
<1>5. ASSUME NEW t \in Task PROVE Accounts(t)'
  <2>1. CASE t \in S
    <3>1. FailPending(t)' = FailPending(t) /\ OkPending(t)' = OkPending(t)
      BY <1>2, PendingKept
    <3>2. QED
      BY <1>1, <2>1, <3>1 DEF HistoryInv, Accounts, PendingFinite
  <2>2. CASE t \notin S
    <3>1. status'[t] = status[t] /\ row'[t] = row[t] /\ runs'[t] = runs[t]
      BY <1>1, <2>2
    <3>2. /\ FailTotal(t)' = FailTotal(t) /\ OkTotal(t)' = OkTotal(t)
          /\ PendingFinite(t) => PendingFinite(t)'
      BY <1>2, <3>1, TotalsKept
    <3>3. QED
      BY <3>1, <3>2 DEF HistoryInv, Accounts, Done
  <2>3. QED
    BY <2>1, <2>2
<1>6. QED
  BY <1>4, <1>5

-----------------------------------------------------------------------------
(* The two saves.                                                            *)

\* bulk_update moves the row, and the debt of the worker moves with it.
LEMMA SaveTasksTotals ==
    ASSUME HistoryInv, NEW w \in Worker, SaveTasks(w), NEW t \in Task
    PROVE  /\ PendingFinite(t)'
           /\ \E d, e \in {0, 1} :
                 /\ FailTotal(t)' = FailTotal(t) + d
                 /\ row'[t].fails = row[t].fails + d
                 /\ OkTotal(t)' = OkTotal(t) + e
                 /\ Done(t)' = Done(t) + e
<1>1. /\ runs' = runs /\ result' = result /\ pc[w] = "save"
      /\ pc' = [pc EXCEPT ![w] = "saveRuns"]
  BY DEF SaveTasks
<1>2. pc'[w] = "saveRuns" /\ \A v \in Worker \ {w} : pc'[v] = pc[v]
  BY <1>1 DEF HistoryInv, SafetyInv, TypeInv, TypeOK
<1>3. /\ runs[t].ok \in Nat /\ runs[t].fail \in Nat /\ row[t].fails \in Nat
      /\ row[t].completed \in BOOLEAN
  BY RunFacts, RowFacts DEF HistoryInv, SafetyInv
<1>4. /\ IsFiniteSet(FailPending(t)) /\ IsFiniteSet(OkPending(t))
      /\ Cardinality(FailPending(t)) \in Nat /\ Cardinality(OkPending(t)) \in Nat
  BY TotalsType DEF HistoryInv, SafetyInv, Accounts, PendingFinite
<1>5. w \notin FailPending(t) /\ w \notin OkPending(t)
  BY <1>1 DEF FailPending, OkPending
<1>6. Held(w) = claimed[w]
  BY <1>1 DEF Held
<1>7. CASE t \notin Held(w)
  <2>1. result[w][t] = "NONE"
    BY <1>6, <1>7 DEF HistoryInv, BatchInv, BatchKnown
  <2>2. FailPending(t)' = FailPending(t) /\ OkPending(t)' = OkPending(t)
    BY <1>1, <1>2, <2>1 DEF FailPending, OkPending
  <2>3. row'[t] = row[t]
    BY <1>7, SaveEffect DEF HistoryInv
  <2>4. /\ PendingFinite(t)'
        /\ FailTotal(t)' = FailTotal(t) + 0 /\ OkTotal(t)' = OkTotal(t) + 0
        /\ row'[t].fails = row[t].fails + 0 /\ Done(t)' = Done(t) + 0
    BY <1>1, <1>3, <1>4, <2>2, <2>3 DEF PendingFinite, FailTotal, OkTotal, Done
  <2>5. QED
    BY <2>4
<1>8. CASE t \in Held(w)
  <2>1. /\ ~row[t].completed
        /\ row'[t].completed = copy[w][t].completed
        /\ row'[t].fails = IF copy[w][t].completed THEN row[t].fails
                                                   ELSE row[t].fails + 1
    BY <1>8, SaveEffect DEF HistoryInv, SafetyInv, QueueInv, ClaimInv, RowHeld
  <2>2. result[w][t] # "NONE"
    BY <1>1, <1>8 DEF HistoryInv, SafetyInv, QueueInv, ClaimInv, InstanceOK
  <2>3. result[w][t] \in Result
    BY DEF HistoryInv, SafetyInv, TypeInv, TypeOK
  <2>4. copy[w][t].completed <=> result[w][t] = "SUCCESS"
    BY <1>8, <2>2 DEF HistoryInv, BatchInv, OutcomeInv
  <2>5. CASE result[w][t] = "SUCCESS"
    <3>1. OkPending(t)' = OkPending(t) \cup {w} /\ FailPending(t)' = FailPending(t)
      BY <1>1, <1>2, <2>5 DEF FailPending, OkPending
    <3>2. /\ IsFiniteSet(OkPending(t)')
          /\ Cardinality(OkPending(t)') = Cardinality(OkPending(t)) + 1
      BY <1>4, <1>5, <3>1, FS_AddElement
    <3>3. Done(t) = 0 /\ Done(t)' = 1 /\ row'[t].fails = row[t].fails
      BY <2>1, <2>4, <2>5 DEF Done
    <3>4. /\ PendingFinite(t)'
          /\ FailTotal(t)' = FailTotal(t) + 0 /\ OkTotal(t)' = OkTotal(t) + 1
          /\ row'[t].fails = row[t].fails + 0 /\ Done(t)' = Done(t) + 1
      BY <1>1, <1>3, <1>4, <3>1, <3>2, <3>3 DEF PendingFinite, FailTotal, OkTotal
    <3>5. QED
      BY <3>4
  <2>6. CASE result[w][t] = "FAILURE"
    <3>1. FailPending(t)' = FailPending(t) \cup {w} /\ OkPending(t)' = OkPending(t)
      BY <1>1, <1>2, <2>6 DEF FailPending, OkPending
    <3>2. /\ IsFiniteSet(FailPending(t)')
          /\ Cardinality(FailPending(t)') = Cardinality(FailPending(t)) + 1
      BY <1>4, <1>5, <3>1, FS_AddElement
    <3>3. Done(t) = 0 /\ Done(t)' = 0 /\ row'[t].fails = row[t].fails + 1
      BY <2>1, <2>4, <2>6 DEF Done
    <3>4. /\ PendingFinite(t)'
          /\ FailTotal(t)' = FailTotal(t) + 1 /\ OkTotal(t)' = OkTotal(t) + 0
          /\ row'[t].fails = row[t].fails + 1 /\ Done(t)' = Done(t) + 0
      BY <1>1, <1>3, <1>4, <3>1, <3>2, <3>3 DEF PendingFinite, FailTotal, OkTotal
    <3>5. QED
      BY <3>4
  <2>7. QED
    BY <2>2, <2>3, <2>5, <2>6 DEF Result
<1>9. QED
  BY <1>7, <1>8

LEMMA SaveTasksHistory ==
    ASSUME HistoryInv, NEW w \in Worker, SaveTasks(w)
    PROVE  BatchInv' /\ \A t \in Task : Accounts(t)'
<1>1. /\ status' = status /\ runs' = runs /\ result' = result /\ claimed' = claimed
      /\ pc[w] = "save" /\ pc' = [pc EXCEPT ![w] = "saveRuns"]
      /\ \A v \in Worker \ {w} : copy'[v] = copy[v]
  BY DEF SaveTasks, HistoryInv, SafetyInv, TypeInv, TypeOK
<1>2. Held(w)' = {} /\ \A v \in Worker \ {w} : Held(v)' = Held(v)
  BY <1>1 DEF Held, HistoryInv, SafetyInv, TypeInv, TypeOK
<1>3. BatchInv'
  BY <1>1, <1>2 DEF HistoryInv, BatchInv, BatchKnown, OutcomeInv
<1>4. ASSUME NEW t \in Task PROVE Accounts(t)'
  <2>1. PICK d, e \in {0, 1} :
          /\ FailTotal(t)' = FailTotal(t) + d /\ row'[t].fails = row[t].fails + d
          /\ OkTotal(t)' = OkTotal(t) + e /\ Done(t)' = Done(t) + e
    BY SaveTasksTotals
  <2>2. PendingFinite(t)'
    BY SaveTasksTotals
  <2>3. FailTotal(t) \in Nat /\ OkTotal(t) \in Nat /\ row[t].fails \in Nat /\ Done(t) \in Nat
    BY TotalsType, RowFacts DEF HistoryInv, SafetyInv, Accounts, Done
  <2>4. QED
    BY <1>1, <2>1, <2>2, <2>3 DEF HistoryInv, Accounts
<1>5. QED
  BY <1>3, <1>4

\* bulk_create turns the debts of the worker into rows, when it succeeds.
LEMMA SaveRunsTotals ==
    ASSUME HistoryInv, NEW w \in Worker, SaveRuns(w), NEW t \in Task,
           \A u \in claimed[w] : status[u] = "present"
    PROVE  PendingFinite(t)' /\ FailTotal(t)' = FailTotal(t) /\ OkTotal(t)' = OkTotal(t)
<1>1. /\ pc[w] = "saveRuns" /\ Reset(w, "idle")
      /\ runs' = [u \in Task |->
                    CASE result[w][u] = "SUCCESS" -> [runs[u] EXCEPT !.ok = @ + 1]
                      [] result[w][u] = "FAILURE" -> [runs[u] EXCEPT !.fail = @ + 1]
                      [] OTHER -> runs[u]]
  BY DEF SaveRuns
<1>2. pc'[w] = "idle" /\ \A v \in Worker \ {w} : pc'[v] = pc[v] /\ result'[v] = result[v]
  BY <1>1 DEF Reset, HistoryInv, SafetyInv, TypeInv, TypeOK
<1>3. runs[t] \in Runs /\ runs[t].ok \in Nat /\ runs[t].fail \in Nat
  BY RunFacts DEF HistoryInv, SafetyInv
<1>4. /\ IsFiniteSet(FailPending(t)) /\ IsFiniteSet(OkPending(t))
      /\ Cardinality(FailPending(t)) \in Nat /\ Cardinality(OkPending(t)) \in Nat
  BY TotalsType DEF HistoryInv, SafetyInv, Accounts, PendingFinite
<1>5. FailPending(t)' = FailPending(t) \ {w} /\ OkPending(t)' = OkPending(t) \ {w}
  BY <1>2 DEF FailPending, OkPending
<1>6. /\ IsFiniteSet(FailPending(t)') /\ IsFiniteSet(OkPending(t)')
      /\ Cardinality(FailPending(t)') = IF w \in FailPending(t)
                                        THEN Cardinality(FailPending(t)) - 1
                                        ELSE Cardinality(FailPending(t))
      /\ Cardinality(OkPending(t)') = IF w \in OkPending(t)
                                      THEN Cardinality(OkPending(t)) - 1
                                      ELSE Cardinality(OkPending(t))
  BY <1>4, <1>5, FS_RemoveElement
<1>7. /\ runs'[t].fail = IF w \in FailPending(t) THEN runs[t].fail + 1 ELSE runs[t].fail
      /\ runs'[t].ok = IF w \in OkPending(t) THEN runs[t].ok + 1 ELSE runs[t].ok
  <2>1. CASE result[w][t] = "SUCCESS"
    BY <1>1, <1>3, <2>1 DEF FailPending, OkPending, Runs
  <2>2. CASE result[w][t] = "FAILURE"
    BY <1>1, <1>3, <2>2 DEF FailPending, OkPending, Runs
  <2>3. CASE result[w][t] \notin {"SUCCESS", "FAILURE"}
    BY <1>1, <2>3 DEF FailPending, OkPending
  <2>4. QED
    BY <2>1, <2>2, <2>3
<1>8. QED
  BY <1>3, <1>4, <1>6, <1>7 DEF PendingFinite, FailTotal, OkTotal

LEMMA SaveRunsHistory ==
    ASSUME HistoryInv, NEW w \in Worker, SaveRuns(w)
    PROVE  BatchInv' /\ \A t \in Task : Accounts(t)'
<1>1. CASE \E u \in claimed[w] : status[u] # "present"
  <2>1. DropsBatches
    BY <1>1 DEF SaveRuns, Reset, DropsBatches, dbVars, HistoryInv, SafetyInv, TypeInv, TypeOK
  <2>2. QED
    BY <2>1, DropStep
<1>2. CASE \A u \in claimed[w] : status[u] = "present"
  <2>1. /\ status' = status /\ row' = row /\ Reset(w, "idle")
        /\ runs' = [u \in Task |->
                      CASE result[w][u] = "SUCCESS" -> [runs[u] EXCEPT !.ok = @ + 1]
                        [] result[w][u] = "FAILURE" -> [runs[u] EXCEPT !.fail = @ + 1]
                        [] OTHER -> runs[u]]
    BY <1>2 DEF SaveRuns
  <2>2. /\ result'[w] = NoResults /\ claimed'[w] = {} /\ pc'[w] = "idle"
        /\ \A v \in Worker \ {w} : /\ pc'[v] = pc[v] /\ result'[v] = result[v]
                                   /\ claimed'[v] = claimed[v] /\ copy'[v] = copy[v]
    BY <2>1 DEF Reset, HistoryInv, SafetyInv, TypeInv, TypeOK
  <2>3. Held(w)' = {} /\ \A v \in Worker \ {w} : Held(v)' = Held(v)
    BY <2>2 DEF Held
  <2>4. BatchKnown'
    BY <2>1, <2>2 DEF HistoryInv, BatchInv, BatchKnown, NoResults
  <2>5. OutcomeInv'
    BY <2>2, <2>3 DEF HistoryInv, BatchInv, OutcomeInv
  <2>6. ASSUME NEW t \in Task PROVE Accounts(t)'
    <3>1. PendingFinite(t)' /\ FailTotal(t)' = FailTotal(t) /\ OkTotal(t)' = OkTotal(t)
      BY <1>2, SaveRunsTotals
    <3>2. status[t] = "absent" => result[w][t] = "NONE"
      BY DEF HistoryInv, BatchInv, BatchKnown
    <3>3. status[t] = "absent" => runs'[t] = runs[t]
      BY <2>1, <3>2
    <3>4. QED
      BY <2>1, <3>1, <3>3 DEF HistoryInv, Accounts, Done
  <2>7. QED
    BY <2>4, <2>5, <2>6 DEF BatchInv
<1>3. QED
  BY <1>1, <1>2

-----------------------------------------------------------------------------
(* The history never says more than the rows.                                *)

LEMMA InitHistory == Init => HistoryInv
<1> SUFFICES ASSUME Init PROVE HistoryInv
  OBVIOUS
<1>1. SafetyInv
  BY InitSafe
<1>2. BatchInv
  BY DEF Init, BatchInv, BatchKnown, OutcomeInv, Held, NoResults
<1>3. ASSUME NEW t \in Task PROVE Accounts(t)
  <2>1. FailPending(t) = {} /\ OkPending(t) = {}
    BY DEF Init, FailPending, OkPending
  <2>2. QED
    BY <2>1, FS_EmptySet DEF Init, Accounts, PendingFinite
<1>4. QED
  BY <1>1, <1>2, <1>3 DEF HistoryInv

LEMMA NextHistory == HistoryInv /\ [Next]_vars => HistoryInv'
<1> SUFFICES ASSUME HistoryInv, [Next]_vars
             PROVE  BatchInv' /\ \A t \in Task : Accounts(t)'
  BY NextSafe DEF HistoryInv
<1> DEFINE Goal == BatchInv' /\ \A t \in Task : Accounts(t)'
<1>1. ASSUME NEW p \in Producer, NEW i \in Ident, CreateTask(p, i) PROVE Goal
  BY <1>1, DropStep DEF CreateTask, DropsBatches, workerVars
<1>2. ASSUME NEW p \in Producer, SaveTask(p) PROVE Goal
  BY <1>2, SaveTaskHistory
<1>3. ASSUME NEW p \in Producer, DropRequest(p) PROVE Goal
  BY <1>3, DropStep DEF DropRequest, DropsBatches, workerVars
<1>4. ASSUME NEW w \in Worker, Loop(w) PROVE Goal
  BY <1>4, PopHistory, StartTaskHistory, SaveTasksHistory, SaveRunsHistory DEF Loop
<1>5. ASSUME NEW w \in Worker, Await(w) PROVE Goal
  BY <1>5, AwaitHistory
<1>6. ASSUME NEW p \in Process, NEW t \in Task, ZombieEnds(p, t) PROVE Goal
  BY <1>6, DropStep DEF ZombieEnds, DropsBatches, workerVars
<1>7. CASE CleanUp
  BY <1>7, CleanUpHistory
<1>8. CASE Tick
  BY <1>8, DropStep DEF Tick, DropsBatches, workerVars
<1>9. ASSUME NEW w \in Worker, AbortUnregistered(w) \/ SaveError(w) \/ ThreadDies(w)
      PROVE  Goal
  <2>1. DropsBatches
    BY <1>9 DEF AbortUnregistered, SaveError, ThreadDies, Reset, DropsBatches,
                HistoryInv, SafetyInv, TypeInv, TypeOK
  <2>2. QED
    BY <2>1, DropStep
<1>10. ASSUME NEW w \in Worker, PopReplyLost(w) PROVE Goal
  BY <1>10, PopReplyLostHistory
<1>11. ASSUME NEW p \in Process, Crash(p) PROVE Goal
  <2>1. DropsBatches
    BY <1>11 DEF Crash, DropsBatches
  <2>2. QED
    BY <2>1, DropStep
<1>12. ASSUME NEW p \in Process, Restart(p) PROVE Goal
  <2>1. DropsBatches
    BY <1>12 DEF Restart, DropsBatches, HistoryInv, SafetyInv, QueueInv, RestInv
  <2>2. QED
    BY <2>1, DropStep
<1>13. CASE UNCHANGED vars
  BY <1>13, DropStep DEF vars, workerVars, DropsBatches
<1>14. QED
  BY <1>1, <1>2, <1>3, <1>4, <1>5, <1>6, <1>7, <1>8, <1>9, <1>10, <1>11, <1>12, <1>13
     DEF Next, ReliableNext, Fault, Produce

LEMMA AlwaysHistory == Spec => []HistoryInv
BY InitHistory, NextHistory, PTL DEF Spec

\* Whatever crashes, is cleaned up or fails between bulk_update and bulk_create,
\* a row never has more failed TaskRuns than num_failures, nor a successful one
\* before it is completed (run_tasks writes the rows first).
THEOREM HistoryIsSound == Spec => []HistorySound
<1>1. HistoryInv => HistorySound
  <2> SUFFICES ASSUME HistoryInv, NEW t \in Task, status[t] = "present"
               PROVE  /\ runs[t].fail <= row[t].fails
                      /\ runs[t].ok <= IF row[t].completed THEN 1 ELSE 0
    BY DEF HistorySound
  <2>1. FailTotal(t) <= row[t].fails /\ OkTotal(t) <= Done(t)
    BY DEF HistoryInv, Accounts
  <2>2. /\ Cardinality(FailPending(t)) \in Nat /\ Cardinality(OkPending(t)) \in Nat
        /\ runs[t].ok \in Nat /\ runs[t].fail \in Nat /\ row[t].fails \in Nat
    BY TotalsType, RunFacts, RowFacts DEF HistoryInv, SafetyInv, Accounts
  <2>3. QED
    BY <2>1, <2>2 DEF FailTotal, OkTotal, Done
<1>2. QED
  BY <1>1, AlwaysHistory, PTL

-----------------------------------------------------------------------------
(* Where nothing breaks and nothing is cleaned up, nothing is missing.       *)

\* The accounts balance, and nothing was deleted.
Balanced ==
    /\ now <= Horizon
    /\ \A t \in Task : /\ status[t] # "deleted"
                       /\ FailTotal(t) = row[t].fails /\ OkTotal(t) = Done(t)

LEMMA ReliableIsNext == [ReliableNext]_vars => [Next]_vars
BY DEF Next

LEMMA BalanceKept ==
    ASSUME Balanced, now' = now, status' = status,
           \A t \in Task : /\ FailTotal(t)' = FailTotal(t) /\ OkTotal(t)' = OkTotal(t)
                           /\ row'[t].fails = row[t].fails /\ Done(t)' = Done(t)
    PROVE  Balanced'
BY DEF Balanced

\* Steps that leave the tables to the others.
LEMMA BalanceQuiet ==
    ASSUME HistoryInv, Balanced, UNCHANGED <<dbVars, pc, result>>, now' <= Horizon
    PROVE  Balanced'
<1>1. \A t \in Task : FailTotal(t)' = FailTotal(t) /\ OkTotal(t)' = OkTotal(t)
  BY BatchAccounts
<1>2. row' = row /\ status' = status
  BY DEF dbVars
<1>3. QED
  BY <1>1, <1>2 DEF Balanced, Done

LEMMA NextBalanced ==
    ASSUME Retention >= Horizon, HistoryInv, Balanced, [ReliableNext]_vars
    PROVE  Balanced'
<1>0. now \in Nat /\ Horizon \in Nat /\ now <= Horizon
  BY ConstantsAssumption DEF HistoryInv, SafetyInv, TypeInv, TypeOK, Balanced
<1>1. ASSUME NEW p \in Producer, NEW i \in Ident, CreateTask(p, i) PROVE Balanced'
  BY <1>0, <1>1, BalanceQuiet DEF CreateTask, workerVars
<1>2. ASSUME NEW p \in Producer, SaveTask(p) PROVE Balanced'
  <2>1. PICK t \in Task :
          /\ status[t] = "absent" /\ status' = [status EXCEPT ![t] = "present"]
          /\ row'[t].fails = 0 /\ ~row'[t].completed /\ ~row'[t].locked
          /\ \A u \in Task \ {t} : row'[u] = row[u]
    BY <1>2, SaveTaskHistory
  <2>2. \A u \in Task : FailTotal(u)' = FailTotal(u) /\ OkTotal(u)' = OkTotal(u)
    BY <1>2, SaveTaskHistory
  <2>3. FailTotal(t) = 0 /\ OkTotal(t) = 0
    BY <2>1, AbsentOwesNothing
  <2>4. now' = now /\ \A u \in Task : status'[u] # "deleted"
    BY <1>2, <2>1 DEF SaveTask, Balanced, HistoryInv, SafetyInv, TypeInv, TypeOK
  <2>5. QED
    BY <2>1, <2>2, <2>3, <2>4 DEF Balanced, Done
<1>3. ASSUME NEW w \in Worker, Pop(w) PROVE Balanced'
  BY <1>3, PopHistory, BalanceKept DEF Pop
<1>4. ASSUME NEW w \in Worker, StartTask(w) PROVE Balanced'
  BY <1>4, StartTaskHistory, BalanceKept DEF StartTask, dbVars, Done
<1>5. ASSUME NEW w \in Worker, SaveTasks(w) PROVE Balanced'
  <2>1. now' = now /\ status' = status
    BY <1>5 DEF SaveTasks
  <2>2. ASSUME NEW t \in Task
        PROVE  FailTotal(t)' = row'[t].fails /\ OkTotal(t)' = Done(t)'
    <3>1. PICK d, e \in {0, 1} :
            /\ FailTotal(t)' = FailTotal(t) + d /\ row'[t].fails = row[t].fails + d
            /\ OkTotal(t)' = OkTotal(t) + e /\ Done(t)' = Done(t) + e
      BY <1>5, SaveTasksTotals
    <3>2. QED
      BY <3>1 DEF Balanced
  <2>3. QED
    BY <2>1, <2>2 DEF Balanced
<1>6. ASSUME NEW w \in Worker, SaveRuns(w) PROVE Balanced'
  <2>1. \A t \in Task : status[t] # "deleted" /\ status[t] \in Status
    BY RowFacts DEF Balanced, HistoryInv, SafetyInv
  <2>2. \A t \in claimed[w] : t \in Task /\ status[t] # "absent"
    BY DEF HistoryInv, BatchInv, BatchKnown, SafetyInv, TypeInv, TypeOK
  <2>3. \A t \in claimed[w] : status[t] = "present"
    BY <2>1, <2>2 DEF Status
  <2>4. \A t \in Task : FailTotal(t)' = FailTotal(t) /\ OkTotal(t)' = OkTotal(t)
    BY <1>6, <2>3, SaveRunsTotals
  <2>5. QED
    BY <1>6, <2>4, BalanceKept DEF SaveRuns, Done
<1>7. ASSUME NEW w \in Worker, Await(w) PROVE Balanced'
  <2>1. now' = now /\ status' = status /\ row' = row
    BY <1>7 DEF Await, Succeed, Fail, BackOff, TimeOut, Finish, dbVars
  <2>2. QED
    BY <1>7, <2>1, AwaitHistory, BalanceKept DEF Done
<1>8. ASSUME NEW p \in Process, NEW t \in Task, ZombieEnds(p, t) PROVE Balanced'
  BY <1>0, <1>8, BalanceQuiet DEF ZombieEnds, workerVars
<1>9. CASE CleanUp
  <2>1. PICK S \in (SUBSET Purgeable) \ {{}} : TRUE
    BY <1>9 DEF CleanUp
  <2>2. PICK t \in Task : row[t].sched + Retention < now
    BY <2>1 DEF Purgeable
  <2>3. row[t].sched \in Nat /\ Retention \in Nat
    BY ConstantsAssumption DEF HistoryInv, SafetyInv, TypeInv, TypeOK, Row
  <2>4. QED
    BY <1>0, <2>2, <2>3
<1>10. CASE Tick
  <2>1. now' <= Horizon
    BY <1>0, <1>10 DEF Tick
  <2>2. QED
    BY <1>10, <2>1, BalanceQuiet DEF Tick, workerVars
<1>11. CASE UNCHANGED vars
  BY <1>0, <1>11, BalanceQuiet DEF vars, workerVars
<1>12. QED
  BY <1>1, <1>2, <1>3, <1>4, <1>5, <1>6, <1>7, <1>8, <1>9, <1>10, <1>11
     DEF ReliableNext, Produce, Loop

LEMMA InitBalanced == Init => Balanced
<1> SUFFICES ASSUME Init PROVE Balanced
  OBVIOUS
<1>1. ASSUME NEW t \in Task PROVE FailTotal(t) = 0 /\ OkTotal(t) = 0
  BY <1>1, AbsentOwesNothing, InitHistory DEF Init
<1>2. \A t \in Task : row[t] = Blank /\ status[t] = "absent"
  BY DEF Init, NoCopies
<1>3. Blank.fails = 0 /\ ~Blank.completed
  BY DEF Blank
<1>4. now <= Horizon
  BY ConstantsAssumption DEF Init
<1>5. QED
  BY <1>1, <1>2, <1>3, <1>4 DEF Balanced, Done

\* In a deployment without faults and within the retention period, once its
\* batch is written back a task has one TaskRun for each failure and one for
\* its completion: the two bulk statements of run_tasks agree.
THEOREM HistoryIsComplete ==
    ASSUME Retention >= Horizon
    PROVE  ReliableSpec => []HistoryComplete
<1>1. HistoryInv /\ Balanced => HistoryComplete
  <2> SUFFICES ASSUME HistoryInv, Balanced, NEW t \in Task,
                      \A w \in Worker : pc[w] = "saveRuns" => t \notin claimed[w]
               PROVE  /\ runs[t].fail = row[t].fails
                      /\ runs[t].ok = IF row[t].completed THEN 1 ELSE 0
    BY DEF HistoryComplete
  <2>1. \A w \in Worker : pc[w] = "saveRuns" => result[w][t] = "NONE"
    BY DEF HistoryInv, BatchInv, BatchKnown
  <2>2. FailPending(t) = {} /\ OkPending(t) = {}
    BY <2>1 DEF FailPending, OkPending
  <2>3. runs[t].ok \in Nat /\ runs[t].fail \in Nat
    BY RunFacts DEF HistoryInv, SafetyInv
  <2>4. FailTotal(t) = runs[t].fail /\ OkTotal(t) = runs[t].ok
    BY <2>2, <2>3, FS_EmptySet DEF FailTotal, OkTotal
  <2>5. QED
    BY <2>4 DEF Balanced, Done
<1>2. HistoryInv /\ Balanced /\ [ReliableNext]_vars => (HistoryInv /\ Balanced)'
  BY ReliableIsNext, NextHistory, NextBalanced
<1>3. QED
  BY <1>1, <1>2, InitHistory, InitBalanced, PTL DEF ReliableSpec

-----------------------------------------------------------------------------
(* Priorities.                                                               *)

\* A batch of the query leaves nothing behind that comes before one of its rows.
LEMMA BatchRespectsPriority ==
    ASSUME TypeInv, NEW w \in Worker, NEW S \in SUBSET Eligible, FirstOf(w, S, Eligible),
           NEW t \in S, NEW u \in Eligible \ S
    PROVE  PriorityOf[row[t].ident] <= PriorityOf[row[u].ident]
<1>1. ~Before(row, u, t)
  BY DEF FirstOf
<1>2. t \in Task /\ u \in Task
  BY DEF Eligible
<1>3. row[t].ident \in Ident /\ row[u].ident \in Ident
  BY <1>2 DEF TypeInv, TypeOK, Row
<1>4. PriorityOf[row[t].ident] \in Nat /\ PriorityOf[row[u].ident] \in Nat
  BY <1>3, ConstantsAssumption
<1>5. QED
  BY <1>1, <1>4 DEF Before

\* Every statement that locks a row leaves only rows behind that are not due,
\* or not of higher priority (ORDER BY priority in get_tasks_to_process).
THEOREM PriorityIsRespected == Spec => PriorityRespected
<1> DEFINE Ordered(t, u) ==
              /\ status[t] = "present" /\ ~row[t].locked /\ row'[t].locked
              /\ u \in Eligible /\ ~row'[u].locked
              => PriorityOf[row[t].ident] <= PriorityOf[row[u].ident]
<1>1. ASSUME SafetyInv, [Next]_vars, NEW t \in Task, NEW u \in Task
      PROVE  Ordered(t, u)
  <2> SUFFICES ASSUME status[t] = "present", ~row[t].locked, row'[t].locked,
                      u \in Eligible, ~row'[u].locked
               PROVE  PriorityOf[row[t].ident] <= PriorityOf[row[u].ident]
    OBVIOUS
  <2>1. row'[t] # row[t]
    OBVIOUS
  <2>2. ASSUME NEW S \in SUBSET Eligible, NEW w \in Worker,
               FirstOf(w, S, Eligible), Lock(S)
        PROVE  PriorityOf[row[t].ident] <= PriorityOf[row[u].ident]
    <3>1. S \in SUBSET Task
      BY DEF Eligible
    <3>2. t \in S /\ u \notin S
      BY <1>1, <2>2, <3>1, LockEffect DEF SafetyInv
    <3>3. QED
      BY <1>1, <2>2, <3>2, BatchRespectsPriority DEF SafetyInv
  <2>3. ASSUME NEW p \in Producer, SaveTask(p) PROVE FALSE
    BY <1>1, <2>1, <2>3 DEF SaveTask, SafetyInv, TypeInv, TypeOK
  <2>4. ASSUME NEW w \in Worker, Pop(w) \/ PopReplyLost(w)
        PROVE  PriorityOf[row[t].ident] <= PriorityOf[row[u].ident]
    BY <2>2, <2>4 DEF Pop, PopReplyLost
  <2>5. ASSUME NEW w \in Worker, SaveTasks(w) PROVE FALSE
    <3>1. t \in Held(w) => row'[t].locked = FALSE
      BY <1>1, <2>5, SaveEffect
    <3>2. t \notin Held(w) => row'[t] = row[t]
      BY <1>1, <2>5, SaveEffect
    <3>3. QED
      BY <2>1, <3>1, <3>2
  <2>6. ASSUME CleanUp PROVE FALSE
    BY <2>1, <2>6 DEF CleanUp, Blank
  <2>7. CASE UNCHANGED <<status, row>>
    BY <2>1, <2>7
  <2>8. QED
    BY <1>1, <2>3, <2>4, <2>5, <2>6, <2>7, QuietActions
<1>2. SafetyInv /\ [Next]_vars => [\A t, u \in Task : Ordered(t, u)]_vars
  BY <1>1
<1>3. QED
  BY <1>2, AlwaysSafe, PTL DEF Spec, PriorityRespected

-----------------------------------------------------------------------------
(* How often a task function runs to its end.                                *)

\* A worker may still make a success of it.
MayRun(t) ==
    \/ status[t] = "absent"
    \/ status[t] = "present" /\ ~row[t].locked /\ ~row[t].completed
    \/ \E w \in Worker : t \in Held(w) /\ result[w][t] # "SUCCESS"

\* The calls in Z, each a timeout of t in process own[k], are those that go on
\* in their threads, and they and the effects so far are accounted for.
Accounted(t, Z, own) ==
    /\ \A p \in Process : zombies[p][t] = Cardinality({k \in Z : own[k] = p})
    /\ effects[t] + Cardinality(Z) <= IF MayRun(t) THEN timeouts[t] ELSE timeouts[t] + 1

EffectsInv ==
    \A t \in Task : \E Z \in SUBSET (1..timeouts[t]) :
       \E own \in [1..timeouts[t] -> Process] : Accounted(t, Z, own)

LEMMA EffectFacts ==
    ASSUME TypeInv, NEW t \in Task
    PROVE  effects[t] \in Nat /\ timeouts[t] \in Nat
BY DEF TypeInv, TypeOK

LEMMA CallsFinite ==
    ASSUME TypeInv, NEW t \in Task, NEW Z \in SUBSET (1..timeouts[t])
    PROVE  IsFiniteSet(Z) /\ Cardinality(Z) \in Nat
<1>1. IsFiniteSet(1..timeouts[t])
  BY EffectFacts, FS_Interval
<1>2. QED
  BY <1>1, FS_Subset, FS_CardinalityType

\* A task whose calls are left alone stays accounted for.
LEMMA EffectsKept ==
    ASSUME TypeInv, EffectsInv, NEW t \in Task, UNCHANGED <<effects, timeouts, zombies>>,
           MayRun(t)' => MayRun(t)
    PROVE  \E Z \in SUBSET (1..timeouts'[t]) :
              \E own \in [1..timeouts'[t] -> Process] : Accounted(t, Z, own)'
<1>1. PICK Z \in SUBSET (1..timeouts[t]), own \in [1..timeouts[t] -> Process] :
         Accounted(t, Z, own)
  BY DEF EffectsInv
<1>2. effects[t] \in Nat /\ timeouts[t] \in Nat /\ Cardinality(Z) \in Nat
  BY EffectFacts, CallsFinite
<1>3. Accounted(t, Z, own)'
  BY <1>1, <1>2 DEF Accounted
<1>4. QED
  BY <1>3

\* The tables and batches move on, no call starts or ends.
LEMMA RunnableShrinks ==
    ASSUME HistoryInv, [Next]_vars, NEW t \in Task,
           \A w \in Worker : ~Await(w)
    PROVE  MayRun(t)' => MayRun(t)
<1> DEFINE HeldOrLess == \A v \in Worker : \/ Held(v)' = {}
                                           \/ Held(v)' = Held(v) /\ result'[v] = result[v]
<1>1. ASSUME DropsBatches PROVE HeldOrLess
  BY <1>1 DEF DropsBatches, Held
<1>2. ASSUME DropsBatches PROVE MayRun(t)' => MayRun(t)
  BY <1>1, <1>2 DEF MayRun, DropsBatches, dbVars
<1>3. ASSUME NEW p \in Producer, SaveTask(p) PROVE MayRun(t)' => MayRun(t)
  <2>1. PICK u \in Task : /\ status[u] = "absent"
                          /\ status' = [status EXCEPT ![u] = "present"]
                          /\ \A x \in Task \ {u} : row'[x] = row[x]
    BY <1>3, SaveTaskHistory
  <2>2. result' = result /\ \A v \in Worker : Held(v)' = Held(v)
    BY <1>3 DEF SaveTask, workerVars, Held
  <2>3. QED
    BY <2>1, <2>2 DEF MayRun, HistoryInv, SafetyInv, TypeInv, TypeOK
<1>4. ASSUME NEW w \in Worker, NEW S \in SUBSET Eligible, Lock(S),
             status' = status, result' = result,
             \A v \in Worker : Held(v)' = Held(v) \/ Held(v)' = S
      PROVE  MayRun(t)' => MayRun(t)
  <2>1. t \in S => MayRun(t)
    BY DEF Eligible, MayRun
  <2>2. t \notin S => row'[t] = row[t]
    BY <1>4 DEF Lock
  <2>3. QED
    BY <1>4, <2>1, <2>2 DEF MayRun
<1>5. ASSUME NEW w \in Worker, Pop(w) PROVE MayRun(t)' => MayRun(t)
  <2>1. PICK S \in SUBSET Eligible : Lock(S) /\ claimed' = [claimed EXCEPT ![w] = S]
    BY <1>5 DEF Pop
  <2>2. status' = status /\ result' = result /\ pc' = [pc EXCEPT ![w] = "run"]
    BY <1>5 DEF Pop
  <2>3. \A v \in Worker : Held(v)' = Held(v) \/ Held(v)' = S
    BY <2>1, <2>2 DEF Held, HistoryInv, SafetyInv, TypeInv, TypeOK
  <2>4. QED
    BY <1>4, <2>1, <2>2, <2>3
<1>6. ASSUME NEW w \in Worker, PopReplyLost(w) PROVE MayRun(t)' => MayRun(t)
  <2>1. PICK S \in SUBSET Eligible : Lock(S)
    BY <1>6 DEF PopReplyLost
  <2>2. status' = status /\ result' = result /\ \A v \in Worker : Held(v)' = Held(v)
    BY <1>6 DEF PopReplyLost, workerVars, Held
  <2>3. QED
    BY <1>4, <1>6, <2>1, <2>2
<1>7. ASSUME NEW w \in Worker, StartTask(w) PROVE MayRun(t)' => MayRun(t)
  <2>1. /\ status' = status /\ row' = row /\ result' = result
        /\ \A v \in Worker : Held(v)' = Held(v)
    BY <1>7 DEF StartTask, dbVars, Held, HistoryInv, SafetyInv, TypeInv, TypeOK
  <2>2. QED
    BY <2>1 DEF MayRun
<1>8. ASSUME NEW w \in Worker, SaveTasks(w) PROVE MayRun(t)' => MayRun(t)
  <2>1. /\ status' = status /\ result' = result /\ pc[w] = "save"
        /\ pc' = [pc EXCEPT ![w] = "saveRuns"] /\ claimed' = claimed
    BY <1>8 DEF SaveTasks
  <2>2. Held(w)' = {} /\ \A v \in Worker \ {w} : Held(v)' = Held(v)
    BY <2>1 DEF Held, HistoryInv, SafetyInv, TypeInv, TypeOK
  <2>3. CASE t \in Held(w)
    <3>1. row'[t].completed = copy[w][t].completed
      BY <1>8, <2>3, SaveEffect DEF HistoryInv
    <3>2. result[w][t] # "SUCCESS" \/ copy[w][t].completed
      BY <2>3 DEF HistoryInv, BatchInv, OutcomeInv
    <3>3. QED
      BY <2>1, <2>2, <2>3, <3>1, <3>2 DEF MayRun
  <2>4. CASE t \notin Held(w)
    <3>1. row'[t] = row[t]
      BY <1>8, <2>4, SaveEffect DEF HistoryInv
    <3>2. QED
      BY <2>1, <2>2, <3>1 DEF MayRun
  <2>5. QED
    BY <2>3, <2>4
<1>9. ASSUME NEW w \in Worker, SaveRuns(w) PROVE MayRun(t)' => MayRun(t)
  <2>1. /\ status' = status /\ row' = row
        /\ \A v \in Worker : \/ Held(v)' = {}
                             \/ Held(v)' = Held(v) /\ result'[v] = result[v]
    BY <1>9 DEF SaveRuns, Reset, Held, HistoryInv, SafetyInv, TypeInv, TypeOK
  <2>2. QED
    BY <2>1 DEF MayRun
<1>10. ASSUME CleanUp PROVE MayRun(t)' => MayRun(t)
  <2>1. /\ status'[t] = "deleted" \/ (status'[t] = status[t] /\ row'[t] = row[t])
        /\ result' = result /\ \A v \in Worker : Held(v)' = Held(v)
    BY <1>10 DEF CleanUp, workerVars, Held
  <2>2. QED
    BY <2>1 DEF MayRun
<1>11. ASSUME NEW p \in Producer, NEW i \in Ident, CreateTask(p, i)
       PROVE  DropsBatches
  BY <1>11 DEF CreateTask, DropsBatches, workerVars
<1>12. ASSUME NEW p \in Process, NEW u \in Task, ZombieEnds(p, u) PROVE DropsBatches
  BY <1>12 DEF ZombieEnds, DropsBatches, workerVars
<1>13. ASSUME NEW w \in Worker, AbortUnregistered(w) \/ SaveError(w) \/ ThreadDies(w)
       PROVE  DropsBatches
  BY <1>13 DEF AbortUnregistered, SaveError, ThreadDies, Reset, DropsBatches,
               HistoryInv, SafetyInv, TypeInv, TypeOK
<1>14. ASSUME NEW p \in Process, Crash(p) PROVE DropsBatches
  BY <1>14 DEF Crash, DropsBatches
<1>15. ASSUME NEW p \in Process, Restart(p) PROVE DropsBatches
  BY <1>15 DEF Restart, DropsBatches, HistoryInv, SafetyInv, QueueInv, RestInv
<1>16. CASE Tick \/ UNCHANGED vars
  <2>1. DropsBatches
    BY <1>16 DEF Tick, vars, workerVars, DropsBatches
  <2>2. QED
    BY <1>2, <2>1
<1>17. ASSUME NEW p \in Producer, DropRequest(p) PROVE DropsBatches
  BY <1>17 DEF DropRequest, DropsBatches, workerVars
<1>18. QED
  BY <1>2, <1>3, <1>5, <1>6, <1>7, <1>8, <1>9, <1>10, <1>11, <1>12, <1>13, <1>14,
     <1>15, <1>16, <1>17 DEF Next, ReliableNext, Fault, Produce, Loop

\* A call ends: it takes its effect out of those that are accounted for.
LEMMA ZombieEndsEffects ==
    ASSUME HistoryInv, EffectsInv, NEW p \in Process, NEW u \in Task, ZombieEnds(p, u),
           [Next]_vars
    PROVE  EffectsInv'
<1> SUFFICES ASSUME NEW t \in Task
             PROVE  \E Z \in SUBSET (1..timeouts'[t]) :
                       \E own \in [1..timeouts'[t] -> Process] : Accounted(t, Z, own)'
  BY DEF EffectsInv
<1>1. PICK Z \in SUBSET (1..timeouts[t]), own \in [1..timeouts[t] -> Process] :
         Accounted(t, Z, own)
  BY DEF EffectsInv
<1>2. /\ timeouts' = timeouts
      /\ zombies[p][u] > 0 /\ zombies' = [zombies EXCEPT ![p][u] = @ - 1]
      /\ effects' \in {effects, [effects EXCEPT ![u] = @ + 1]}
      /\ status' = status /\ row' = row /\ result' = result
      /\ \A v \in Worker : Held(v)' = Held(v)
  BY DEF ZombieEnds, dbVars, workerVars, Held
<1>3. MayRun(t)' <=> MayRun(t)
  BY <1>2 DEF MayRun
<1>4. /\ effects[t] \in Nat /\ timeouts[t] \in Nat /\ IsFiniteSet(Z)
      /\ Cardinality(Z) \in Nat
  BY EffectFacts, CallsFinite DEF HistoryInv, SafetyInv
<1>5. CASE t # u
  <2>1. effects'[t] = effects[t] /\ \A q \in Process : zombies'[q][t] = zombies[q][t]
    BY <1>2, <1>5 DEF HistoryInv, SafetyInv, TypeInv, TypeOK
  <2>2. Accounted(t, Z, own)'
    BY <1>1, <1>2, <1>3, <2>1 DEF Accounted
  <2>3. QED
    BY <1>2, <2>2
<1>6. CASE t = u
  <2> DEFINE Of(q) == {k \in Z : own[k] = q}
  <2>1. \A q \in Process : /\ IsFiniteSet(Of(q)) /\ Cardinality(Of(q)) \in Nat
                           /\ zombies[q][t] = Cardinality(Of(q))
    BY <1>1, <1>4, FS_Subset, FS_CardinalityType DEF Accounted
  <2>2. PICK k \in Z : own[k] = p
    <3>1. Of(p) # {}
      BY <1>2, <1>6, <2>1, FS_EmptySet
    <3>2. QED
      BY <3>1
  <2> DEFINE Y == Z \ {k}
             Rest(q) == {j \in Y : own[j] = q}
  <2>3. Cardinality(Y) = Cardinality(Z) - 1 /\ Y \in SUBSET (1..timeouts[t])
    BY <1>4, FS_RemoveElement
  <2>4. ASSUME NEW q \in Process PROVE zombies'[q][t] = Cardinality(Rest(q))
    <3>0. zombies \in [Process -> [Task -> Nat]]
      BY DEF HistoryInv, SafetyInv, TypeInv, TypeOK
    <3>1. CASE q = p
      <4>1. Rest(q) = Of(q) \ {k} /\ k \in Of(q)
        BY <2>2, <3>1
      <4>2. Cardinality(Rest(q)) = Cardinality(Of(q)) - 1
        <5> HIDE DEF Of, Rest
        <5>1. Cardinality(Of(q) \ {k}) = Cardinality(Of(q)) - 1
          BY <2>1, <4>1, FS_RemoveElement
        <5>2. QED
          BY <4>1, <5>1
      <4>3. zombies'[q][t] = zombies[q][t] - 1
        BY <1>2, <1>6, <3>0, <3>1
      <4>4. QED
        BY <2>1, <4>2, <4>3
    <3>2. CASE q # p
      <4>1. Rest(q) = Of(q)
        BY <2>2, <3>2
      <4>2. zombies'[q][t] = zombies[q][t]
        BY <1>2, <3>0, <3>2
      <4>3. QED
        BY <2>1, <4>1, <4>2
    <3>3. QED
      BY <3>1, <3>2
  <2>5. effects'[t] = effects[t] \/ effects'[t] = effects[t] + 1
    BY <1>2, <1>6 DEF HistoryInv, SafetyInv, TypeInv, TypeOK
  <2>6. effects'[t] + Cardinality(Y) <= IF MayRun(t)' THEN timeouts'[t]
                                                      ELSE timeouts'[t] + 1
    <3>1. effects[t] + Cardinality(Z) <= IF MayRun(t) THEN timeouts[t] ELSE timeouts[t] + 1
      BY <1>1 DEF Accounted
    <3>2. effects'[t] + Cardinality(Y) <= effects[t] + Cardinality(Z)
      BY <1>4, <2>3, <2>5
    <3>3. effects'[t] + Cardinality(Y) \in Nat /\ effects[t] + Cardinality(Z) \in Nat
      BY <1>4, <2>3, <2>5, FS_RemoveElement, FS_CardinalityType
    <3>4. QED
      BY <1>2, <1>3, <1>4, <3>1, <3>2, <3>3
  <2>7. Accounted(t, Y, own)'
    BY <2>4, <2>6 DEF Accounted
  <2> HIDE DEF Y
  <2>8. QED
    BY <1>2, <2>3, <2>7
<1>7. QED
  BY <1>5, <1>6

\* With a process its calls end, and take no effect.
LEMMA CrashEffects ==
    ASSUME HistoryInv, EffectsInv, NEW p \in Process, Crash(p), [Next]_vars
    PROVE  EffectsInv'
<1> SUFFICES ASSUME NEW t \in Task
             PROVE  \E Z \in SUBSET (1..timeouts'[t]) :
                       \E own \in [1..timeouts'[t] -> Process] : Accounted(t, Z, own)'
  BY DEF EffectsInv
<1>1. PICK Z \in SUBSET (1..timeouts[t]), own \in [1..timeouts[t] -> Process] :
         Accounted(t, Z, own)
  BY DEF EffectsInv
<1>2. timeouts' = timeouts /\ effects' = effects /\ zombies' = [zombies EXCEPT ![p] = Zero]
  BY DEF Crash
<1>3. MayRun(t)' => MayRun(t)
  <2>1. \A w \in Worker : \/ Held(w)' = {}
                          \/ Held(w)' = Held(w) /\ result'[w] = result[w]
    BY DEF Crash, Held
  <2>2. QED
    BY <2>1 DEF Crash, dbVars, MayRun
<1> DEFINE Y == {k \in Z : own[k] # p}
           Of(q) == {k \in Z : own[k] = q}
           Rest(q) == {k \in Y : own[k] = q}
<1>4. /\ effects[t] \in Nat /\ timeouts[t] \in Nat
      /\ Cardinality(Z) \in Nat /\ Cardinality(Y) \in Nat /\ Cardinality(Y) <= Cardinality(Z)
  BY EffectFacts, CallsFinite, FS_Subset DEF HistoryInv, SafetyInv
<1>5. ASSUME NEW q \in Process PROVE zombies'[q][t] = Cardinality(Rest(q))
  <2>1. CASE q = p
    <3>1. Rest(q) = {}
      BY <2>1
    <3>2. zombies'[q][t] = 0
      BY <1>2, <2>1 DEF Zero, HistoryInv, SafetyInv, TypeInv, TypeOK
    <3>3. QED
      BY <3>1, <3>2, FS_EmptySet
  <2>2. CASE q # p
    <3>1. Rest(q) = Of(q)
      BY <2>2
    <3>2. zombies'[q][t] = zombies[q][t]
      BY <1>2, <2>2 DEF HistoryInv, SafetyInv, TypeInv, TypeOK
    <3>3. QED
      BY <1>1, <3>1, <3>2 DEF Accounted
  <2>3. QED
    BY <2>1, <2>2
<1>6. effects'[t] + Cardinality(Y) <= IF MayRun(t)' THEN timeouts'[t]
                                                    ELSE timeouts'[t] + 1
  BY <1>1, <1>2, <1>3, <1>4 DEF Accounted
<1>7. Accounted(t, Y, own)'
  BY <1>5, <1>6 DEF Accounted
<1>8. Y \in SUBSET (1..timeouts[t])
  OBVIOUS
<1> HIDE DEF Y
<1>9. QED
  BY <1>2, <1>7, <1>8

\* How the wait for a call ends: with its effect, without it, or too early.
LEMMA AwaitEffects ==
    ASSUME HistoryInv, EffectsInv, NEW w \in Worker, Await(w), [Next]_vars
    PROVE  EffectsInv'
<1>1. PICK c \in Task : c = current[w]
  BY DEF Await, Succeed, Fail, BackOff, TimeOut, HistoryInv, SafetyInv, TypeInv,
         TypeOK, AwaitOK
<1>2. pc[w] = "exec" /\ c \in claimed[w] /\ result[w][c] = "NONE" /\ c \in Held(w)
  BY <1>1 DEF Await, Succeed, Fail, BackOff, TimeOut, HistoryInv, SafetyInv,
              TypeInv, AwaitOK, Held
<1>3. /\ status' = status /\ row' = row /\ claimed' = claimed
      /\ pc' = [pc EXCEPT ![w] = IF Todo(w) = {c} THEN "save" ELSE "run"]
  BY <1>1 DEF Await, Succeed, Fail, BackOff, TimeOut, Finish, dbVars
<1>4. \A v \in Worker : Held(v)' = Held(v)
  BY <1>2, <1>3 DEF Held, HistoryInv, SafetyInv, TypeInv, TypeOK
<1>5. MayRun(c)
  BY <1>2 DEF MayRun
<1>6. \A v \in Worker, u \in Task : v # w \/ u # c => result'[v][u] = result[v][u]
  BY <1>1 DEF Await, Succeed, Fail, BackOff, TimeOut, Finish, HistoryInv, SafetyInv,
              TypeInv, TypeOK
<1>7. ASSUME NEW u \in Task, u # c PROVE MayRun(u)' => MayRun(u)
  BY <1>3, <1>4, <1>6, <1>7 DEF MayRun
<1>8. ASSUME NEW t \in Task
      PROVE  \E Z \in SUBSET (1..timeouts'[t]) :
                \E own \in [1..timeouts'[t] -> Process] : Accounted(t, Z, own)'
  <2>1. PICK Z \in SUBSET (1..timeouts[t]), own \in [1..timeouts[t] -> Process] :
           Accounted(t, Z, own)
    BY DEF EffectsInv
  <2>2. /\ effects[t] \in Nat /\ timeouts[t] \in Nat /\ IsFiniteSet(Z)
        /\ Cardinality(Z) \in Nat
    BY EffectFacts, CallsFinite DEF HistoryInv, SafetyInv
  <2>3. CASE Fail(w) \/ BackOff(w)
    <3>1. effects' = effects /\ timeouts' = timeouts /\ zombies' = zombies
      BY <2>3 DEF Fail, BackOff
    <3>2. MayRun(t)' => MayRun(t)
      BY <1>5, <1>7
    <3>3. QED
      BY <3>1, <3>2, EffectsKept DEF HistoryInv, SafetyInv
  <2>4. CASE Succeed(w)
    <3>1. /\ effects' = [effects EXCEPT ![c] = @ + 1]
          /\ timeouts' = timeouts /\ zombies' = zombies
          /\ result' = [result EXCEPT ![w][c] = "SUCCESS"]
      BY <1>1, <2>4 DEF Succeed, Finish
    <3>2. ~MayRun(c)'
      <4>1. RowHeld(c) /\ \A v \in Worker : v # w => c \notin Held(v)
        BY <1>2 DEF HistoryInv, SafetyInv, QueueInv, ClaimInv, ClaimsDisjoint
      <4>2. result'[w][c] = "SUCCESS"
        BY <3>1 DEF HistoryInv, SafetyInv, TypeInv, TypeOK
      <4>3. QED
        BY <1>3, <1>4, <4>1, <4>2 DEF MayRun, RowHeld
    <3>3. effects'[t] = IF t = c THEN effects[t] + 1 ELSE effects[t]
      BY <3>1 DEF HistoryInv, SafetyInv, TypeInv, TypeOK
    <3>4. effects'[t] + Cardinality(Z) <= IF MayRun(t)' THEN timeouts'[t]
                                                        ELSE timeouts'[t] + 1
      BY <1>5, <1>7, <2>1, <2>2, <3>1, <3>2, <3>3 DEF Accounted
    <3>5. Accounted(t, Z, own)'
      BY <2>1, <3>1, <3>4 DEF Accounted
    <3>6. QED
      BY <3>1, <3>5
  <2>5. CASE TimeOut(w)
    <3>1. /\ effects' = effects
          /\ timeouts' = [timeouts EXCEPT ![c] = @ + 1]
          /\ zombies' = [zombies EXCEPT ![ProcessOf[w]][c] = @ + 1]
      BY <1>1, <2>5, Zenon DEF TimeOut
    <3>2. ProcessOf[w] \in Process
      BY ConstantsAssumption
    <3>3. CASE t # c
      <4>1. timeouts'[t] = timeouts[t] /\ \A q \in Process : zombies'[q][t] = zombies[q][t]
        BY <3>1, <3>3 DEF HistoryInv, SafetyInv, TypeInv, TypeOK
      <4>2. effects'[t] = effects[t] /\ (MayRun(t)' => MayRun(t))
        BY <1>7, <3>1, <3>3
      <4>3. Accounted(t, Z, own)'
        BY <2>1, <2>2, <4>1, <4>2 DEF Accounted
      <4>4. QED
        BY <4>1, <4>3
    <3>4. CASE t = c
      <4>0. PICK n \in Nat : n = timeouts[t] + 1
        BY <2>2
      <4> DEFINE Y == Z \cup {n}
                 later == [k \in 1..n |-> IF k = n THEN ProcessOf[w] ELSE own[k]]
                 Of(q) == {k \in Z : own[k] = q}
                 All(q) == {k \in Y : later[k] = q}
      <4>1. timeouts'[t] = n /\ n \notin Z /\ \A k \in Z : k \in 1..n /\ k # n
        BY <2>2, <3>1, <3>4, <4>0 DEF HistoryInv, SafetyInv, TypeInv, TypeOK
      <4>2. Y \in SUBSET (1..n) /\ later \in [1..n -> Process]
        BY <2>2, <3>2, <4>0, <4>1
      <4>3. Cardinality(Y) = Cardinality(Z) + 1
        BY <2>2, <4>1, FS_AddElement
      <4>4. \A k \in Z : later[k] = own[k]
        BY <4>1
      <4>5. later[n] = ProcessOf[w]
        BY <2>2, <4>0
      <4>6. ASSUME NEW q \in Process PROVE zombies'[q][t] = Cardinality(All(q))
        <5> HIDE DEF later
        <5>1. /\ IsFiniteSet(Of(q)) /\ Cardinality(Of(q)) \in Nat
              /\ zombies[q][t] = Cardinality(Of(q))
          BY <2>1, <2>2, FS_Subset, FS_CardinalityType DEF Accounted
        <5>2. CASE q = ProcessOf[w]
          <6>1. All(q) = Of(q) \cup {n} /\ n \notin Of(q)
            BY <4>1, <4>4, <4>5, <5>2
          <6>2. Cardinality(All(q)) = Cardinality(Of(q)) + 1
            BY <5>1, <6>1, FS_AddElement
          <6>3. zombies'[q][t] = zombies[q][t] + 1
            BY <3>1, <3>4, <5>2 DEF HistoryInv, SafetyInv, TypeInv, TypeOK
          <6>4. QED
            BY <5>1, <6>2, <6>3
        <5>3. CASE q # ProcessOf[w]
          <6>1. All(q) = Of(q)
            BY <4>4, <4>5, <5>3
          <6>2. zombies'[q][t] = zombies[q][t]
            BY <3>1, <5>3 DEF HistoryInv, SafetyInv, TypeInv, TypeOK
          <6>3. QED
            BY <5>1, <6>1, <6>2
        <5>4. QED
          BY <5>2, <5>3
      <4>7. effects'[t] + Cardinality(Y) <= IF MayRun(t)' THEN timeouts'[t]
                                                          ELSE timeouts'[t] + 1
        BY <1>5, <2>1, <2>2, <3>1, <3>4, <4>0, <4>1, <4>3 DEF Accounted
      <4>8. Accounted(t, Y, later)'
        BY <4>6, <4>7 DEF Accounted
      <4> HIDE DEF Y, later
      <4>9. QED
        BY <4>1, <4>2, <4>8
    <3>5. QED
      BY <3>3, <3>4
  <2>6. QED
    BY <2>3, <2>4, <2>5 DEF Await
<1>9. QED
  BY <1>8 DEF EffectsInv

LEMMA InitEffects == Init => EffectsInv
<1> SUFFICES ASSUME Init, NEW t \in Task
             PROVE  \E Z \in SUBSET (1..timeouts[t]) :
                       \E own \in [1..timeouts[t] -> Process] : Accounted(t, Z, own)
  BY DEF EffectsInv
<1> DEFINE own == [k \in 1..0 |-> CHOOSE p \in Process : TRUE]
<1>1. timeouts[t] = 0 /\ effects[t] = 0 /\ \A p \in Process : zombies[p][t] = 0
  BY DEF Init, Zero
<1>2. own \in [1..0 -> Process] /\ {} \in SUBSET (1..0)
  OBVIOUS
<1>3. \A p \in Process : {k \in {} : own[k] = p} = {}
  OBVIOUS
<1>4. Accounted(t, {}, own)
  BY <1>1, <1>3, FS_EmptySet DEF Accounted
<1> HIDE DEF own
<1>5. QED
  BY <1>1, <1>2, <1>4

\* The steps that neither end a wait nor a call leave the accounts alone.
LEMMA NextEffects == HistoryInv /\ EffectsInv /\ [Next]_vars => EffectsInv'
<1> SUFFICES ASSUME HistoryInv, EffectsInv, [Next]_vars PROVE EffectsInv'
  OBVIOUS
<1>1. ASSUME NEW w \in Worker, Await(w) PROVE EffectsInv'
  BY <1>1, AwaitEffects
<1>2. ASSUME NEW p \in Process, NEW t \in Task, ZombieEnds(p, t) PROVE EffectsInv'
  BY <1>2, ZombieEndsEffects
<1>3. ASSUME NEW p \in Process, Crash(p) PROVE EffectsInv'
  BY <1>3, CrashEffects
<1>4. CASE /\ \A w \in Worker : ~Await(w)
           /\ UNCHANGED <<effects, timeouts, zombies>>
  BY <1>4, EffectsKept, RunnableShrinks DEF EffectsInv, HistoryInv, SafetyInv
<1>5. CASE /\ \A w \in Worker : ~Await(w)
           /\ \A p \in Process : ~Crash(p) /\ \A t \in Task : ~ZombieEnds(p, t)
  <2>1. ASSUME Produce PROVE UNCHANGED <<effects, timeouts, zombies>>
    BY <2>1 DEF Produce, CreateTask, SaveTask, history
  <2>2. ASSUME NEW w \in Worker, Loop(w) PROVE UNCHANGED <<effects, timeouts, zombies>>
    BY <2>2 DEF Loop, Pop, StartTask, SaveTasks, SaveRuns, history
  <2>3. ASSUME Fault PROVE UNCHANGED <<effects, timeouts, zombies>>
    BY <1>5, <2>3 DEF Fault, DropRequest, AbortUnregistered, PopReplyLost, SaveError,
                      ThreadDies, Restart, history
  <2>4. ASSUME CleanUp \/ Tick PROVE UNCHANGED <<effects, timeouts, zombies>>
    BY <2>4 DEF CleanUp, Tick, history
  <2>5. ASSUME UNCHANGED vars PROVE UNCHANGED <<effects, timeouts, zombies>>
    BY <2>5 DEF vars, history
  <2>6. UNCHANGED <<effects, timeouts, zombies>>
    BY <1>5, <2>1, <2>2, <2>3, <2>4, <2>5 DEF Next, ReliableNext
  <2>7. QED
    BY <1>4, <1>5, <2>6
<1>6. QED
  BY <1>1, <1>2, <1>3, <1>5

\* Whatever crashes, a task function runs to its end more than once only after
\* a worker stopped waiting for one of its calls: executor.shutdown(wait=False)
\* is the one way to a second effect.
THEOREM EffectsAreOnce == Spec => []EffectsOnce
<1>1. HistoryInv /\ EffectsInv => EffectsOnce
  <2> SUFFICES ASSUME HistoryInv, EffectsInv, NEW t \in Task
               PROVE  effects[t] <= 1 + timeouts[t]
    BY DEF EffectsOnce
  <2>1. PICK Z \in SUBSET (1..timeouts[t]), own \in [1..timeouts[t] -> Process] :
           Accounted(t, Z, own)
    BY DEF EffectsInv
  <2>2. /\ effects[t] \in Nat /\ timeouts[t] \in Nat /\ Cardinality(Z) \in Nat
    BY EffectFacts, CallsFinite DEF HistoryInv, SafetyInv
  <2>3. QED
    BY <2>1, <2>2 DEF Accounted
<1>2. QED
  BY <1>1, InitHistory, NextHistory, InitEffects, NextEffects, PTL DEF Spec
=============================================================================

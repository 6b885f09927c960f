-------------------------- MODULE MCRecurringTasks --------------------------
(* Small instances of RecurringTasks for TLC.                                *)
EXTENDS RecurringTasks, TLC

CONSTANTS t1, t2, w1, w2

EveryWorkerKnowsAll == [w \in Worker |-> Task]
\* During a deployment the old process w2 does not know the task.
OldWorker == w1 :> Task @@ w2 :> {}

Quiet      == [registered |-> EveryWorkerKnowsAll, cleanUp |-> FALSE, adminSite |-> FALSE]
Deployment == [registered |-> OldWorker, cleanUp |-> TRUE, adminSite |-> TRUE]

Processor == {Quiet}
Both      == {Quiet, Deployment}
=============================================================================

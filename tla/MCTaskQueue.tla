---------------------------- MODULE MCTaskQueue ----------------------------
(* Small instances of TaskQueue for TLC.                                     *)
EXTENDS TaskQueue, TLC

CONSTANTS t1, t2, api1, w1, w2, os1, os2, urgent, plain

\* Each thread in a process of its own, or both in one.
TwoProcesses == w1 :> os1 @@ w2 :> os2
OneProcess   == [w \in Worker |-> os1]

\* `urgent` is TaskPriority.HIGH, `plain` is TaskPriority.NORMAL.
Priorities == urgent :> 25 @@ plain :> 50
OnePriority == [i \in Ident |-> 50]

\* One process pops batches, the other pops its tasks one by one.
PopTwoOrOne == os1 :> 2 @@ os2 :> 1
PopTwo      == [p \in Process |-> 2]

EveryProcessKnowsAll == [p \in Process |-> Ident]
\* During a deployment the old process os2 does not know `urgent` yet.
OldProcess == os1 :> Ident @@ os2 :> {plain}

TaskSymmetry == Permutations(Task)
=============================================================================

----------------------------- MODULE MCServing -----------------------------
(* Small instances for TLC of Startup, the containers of a rollout, and of   *)
(* the threads of a task processor that has started (RunnerPool).  They      *)
(* share no variable: a behaviour is a rollout, or the threads of a process  *)
(* while nothing is rolled out.                                              *)
EXTENDS Startup, RunnerPool

CONSTANTS new, old

VARIABLE part

\* `new` migrates both databases.  `old` is a container of the last release
\* that comes back meanwhile: it migrates only one and waits for the other.
Rollout == [c \in Container |-> IF c = new THEN 2 ELSE 1]
Given   == [c \in Container |->
              IF c = new
              THEN {"migrate", "migrate-and-serve", "run-task-processor"}
              ELSE {"serve", "migrate-and-serve", "run-task-processor", "start task-processor"}]
Migrates == [c \in Container |->
               IF c = new THEN <<"default", "analytics">> ELSE <<"default">>]
WaitsFor == [c \in Container |->
               IF c = new THEN <<"default">> ELSE <<"analytics">>]
OneVerb  == [c \in Container |-> {"run-task-processor"}]

\* A task processor that could not initialise and was shut down.
NoPool ==
    /\ main = "exited" /\ stopAt = 1 /\ monitor = FALSE
    /\ coord = "dead" /\ threads = 0 /\ nap = 0 /\ joined = 0 /\ reported = {}
    /\ NoRunner

NoRollout ==
    /\ up = [d \in Database |-> TRUE] /\ applied = [d \in Database |-> 2]
    /\ cacheTable = TRUE
    /\ verb = [c \in Container |-> "run-task-processor"]
    /\ state = [c \in Container |-> "serving"]
    /\ at = [c \in Container |-> Len(Script(c))]
    /\ Fresh

RolloutInit == part = "rollout" /\ Init /\ NoPool
ThreadsInit == part = "threads" /\ NoRollout /\ PoolInit

ServingNext ==
    /\ UNCHANGED part
    /\ \/ part = "rollout" /\ Next /\ UNCHANGED poolVars
       \/ part = "threads" /\ PoolNext /\ UNCHANGED vars

\* Served containers and ended threads owe nothing, so the fairness of Startup
\* and of RunnerPool is no demand on the other kind of behaviour.
ServingSpec ==
    /\ RolloutInit \/ ThreadsInit
    /\ [][ServingNext]_<<part, vars, poolVars>>
    /\ Fairness /\ PoolFairness

RolloutSpec == RolloutInit /\ [][ServingNext]_<<part, vars, poolVars>>

TwoDatabases == <<"default", "task_processor">>
=============================================================================

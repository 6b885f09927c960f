--------------------------- MODULE TaskLifecycle ---------------------------
(* What the task queue promises of every task, with no database, worker or   *)
(* clock in sight: a submitted task is claimed, and each claim either        *)
(* finishes it or costs it one of MaxFailures attempts.  Several tasks may   *)
(* move in one step, because the processor claims and settles in batches.    *)
(* A claim that is never settled (its worker is gone) just never moves again.*)
EXTENDS Naturals

CONSTANTS
    Task,        \* every task that can ever be submitted
    MaxFailures  \* attempts a task is given

VARIABLES
    phase,       \* where each task is in its life
    failures     \* failed attempts settled so far

vars == <<phase, failures>>

Phase == {"none", "queued", "claimed", "done", "exhausted", "purged"}

Init ==
    /\ phase = [t \in Task |-> "none"]
    /\ failures = [t \in Task |-> 0]

\* A producer hands the task over.
Submit(t) ==
    /\ phase[t] = "none"
    /\ phase' = [phase EXCEPT ![t] = "queued"]
    /\ UNCHANGED failures

\* A worker takes a batch of queued tasks; each of them has attempts left.
Claim(S) ==
    /\ \A t \in S : phase[t] = "queued" /\ failures[t] < MaxFailures
    /\ phase' = [t \in Task |-> IF t \in S THEN "claimed" ELSE phase[t]]
    /\ UNCHANGED failures

\* The outcome of a claimed batch: `good` finished, `bad` lost an attempt.
Settle(good, bad) ==
    /\ \A t \in good \cup bad : phase[t] = "claimed"
    /\ good \cap bad = {}
    /\ failures' = [t \in Task |-> IF t \in bad THEN failures[t] + 1
                                                ELSE failures[t]]
    /\ phase' = [t \in Task |->
                   IF t \in good THEN "done"
                   ELSE IF t \in bad
                        THEN IF failures[t] + 1 < MaxFailures THEN "queued"
                                                              ELSE "exhausted"
                        ELSE phase[t]]

\* Old tasks that will never run again are forgotten.
Purge(S) ==
    /\ \A t \in S : phase[t] \in {"done", "exhausted"}
    /\ phase' = [t \in Task |-> IF t \in S THEN "purged" ELSE phase[t]]
    /\ failures' = [t \in Task |-> IF t \in S THEN 0 ELSE failures[t]]

Next ==
    \/ \E t \in Task : Submit(t)
    \/ \E S \in SUBSET Task : Claim(S) \/ Purge(S)
    \/ \E good, bad \in SUBSET Task : Settle(good, bad)

Spec == Init /\ [][Next]_vars
=============================================================================

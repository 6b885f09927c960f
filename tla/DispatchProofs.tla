--------------------------- MODULE DispatchProofs ---------------------------
(* What delay() promises about transactions, and the health check about      *)
(* itself, for any number of threads and calls: the proofs of TypeOK,        *)
(* HealthyIsOwn and NeverRunsAhead of Dispatch.                              *)
EXTENDS Dispatch, FiniteSetTheorems, TLAPS

USE DispatchAssumption

\* The counters stop in time: a probe that still polls has a query left, a
\* task that is still queued an attempt.
Counted ==
    /\ \A t \in Thread : pc[t] \in {"probe", "polling"} => tries[t] < MaxTries
    /\ \A c \in Call : call[c] \in {"new", "built", "pending", "queued"}
                          => fails[c] < MaxFailures

\* A call that was made has its caller, and keeps it.
Owned == \A c \in Call : call[c] = "new" <=> owner[c] = None

Proven ==
    \A t \in Thread : pc[t] \in {"found", "healthy"} =>
       \E c \in Of(t) : proof[c] # "none"

Settled(t) == pc[t] \in {"hooks", "done", "crashed"}

\* What a transaction holds back it holds back until it is over, and what the
\* processor or a thread may run belongs to a caller whose data is decided.
Isolated ==
    /\ settings.routed => settings.method = "TASK_PROCESSOR"
    /\ \A t \in Thread :
          /\ pc[t] = "probe" => ~inTx[t] /\ data[t] = "none"
          /\ data[t] = "written" => inTx[t] /\ pc[t] \in {"open", "saving"}
          /\ data[t] = "undone" => pc[t] \in {"done", "crashed"}
    /\ \A c \in Call : ~Eager /\ call[c] \in {"queued", "started"} =>
          /\ data[owner[c]] \in {"none", "visible"}
          /\ inTx[owner[c]] => Settled(owner[c])

DispatchInv == TypeOK /\ Counted /\ Owned /\ Proven /\ Isolated

-----------------------------------------------------------------------------
LEMMA InitInv == Init => DispatchInv
<1> SUFFICES ASSUME Init PROVE DispatchInv
  OBVIOUS
<1>1. TypeOK
  <2>1. settings \in Settings
    BY DEF Init
  <2>2. role \in [Thread -> {"request", "probe"}]
    BY DEF Init
  <2>3. pc \in [Thread -> Phase]
    BY DEF Init, Phase
  <2> QED
    BY <2>1, <2>2, <2>3 DEF Init, TypeOK, DataState, CallState, RowState
<1>2. Counted /\ Owned
  BY DEF Init, Counted, Owned
<1>3. Proven
  BY DEF Init, Proven
<1>4. Isolated
  BY DEF Init, Isolated
<1> QED
  BY <1>1, <1>2, <1>3, <1>4 DEF DispatchInv

LEMMA WriteKeeps ==
  ASSUME DispatchInv, NEW t \in Thread, Write(t)
  PROVE  DispatchInv'
<1>1. TypeOK'
  BY DEF DispatchInv, TypeOK, Counted, Phase, DataState, CallState, RowState, Write, config, rows
<1>2. Counted'
  BY DEF DispatchInv, TypeOK, Counted, Write, config, rows
<1>3. Owned'
  BY DEF DispatchInv, TypeOK, Owned, Write, config, rows
<1>4. Proven'
  BY DEF DispatchInv, TypeOK, Owned, Proven, Of, Write, config, rows
<1>5. Isolated'
  BY DEF DispatchInv, TypeOK, Owned, Isolated, Settled, Eager, Write, config, rows
<1> QED
  BY <1>1, <1>2, <1>3, <1>4, <1>5 DEF DispatchInv

LEMMA DelaySynchronouslyKeeps ==
  ASSUME DispatchInv, NEW t \in Thread, DelaySynchronously(t)
  PROVE  DispatchInv'
<1>1. TypeOK'
  BY DEF DispatchInv, TypeOK, Counted, Phase, DataState, CallState, RowState, DelaySynchronously, config, rows, NewCall, Next1
<1>2. Counted'
  BY DEF DispatchInv, TypeOK, Counted, DelaySynchronously, config, rows, NewCall, Next1
<1>3. Owned'
  BY DEF DispatchInv, TypeOK, Owned, DelaySynchronously, config, rows, NewCall, Next1
<1>4. Proven'
  BY DEF DispatchInv, TypeOK, Owned, Proven, Of, DelaySynchronously, config, rows, NewCall, Next1
<1>5. Isolated'
  BY DEF DispatchInv, TypeOK, Owned, Isolated, Settled, Eager, DelaySynchronously, config, rows, NewCall, Next1
<1> QED
  BY <1>1, <1>2, <1>3, <1>4, <1>5 DEF DispatchInv

LEMMA RunInThreadKeeps ==
  ASSUME DispatchInv, NEW t \in Thread, RunInThread(t)
  PROVE  DispatchInv'
<1>1. TypeOK'
  BY DEF DispatchInv, TypeOK, Counted, Phase, DataState, CallState, RowState, RunInThread, config, rows, NewCall, Next1, StartsAt
<1>2. Counted'
  BY DEF DispatchInv, TypeOK, Counted, RunInThread, config, rows, NewCall, Next1, StartsAt
<1>3. Owned'
  BY DEF DispatchInv, TypeOK, Owned, RunInThread, config, rows, NewCall, Next1, StartsAt
<1>4. Proven'
  BY DEF DispatchInv, TypeOK, Owned, Proven, Of, RunInThread, config, rows, NewCall, Next1, StartsAt
<1>5. Isolated'
  <2>1. PICK c \in Call : call[c] = "new" /\ NewCall(t, c, StartsAt(t))
    BY DEF RunInThread, NewCall, Next1
  <2>2. /\ settings' = settings /\ inTx' = inTx /\ pc' = pc /\ data' = data
        /\ \A b \in Call \ {c} : call'[b] = call[b] /\ owner'[b] = owner[b]
        /\ call'[c] = StartsAt(t) /\ owner'[c] = t
    BY <2>1 DEF DispatchInv, TypeOK, RunInThread, NewCall, config
  <2>3. ASSUME ~Eager, call'[c] = "started"
        PROVE  data[t] \in {"none", "visible"} /\ ~inTx[t]
    <3>1. ~inTx[t]
      BY <2>2, <2>3 DEF StartsAt, Eager, RunInThread
    <3>2. data[t] \in DataState /\ pc[t] = "open"
      BY DEF DispatchInv, TypeOK, RunInThread
    <3> QED
      BY <3>1, <3>2 DEF DispatchInv, Isolated, DataState
  <2>4. call'[c] # "queued"
    BY <2>2 DEF StartsAt
  <2> QED
    BY <2>2, <2>3, <2>4 DEF DispatchInv, Isolated, Settled, Eager
<1> QED
  BY <1>1, <1>2, <1>3, <1>4, <1>5 DEF DispatchInv

LEMMA CreateTaskKeeps ==
  ASSUME DispatchInv, NEW t \in Thread, CreateTask(t)
  PROVE  DispatchInv'
<1>1. TypeOK'
  BY DEF DispatchInv, TypeOK, Counted, Phase, DataState, CallState, RowState, CreateTask, config, rows, NewCall, Next1, Go
<1>2. Counted'
  BY DEF DispatchInv, TypeOK, Counted, CreateTask, config, rows, NewCall, Next1, Go
<1>3. Owned'
  BY DEF DispatchInv, TypeOK, Owned, CreateTask, config, rows, NewCall, Next1, Go
<1>4. Proven'
  BY DEF DispatchInv, TypeOK, Owned, Proven, Of, CreateTask, config, rows, NewCall, Next1, Go
<1>5. Isolated'
  BY DEF DispatchInv, TypeOK, Owned, Isolated, Settled, Eager, CreateTask, config, rows, NewCall, Next1, Go
<1> QED
  BY <1>1, <1>2, <1>3, <1>4, <1>5 DEF DispatchInv

LEMMA SaveTaskKeeps ==
  ASSUME DispatchInv, NEW t \in Thread, SaveTask(t)
  PROVE  DispatchInv'
<1>1. TypeOK'
  BY DEF DispatchInv, TypeOK, Counted, Phase, DataState, CallState, RowState, SaveTask, config, rows, Become, Of, Go, Covered, WriteDb
<1>2. Counted'
  BY DEF DispatchInv, TypeOK, Counted, SaveTask, config, rows, Become, Of, Go, Covered, WriteDb
<1>3. Owned'
  BY DEF DispatchInv, TypeOK, Owned, SaveTask, config, rows, Become, Of, Go, Covered, WriteDb
<1>4. Proven'
  BY DEF DispatchInv, TypeOK, Owned, Proven, Of, SaveTask, config, rows, Become, Go, Covered, WriteDb
<1>5. Isolated'
  <2>1. /\ settings' = settings /\ inTx' = inTx /\ data' = data /\ owner' = owner
        /\ pc[t] = "saving" /\ pc'[t] = "open"
        /\ \A u \in Thread \ {t} : pc'[u] = pc[u]
    BY DEF DispatchInv, TypeOK, SaveTask, Go, config
  <2>2. \A c \in Call : call'[c] # call[c] =>
           owner[c] = t /\ call'[c] = IF Covered(t) THEN "pending" ELSE "queued"
    BY DEF SaveTask, Become, Of
  <2>3. ~Eager /\ ~Covered(t) => ~inTx[t]
    BY DEF Covered, WriteDb, Eager, DispatchInv, Isolated
  <2>4. data[t] \in {"written", "none", "visible"} /\ (data[t] = "written" => inTx[t])
    BY <2>1 DEF DispatchInv, TypeOK, Isolated, DataState
  <2>5. ASSUME NEW c \in Call, ~Eager, call'[c] \in {"queued", "started"}
        PROVE  /\ data[owner[c]] \in {"none", "visible"}
               /\ inTx[owner[c]] => Settled(owner[c]) /\ owner[c] # t
    <3>1. CASE call'[c] = call[c]
      BY <2>1, <2>5, <3>1 DEF DispatchInv, Isolated, Settled
    <3>2. CASE call'[c] # call[c]
      BY <2>2, <2>3, <2>4, <2>5, <3>2
    <3> QED
      BY <3>1, <3>2
  <2>6. \A c \in Call : call'[c] \in {"queued", "started"} => owner[c] \in Thread
    BY <2>2 DEF DispatchInv, TypeOK, Owned
  <2>7. \A u \in Thread : u # t /\ Settled(u) => Settled(u)'
    BY <2>1 DEF Settled
  <2> QED
    BY <2>1, <2>4, <2>5, <2>6, <2>7 DEF DispatchInv, Isolated, Eager
<1> QED
  BY <1>1, <1>2, <1>3, <1>4, <1>5 DEF DispatchInv

LEMMA CommitKeeps ==
  ASSUME DispatchInv, NEW t \in Thread, Commit(t)
  PROVE  DispatchInv'
<1>1. TypeOK'
  BY DEF DispatchInv, TypeOK, Counted, Phase, DataState, CallState, RowState, Commit, config, rows, Become, Of, Go
<1>2. Counted'
  BY DEF DispatchInv, TypeOK, Counted, Commit, config, rows, Become, Of, Go
<1>3. Owned'
  BY DEF DispatchInv, TypeOK, Owned, Commit, config, rows, Become, Of, Go
<1>4. Proven'
  BY DEF DispatchInv, TypeOK, Owned, Proven, Of, Commit, config, rows, Become, Go
<1>5. Isolated'
  BY DEF DispatchInv, TypeOK, Owned, Isolated, Settled, Eager, Commit, config, rows, Become, Of, Go
<1> QED
  BY <1>1, <1>2, <1>3, <1>4, <1>5 DEF DispatchInv

LEMMA RunHookKeeps ==
  ASSUME DispatchInv, NEW t \in Thread, RunHook(t)
  PROVE  DispatchInv'
<1>1. TypeOK'
  BY DEF DispatchInv, TypeOK, Counted, Phase, DataState, CallState, RowState, RunHook, config, rows, Become, Hooked, Of, Go
<1>2. Counted'
  BY DEF DispatchInv, TypeOK, Counted, RunHook, config, rows, Become, Hooked, Of, Go
<1>3. Owned'
  BY DEF DispatchInv, TypeOK, Owned, RunHook, config, rows, Become, Hooked, Of, Go
<1>4. Proven'
  BY DEF DispatchInv, TypeOK, Owned, Proven, Of, RunHook, config, rows, Become, Hooked, Go
<1>5. Isolated'
  <2>1. /\ settings' = settings /\ inTx' = inTx /\ data' = data /\ owner' = owner
        /\ pc[t] = "hooks" /\ pc'[t] \in {"hooks", "done"}
        /\ \A u \in Thread \ {t} : pc'[u] = pc[u]
    BY DEF DispatchInv, TypeOK, RunHook, Go, config
  <2>2. \A c \in Call : call'[c] # call[c] => owner[c] = t
    BY DEF RunHook, Become, Hooked, Of
  <2>3. data[t] \in {"none", "visible"}
    BY <2>1 DEF DispatchInv, TypeOK, Isolated, DataState
  <2>4. \A u \in Thread : u = t \/ Settled(u) => pc'[u] \in {"hooks", "done", "crashed"}
    BY <2>1 DEF Settled
  <2>5. ASSUME NEW c \in Call, ~Eager, call'[c] \in {"queued", "started"}
        PROVE  /\ data[owner[c]] \in {"none", "visible"}
               /\ inTx[owner[c]] => pc'[owner[c]] \in {"hooks", "done", "crashed"}
    <3>1. owner[c] = t \/ call'[c] = call[c]
      BY <2>2
    <3>2. CASE owner[c] = t
      BY <2>3, <2>4, <3>2
    <3>3. CASE call'[c] = call[c]
      <4>1. owner[c] \in Thread
        BY <2>5, <3>3 DEF DispatchInv, TypeOK, Owned
      <4> QED
        BY <2>4, <2>5, <3>3, <4>1 DEF DispatchInv, Isolated
    <3> QED
      BY <3>1, <3>2, <3>3
  <2> QED
    BY <2>1, <2>3, <2>5 DEF DispatchInv, Isolated, Eager, Settled
<1> QED
  BY <1>1, <1>2, <1>3, <1>4, <1>5 DEF DispatchInv

LEMMA HookFailsKeeps ==
  ASSUME DispatchInv, NEW t \in Thread, HookFails(t)
  PROVE  DispatchInv'
<1>1. TypeOK'
  BY DEF DispatchInv, TypeOK, Counted, Phase, DataState, CallState, RowState, HookFails, config, rows, Become, Hooked, Of, Go
<1>2. Counted'
  BY DEF DispatchInv, TypeOK, Counted, HookFails, config, rows, Become, Hooked, Of, Go
<1>3. Owned'
  BY DEF DispatchInv, TypeOK, Owned, HookFails, config, rows, Become, Hooked, Of, Go
<1>4. Proven'
  BY DEF DispatchInv, TypeOK, Owned, Proven, Of, HookFails, config, rows, Become, Hooked, Go
<1>5. Isolated'
  BY DEF DispatchInv, TypeOK, Owned, Isolated, Settled, Eager, HookFails, config, rows, Become, Hooked, Of, Go
<1> QED
  BY <1>1, <1>2, <1>3, <1>4, <1>5 DEF DispatchInv

LEMMA RollBackKeeps ==
  ASSUME DispatchInv, NEW t \in Thread, RollBack(t)
  PROVE  DispatchInv'
<1>1. TypeOK'
  BY DEF DispatchInv, TypeOK, Counted, Phase, DataState, CallState, RowState, RollBack, config, rows, Undo, Become, Of, Go
<1>2. Counted'
  BY DEF DispatchInv, TypeOK, Counted, RollBack, config, rows, Undo, Become, Of, Go
<1>3. Owned'
  BY DEF DispatchInv, TypeOK, Owned, RollBack, config, rows, Undo, Become, Of, Go
<1>4. Proven'
  BY DEF DispatchInv, TypeOK, Owned, Proven, Of, RollBack, config, rows, Undo, Become, Go
<1>5. Isolated'
  BY DEF DispatchInv, TypeOK, Owned, Isolated, Settled, Eager, RollBack, config, rows, Undo, Become, Of, Go
<1> QED
  BY <1>1, <1>2, <1>3, <1>4, <1>5 DEF DispatchInv

LEMMA CrashKeeps ==
  ASSUME DispatchInv, NEW t \in Thread, Crash(t)
  PROVE  DispatchInv'
<1>1. TypeOK'
  BY DEF DispatchInv, TypeOK, Counted, Phase, DataState, CallState, RowState, Crash, config, rows, Go
<1>2. Counted'
  BY DEF DispatchInv, TypeOK, Counted, Crash, config, rows, Go
<1>3. Owned'
  BY DEF DispatchInv, TypeOK, Owned, Crash, config, rows, Go
<1>4. Proven'
  BY DEF DispatchInv, TypeOK, Owned, Proven, Of, Crash, config, rows, Go
<1>5. Isolated'
  BY DEF DispatchInv, TypeOK, Owned, Isolated, Settled, Eager, Crash, config, rows, Go
<1> QED
  BY <1>1, <1>2, <1>3, <1>4, <1>5 DEF DispatchInv

LEMMA ProbeKeeps ==
  ASSUME DispatchInv, NEW t \in Thread, Probe(t)
  PROVE  DispatchInv'
<1>1. TypeOK'
  BY DEF DispatchInv, TypeOK, Counted, Phase, DataState, CallState, RowState, Probe, config, rows, NewCall, Next1, Go
<1>2. Counted'
  BY DEF DispatchInv, TypeOK, Counted, Probe, config, rows, NewCall, Next1, Go
<1>3. Owned'
  BY DEF DispatchInv, TypeOK, Owned, Probe, config, rows, NewCall, Next1, Go
<1>4. Proven'
  BY DEF DispatchInv, TypeOK, Owned, Proven, Of, Probe, config, rows, NewCall, Next1, Go
<1>5. Isolated'
  BY DEF DispatchInv, TypeOK, Owned, Isolated, Settled, Eager, Probe, config, rows, NewCall, Next1, Go
<1> QED
  BY <1>1, <1>2, <1>3, <1>4, <1>5 DEF DispatchInv

LEMMA PollKeeps ==
  ASSUME DispatchInv, NEW t \in Thread, Poll(t)
  PROVE  DispatchInv'
<1>1. TypeOK'
  BY DEF DispatchInv, TypeOK, Counted, Phase, DataState, CallState, RowState, Poll, config, rows, Go, Mine, Of, LastTry
<1>2. Counted'
  BY DEF DispatchInv, TypeOK, Counted, Poll, config, rows, Go, Mine, Of, LastTry
<1>3. Owned'
  BY DEF DispatchInv, TypeOK, Owned, Poll, config, rows, Go, Mine, Of, LastTry
<1>4. Proven'
  BY DEF DispatchInv, TypeOK, Owned, Proven, Of, Poll, config, rows, Go, Mine, LastTry
<1>5. Isolated'
  BY DEF DispatchInv, TypeOK, Owned, Isolated, Settled, Eager, Poll, config, rows, Go, Mine, Of, LastTry
<1> QED
  BY <1>1, <1>2, <1>3, <1>4, <1>5 DEF DispatchInv

LEMMA AnswerKeeps ==
  ASSUME DispatchInv, NEW t \in Thread, Answer(t)
  PROVE  DispatchInv'
<1>1. TypeOK'
  BY DEF DispatchInv, TypeOK, Counted, Phase, DataState, CallState, RowState, Answer, config, rows, Go, Removed, Of
<1>2. Counted'
  BY DEF DispatchInv, TypeOK, Counted, Answer, config, rows, Go, Removed, Of
<1>3. Owned'
  BY DEF DispatchInv, TypeOK, Owned, Answer, config, rows, Go, Removed, Of
<1>4. Proven'
  BY DEF DispatchInv, TypeOK, Owned, Proven, Of, Answer, config, rows, Go, Removed
<1>5. Isolated'
  BY DEF DispatchInv, TypeOK, Owned, Isolated, Settled, Eager, Answer, config, rows, Go, Removed, Of
<1> QED
  BY <1>1, <1>2, <1>3, <1>4, <1>5 DEF DispatchInv

LEMMA ThreadRunsKeeps ==
  ASSUME DispatchInv, NEW c \in Call, ThreadRuns(c)
  PROVE  DispatchInv'
<1>1. TypeOK'
  BY DEF DispatchInv, TypeOK, Counted, Phase, DataState, CallState, RowState, ThreadRuns, config, rows, Become
<1>2. Counted'
  BY DEF DispatchInv, TypeOK, Counted, ThreadRuns, config, rows, Become
<1>3. Owned'
  BY DEF DispatchInv, TypeOK, Owned, ThreadRuns, config, rows, Become
<1>4. Proven'
  BY DEF DispatchInv, TypeOK, Owned, Proven, Of, ThreadRuns, config, rows, Become
<1>5. Isolated'
  BY DEF DispatchInv, TypeOK, Owned, Isolated, Settled, Eager, ThreadRuns, config, rows, Become
<1> QED
  BY <1>1, <1>2, <1>3, <1>4, <1>5 DEF DispatchInv

LEMMA TaskSucceedsKeeps ==
  ASSUME DispatchInv, NEW c \in Call, TaskSucceeds(c)
  PROVE  DispatchInv'
<1>1. TypeOK'
  BY DEF DispatchInv, TypeOK, Counted, Phase, DataState, CallState, RowState, TaskSucceeds, config, rows, Due, Become, NewProof
<1>2. Counted'
  BY DEF DispatchInv, TypeOK, Counted, TaskSucceeds, config, rows, Due, Become, NewProof
<1>3. Owned'
  BY DEF DispatchInv, TypeOK, Owned, TaskSucceeds, config, rows, Due, Become, NewProof
<1>4. Proven'
  BY DEF DispatchInv, TypeOK, Owned, Proven, Of, TaskSucceeds, config, rows, Due, Become, NewProof
<1>5. Isolated'
  BY DEF DispatchInv, TypeOK, Owned, Isolated, Settled, Eager, TaskSucceeds, config, rows, Due, Become, NewProof
<1> QED
  BY <1>1, <1>2, <1>3, <1>4, <1>5 DEF DispatchInv

LEMMA TaskFailsKeeps ==
  ASSUME DispatchInv, NEW c \in Call, TaskFails(c)
  PROVE  DispatchInv'
<1>1. TypeOK'
  BY DEF DispatchInv, TypeOK, Counted, Phase, DataState, CallState, RowState, TaskFails, config, rows, Due, Fails, Become
<1>2. Counted'
  BY DEF DispatchInv, TypeOK, Counted, TaskFails, config, rows, Due, Fails, Become
<1>3. Owned'
  BY DEF DispatchInv, TypeOK, Owned, TaskFails, config, rows, Due, Fails, Become
<1>4. Proven'
  BY DEF DispatchInv, TypeOK, Owned, Proven, Of, TaskFails, config, rows, Due, Fails, Become
<1>5. Isolated'
  BY DEF DispatchInv, TypeOK, Owned, Isolated, Settled, Eager, TaskFails, config, rows, Due, Fails, Become
<1> QED
  BY <1>1, <1>2, <1>3, <1>4, <1>5 DEF DispatchInv

LEMMA TaskTimesOutKeeps ==
  ASSUME DispatchInv, NEW c \in Call, TaskTimesOut(c)
  PROVE  DispatchInv'
<1>1. TypeOK'
  BY DEF DispatchInv, TypeOK, Counted, Phase, DataState, CallState, RowState, TaskTimesOut, config, rows, Due, Fails, Become
<1>2. Counted'
  BY DEF DispatchInv, TypeOK, Counted, TaskTimesOut, config, rows, Due, Fails, Become
<1>3. Owned'
  BY DEF DispatchInv, TypeOK, Owned, TaskTimesOut, config, rows, Due, Fails, Become
<1>4. Proven'
  BY DEF DispatchInv, TypeOK, Owned, Proven, Of, TaskTimesOut, config, rows, Due, Fails, Become
<1>5. Isolated'
  BY DEF DispatchInv, TypeOK, Owned, Isolated, Settled, Eager, TaskTimesOut, config, rows, Due, Fails, Become
<1> QED
  BY <1>1, <1>2, <1>3, <1>4, <1>5 DEF DispatchInv

LEMMA LateEndKeeps ==
  ASSUME DispatchInv, NEW c \in Call, LateEnd(c)
  PROVE  DispatchInv'
<1>1. TypeOK'
  BY DEF DispatchInv, TypeOK, Counted, Phase, DataState, CallState, RowState, LateEnd, config, rows, NewProof
<1>2. Counted'
  BY DEF DispatchInv, TypeOK, Counted, LateEnd, config, rows, NewProof
<1>3. Owned'
  BY DEF DispatchInv, TypeOK, Owned, LateEnd, config, rows, NewProof
<1>4. Proven'
  BY DEF DispatchInv, TypeOK, Owned, Proven, Of, LateEnd, config, rows, NewProof
<1>5. Isolated'
  BY DEF DispatchInv, TypeOK, Owned, Isolated, Settled, Eager, LateEnd, config, rows, NewProof
<1> QED
  BY <1>1, <1>2, <1>3, <1>4, <1>5 DEF DispatchInv


-----------------------------------------------------------------------------
LEMMA StepInv == DispatchInv /\ [Next]_vars => DispatchInv'
<1> SUFFICES ASSUME DispatchInv, [Next]_vars PROVE DispatchInv'
  OBVIOUS
<1>1. ASSUME NEW t \in Thread,
             \/ Write(t) \/ Delay(t) \/ SaveTask(t) \/ Ends(t)
             \/ RunHook(t) \/ HookFails(t) \/ Crash(t) \/ Checks(t)
      PROVE  DispatchInv'
  BY <1>1, WriteKeeps, DelaySynchronouslyKeeps, RunInThreadKeeps, CreateTaskKeeps,
     SaveTaskKeeps, CommitKeeps, RollBackKeeps, RunHookKeeps, HookFailsKeeps,
     CrashKeeps, ProbeKeeps, PollKeeps, AnswerKeeps DEF Delay, Ends, Checks
<1>2. ASSUME NEW c \in Call, Works(c) \/ LateEnd(c)
      PROVE  DispatchInv'
  BY <1>2, ThreadRunsKeeps, TaskSucceedsKeeps, TaskFailsKeeps, TaskTimesOutKeeps,
     LateEndKeeps DEF Works
<1>3. CASE UNCHANGED vars
  BY <1>3 DEF vars, config, rows, DispatchInv, TypeOK, Counted, Owned, Proven, Of,
              Isolated, Settled, Eager
<1> QED
  BY <1>1, <1>2, <1>3 DEF Next

LEMMA DispatchInvariant == Spec => []DispatchInv
  BY InitInv, StepInv, PTL DEF Spec

\* Settings, calls, threads and rows keep their types; no probe asks more than
\* MaxTries times and no task fails more than MaxFailures times.
THEOREM TypeCorrect == Spec => []TypeOK
<1>1. DispatchInv => TypeOK
  BY DEF DispatchInv
<1> QED
  BY <1>1, DispatchInvariant, PTL

\* A healthy answer is about the check's own task, however many checks run.
THEOREM HealthIsOwnHealth == Spec => []HealthyIsOwn
<1>1. DispatchInv => HealthyIsOwn
  BY DEF DispatchInv, Proven, HealthyIsOwn
<1> QED
  BY <1>1, DispatchInvariant, PTL

-----------------------------------------------------------------------------
\* A task that starts to run has a caller whose data is decided: the functions
\* are called by the caller itself, a thread, or the processor.
LEMMA RunsIsolated ==
  ASSUME DispatchInv, [Next]_vars, NEW c \in Call,
         call'[c] = "ran", call[c] # "ran", ~Eager
  PROVE  data[owner[c]] \notin {"written", "undone"}
<1>1. call[c] \in {"queued", "started"}
  <2>1. ASSUME NEW t \in Thread,
               \/ Write(t) \/ Delay(t) \/ SaveTask(t) \/ Ends(t)
               \/ RunHook(t) \/ HookFails(t) \/ Crash(t) \/ Checks(t)
        PROVE  FALSE
    <3>1. CASE Write(t) \/ Poll(t) \/ Answer(t)
      BY <3>1 DEF Write, Poll, Answer
    <3>2. CASE Delay(t)
      BY <3>2 DEF Delay, DelaySynchronously, RunInThread, CreateTask, NewCall, Next1,
                  StartsAt, Eager, DispatchInv, TypeOK
    <3>3. CASE SaveTask(t) \/ Commit(t)
      BY <3>3 DEF SaveTask, Commit, Become
    <3>4. CASE RollBack(t)
      BY <3>4 DEF RollBack, Undo, Become
    <3>5. CASE RunHook(t) \/ HookFails(t)
      BY <3>5 DEF RunHook, HookFails, Become
    <3>6. CASE Crash(t)
      BY <3>6 DEF Crash
    <3>7. CASE Probe(t)
      BY <3>7 DEF Probe, NewCall, DispatchInv, TypeOK
    <3> QED
      BY <2>1, <3>1, <3>2, <3>3, <3>4, <3>5, <3>6, <3>7 DEF Ends, Checks
  <2>2. ASSUME NEW b \in Call, Works(b) \/ LateEnd(b)
        PROVE  call[c] \in {"queued", "started"}
    BY <2>2 DEF Works, ThreadRuns, TaskSucceeds, TaskFails, TaskTimesOut, LateEnd,
                Fails, Become, Due
  <2>3. CASE UNCHANGED vars
    BY <2>3 DEF vars
  <2> QED
    BY <2>1, <2>2, <2>3 DEF Next
<1> QED
  BY <1>1 DEF DispatchInv, Isolated

\* Unless the settings ask for it, no task runs ahead of its caller's
\* transaction or after its rollback, whatever crashes on either side.
THEOREM TasksWaitForCommit == Spec => NeverRunsAhead
<1> DEFINE Step == \A c \in Call :
              (call'[c] = "ran" /\ call[c] # "ran" /\ ~Eager)
                 => data[owner[c]] \notin {"written", "undone"}
<1>1. DispatchInv /\ [Next]_vars => [Step]_vars
  BY RunsIsolated
<1> QED
  BY <1>1, DispatchInvariant, PTL DEF Spec, NeverRunsAhead
-----------------------------------------------------------------------------
(* The health check cleans up: what a probe reads, writes and deletes is the *)
(* row of the one task it delayed.                                           *)

Single ==
    \A t \in Thread :
       /\ pc[t] = "probe" => Of(t) = {}
       /\ pc[t] \in {"polling", "found", "healthy"} => \A b, c \in Of(t) : b = c

Answered ==
    \A t \in Thread : pc[t] \in {"found", "healthy"} =>
       \A c \in Of(t) : proof[c] # "none"

\* A row that no late attempt can have written was written by the success.
WrittenOnce ==
    \A c \in Call : /\ alive[c] > 0 => fails[c] > 0
                    /\ proof[c] # "none" /\ fails[c] = 0 => call[c] = "ran"

CleanInv == Single /\ Answered /\ WrittenOnce /\ ProbesCleanUp

\* A step that touches neither the rows nor the probes disturbs nothing.
LEMMA OthersClean ==
  ASSUME DispatchInv, CleanInv, UNCHANGED <<owner, rows>>,
         \A c \in Call : call[c] = "ran" => call'[c] = "ran",
         \A t \in Thread : pc'[t] \in {"probe", "polling", "found", "healthy"} =>
                              pc'[t] = pc[t]
  PROVE  CleanInv'
  BY DEF CleanInv, Single, Answered, WrittenOnce, ProbesCleanUp, Of, rows

\* A new call of a thread that serves a request.
LEMMA NewCallClean ==
  ASSUME DispatchInv, CleanInv, NEW t \in Thread, NEW c \in Call, NEW s \in CallState,
         NewCall(t, c, s), pc[t] = "open", UNCHANGED rows,
         \A u \in Thread : pc'[u] \in {"probe", "polling", "found", "healthy"} =>
                              u # t /\ pc'[u] = pc[u]
  PROVE  CleanInv'
<1>1. /\ owner' = [owner EXCEPT ![c] = t] /\ call' = [call EXCEPT ![c] = s]
      /\ call[c] = "new" /\ UNCHANGED <<alive, fails, proof>>
  BY DEF NewCall, Next1, rows
<1>2. owner \in [Call -> Thread \cup {None}] /\ call \in [Call -> CallState]
  BY DEF DispatchInv, TypeOK
<1>3. Single'
  BY <1>1, <1>2 DEF CleanInv, Single, Of
<1>4. Answered'
  BY <1>1, <1>2 DEF CleanInv, Answered, Of
<1>5. WrittenOnce'
  BY <1>1, <1>2 DEF CleanInv, WrittenOnce
<1>6. ProbesCleanUp'
  BY <1>1, <1>2 DEF CleanInv, ProbesCleanUp
<1> QED
  BY <1>3, <1>4, <1>5, <1>6 DEF CleanInv

LEMMA ProbeClean ==
  ASSUME DispatchInv, CleanInv, NEW t \in Thread, Probe(t)
  PROVE  CleanInv'
<1>1. PICK c \in Call : NewCall(t, c, "queued")
  BY DEF Probe
<1>2. /\ owner' = [owner EXCEPT ![c] = t] /\ call' = [call EXCEPT ![c] = "queued"]
      /\ call[c] = "new" /\ pc[t] = "probe" /\ pc' = [pc EXCEPT ![t] = "polling"]
      /\ UNCHANGED <<alive, fails, proof>>
  BY <1>1 DEF Probe, NewCall, Next1, Go, rows
<1>3. owner \in [Call -> Thread \cup {None}] /\ call \in [Call -> CallState]
      /\ pc \in [Thread -> Phase]
  BY DEF DispatchInv, TypeOK
<1>4. Single'
  BY <1>2, <1>3 DEF CleanInv, Single, Of
<1>5. Answered'
  BY <1>2, <1>3 DEF CleanInv, Answered, Of
<1>6. WrittenOnce'
  BY <1>2, <1>3 DEF CleanInv, WrittenOnce
<1>7. ProbesCleanUp'
  BY <1>2, <1>3 DEF CleanInv, ProbesCleanUp
<1> QED
  BY <1>4, <1>5, <1>6, <1>7 DEF CleanInv

LEMMA PollClean ==
  ASSUME DispatchInv, CleanInv, NEW t \in Thread, Poll(t)
  PROVE  CleanInv'
<1>1. /\ pc[t] = "polling" /\ pc' = [pc EXCEPT ![t] = pc'[t]]
      /\ pc'[t] \in {"polling", "found", "unhealthy"}
      /\ pc'[t] = "found" => \E c \in Of(t) : proof[c] = "there"
      /\ UNCHANGED <<owner, call, alive, fails, proof>>
  BY DEF DispatchInv, TypeOK, Poll, Go, Mine, rows
<1>2. pc \in [Thread -> Phase]
  BY DEF DispatchInv, TypeOK
<1>3. Single'
  BY <1>1, <1>2 DEF CleanInv, Single, Of
<1>4. Answered'
  BY <1>1, <1>2 DEF CleanInv, Single, Answered, Of
<1>5. WrittenOnce' /\ ProbesCleanUp'
  BY <1>1, <1>2 DEF CleanInv, WrittenOnce, ProbesCleanUp
<1> QED
  BY <1>3, <1>4, <1>5 DEF CleanInv

LEMMA AnswerClean ==
  ASSUME DispatchInv, CleanInv, NEW t \in Thread, Answer(t)
  PROVE  CleanInv'
<1>1. /\ pc[t] = "found" /\ pc' = [pc EXCEPT ![t] = "healthy"]
      /\ UNCHANGED <<owner, call, alive, fails>>
      /\ \A c \in Call : proof'[c] = IF owner[c] = t /\ proof[c] = "there"
                                     THEN "deleted" ELSE proof[c]
  BY DEF Answer, Go, Mine, Removed, Of
<1>2. pc \in [Thread -> Phase]
  BY DEF DispatchInv, TypeOK
<1>3. Single'
  BY <1>1, <1>2 DEF CleanInv, Single, Of
<1>4. Answered'
  BY <1>1, <1>2 DEF CleanInv, Answered, Of
<1>5. WrittenOnce'
  BY <1>1, <1>2 DEF CleanInv, WrittenOnce
<1>6. ProbesCleanUp'
  BY <1>1, <1>2 DEF CleanInv, ProbesCleanUp
<1> QED
  BY <1>3, <1>4, <1>5, <1>6 DEF CleanInv

LEMMA TaskSucceedsClean ==
  ASSUME DispatchInv, CleanInv, NEW c \in Call, TaskSucceeds(c)
  PROVE  CleanInv'
<1>1. call[c] = "queued" /\ UNCHANGED <<pc, owner, alive, fails>>
  BY DEF TaskSucceeds, Due
<1>2. call'[c] = "ran" /\ \A b \in Call \ {c} : call'[b] = call[b]
  BY DEF TaskSucceeds, Become
<1>3. /\ \A b \in Call \ {c} : proof'[b] = proof[b]
      /\ proof'[c] = "there" \/ proof'[c] = proof[c]
  BY DEF DispatchInv, TypeOK, TaskSucceeds, NewProof
<1>4. Single'
  BY <1>1 DEF CleanInv, Single, Of
<1>5. Answered'
  BY <1>1, <1>3 DEF CleanInv, Answered, Of
<1>6. WrittenOnce'
  BY <1>1, <1>2, <1>3 DEF CleanInv, WrittenOnce
<1>7. ProbesCleanUp'
  <2>1. ASSUME NEW t \in Thread, pc[t] = "healthy", owner[c] = t PROVE fails[c] > 0
    <3>1. proof[c] # "none"
      BY <2>1 DEF CleanInv, Answered, Of
    <3>2. fails[c] \in Nat /\ fails[c] # 0
      BY <1>1, <3>1 DEF CleanInv, WrittenOnce, DispatchInv, TypeOK
    <3> QED
      BY <3>2
  <2> QED
    BY <1>1, <1>3, <2>1 DEF CleanInv, ProbesCleanUp
<1> QED
  BY <1>4, <1>5, <1>6, <1>7 DEF CleanInv

LEMMA FailureClean ==
  ASSUME DispatchInv, CleanInv, NEW c \in Call, TaskFails(c) \/ TaskTimesOut(c)
  PROVE  CleanInv'
<1>1. /\ call[c] = "queued" /\ \A b \in Call \ {c} : call'[b] = call[b]
      /\ fails' = [fails EXCEPT ![c] = @ + 1]
      /\ \A b \in Call \ {c} : alive'[b] = alive[b]
      /\ UNCHANGED <<pc, owner, proof>>
  BY DEF DispatchInv, TypeOK, TaskFails, TaskTimesOut, Due, Fails, Become
<1>2. fails \in [Call -> Nat] /\ fails'[c] > 0
  BY <1>1 DEF DispatchInv, TypeOK
<1>3. Single' /\ Answered'
  BY <1>1 DEF CleanInv, Single, Answered, Of
<1>4. WrittenOnce'
  BY <1>1, <1>2 DEF CleanInv, WrittenOnce
<1>5. ProbesCleanUp'
  BY <1>1, <1>2 DEF CleanInv, ProbesCleanUp
<1> QED
  BY <1>3, <1>4, <1>5 DEF CleanInv

LEMMA LateEndClean ==
  ASSUME DispatchInv, CleanInv, NEW c \in Call, LateEnd(c)
  PROVE  CleanInv'
<1>1. /\ fails[c] > 0 /\ alive' = [alive EXCEPT ![c] = @ - 1]
      /\ \A b \in Call \ {c} : proof'[b] = proof[b]
      /\ proof'[c] = "there" \/ proof'[c] = proof[c]
      /\ UNCHANGED <<pc, owner, call, fails>>
  BY DEF DispatchInv, TypeOK, CleanInv, WrittenOnce, LateEnd, NewProof
<1>2. alive \in [Call -> Nat] /\ fails \in [Call -> Nat]
  BY DEF DispatchInv, TypeOK
<1>3. Single' /\ Answered'
  BY <1>1 DEF CleanInv, Single, Answered, Of
<1>4. WrittenOnce'
  BY <1>1, <1>2 DEF CleanInv, WrittenOnce
<1>5. ProbesCleanUp'
  BY <1>1, <1>2 DEF CleanInv, ProbesCleanUp
<1> QED
  BY <1>3, <1>4, <1>5 DEF CleanInv

LEMMA StepClean == DispatchInv /\ CleanInv /\ [Next]_vars => CleanInv'
<1> SUFFICES ASSUME DispatchInv, CleanInv, [Next]_vars PROVE CleanInv'
  OBVIOUS
<1> DEFINE Probing == {"probe", "polling", "found", "healthy"}
<1>1. ASSUME NEW t \in Thread,
             \/ Write(t) \/ SaveTask(t) \/ Ends(t) \/ RunHook(t) \/ HookFails(t)
             \/ Crash(t)
      PROVE  CleanInv'
  <2>1. UNCHANGED <<owner, rows>>
    BY <1>1 DEF Write, SaveTask, Ends, Commit, RollBack, RunHook, HookFails, Crash
  <2>2. \A c \in Call : call[c] = "ran" => call'[c] = "ran"
    BY <1>1 DEF Write, SaveTask, Ends, Commit, RollBack, Undo, RunHook, Hooked, HookFails,
                Crash, Become
  <2>3. \A u \in Thread : pc'[u] \in Probing => pc'[u] = pc[u]
    <3>1. pc' = pc \/ \E p \in {"open", "hooks", "done", "crashed"} : Go(t, p)
      BY <1>1 DEF Write, SaveTask, Ends, Commit, RollBack, RunHook, HookFails, Crash
    <3> QED
      BY <3>1 DEF Go, DispatchInv, TypeOK
  <2> QED
    BY <2>1, <2>2, <2>3, OthersClean
<1>2. ASSUME NEW t \in Thread, Delay(t) PROVE CleanInv'
  <2>1. PICK c \in Call, s \in CallState : NewCall(t, c, s)
    BY <1>2 DEF Delay, DelaySynchronously, RunInThread, CreateTask, StartsAt, CallState
  <2>2. /\ pc[t] = "open" /\ UNCHANGED rows
        /\ \A u \in Thread : pc'[u] \in Probing => u # t /\ pc'[u] = pc[u]
    BY <1>2 DEF Delay, DelaySynchronously, RunInThread, CreateTask, Go, DispatchInv, TypeOK
  <2> QED
    BY <2>1, <2>2, NewCallClean
<1>3. ASSUME NEW t \in Thread, Checks(t) PROVE CleanInv'
  BY <1>3, ProbeClean, PollClean, AnswerClean DEF Checks
<1>4. ASSUME NEW c \in Call, Works(c) \/ LateEnd(c) PROVE CleanInv'
  <2>1. CASE ThreadRuns(c)
    BY <2>1, OthersClean DEF ThreadRuns, Become
  <2> QED
    BY <1>4, <2>1, TaskSucceedsClean, FailureClean, LateEndClean DEF Works
<1>5. CASE UNCHANGED vars
  BY <1>5, OthersClean DEF vars
<1> QED
  BY <1>1, <1>2, <1>3, <1>4, <1>5 DEF Next

\* A health check that answers leaves no row behind, however many checks and
\* late attempts run beside it, unless an attempt at its own task had failed.
THEOREM ProbesLeaveNoRow == Spec => []ProbesCleanUp
<1>1. Init => CleanInv
  <2> SUFFICES ASSUME Init PROVE CleanInv
    OBVIOUS
  <2>1. \A t \in Thread : Of(t) = {}
    BY DEF Init, Of
  <2>2. \A c \in Call : alive[c] = 0 /\ proof[c] = "none"
    BY DEF Init
  <2> QED
    BY <2>1, <2>2 DEF CleanInv, Single, Answered, WrittenOnce, ProbesCleanUp
<1>2. CleanInv => ProbesCleanUp
  BY DEF CleanInv
<1> QED
  BY <1>1, <1>2, StepClean, DispatchInvariant, PTL DEF Spec
-----------------------------------------------------------------------------
(* The limit of the queue: create() checks it before save() inserts, so what *)
(* is bounded is what waits or is about to.                                  *)

Callers    == {t \in Thread : role[t] = "request"}
Waiting(t) == {c \in Of(t) : call[c] \in {"built", "pending", "queued"}}

\* A caller past the check holds one instance, which it saves next.
Building ==
    /\ \A c \in Call : call[c] = "built" => pc[owner[c]] = "saving"
    /\ \A b, c \in Call :
          call[b] = "built" /\ call[c] = "built" /\ owner[b] = owner[c] => b = c

Held == \A c \in Call : call[c] = "pending" => Covered(owner[c])

ProbesApart == \A t \in Thread : pc[t] = "probe" => role[t] = "probe"

Bounds ==
    /\ \A t \in Callers : Cardinality(Waiting(t)) <= QueueSize + 1
    /\ (\A t \in Callers : ~Covered(t)) =>
          Cardinality(UNION {Waiting(t) : t \in Callers})
             <= QueueSize + Cardinality(Callers)

QueueInv == Building /\ Held /\ ProbesApart /\ Bounds

LEMMA FiniteCalls ==
  ASSUME NEW S \in SUBSET Call
  PROVE  IsFiniteSet(S) /\ Cardinality(S) \in Nat
<1>1. IsFiniteSet(Call)
  BY FS_Interval DEF Call
<1> QED
  BY <1>1, FS_Subset, FS_CardinalityType

LEMMA Smaller ==
  ASSUME NEW S \in SUBSET Call, NEW T \in SUBSET S
  PROVE  /\ Cardinality(S) \in Nat /\ Cardinality(T) \in Nat
         /\ Cardinality(T) <= Cardinality(S)
<1>1. IsFiniteSet(S) /\ Cardinality(S) \in Nat /\ Cardinality(T) \in Nat
  BY FiniteCalls
<1> QED
  BY <1>1, FS_Subset

LEMMA BoundsShrink ==
  ASSUME DispatchInv, IsFiniteSet(Thread), Bounds, UNCHANGED config,
         \A t \in Callers : Waiting(t)' \subseteq Waiting(t)
  PROVE  Bounds'
<1>1. Callers' = Callers /\ \A t \in Thread : Covered(t)' = Covered(t)
  BY DEF config, Callers, Covered, WriteDb
<1>2. QueueSize \in Nat /\ Cardinality(Callers) \in Nat
  <2>1. Callers \in SUBSET Thread
    BY DEF Callers
  <2> QED
    BY <2>1, FS_Subset, FS_CardinalityType
<1>3. \A t \in Callers : Cardinality(Waiting(t)') <= QueueSize + 1
  <2> SUFFICES ASSUME NEW t \in Callers
               PROVE  Cardinality(Waiting(t)') <= QueueSize + 1
    OBVIOUS
  <2>1. Waiting(t) \in SUBSET Call /\ Waiting(t)' \in SUBSET Waiting(t)
    BY DEF Waiting, Of
  <2>2. /\ Cardinality(Waiting(t)) \in Nat /\ Cardinality(Waiting(t)') \in Nat
        /\ Cardinality(Waiting(t)') <= Cardinality(Waiting(t))
    BY <2>1, Smaller
  <2>3. Cardinality(Waiting(t)) <= QueueSize + 1
    BY DEF Bounds
  <2> QED
    BY <1>2, <2>2, <2>3
<1>4. ASSUME \A t \in Callers : ~Covered(t)
      PROVE  Cardinality(UNION {Waiting(t)' : t \in Callers})
                <= QueueSize + Cardinality(Callers)
  <2> DEFINE Old == UNION {Waiting(t) : t \in Callers}
             New == UNION {Waiting(t)' : t \in Callers}
  <2>1. Old \in SUBSET Call /\ New \in SUBSET Old
    BY DEF Waiting, Of
  <2>2. /\ Cardinality(Old) \in Nat /\ Cardinality(New) \in Nat
        /\ Cardinality(New) <= Cardinality(Old)
    BY <2>1, Smaller
  <2>3. Cardinality(Old) <= QueueSize + Cardinality(Callers)
    BY <1>4 DEF Bounds
  <2> QED
    BY <1>2, <2>2, <2>3
<1>5. (\A t \in Callers : ~Covered(t))' => \A t \in Callers : ~Covered(t)
  BY <1>1 DEF Callers
<1> QED
  BY <1>1, <1>3, <1>4, <1>5 DEF Bounds

\* No call is made: rows only move along, or go.
LEMMA QueueMovesOn ==
  ASSUME DispatchInv, IsFiniteSet(Thread), QueueInv, UNCHANGED <<config, owner>>,
         \A c \in Call :
            /\ call'[c] = "built" => call[c] = "built" /\ pc'[owner[c]] = "saving"
            /\ call'[c] = "pending" => \/ call[c] = "pending"
                                       \/ call[c] = "built" /\ Covered(owner[c])
            /\ call'[c] = "queued" => call[c] \in {"built", "pending", "queued"},
         \A t \in Thread : pc'[t] = "probe" => pc[t] = "probe"
  PROVE  QueueInv'
<1>1. Building' /\ ProbesApart'
  BY DEF QueueInv, Building, ProbesApart, config
<1>2. Held'
  BY DEF QueueInv, Held, Covered, WriteDb, config
<1>3. \A t \in Callers : Waiting(t)' \subseteq Waiting(t)
  BY DEF Waiting, Of
<1> QED
  BY <1>1, <1>2, <1>3, BoundsShrink DEF QueueInv

\* A call that is no row of a caller.
LEMMA QueueUntouched ==
  ASSUME DispatchInv, IsFiniteSet(Thread), QueueInv, UNCHANGED config,
         NEW t \in Thread, NEW c \in Call, NEW s, NewCall(t, c, s),
         \/ s \in {"ran", "hooked", "started"}
         \/ s = "queued" /\ t \notin Callers,
         \A u \in Thread : \/ pc'[u] = pc[u]
                           \/ pc[u] = "probe" /\ pc'[u] = "polling"
  PROVE  QueueInv'
<1>1. /\ owner' = [owner EXCEPT ![c] = t] /\ call' = [call EXCEPT ![c] = s]
      /\ call[c] = "new"
  BY DEF NewCall, Next1
<1>2. owner \in [Call -> Thread \cup {None}] /\ call \in [Call -> CallState]
  BY DEF DispatchInv, TypeOK
<1>3. \A b \in Call : call[b] # "new" => owner[b] \in Thread
  BY <1>2 DEF DispatchInv, Owned
<1>4. Building' /\ ProbesApart'
  BY <1>1, <1>2, <1>3 DEF QueueInv, Building, ProbesApart, config
<1>5. Held'
  BY <1>1, <1>2 DEF QueueInv, Held, Covered, WriteDb, config
<1>6. \A u \in Callers : Waiting(u)' \subseteq Waiting(u)
  BY <1>1, <1>2 DEF Waiting, Of
<1> QED
  BY <1>4, <1>5, <1>6, BoundsShrink DEF QueueInv

\* The one step that lets a row in: its caller saw no more than queue_size.
LEMMA CreateTaskBounded ==
  ASSUME DispatchInv, IsFiniteSet(Thread), QueueInv, NEW t \in Thread, CreateTask(t)
  PROVE  QueueInv'
<1>1. PICK c \in Call : NewCall(t, c, "built")
  BY DEF CreateTask
<1>2. /\ owner' = [owner EXCEPT ![c] = t] /\ call' = [call EXCEPT ![c] = "built"]
      /\ call[c] = "new"
      /\ pc[t] = "open" /\ pc' = [pc EXCEPT ![t] = "saving"] /\ UNCHANGED config
  BY <1>1 DEF CreateTask, NewCall, Next1, Go
<1>3. /\ owner \in [Call -> Thread \cup {None}] /\ call \in [Call -> CallState]
      /\ pc \in [Thread -> Phase]
  BY DEF DispatchInv, TypeOK
<1>4. \A b \in Call : call[b] # "new" => owner[b] \in Thread
  BY <1>3 DEF DispatchInv, Owned
<1>5. \A b \in Call : call[b] = "built" => owner[b] # t
  BY <1>2 DEF QueueInv, Building
<1>6. Building'
  BY <1>2, <1>3, <1>4, <1>5 DEF QueueInv, Building
<1>7. ProbesApart' /\ Held'
  BY <1>2, <1>3 DEF QueueInv, ProbesApart, Held, Covered, WriteDb, config
<1>8. \A u \in Thread : Waiting(u)' = IF u = t THEN Waiting(u) \cup {c} ELSE Waiting(u)
  BY <1>2, <1>3 DEF Waiting, Of
<1>9. CASE t \notin Callers
  <2>1. \A u \in Callers : Waiting(u)' \subseteq Waiting(u)
    BY <1>8, <1>9 DEF Callers
  <2>2. Bounds'
    BY <1>2, <2>1, BoundsShrink DEF QueueInv
  <2> QED
    BY <1>6, <1>7, <2>2 DEF QueueInv
<1>10. CASE t \in Callers
  <2> DEFINE Rows  == UNION {Waiting(u) : u \in Callers}
             Built == {b \in Call : call[b] = "built" /\ owner[b] \in Callers}
  <2>1. /\ Seen(t) \in SUBSET Call /\ Cardinality(Seen(t)) \in Nat
        /\ Cardinality(Seen(t)) <= QueueSize /\ QueueSize \in Nat
    <3>1. Seen(t) \in SUBSET Call
      BY DEF Seen
    <3> QED
      BY <3>1, FiniteCalls DEF CreateTask, Full
  <2>2. Callers \in SUBSET Thread /\ IsFiniteSet(Callers) /\ Cardinality(Callers) \in Nat
    <3>1. Callers \in SUBSET Thread
      BY DEF Callers
    <3> QED
      BY <3>1, FS_Subset, FS_CardinalityType
  <2>3. Cardinality(Waiting(t) \cup {c}) <= QueueSize + 1
    <3>1. Waiting(t) \in SUBSET Seen(t)
      BY <1>5, <1>10 DEF Waiting, Of, Seen, IsProbe, Callers
    <3>2. Cardinality(Waiting(t)) \in Nat /\ Cardinality(Waiting(t)) <= QueueSize
      BY <2>1, <3>1, Smaller
    <3>3. IsFiniteSet(Waiting(t))
      BY <2>1, <3>1, FiniteCalls
    <3>4. \/ Cardinality(Waiting(t) \cup {c}) = Cardinality(Waiting(t))
          \/ Cardinality(Waiting(t) \cup {c}) = Cardinality(Waiting(t)) + 1
      BY <3>3, FS_AddElement
    <3> QED
      BY <2>1, <3>2, <3>4
  <2>4. \A u \in Callers : Cardinality(Waiting(u)') <= QueueSize + 1
    BY <1>8, <2>2, <2>3 DEF QueueInv, Bounds
  <2>5. ASSUME \A u \in Callers : ~Covered(u)
        PROVE  Cardinality(UNION {Waiting(u)' : u \in Callers})
                  <= QueueSize + Cardinality(Callers)
    <3>1. Rows \in SUBSET (Built \cup Seen(t))
      BY <2>5 DEF QueueInv, Held, Waiting, Of, Seen, IsProbe, Callers
    <3>2. Cardinality(Built) \in Nat /\ Cardinality(Built) <= Cardinality(Callers) - 1
      <4> DEFINE by == [b \in Built |-> owner[b]]
      <4>1. by \in Injection(Built, Callers \ {t})
        BY <1>5 DEF QueueInv, Building, Injection, IsInjective
      <4>2. /\ IsFiniteSet(Callers \ {t})
            /\ Cardinality(Callers \ {t}) = Cardinality(Callers) - 1
        BY <1>10, <2>2, FS_RemoveElement
      <4>3. Cardinality(Built) <= Cardinality(Callers \ {t})
        BY <4>1, <4>2, FS_Injection
      <4>4. Built \in SUBSET Call
        OBVIOUS
      <4>5. Cardinality(Built) \in Nat
        BY <4>4, FiniteCalls
      <4> QED
        BY <4>2, <4>3, <4>5
    <3>3. IsFiniteSet(Built) /\ IsFiniteSet(Seen(t)) /\ Built \cup Seen(t) \in SUBSET Call
      BY <2>1, FiniteCalls
    <3>4. Cardinality(Built \cup Seen(t)) <= Cardinality(Built) + Cardinality(Seen(t))
      <4>1. Cardinality(Built \cap Seen(t)) \in Nat
        BY <2>1, FiniteCalls
      <4>2. Cardinality(Built \cup Seen(t)) =
               Cardinality(Built) + Cardinality(Seen(t)) - Cardinality(Built \cap Seen(t))
        BY <3>3, FS_Union
      <4> QED
        BY <2>1, <3>2, <4>1, <4>2
    <3>5. /\ Cardinality(Rows) \in Nat
          /\ Cardinality(Rows) <= Cardinality(Built \cup Seen(t))
          /\ Cardinality(Built \cup Seen(t)) \in Nat
      BY <3>1, <3>3, Smaller
    <3>6. UNION {Waiting(u)' : u \in Callers} = Rows \cup {c}
      BY <1>8, <1>10, <2>2
    <3>7. Cardinality(Rows \cup {c}) <= Cardinality(Rows) + 1
      <4>1. Rows \in SUBSET Call
        BY <3>1, <3>3
      <4>2. IsFiniteSet(Rows)
        BY <4>1, FiniteCalls
      <4>3. \/ Cardinality(Rows \cup {c}) = Cardinality(Rows)
            \/ Cardinality(Rows \cup {c}) = Cardinality(Rows) + 1
        BY <4>2, FS_AddElement
      <4> QED
        BY <3>5, <4>3
    <3>8. Cardinality(Rows \cup {c}) \in Nat
      <4>1. Rows \cup {c} \in SUBSET Call
        BY <3>1, <3>3
      <4> QED
        BY <4>1, FiniteCalls
    <3>9. Cardinality(Rows \cup {c}) <= QueueSize + Cardinality(Callers)
      BY <2>1, <2>2, <3>2, <3>4, <3>5, <3>7, <3>8
    <3> QED
      BY <3>6, <3>9
  <2>6. Callers' = Callers /\ \A u \in Thread : Covered(u)' = Covered(u)
    BY <1>2 DEF config, Callers, Covered, WriteDb
  <2>7. Bounds'
    BY <2>2, <2>4, <2>5, <2>6 DEF Bounds
  <2> QED
    BY <1>6, <1>7, <2>7 DEF QueueInv
<1> QED
  BY <1>9, <1>10

LEMMA StepQueue ==
  ASSUME IsFiniteSet(Thread), DispatchInv, QueueInv, [Next]_vars
  PROVE  QueueInv'
<1> DEFINE Moves ==
             /\ UNCHANGED <<config, owner>>
             /\ \A c \in Call :
                   /\ call'[c] = "built" => call[c] = "built" /\ pc'[owner[c]] = "saving"
                   /\ call'[c] = "pending" => \/ call[c] = "pending"
                                              \/ call[c] = "built" /\ Covered(owner[c])
                   /\ call'[c] = "queued" => call[c] \in {"built", "pending", "queued"}
             /\ \A t \in Thread : pc'[t] = "probe" => pc[t] = "probe"
<1>1. Moves => QueueInv'
  BY QueueMovesOn
<1>2. /\ pc \in [Thread -> Phase] /\ call \in [Call -> CallState]
      /\ owner \in [Call -> Thread \cup {None}]
      /\ \A c \in Call : call[c] = "built" => owner[c] \in Thread /\ pc[owner[c]] = "saving"
  BY DEF DispatchInv, TypeOK, Owned, QueueInv, Building
<1>3. ASSUME NEW t \in Thread, Write(t) \/ Poll(t) \/ Answer(t) PROVE QueueInv'
  <2>1. Moves
    <3>1. /\ UNCHANGED <<config, owner, call>>
          /\ \/ pc' = pc
             \/ pc[t] \in {"polling", "found"} /\ pc' = [pc EXCEPT ![t] = pc'[t]]
          /\ pc'[t] = "probe" => pc[t] = "probe"
      BY <1>2, <1>3 DEF Write, Poll, Answer, Go
    <3> QED
      BY <1>2, <3>1
  <2> QED
    BY <1>1, <2>1
<1>4. ASSUME NEW t \in Thread, SaveTask(t) PROVE QueueInv'
  <2>1. Moves
    BY <1>2, <1>4 DEF SaveTask, Become, Of, Go
  <2> QED
    BY <1>1, <2>1
<1>5. ASSUME NEW t \in Thread, Commit(t) \/ RunHook(t) \/ HookFails(t) PROVE QueueInv'
  <2>1. /\ UNCHANGED <<config, owner>> /\ pc[t] \in {"open", "hooks"}
        /\ pc' = pc \/ \E p \in {"hooks", "done"} : pc' = [pc EXCEPT ![t] = p]
    BY <1>5 DEF Commit, RunHook, HookFails, Go
  <2>2. \A c \in Call : call'[c] # call[c] =>
           (call'[c] = "queued" /\ call[c] = "pending") \/ call'[c] \in {"started", "lost"}
    BY <1>5 DEF Commit, RunHook, HookFails, Hooked, Become, Of
  <2>3. Moves
    BY <1>2, <2>1, <2>2
  <2> QED
    BY <1>1, <2>3
<1>6. ASSUME NEW t \in Thread, RollBack(t) \/ Crash(t) PROVE QueueInv'
  <2>1. /\ UNCHANGED <<config, owner>>
        /\ \E p \in {"done", "crashed"} : pc' = [pc EXCEPT ![t] = p]
    BY <1>6 DEF RollBack, Crash, Go
  <2>2. \A c \in Call : /\ call'[c] = call[c] \/ call'[c] \in {"undone", "lost"}
                        /\ call'[c] = "built" => owner[c] # t
    BY <1>6 DEF RollBack, Undo, Crash, Become, Of
  <2>3. Moves
    BY <1>2, <2>1, <2>2
  <2> QED
    BY <1>1, <2>3
<1>7. ASSUME NEW t \in Thread, DelaySynchronously(t) \/ RunInThread(t) PROVE QueueInv'
  BY <1>7, QueueUntouched DEF DelaySynchronously, RunInThread, StartsAt
<1>8. ASSUME NEW t \in Thread, CreateTask(t) PROVE QueueInv'
  BY <1>8, CreateTaskBounded
<1>9. ASSUME NEW t \in Thread, Probe(t) PROVE QueueInv'
  <2>1. t \notin Callers
    BY <1>9 DEF QueueInv, ProbesApart, Callers, Probe
  <2>2. UNCHANGED config /\ pc[t] = "probe" /\ pc' = [pc EXCEPT ![t] = "polling"]
    BY <1>9 DEF Probe, Go
  <2>3. \A u \in Thread :
           \/ pc'[u] = pc[u]
           \/ pc[u] = "probe" /\ pc'[u] = "polling"
    BY <1>2, <2>2
  <2> QED
    BY <1>9, <2>1, <2>2, <2>3, QueueUntouched DEF Probe
<1>10. ASSUME NEW c \in Call, Works(c) \/ LateEnd(c) PROVE QueueInv'
  <2>1. UNCHANGED <<config, owner, pc>>
    BY <1>10 DEF Works, ThreadRuns, TaskSucceeds, TaskFails, TaskTimesOut, LateEnd
  <2>2. \A b \in Call : call'[b] # call[b] =>
           call'[b] \in {"ran", "exhausted"} \/ (call[b] = "queued" /\ call'[b] = "queued")
    <3>1. CASE ThreadRuns(c) \/ TaskSucceeds(c) \/ LateEnd(c)
      BY <3>1 DEF ThreadRuns, TaskSucceeds, LateEnd, Become
    <3>2. CASE TaskFails(c) \/ TaskTimesOut(c)
      <4>1. Due(c) /\ Fails(c)
        BY <3>2 DEF TaskFails, TaskTimesOut
      <4> QED
        BY <1>2, <4>1 DEF Due, Fails, Become
    <3> QED
      BY <1>10, <3>1, <3>2 DEF Works
  <2>3. Moves
    BY <1>2, <2>1, <2>2
  <2> QED
    BY <1>1, <2>3
<1>11. CASE UNCHANGED vars
  <2>1. Moves
    BY <1>2, <1>11 DEF vars, config
  <2> QED
    BY <1>1, <2>1
<1> QED
  BY <1>3, <1>4, <1>5, <1>6, <1>7, <1>8, <1>9, <1>10, <1>11 DEF Next, Delay, Ends, Checks

\* What is left of queue_size, for every size and any finite number of callers:
\* not the documented maximum, which MaxSizeKept states and one caller breaks,
\* but that and one row for a caller that holds its rows back in a transaction,
\* and one row for each of the callers that use none.
THEOREM QueueHoldsItsSize ==
  ASSUME IsFiniteSet(Thread)
  PROVE  Spec => []QueueBounded
<1>1. DispatchInv /\ Init => QueueInv
  <2> SUFFICES ASSUME DispatchInv, Init PROVE QueueInv
    OBVIOUS
  <2>1. Building /\ Held /\ ProbesApart
    BY DEF Init, Building, Held, ProbesApart
  <2>2. \A t \in Thread : Waiting(t) = {}
    BY DEF Init, Waiting, Of
  <2>3. Callers \in SUBSET Thread
    BY DEF Callers
  <2>4. /\ Cardinality(Callers) \in Nat
        /\ \A t \in Callers : Cardinality(Waiting(t)) = 0
        /\ Cardinality(UNION {Waiting(t) : t \in Callers}) = 0
    <3>1. UNION {Waiting(t) : t \in Callers} = {}
      BY <2>2, <2>3
    <3> QED
      BY <2>2, <2>3, <3>1, FS_EmptySet, FS_Subset, FS_CardinalityType
  <2> QED
    BY <2>1, <2>4 DEF QueueInv, Bounds
<1>2. DispatchInv /\ QueueInv /\ [Next]_vars => QueueInv'
  BY StepQueue
<1>3. DispatchInv /\ QueueInv => QueueBounded
  <2> SUFFICES ASSUME DispatchInv, QueueInv PROVE QueueBounded
    OBVIOUS
  <2> DEFINE rowsOf(t) == {c \in Of(t) : call[c] \in {"pending", "queued"}}
             Rows == UNION {rowsOf(t) : t \in Callers}
             All  == UNION {Waiting(t) : t \in Callers}
  <2>1. \A t \in Callers : Waiting(t) \in SUBSET Call /\ rowsOf(t) \in SUBSET Waiting(t)
    BY DEF Waiting, Of
  <2>2. All \in SUBSET Call /\ Rows \in SUBSET All
    BY <2>1
  <2>3. Callers \in SUBSET Thread
    BY DEF Callers
  <2>4. Cardinality(Callers) \in Nat /\ QueueSize \in Nat
    BY <2>3, FS_Subset, FS_CardinalityType
  <2>5. \A t \in Callers : Cardinality(rowsOf(t)) <= QueueSize + 1
    <3> SUFFICES ASSUME NEW t \in Callers
                 PROVE  Cardinality(rowsOf(t)) <= QueueSize + 1
      OBVIOUS
    <3>1. /\ Cardinality(Waiting(t)) \in Nat /\ Cardinality(rowsOf(t)) \in Nat
          /\ Cardinality(rowsOf(t)) <= Cardinality(Waiting(t))
      BY <2>1, Smaller
    <3>2. Cardinality(Waiting(t)) <= QueueSize + 1
      BY DEF QueueInv, Bounds
    <3> QED
      BY <2>4, <3>1, <3>2
  <2>6. ASSUME \A t \in Callers : ~Covered(t)
        PROVE  Cardinality(Rows) <= QueueSize + Cardinality(Callers)
    <3>1. /\ Cardinality(All) \in Nat /\ Cardinality(Rows) \in Nat
          /\ Cardinality(Rows) <= Cardinality(All)
      BY <2>2, Smaller
    <3>2. Cardinality(All) <= QueueSize + Cardinality(Callers)
      BY <2>6 DEF QueueInv, Bounds
    <3> QED
      BY <2>4, <3>1, <3>2
  <2> QED
    BY <2>5, <2>6 DEF QueueBounded, Callers
<1> QED
  BY <1>1, <1>2, <1>3, InitInv, DispatchInvariant, PTL DEF Spec
=============================================================================

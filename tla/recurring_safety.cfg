SPECIFICATION Spec
CONSTANTS
    t1 = t1
    t2 = t2
    w1 = w1
    w2 = w2
    None = None
    Task = {t1}
    Worker = {w1, w2}
    Settings <- Both
    Timeout = 1
    Grace = 1
    RunEvery = 3
    FirstRunTime = None
    Day = 8
    MaxConsecutive = 2
    MaxRetries = 1
    UnregisteredGrace = 2
    Retention = 2
    MaxRuns = 3
    MaxLapses = 1
    Horizon = 3
\* The clock stops at the bound, and with it a task that a dead worker locked.
CHECK_DEADLOCK FALSE
INVARIANTS
    TypeOK
    HoldersAccounted
    OneOpenRun
    RetriesBounded
    CounterBackedByHistory
    DisabledMatchesCounter

SPECIFICATION FairSpec
CONSTANTS
    t1 = t1
    t2 = t2
    w1 = w1
    w2 = w2
    None = None
    Task = {t1, t2}
    Worker = {w1}
    Settings <- Processor
    Timeout = 2
    Grace = 1
    RunEvery = 2
    FirstRunTime = None
    Day = 8
    MaxConsecutive = 2
    MaxRetries = 1
    UnregisteredGrace = 2
    Retention = 9
    MaxLapses = 2
    MaxRuns = 1
    Horizon = 3
\* A task that was disabled is never picked again.
CHECK_DEADLOCK FALSE
PROPERTIES
    NoStarvation
    AbandonedRunsClosed

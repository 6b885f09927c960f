SPECIFICATION Spec
CONSTANTS
    t1 = t1
    t2 = t2
    w1 = w1
    w2 = w2
    None = None
    Task = {t1}
    Worker = {w1, w2}
    Settings <- Processor
    Timeout = 3
    Grace = 1
    RunEvery = 3
    FirstRunTime = None
    Day = 8
    MaxConsecutive = 2
    MaxRetries = 1
    UnregisteredGrace = 2
    Retention = 9
    MaxLapses = 2
    MaxRuns = 4
    Horizon = 7
INVARIANTS
    MutualExclusion

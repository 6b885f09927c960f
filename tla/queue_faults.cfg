SPECIFICATION Spec
CONSTANTS
    t1 = t1
    t2 = t2
    api1 = api1
    w1 = w1
    w2 = w2
    os1 = os1
    os2 = os2
    urgent = urgent
    plain = plain
    None = None
    Task = {t1, t2}
    Ident = {urgent, plain}
    Worker = {w1, w2}
    Process = {os1, os2}
    Producer = {api1}
    Timed = {urgent, plain}
    ProcessOf <- TwoProcesses
    PriorityOf <- Priorities
    Registered <- OldProcess
    PopSize <- PopTwoOrOne
    MaxFailures = 2
    Delays = {0}
    Retention = 0
    IncludeFailed = TRUE
    Horizon = 1
SYMMETRY TaskSymmetry
\* The system rests once every task is settled and the clock stands.
CHECK_DEADLOCK FALSE
INVARIANTS
    TypeOK
    ExclusiveClaim
    AttemptsBounded
    HistorySound
    EffectsOnce
PROPERTIES
    FinishedStaysFinished
    PriorityRespected
    LifecycleSpec

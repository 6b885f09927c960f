SPECIFICATION ReliableSpec
CONSTANTS
    t1 = t1
    t2 = t2
    api1 = api1
    w1 = w1
    w2 = w2
    os1 = os1
    os2 = os2
    urgent = urgent
    plain = plain
    None = None
    Task = {t1, t2}
    Ident = {plain}
    Worker = {w1, w2}
    Process = {os1}
    Producer = {api1}
    Timed = {plain}
    ProcessOf <- OneProcess
    PriorityOf <- OnePriority
    Registered <- EveryProcessKnowsAll
    PopSize <- PopTwo
    MaxFailures = 2
    Delays = {0}
    Retention = 9
    IncludeFailed = FALSE
    Horizon = 2
\* The system rests once every task is settled and the clock stands.
CHECK_DEADLOCK FALSE
INVARIANTS
    HistoryComplete
PROPERTIES
    EveryTaskSettles

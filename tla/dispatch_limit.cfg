SPECIFICATION Spec
CONSTANTS
    a = a
    b = b
    None = None
    Thread = {a}
    MaxCalls = 4
    Databases = {{"default"}, {"task_processor"}, {"default", "task_processor"}}
    QueueSize = 1
    MaxTries = 2
    MaxFailures = 2
\* The system rests once every request and every task is over.
CHECK_DEADLOCK FALSE
INVARIANTS
    MaxSizeKept

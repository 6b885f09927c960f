SPECIFICATION FairPoolSpec
CONSTANTS
    Never = Never
    NumThreads = 2
    Databases <- TwoDatabases
    Sleep = 1
    Grace = 1
    MonitorNap = 1
    Cap = 3
\* The container rests once every thread is over.
CHECK_DEADLOCK FALSE
PROPERTIES
    FinalisesAfterShutdown

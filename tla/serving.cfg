SPECIFICATION ServingSpec
CONSTANTS
    new = new
    old = old
    Container = {new, old}
    Database = {"default", "analytics"}
    Version <- Rollout
    Verbs <- Given
    MigrateDatabases <- Migrates
    WaitDatabases <- WaitsFor
    WaitFor = 1
    WaitForMigrations = 2
    SkipWait = FALSE
    Never = Never
    NumThreads = 2
    Databases <- TwoDatabases
    Sleep = 1
    Grace = 1
    MonitorNap = 1
    Cap = 3
\* A process that has exited takes no further step.
CHECK_DEADLOCK FALSE
INVARIANTS
    NoServiceOnOldSchema
    WaitBounded
    PoolTypeOK
    NoFalseAlarm
    EveryDatabaseTried
PROPERTIES
    EveryContainerGetsThere
    DeadRunnersReported
    StopsOnceSpawned

SPECIFICATION RolloutSpec
CONSTANTS
    new = new
    old = old
    Container = {new}
    Database = {"default", "analytics"}
    Version <- Rollout
    Verbs <- OneVerb
    MigrateDatabases <- Migrates
    WaitDatabases <- WaitsFor
    WaitFor = 1
    WaitForMigrations = 2
    SkipWait = FALSE
    Never = Never
    NumThreads = 2
    Databases <- TwoDatabases
    Sleep = 1
    Grace = 1
    MonitorNap = 1
    Cap = 3
INVARIANTS
    ProcessorMode

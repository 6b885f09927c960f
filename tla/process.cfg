SPECIFICATION ProcessSpec
CONSTANTS
    None = None
    Name = {log, child}
    Initial <- Starting
    BindKeys <- Binding
    CallKeys <- Calling
    Dots <- Dotting
    Literal = {"feature"}
    Class = {A, B}
    Context = {"request", "feature__id"}
    Baggage = {"org.id"}
    MaxDepth = 3
    MaxLength = 6
    Apps <- Installed
    Files <- Tree
    TestName = {"test_models", "conftest"}
    Sources <- Contents
    Primary = Primary
    Reader = {"x", "y"}
    Local <- LocalNames
    CrossRegion <- OtherNames
    Strategies = {"SEQUENTIAL", "DISTRIBUTED"}
    Level = {1, 2, 3, 4}
    INFO = 2
    WARNING = 3
SYMMETRY Symmetry
\* A file ends with its last statement, a merge with its last entry, a process
\* with its exit.
CHECK_DEADLOCK FALSE
INVARIANTS
    CatalogueMatchesTelemetry
    RecordIntact
    MergeFaithful
    CatalogueOfTheTree
    FewOverlooked
    TornDown
    TelemetryIsTaken
    PrintedAndSent

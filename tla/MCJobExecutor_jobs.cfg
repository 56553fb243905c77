SPECIFICATION FairSpec
CONSTANTS
    Names = {"a", "b", "g", "x", "generate", "pipeline", "daily", "left", "right"}
    Definitions <- AllDefinitions
CHECK_DEADLOCK FALSE
INVARIANTS
    TypeOK
    VisitIsRight
    StartedBehindSuccess
    ExitCodeHonest
    HistoryTruthful
PROPERTIES
    RunEnds
    ImplementsStream

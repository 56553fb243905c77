SPECIFICATION FairSpec
CONSTANTS
    r1 = r1
    r2 = r2
    Rows = {r1}
    Transforms = {"TypeCast", "WriteStarSchema", "Typo"}
    Registered = {"TypeCast", "WriteStarSchema"}
    Diverting = {"TypeCast"}
    Loading = {"WriteStarSchema"}
    Stages <- OddStages
    NoCheckpoint = "none"
    AllStages = "all"
    Ruled = {"pre_load"}
    Raising = {"pre_load"}
    MaxAttempts = 2
    Dashboard = FALSE
    MaxRuns = 2
    MaxClock = 2
CHECK_DEADLOCK FALSE
INVARIANTS
    ReturnedRunIsRecorded
    DeadCountsReadable
PROPERTIES
    RunEnds

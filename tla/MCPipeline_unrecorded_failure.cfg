SPECIFICATION Spec
CONSTANTS
    r1 = r1
    r2 = r2
    Rows = {r1, r2}
    Transforms = {"TypeCast", "WriteStarSchema", "Typo"}
    Registered = {"TypeCast", "WriteStarSchema"}
    Diverting = {"TypeCast"}
    Loading = {"WriteStarSchema"}
    Stages <- DailyStages
    NoCheckpoint = "none"
    AllStages = "all"
    Ruled = {"post_clean", "pre_load"}
    Raising = {}
    MaxAttempts = 2
    Dashboard = FALSE
    MaxRuns = 1
    MaxClock = 1
CHECK_DEADLOCK FALSE
INVARIANTS
    FailedRunIsRecorded

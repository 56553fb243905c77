SPECIFICATION Spec
CONSTANTS
    Plans <- OnePlan
    Inputs <- OneInput
    Fills <- FillList
    Casts <- CastList
    CalendarColumns <- CalendarList
    LeiColumns <- LeiList
    MaxAttempts = 2
CHECK_DEADLOCK FALSE
INVARIANT
    TrackerAncestorsRootFirst

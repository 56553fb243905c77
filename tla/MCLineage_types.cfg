SPECIFICATION Spec
CONSTANTS
    Plans <- MCPlans
    Inputs <- MCInputs
    Fills <- FillList
    Casts <- CastList
    CalendarColumns <- CalendarList
    LeiColumns <- LeiList
    MaxAttempts = 2
CHECK_DEADLOCK FALSE
INVARIANT
    TypeOK

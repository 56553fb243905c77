SPECIFICATION Spec
CONSTANTS
    Columns <- MCColumns
    Values <- MCValues
    Null = "null"
    Castable <- MCCastable
    Fills <- MCFills
    KeyColumn = "trade_id"
    OrderColumn = "trade_date"
    Rank <- MCRank
    Files <- MCFiles
    AnsiModes = {TRUE, FALSE}
    MaxAttempts = 2
CHECK_DEADLOCK FALSE
INVARIANTS
    DeadLettersHoldTheRow

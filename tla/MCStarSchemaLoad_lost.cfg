SPECIFICATION FairSpec
CONSTANTS
    t1 = t1
    t2 = t2
    t3 = t3
    p1 = p1
    p2 = p2
    d1 = d1
    b1 = b1
    b2 = b2
    Null = Null
    NoRow = NoRow
    NoLoader = NoLoader
    Trades = {t1, t2, t3}
    Members = {p1, p2}
    Dates = {d1}
    Frames <- AllFrames
    Batches = {b1, b2}
    Loaders = {"job"}
    MaxAttempts = 1
    MaxLoads = 2
CHECK_DEADLOCK FALSE
PROPERTIES
    LoadedTradesStay

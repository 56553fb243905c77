SPECIFICATION Spec
CONSTANTS
    None = None
    b1 = b1
    b2 = b2
    Null = None
    Rules <- SharedRules
    Stages <- SharedStages
    Frames <- SharedFrames
    Catalogues <- SharedCatalogues
    Upper <- MCUpper
    SampleCap = 2
    BatchIds = {b1, b2}
    MaxRuns = 2
CHECK_DEADLOCK FALSE
INVARIANT
    OneScorePerBatch

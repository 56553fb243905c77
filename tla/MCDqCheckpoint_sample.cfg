SPECIFICATION Spec
CONSTANTS
    None = None
    b1 = b1
    b2 = b2
    Null = None
    Rules <- MCRules
    Stages <- MCStages
    Frames <- MCFrames
    Catalogues <- MCCatalogues
    Upper <- MCUpper
    SampleCap = 2
    BatchIds = {b1}
    MaxRuns = 1
CHECK_DEADLOCK FALSE
INVARIANT
    EachNullRowReported

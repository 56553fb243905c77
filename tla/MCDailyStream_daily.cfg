SPECIFICATION Spec
CONSTANTS
    Streams <- TwoStreams
    s1 = s1
    s2 = s2
    Lines = 1
    MaxDay = 2
    MaxTries = 2
SYMMETRY Symmetry
CHECK_DEADLOCK FALSE
INVARIANTS
    TypeOK
    TradesGoneForCause
    SuccessIsLoaded

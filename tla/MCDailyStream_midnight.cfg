SPECIFICATION Spec
CONSTANTS
    Streams <- TwoStreams
    s1 = s1
    s2 = s2
    Lines = 2
    MaxDay = 2
    MaxTries = 1
SYMMETRY Symmetry
CHECK_DEADLOCK FALSE
INVARIANTS
    GeneratedFeedIsRun

SPECIFICATION Spec
CONSTANTS
    Sessions = {s1, s2}
    Content <- MCContent
    RunRows = 2
    EdgeRows = 2
    MaxFeeds = 0
INVARIANTS
    ReturnedIsReady

SPECIFICATION StoreSpec
CONSTANTS
    Columns = {"raw", "clean_usd", "clean/usd", "fact"}
    SafeUri <- MCSafeUri
    TransformNames = {"fill", "cast", "load"}
    BatchIds = {"b1", "b2"}
    Runs <- MCRuns
    MaxTs = 2
    MaxStored = 3
    MaxFills = 2
INVARIANTS
    ShowsLatest
    OneDocumentIsExact

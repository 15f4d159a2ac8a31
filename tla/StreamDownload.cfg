SPECIFICATION FairSdkSpec
CONSTANTS
    Batches = 3
    Events = 2
    ByteCap = 2
    ProgressCap = 1
    LineCap = 2
    Surfaces = {"ndjson", "grpc"}
INVARIANTS
    ReadsPrefix
    EndsWholeOrFailed
PROPERTIES
    EverythingStops
CHECK_DEADLOCK FALSE

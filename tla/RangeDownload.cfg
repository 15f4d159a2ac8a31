SPECIFICATION FairSdkSpec
CONSTANTS
    Objects <- SmallObjects
    MaxU64 = 9
    WindowChunks = 2
    FrameBytes = 3
    OutCap = 1
INVARIANTS
    RangeIsRequested
    WindowsPartition
    AppHasRange
PROPERTIES
    EverythingStops
CHECK_DEADLOCK FALSE

SPECIFICATION PFairSpec
CONSTANTS
    Tasks = {1, 2, 3, 4, 5, 6}
    m_initial_count = 2
    Services = {"blob", "file"}
    Block = 2
    Threshold = 2
    SeekableSizes = {0, 1, 5, 8}
    StreamSizes = {2, 13}
    Offsets = {0, 1, 8}
    MayFail = {TRUE}
    StartPosition = 0
INVARIANTS
    TargetHoldsRange
    LocalsOutliveTasks
    WrittenInOrder
    NextSegmentGetsPermit
    BuffersBounded
PROPERTY SeekableDownloadEnds
CHECK_DEADLOCK FALSE

SPECIFICATION PFairSpec
CONSTANTS
    Tasks = {1, 2, 3}
    m_initial_count = 2
    Services = {"blob"}
    Block = 2
    Threshold = 2
    SeekableSizes = {}
    StreamSizes = {7}
    Offsets = {0}
    MayFail = {FALSE}
    StartPosition = 0
PROPERTY FailureEnds
CHECK_DEADLOCK FALSE

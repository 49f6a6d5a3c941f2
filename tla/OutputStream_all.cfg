SPECIFICATION OFairSpec
CONSTANTS
    Tasks = {1, 2, 3}
    m_initial_count = 2
    Kinds = {"block", "page", "append", "file"}
    BufferSizes = {1, 2}
    max_block_size = 1
    max_page_size = 2
    MaxLength = 3
    MaxTries = 2
    max_size = {2}
    AbsorbOptions = {TRUE, FALSE}
INVARIANTS
    CloseMeansStored
    FlushMeansStored
    AppendIsPrefix
PROPERTY CallsReturn
CHECK_DEADLOCK FALSE

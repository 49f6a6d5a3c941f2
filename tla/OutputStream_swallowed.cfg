SPECIFICATION OFairSpec
CONSTANTS
    Tasks = {1, 2}
    m_initial_count = 2
    Kinds = {"page"}
    BufferSizes = {1, 2}
    max_block_size = 1
    max_page_size = 1
    MaxLength = 2
    MaxTries = 2
    max_size = {}
    AbsorbOptions = {FALSE}
INVARIANT CloseMeansStored
CHECK_DEADLOCK FALSE

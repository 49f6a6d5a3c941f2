SPECIFICATION ISpec
CONSTANTS
    BlobSizes = {0, 1, 4}
    BufferSizes = {1, 2, 3}
INVARIANT ReadsIntact

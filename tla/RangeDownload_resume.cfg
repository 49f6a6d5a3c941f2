CONSTANTS
    m_max_attempts = 2
    BlobLength = 3
    Versions = 2
    Offset = 1
    Lengths = {0, 2, 3}
    Start = 1
    Checksums = {"none", "content_md5", "transactional_md5", "transactional_crc64", "crc64_unvalidated"}
SPECIFICATION Spec
INVARIANTS
    ResumesWhereLeftOff
CHECK_DEADLOCK FALSE

SPECIFICATION FairSpec
CONSTANTS
    TFTP_SEQUENCE_SIZE = 4
    TFTP_BLOCK_SIZE = 1
    BlkSizeOption = 2
    timeout_count_max = 1
    MaxTries = 2
    Sessions = {1, 2}
    FileSizes = {0, 2, 5}
    ReorderedSizes = {2}
    Capacity = 2
INVARIANTS
    BytesInPlace
    SuccessIsWhole
    LockStep
PROPERTY
    Terminates

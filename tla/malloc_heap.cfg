CONSTANTS
    PAGE_SIZE = 4096
    TopPage = 15
    HEADER_SIZE = 40
    MaxBuffers = 2
    METADATA_RANGE = 65536
    SIZE_RANGE = 65536
    Sizes = {0, 14, 15, 30, 100, 510, 511, 4094, 62000, 65535}
    MaxBlocks = 3
SPECIFICATION Spec
INVARIANTS BlocksDisjoint HeapAccountedFor MallocHoldsRequest
CHECK_DEADLOCK FALSE

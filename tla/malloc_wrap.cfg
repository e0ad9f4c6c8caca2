CONSTANTS
    PAGE_SIZE = 4096
    TopPage = 26
    HEADER_SIZE = 40
    MaxBuffers = 2
    METADATA_RANGE = 6
    SIZE_RANGE = 65536
    Sizes = {600, 28000, 65534}
    MaxBlocks = 2
SPECIFICATION Spec
INVARIANTS HeapAccountedFor MallocHoldsEverySize
CHECK_DEADLOCK FALSE

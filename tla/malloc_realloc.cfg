CONSTANTS
    PAGE_SIZE = 4096
    TopPage = 17
    HEADER_SIZE = 40
    MaxBuffers = 2
    METADATA_RANGE = 65536
    SIZE_RANGE = 65536
    Sizes = {10, 15, 40, 600, 5000}
    MaxBlocks = 1
SPECIFICATION Spec
\* Each fails; TLC stops at the first, so the others are commented out.
INVARIANTS ReallocHoldsRequest
\* INVARIANTS CopyFitsBlock
\* INVARIANTS ReallocKeepsData
CHECK_DEADLOCK FALSE

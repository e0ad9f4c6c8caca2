CONSTANTS
    PAGE_SIZE = 64
    HEADER_SIZE = 16
    SLAB_SIZE = 16
    TopPage = 5
    FlagSets = {{}, {"SLAB_PANIC"}}
    GrowCounts = {1}
    MaxSlabs = 2
    Reclaim = TRUE
SPECIFICATION Spec
\* Each fails; TLC stops at the first, so the other is commented out.
INVARIANTS SlabPagesAllocated
\* INVARIANTS LiveBuffersBacked
CHECK_DEADLOCK FALSE

CONSTANTS
    PAGE_SIZE = 128
    HEADER_SIZE = 64
    SLAB_SIZE = 16
    TopPage = 5
    FlagSets = {{"SLAB_PANIC", "SLAB_NO_ALIGN"}, {"SLAB_PANIC", "SLAB_AUTO_GROW", "SLAB_NO_ALIGN"}}
    GrowCounts = {1, 2}
    MaxSlabs = 3
    Reclaim = FALSE
SPECIFICATION Spec
INVARIANTS BufferInOnePlace BuffersWellPlaced
PROPERTIES CallsReturn
CHECK_DEADLOCK FALSE

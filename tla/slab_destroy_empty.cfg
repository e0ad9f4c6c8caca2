CONSTANTS
    PAGE_SIZE = 64
    HEADER_SIZE = 16
    SLAB_SIZE = 16
    TopPage = 4
    FlagSets = {{"SLAB_PANIC", "SLAB_NO_ALIGN"}}
    GrowCounts = {1}
    MaxSlabs = 1
    Reclaim = TRUE
SPECIFICATION Spec
INVARIANTS PagesAccountedFor
CHECK_DEADLOCK FALSE

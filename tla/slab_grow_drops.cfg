CONSTANTS
    PAGE_SIZE = 64
    HEADER_SIZE = 16
    SLAB_SIZE = 16
    TopPage = 6
    FlagSets = {{"SLAB_PANIC"}}
    GrowCounts = {1}
    MaxSlabs = 3
    Reclaim = FALSE
SPECIFICATION Spec
PROPERTIES GrowKeepsSlabs
CHECK_DEADLOCK FALSE

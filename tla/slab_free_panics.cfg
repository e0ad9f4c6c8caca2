CONSTANTS
    PAGE_SIZE = 64
    HEADER_SIZE = 16
    SLAB_SIZE = 16
    TopPage = 5
    FlagSets = {{"SLAB_PANIC", "SLAB_NO_ALIGN"}}
    GrowCounts = {1}
    MaxSlabs = 2
    Reclaim = FALSE
SPECIFICATION Spec
PROPERTIES FreeFindsASpot
CHECK_DEADLOCK FALSE

CONSTANTS
    PAGE_SIZE = 64
    HEADER_SIZE = 16
    SLAB_SIZE = 16
    TopPage = 4
    FlagSets = {{"SLAB_AUTO_GROW"}}
    GrowCounts = {1}
    MaxSlabs = 1
    Reclaim = FALSE
SPECIFICATION Spec
PROPERTIES CallsReturn
CHECK_DEADLOCK FALSE

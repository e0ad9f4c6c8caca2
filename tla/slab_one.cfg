CONSTANTS
    PAGE_SIZE = 64
    HEADER_SIZE = 16
    SLAB_SIZE = 8
    TopPage = 4
    FlagSets = {{}, {"SLAB_PANIC"}}
    GrowCounts = {0, 1}
    MaxSlabs = 1
    Reclaim = TRUE
SPECIFICATION Spec
INVARIANTS LiveBuffersBacked PagesAccountedFor
PROPERTIES FreeFindsASpot
CHECK_DEADLOCK FALSE

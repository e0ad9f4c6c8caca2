CONSTANTS
    PAGE_SIZE = 4
    Holders = {h1, h2, h3}
    MemoryMaps <- CoveredMaps
    PageCounts = {0, 1, 2, 3}
SPECIFICATION Spec
PROPERTIES GrantedRangeWasFree
CHECK_DEADLOCK FALSE

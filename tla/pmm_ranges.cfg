CONSTANTS
    PAGE_SIZE = 4
    Holders = {h1, h2}
    MemoryMaps <- AllMaps
    PageCounts = {0, 1, 2, 3}
SPECIFICATION Spec
INVARIANTS NullPageReserved
CHECK_DEADLOCK FALSE
SYMMETRY HolderSymmetry

CONSTANTS
    PAGE_SIZE = 4
    Holders = {h1, h2, h3, h4, h5}
    MemoryMaps <- AllMaps
    PageCounts = {1}
SPECIFICATION Spec
INVARIANTS ZeroedPagesAreGranted EveryPageHasABit
CHECK_DEADLOCK FALSE
SYMMETRY HolderSymmetry

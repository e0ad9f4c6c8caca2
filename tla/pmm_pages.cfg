CONSTANTS
    PAGE_SIZE = 4
    Holders = {h1, h2, h3, h4, h5}
    MemoryMaps <- CoveredMaps
    PageCounts = {1}
SPECIFICATION Spec
INVARIANTS TypeOK SingleOwner NoPageLost RefusalMeansExhausted BitmapPagesReserved
PROPERTIES ImplementsPool
CHECK_DEADLOCK FALSE
SYMMETRY HolderSymmetry

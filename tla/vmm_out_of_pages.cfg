CONSTANTS
    PAGE_SIZE = 4096
    CPUs = {c1}
    BootCpu = c1
    TopPage = 18
    BootBitmap = {0, 1}
    Entries = 4
    MappedPages = 5
    MapEntries <- LowMap
    Frames = {20, 21}
    VirtualPages <- NewPages
    CallerRanges <- NewRanges
    FlagSets = {{"present", "read_write"}}
    CacheTypes = {0}
    UnmapAnything = FALSE
SPECIFICATION Spec
INVARIANTS TablesNotShared
CHECK_DEADLOCK FALSE

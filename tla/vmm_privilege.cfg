CONSTANTS
    PAGE_SIZE = 4096
    CPUs = {c1}
    BootCpu = c1
    TopPage = 25
    BootBitmap = {0, 1}
    Entries = 4
    MappedPages = 5
    MapEntries <- LowMap
    Frames = {20, 21}
    VirtualPages <- CodePages
    CallerRanges <- NoRanges
    FlagSets = {{"present", "read_write"}}
    CacheTypes = {0}
    UnmapAnything = FALSE
SPECIFICATION Spec
INVARIANTS PrivilegeAsAsked
CHECK_DEADLOCK FALSE

CONSTANTS
    PAGE_SIZE = 4096
    CPUs = {c1, c2}
    BootCpu = c1
    TopPage = 25
    BootBitmap = {0, 1}
    Entries = 4
    MappedPages = 5
    MapEntries <- LowMap
    Frames = {20, 21}
    VirtualPages <- NewPages
    CallerRanges <- NewRanges
    FlagSets = {{"present", "read_write"}}
    CacheTypes = {0}
    UnmapAnything = TRUE
SPECIFICATION Spec
\* Each fails; TLC stops at the first, so the other is commented out.
INVARIANTS NoStaleTranslation
\* INVARIANTS TablePagesAccountedFor
CHECK_DEADLOCK FALSE

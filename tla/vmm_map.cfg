CONSTANTS
    PAGE_SIZE = 4096
    CPUs = {c1}
    BootCpu = c1
    TopPage = 25
    BootBitmap = {0, 1}
    Entries = 4
    MappedPages = 5
    MapEntries <- LowMap
    Frames = {20, 21}
    VirtualPages <- NewPages
    CallerRanges <- NewRanges
    FlagSets = {{"present", "read_write"}}
    CacheTypes = {1, 6}
    UnmapAnything = FALSE
SPECIFICATION Spec
INVARIANTS TranslationAsAsked TablesAccountedFor CachingAsAsked NoStaleTranslation
CHECK_DEADLOCK FALSE

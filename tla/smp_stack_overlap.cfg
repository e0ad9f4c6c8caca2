CONSTANTS
    PAGE_SIZE = 4
    CpuCount = 4
    Bsp = 1
    StackPages = 2
    TopPage = 12
    BootBitmap = {0, 2, 5}
    PollReadsOnce = FALSE
SPECIFICATION Spec
INVARIANTS StacksInFreeMemory
CHECK_DEADLOCK FALSE

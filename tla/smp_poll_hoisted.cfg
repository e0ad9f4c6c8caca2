CONSTANTS
    PAGE_SIZE = 4
    CpuCount = 2
    Bsp = 0
    StackPages = 2
    TopPage = 12
    BootBitmap = {0, 1, 2}
    PollReadsOnce = TRUE
SPECIFICATION Spec
PROPERTIES SmpInitFinishes
CHECK_DEADLOCK FALSE

CONSTANTS
    Firmwares <- LongFirmware
    BYTE = 8
    MICROSECOND = 12
    LAPIC_RANGE = 64
    CALIBRATION = 2
    SECOND = 4
    Delays = {3}
    MaxLate = 1
    LINES = 3
    EveryLine = 7
    RSDP_BYTES = 2
    LIST_ROOM = 2
    ISA_IRQS = 4
    IRQ_BITMAP_BITS = 10
    FIRST_VECTOR = 32
    BSP_LAPIC = 0
    Lapics = {0}
    Vectors = {33, 40}
    MaxRequests = 1
SPECIFICATION Spec
PROPERTIES BootEnds
CHECK_DEADLOCK FALSE

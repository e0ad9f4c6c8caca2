CONSTANTS
    Firmwares <- UsualFirmwares
    BYTE = 8
    MICROSECOND = 12
    LAPIC_RANGE = 64
    CALIBRATION = 2
    SECOND = 4
    Delays = {3}
    MaxLate = 1
    LINES = 3
    EveryLine = 7
    RSDP_BYTES = 2
    LIST_ROOM = 2
    ISA_IRQS = 4
    IRQ_BITMAP_BITS = 10
    FIRST_VECTOR = 32
    BSP_LAPIC = 0
    Lapics = {0, 1}
    Vectors = {40}
    MaxRequests = 2
SPECIFICATION Spec
INVARIANTS TablesSound RoutedAsAsked IsaRoutesSet LegacyLinesAsSetUp OneshotNotEarly
PROPERTIES DeliveredAsAsked BootEnds OneshotArrives
CHECK_DEADLOCK FALSE

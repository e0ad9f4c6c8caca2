CONSTANTS
    CHAR_BITS = 2
    SHORT_BITS = 4
    INT_BITS = 8
    LONG_BITS = 16
    SIZE_RANGE = 1000
    PRINTF_NTOA_BUFFER_SIZE = 8
    Calls <- GoodCalls
SPECIFICATION Spec
INVARIANTS PrintsAsSpecified StaysInBounds

CONSTANTS
    CPUs = {c1, c2}
    Statuses = {"INFO", "PANIC"}
    Vectors = {"timer", "irq", "syscall", "exception", "spurious"}
    MaxCalls = 1
    StartWithIF = TRUE
SPECIFICATION Spec
INVARIANTS StringsArriveWhole AcknowledgedBeforeReturn LockedCodeNotInterrupted
CHECK_DEADLOCK FALSE

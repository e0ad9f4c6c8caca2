CONSTANT CPUs = {c1}
SPECIFICATION LockSpec
INVARIANTS HandlerNeverWaitsForItsThread
CHECK_DEADLOCK FALSE

CONSTANT CPUs = {c1, c2, c3}
SPECIFICATION LockSpec
INVARIANTS MutualExclusion InterruptStateRestored HandlerStaysMasked
CHECK_DEADLOCK FALSE

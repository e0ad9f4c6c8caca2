CONSTANTS
    CPUs = {c1, c2}
    Statuses = {"INFO"}
    Vectors = {}
    MaxCalls = 2
    StartWithIF = FALSE
SPECIFICATION Spec
INVARIANTS TypeOK HandlerStaysMasked
PROPERTIES CallsReturn
CHECK_DEADLOCK FALSE

SPECIFICATION Spec
CONSTANTS
    o1 = o1 o2 = o2 d1 = d1 d2 = d2 None = None
    Ops = {o1, o2}
    Devices = {d1, d2}
    QueuedLimit = 1
    Scenarios <- CloseCases
CHECK_DEADLOCK FALSE
INVARIANTS ClosedCallersReleased

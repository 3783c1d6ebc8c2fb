SPECIFICATION Spec
CONSTANTS
    m1 = m1  m2 = m2  m3 = m3  n1 = n1  n2 = n2  f = f
    c1 = c1  c2 = c2
    Messages = {m1, n1, n2, f}
    Device <- MCDevice
    LocalDataChanged = {n1, n2}
    Feedback = {f}
    Size <- MCSize
    Communicators = {c1, c2}
    MaxExecNum = 1
    MaxQueueCacheSize = 2
    ScheduleMayFail = TRUE
    MaxReceive = 3
    MaxClose = 1
INVARIANTS
    CountersExact
    ThreadsBounded
    NothingQueuedAfterClose
    ContextStaysValid
CHECK_DEADLOCK FALSE
PROPERTIES QueueMoves

SPECIFICATION Spec
SYMMETRY Symmetry
CHECK_DEADLOCK FALSE
CONSTANTS
    k1 = k1
    k2 = k2
    c1 = c1
    c2 = c2
    b1 = b1
    Here = Here
    Keys = {k1, k2}
    Conns = {c1, c2}
    Peers = {b1}
    ClockSteps = {0, 3}
    PeerStamps = {2, 9}
    Scenarios <- AllCases
INVARIANTS
    LocalWriteWins
PROPERTIES
    CommitsInStampOrder
    ObserversTold
    OwnDataKept

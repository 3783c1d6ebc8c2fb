SPECIFICATION Spec
CONSTANTS
    k1 = k1
    k2 = k2
    Keys = {k1, k2}
    HighVersionWindowSize = 2
    Faults = {"saveFail", "ackLost"}
    MaxClock = 1
    MaxSession = 1
    MaxPacket = 1
    MaxLoss = 1
CHECK_DEADLOCK FALSE
SYMMETRY KeySymmetry
INVARIANTS
    FinishedMeansDelivered

SPECIFICATION FairSpec
CONSTANTS
    k1 = k1
    k2 = k2
    Keys = {k1, k2}
    HighVersionWindowSize = 2
    Faults = {}
    MaxClock = 3
    MaxSession = 1
    MaxPacket = 6
    MaxLoss = 1
CHECK_DEADLOCK FALSE
PROPERTIES
    TaskFinishes

SPECIFICATION Spec
CONSTANTS
    k1 = k1
    k2 = k2
    Keys = {k1, k2}
    HighVersionWindowSize = 2
    Faults = {"saveFail", "ackLost", "truncate", "peerMarkNotSaved",
              "crash", "remove"}
    MaxClock = 3
    MaxSession = 2
    MaxPacket = 4
    MaxLoss = 1
CHECK_DEADLOCK FALSE
SYMMETRY KeySymmetry
CONSTRAINT Quiet
INVARIANTS
    TypeOK
    PeerMarkCoversData
    

SPECIFICATION Spec
CONSTANTS
    t1 = t1
    t2 = t2
    none = none
    Threads = {t1, t2}
    Messages <- MCMessages
    NoMsg = none
    PacketIdSpace = 64
    StartVersions = {TRUE, FALSE}
    MaxPut = 3
    MaxVersionSwitch = 1
SYMMETRY ThreadSymmetry
CHECK_DEADLOCK FALSE
INVARIANTS OnlyOneThreadDealsMsg CountsTheExpected NothingStranded FinishedAckOnlyForHandled ResendIsAcked

SPECIFICATION FairSpec
CONSTANTS
    a = a b = b k1 = k1 k2 = k2 Here = Here
    Devices = {a, b}
    Keys = {k1, k2}
    Steps = {2}
    Gap = 2
    MaxNow = 4
CHECK_DEADLOCK FALSE
INVARIANTS  Agreement
PROPERTIES ImplementsLastWriterWins Converges

SPECIFICATION Spec
CONSTANTS
    f1 = f1 f2 = f2 f3 = f3 f4 = f4 a = a b = b None = None
    Frames = {f1, f2, f3, f4}
    Targets = {a, b}
    MaxCapacity = 1
    ExtraNormal = 1
    ExtraHigh = 2
    Scenarios <- AllCases
CHECK_DEADLOCK FALSE
INVARIANTS CountersExact InFlightIsFront QueueBounded BufferHasOneOwner
PROPERTIES FrameEnds CallReturns

SPECIFICATION Spec
CONSTANTS
    o1 = o1 o2 = o2 o3 = o3 p1 = p1 None = None
    Ops = {o1, o2, o3}
    Pulls = {}
    AutoRetryTimes = 1
    ManualRetryTimes = 1
    Scenarios <- SkipCases
CHECK_DEADLOCK FALSE
PROPERTIES SkipOnlyDelivered

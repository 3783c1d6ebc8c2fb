SPECIFICATION Spec
CONSTANTS
    o1 = o1 o2 = o2 o3 = o3 p1 = p1 None = None
    Ops = {o1, o2}
    Pulls = {p1}
    AutoRetryTimes = 2
    ManualRetryTimes = 1
    Scenarios <- AllCases
CHECK_DEADLOCK FALSE
INVARIANTS RunningHasWakeup WaitingHasStarter NoOperationDropped SuccessIsEarned

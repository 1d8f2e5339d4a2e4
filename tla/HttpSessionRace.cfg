SPECIFICATION Spec
CONSTANTS
    Caller = {t1, t2}
    Level = {l1}
    MaxCalls = 2
    MaxLosses = 1
    MaxBreaks = 0
    None = None
INVARIANT LostRequestsAreRepeated
CHECK_DEADLOCK FALSE

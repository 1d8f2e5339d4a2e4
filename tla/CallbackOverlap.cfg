SPECIFICATION Spec
CONSTANTS
    Begins = {p1, p2}
    Handler = {h1, h2}
    MaxLogins = 2
INVARIANT EveryWaiterIsTold
CHECK_DEADLOCK FALSE

SPECIFICATION MCSpec
CONSTANTS
    w1 = w1  w2 = w2  e1 = e1  d1 = d1  d2 = d2  r1 = r1  r2 = r2  x1 = x1  x2 = x2
    Workers <- TwoWorkers
    Employees <- OneEmployee
    Routed <- OneEmployee
    Days <- TwoDays
    Requests <- TwoRequests
    Exceptions <- TwoExceptions
    MaxTime = 1
INVARIANTS SignedWhenCleared
CHECK_DEADLOCK FALSE

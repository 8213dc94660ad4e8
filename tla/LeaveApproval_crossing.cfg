SPECIFICATION MCSpec
CONSTANTS
    w1 = w1  w2 = w2  b1 = b1  r1 = r1  r2 = r2
    Workers <- TwoWorkers
    Balances <- OneBalance
    Requests <- TwoRequests
    UnitChoices = {0, 1, 2}
    Routed = {b1}
    CarryUnits <- Carry
    YearUnits <- Year
    AnnualBalances <- OneBalance
    GrantChoices = {1}
    CarryLimit = 1
INVARIANTS TypeOK LedgerExact NoOverdraw CarryoverFirst TrailAgrees DecidedOnce
PROPERTIES LedgerUntilCrossed
CHECK_DEADLOCK FALSE

SPECIFICATION MCSpec
CONSTANTS
    w1 = w1  w2 = w2  e1 = e1  a1 = a1
    Workers <- TwoWorkers
    Employees <- OneEmployee
    Adjustments <- OneAdjustment
    Reasons = {"year_end"}
    Carried <- CarriedUnits
    Current <- CurrentUnits
    Calls <- AllCalls
    MaxRows = 3
    MaxVersion = 1
    MaxSettled = 3
SYMMETRY Symmetry
INVARIANTS TypeOK LockedAsConfirmed TotalsAgree SlipsAgree AppliedOnce IncludedIsPaid
PROPERTIES LockedUnderReview PeriodUntilMissed
CHECK_DEADLOCK FALSE

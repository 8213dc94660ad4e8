SPECIFICATION MCSpec
CONSTANTS
    w1 = w1  w2 = w2  e1 = e1  a1 = a1
    Workers <- OneWorker
    Employees <- OneEmployee
    Adjustments <- NoAdjustments
    Reasons = {"year_end"}
    Carried <- CarriedUnits
    Current <- CurrentUnits
    Calls = {"create", "recalculate", "confirm", "lock", "release"}
    MaxRows = 2
    MaxVersion = 0
    MaxSettled = 0
PROPERTIES LockedIsFixed
CHECK_DEADLOCK FALSE

SPECIFICATION FairMCSpec
CONSTANTS
    w1 = w1  w2 = w2  u1 = u1  u2 = u2
    Workers <- TwoWorkers
    Users <- TwoUsers
    MaxJobs = 2
    Limit = 1
    MaxAttempts = 2
    MaxCrashes = 1
INVARIANTS TypeOK ReviewedBySecond NeverGivesUpEarly
PROPERTIES ImplementsLife LateExpires QueuedEnds
CHECK_DEADLOCK FALSE

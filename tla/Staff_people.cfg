SPECIFICATION FairMCSpec
CONSTANTS
    w1 = w1  w2 = w2  e1 = e1  e2 = e2  e3 = e3  p1 = p1  p2 = p2  t1 = t1
    Workers <- TwoWorkers
    Employees <- ThreeEmployees
    Founders <- Founder
    Posts <- TwoPosts
    TaskTypes <- OneTask
    Connections = 2
    MaxDepth = 2
    EventWindow = 1
    MaxEvents = 2
INVARIANTS TypeOK NoReportingCycle TimelineTells VerifiedMeansSettled
PROPERTIES PostAsAsked CallsEnd
CHECK_DEADLOCK FALSE

SPECIFICATION Spec
CONSTANTS
    w1 = w1  w2 = w2  w3 = w3  s1 = s1  staff = staff  boss = boss  hr = hr
    Workers <- TwoWorkers
    Submissions <- OneSubmission
    Employees <- People
    HrAdmins <- Hr
    ManagerOf <- Managers
    Templates <- Offered
    StepTypes <- Types
    Conditions <- Asked
INVARIANTS EveryReviewGiven
CHECK_DEADLOCK FALSE

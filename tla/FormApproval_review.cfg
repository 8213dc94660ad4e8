SPECIFICATION Spec
CONSTANTS
    w1 = w1  w2 = w2  w3 = w3  s1 = s1  staff = staff  boss = boss  hr = hr
    Workers <- ThreeWorkers
    Submissions <- OneSubmission
    Employees <- People
    HrAdmins <- Hr
    ManagerOf <- Managers
    Templates <- Offered
    StepTypes <- Types
    Conditions <- Asked
SYMMETRY Symmetry
INVARIANTS TypeOK ChainAgrees RoutedInOrder
PROPERTIES ReviewUntilCrossed
CHECK_DEADLOCK FALSE

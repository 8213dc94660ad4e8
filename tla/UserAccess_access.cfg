SPECIFICATION Spec
CONSTANTS
    w1 = w1  w2 = w2  u1 = u1  u2 = u2  e1 = e1
    Workers <- TwoWorkers
    Users <- TwoUsers
    Employees <- OneEmployee
    Roles <- OwnerOrEmployee
    FirstOwner = u1
    Updates <- SomeUpdates
    Invitations <- OneRole
SYMMETRY Symmetry
INVARIANTS TypeOK OwnerRemains RolesAsAsked
PROPERTIES LinkNotTaken AtomicUnlessOvertaken
CHECK_DEADLOCK FALSE

CONSTANTS
    admin1 = admin1
    clerk = clerk
    User = {u1, u2}
    Role = {admin1, clerk}
    Protected = {admin1}
    Admin = admin1
    Assigned <- RoleSets
    Matrices <- PermSets
    Ttl = 2
    Horizon = 0
    Request = {r1, r2}
    MaxTime = 1
    MaxSessions = 2
SPECIFICATION Spec
INVARIANT InactiveHoldsNone
CHECK_DEADLOCK FALSE

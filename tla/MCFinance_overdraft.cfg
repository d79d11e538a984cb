CONSTANTS
    Account = {a1}
    Amount = {1}
    Request = {r1, r2}
    AllowNegative = FALSE
    OneAtATime = FALSE
    MaxRows = 3
SPECIFICATION Spec
INVARIANT Solvent
CHECK_DEADLOCK FALSE

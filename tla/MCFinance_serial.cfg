CONSTANTS
    Account = {a1, a2}
    Amount = {1, 2}
    Request = {r1, r2}
    AllowNegative = FALSE
    OneAtATime = TRUE
    MaxRows = 3
SPECIFICATION Spec
SYMMETRY Symmetry
INVARIANT Solvent
CHECK_DEADLOCK FALSE

CONSTANTS
    Account = {a1, a2}
    Amount = {1, 2}
    Request = {r1, r2}
    AllowNegative = FALSE
    OneAtATime = FALSE
    MaxRows = 2
SPECIFICATION Spec
SYMMETRY Symmetry
INVARIANT TypeOK
INVARIANT CachedIsFold
INVARIANT LinkedStaysLive
PROPERTY HistoryKept
CHECK_DEADLOCK FALSE

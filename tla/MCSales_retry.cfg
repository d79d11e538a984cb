CONSTANTS
    Product = {p1}
    Tracked = {p1}
    Customer = {c1}
    WalkIn = walkin
    Account = {a1}
    Year = {2024}
    Qty = {1}
    LineTotal = {1}
    PayAmount = {1}
    Opening = 1
    Limited = {}
    Limit = 0
    EnforceLimit = FALSE
    AllowNegativeStock = FALSE
    AllowNegativeBalance = TRUE
    Request = {r1}
    OneAtATime = TRUE
    MayFail = TRUE
    Manual = {}
    MaxSales = 1
    MaxLines = 1
    MaxMoves = 4
    MaxEntries = 3
SPECIFICATION Spec
INVARIANT ReturnedOnce
CHECK_DEADLOCK FALSE

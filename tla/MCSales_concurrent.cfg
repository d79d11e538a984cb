CONSTANTS
    Product = {p1}
    Tracked = {p1}
    Customer = {c1}
    WalkIn = walkin
    Account = {a1}
    Year = {2024}
    Qty = {1}
    LineTotal = {1}
    PayAmount = {1}
    Opening = 1
    Limited = {}
    Limit = 0
    EnforceLimit = FALSE
    AllowNegativeStock = FALSE
    AllowNegativeBalance = FALSE
    Request = {r1, r2}
    OneAtATime = FALSE
    MayFail = TRUE
    Manual = {"expense", "update", "delete"}
    MaxSales = 2
    MaxLines = 1
    MaxMoves = 3
    MaxEntries = 2
SPECIFICATION Spec
SYMMETRY Symmetry
INVARIANT TypeOK
INVARIANT NumbersInOrder
INVARIANT NothingOutside
INVARIANT PaymentsPosted
PROPERTY IsDocument
PROPERTY ShipsCovered
CHECK_DEADLOCK FALSE

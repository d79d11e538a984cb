CONSTANTS
    Product = {p1, p3}
    Tracked = {p1}
    Customer = {c1}
    WalkIn = walkin
    Account = {a1}
    Year = {2024}
    Qty = {1}
    LineTotal = {0, 1}
    PayAmount = {1}
    Opening = 2
    Limited = {c1}
    Limit = 3
    EnforceLimit = TRUE
    AllowNegativeStock = FALSE
    AllowNegativeBalance = FALSE
    Request = {r1}
    OneAtATime = TRUE
    MayFail = FALSE
    Manual = {"expense"}
    MaxSales = 2
    MaxLines = 2
    MaxMoves = 4
    MaxEntries = 4
    Collected = {2}
    MaxReceipts = 1
SPECIFICATION FairReceiptsSpec
INVARIANT DebtWithinLimit
INVARIANT ShippedAsSold
INVARIANT AnnulledReversed
INVARIANT ReturnedOnce
INVARIANT PaidWithinTotal
INVARIANT CashSettled
INVARIANT ReceiptExplained
PROPERTY AnnulmentCompletes
CHECK_DEADLOCK FALSE

CONSTANTS
    Product = {p1}
    Tracked = {p1}
    Supplier = {s1}
    Account = {a1}
    Year = {2024, 2025}
    Day = {1}
    Qty = {1}
    Cost = {1}
    Headers <- CashOrCredit
    p1 = p1
    p2 = p2
    Lines <- AnyUnit
    Gross <- Untaxed
    Ladder <- Markups
    PayAmount = {1}
    Opening = 0
    Funds = 2
    AllowNegativeStock = FALSE
    AllowNegativeBalance = FALSE
    Request = {r1, r2}
    OneAtATime = FALSE
    MayFail = TRUE
    CostByHand = {p1}
    StockByHand = {}
    MaxPurchases = 2
    MaxLines = 1
    MaxMoves = 2
    MaxEntries = 2
SPECIFICATION Spec
SYMMETRY Symmetry
INVARIANT TypeOK
INVARIANT PaymentsPosted
PROPERTY IsDocument
PROPERTY ConfirmKeepsCosts
CHECK_DEADLOCK FALSE

CONSTANTS
    Product = {p1, p2}
    Tracked = {p1, p2}
    Supplier = {s1}
    Account = {a1}
    Year = {2024, 2025}
    Day = {1}
    Qty = {1}
    Cost = {0, 1}
    Headers <- CashOrCredit
    p1 = p1
    p2 = p2
    Lines <- OneCostForP1
    Gross <- Taxed
    Ladder <- Markups
    PayAmount = {1, 2}
    Opening = 0
    Funds = 3
    AllowNegativeStock = FALSE
    AllowNegativeBalance = FALSE
    Request = {r1}
    OneAtATime = TRUE
    MayFail = FALSE
    CostByHand = {}
    StockByHand = {p1}
    MaxPurchases = 2
    MaxLines = 2
    MaxMoves = 4
    MaxEntries = 3
SPECIFICATION Spec
INVARIANT ReceivedAsBought
INVARIANT AnnulledReversed
INVARIANT PaidWithinTotal
INVARIANT PlanServed
INVARIANT CostsCurrent
CHECK_DEADLOCK FALSE

CONSTANTS
    p1 = p1
    Family = {"sale", "purchase"}
    Parent = {1, 2}
    Sold <- Lines
    Tracked = {p1}
    Account = {a1}
    Year = {2024}
    PayAmount = {1}
    Qty = {1, 2}
    HandMove <- Taking
    Opening = 1
    Funds = 1
    AllowNegativeStock = FALSE
    AllowNegativeBalance = FALSE
    Request = {r1}
    OneAtATime = TRUE
    MayFail = TRUE
    MaxReturns = 2
    MaxMoves = 3
    MaxEntries = 3
SPECIFICATION Spec
INVARIANT TypeOK
INVARIANT WithinParents
INVARIANT RefundedAsWorth
INVARIANT MovedAndReversed
INVARIANT RefundsPosted
PROPERTY IsDocument
CHECK_DEADLOCK FALSE

CONSTANTS
    RateSets <- SomeRates
    Figures = {0, 3, 10, 33}
    UnitCosts = {0, 7}
    Patches <- SomePatches
    Ladder <- Markups
    Request = {r1, r2}
SPECIFICATION PricesSpec
SYMMETRY Symmetry
INVARIANT PriceKept
INVARIANT PriceDerived
CHECK_DEADLOCK FALSE

-------------------------------- MODULE Prices --------------------------------
(***************************************************************************)
(* The price arithmetic: the taxes of a line (services/line_taxes.rs), the *)
(* net that grosses to a typed figure (services/gross_inverse.rs), and the *)
(* markup that keeps it (services/final_price.rs, derive_net_sale_price of *)
(* services/inventory.rs).                                                 *)
(*                                                                         *)
(* Money is in whole cents, a rate in hundredths of a percent, a markup of *)
(* d decimals in units of 10^-d percent.  The code's decimals hold 28      *)
(* digits; its refusals of figures beyond that are left out.               *)
(***************************************************************************)
EXTENDS Sums

CONSTANT Ladder   \* the units of the markups tried, coarsest first

ASSUME PricesAssumption == Ladder \in Seq(Nat \ {0})

Whole == 10000   \* 100 %

\* a / b to the nearest integer, midpoints away from zero (b > 0).
Rounded(a, b) ==
    IF a >= 0 THEN (2 * a + b) \div (2 * b) ELSE -((b - 2 * a) \div (2 * b))

\* Every tax applies to the net, and is rounded by itself.
Contribution(net, rate) == Rounded(net * rate, Whole)

TaxTotal(net, rates) ==
    SumOver([i \in 1..Len(rates) |-> Contribution(net, rates[i])], Len(rates))

LineTotal(net, rates) == net + TaxTotal(net, rates)

\* What Whole of net comes to, unrounded.
Divisor(rates) == Whole + SumOver(rates, Len(rates))

-----------------------------------------------------------------------------

MaxRadius == 1000
Margin == 1

\* Half a cent for each of the roundings, scaled to the net and rounded up.
Radius(rates) ==
    LET bound == -((-(Len(rates) + 1) * Whole) \div (2 * Divisor(rates))) + Margin
    IN  IF bound <= MaxRadius THEN bound ELSE MaxRadius

Base(gross, rates) == Rounded(gross * Whole, Divisor(rates))

Candidates(gross, rates) ==
    {net \in (Base(gross, rates) - Radius(rates))..(Base(gross, rates) + Radius(rates)) :
        LineTotal(net, rates) = gross}

\* The distance of a net from the unrounded estimate, times the divisor.
Distance(net, gross, rates) ==
    LET d == net * Divisor(rates) - gross * Whole IN IF d >= 0 THEN d ELSE -d

Nearer(a, b, gross, rates) ==
    \/ Distance(a, gross, rates) < Distance(b, gross, rates)
    \/ Distance(a, gross, rates) = Distance(b, gross, rates) /\ a <= b

\* Mutant: the division without the search.
SolveNetDivided(gross, rates) == Base(gross, rates)

SolveNet(gross, rates) ==
    CHOOSE net \in Candidates(gross, rates) :
        \A other \in Candidates(gross, rates) : Nearer(net, other, gross, rates)

Solvable(gross, rates) == Candidates(gross, rates) # {}

-----------------------------------------------------------------------------

\* The net a save derives from cost and markup; refused at -100 % and below.
DeriveNet(cost, markup) ==
    Rounded(cost * (100 * markup.unit + markup.pct), 100 * markup.unit)

MarkupLegal(markup) == markup.pct > -100 * markup.unit

MarkupAt(cost, net, unit) == [pct |-> Rounded((net - cost) * 100 * unit, cost), unit |-> unit]

Closes(cost, net, unit) ==
    LET markup == MarkupAt(cost, net, unit)
    IN  MarkupLegal(markup) /\ DeriveNet(cost, markup) = net

NoMarkup == [markup |-> "none"]

\* The coarsest rung of the ladder that reproduces the net.
Rungs(cost, net) == {i \in 1..Len(Ladder) : Closes(cost, net, Ladder[i])}

SolveMarkup(cost, net) ==
    MarkupAt(cost, net, Ladder[CHOOSE i \in Rungs(cost, net) : \A k \in Rungs(cost, net) : i <= k])

Reasons == {"MarkupNeedsPositiveCost", "SalePriceNotPositiveForProduct",
            "FinalPriceUnreachable", "FinalPriceMarkupUnreachable"}

\* The rules of solve_final_price, in their order, for a product.
FinalPrice(final, cost, marked, rates) ==
    IF marked /\ cost = 0 THEN [refused |-> "MarkupNeedsPositiveCost"]
    ELSE IF final <= 0 THEN [refused |-> "SalePriceNotPositiveForProduct"]
    ELSE IF ~ Solvable(final, rates) THEN [refused |-> "FinalPriceUnreachable"]
    ELSE IF cost = 0 THEN [net |-> SolveNet(final, rates), markup |-> NoMarkup]
    ELSE IF Rungs(cost, SolveNet(final, rates)) = {}
    THEN [refused |-> "FinalPriceMarkupUnreachable"]
    ELSE [net |-> SolveNet(final, rates), markup |-> SolveMarkup(cost, SolveNet(final, rates))]

=============================================================================

----------------------------- MODULE ProductPrices -----------------------------
(***************************************************************************)
(* The price columns of one product: the patches that merge into the row   *)
(* (update_product of services/inventory.rs), the tax-inclusive price a    *)
(* user types and confirms (routes/inventory_web.rs), and the taxes linked *)
(* to it.  A request reads the row, derives, and writes the whole row back *)
(* in a later statement; another request may write in between.             *)
(***************************************************************************)
EXTENDS Prices

CONSTANTS RateSets,   \* the rates of the active taxes a product may have
          Figures,    \* the tax-inclusive prices typed
          UnitCosts,  \* the costs on the screen
          Patches,    \* the patches of every other edit: some fields of a row
          Request     \* requests under way at the same time

Markup == [pct : Int, unit : Nat \ {0}] \cup {NoMarkup}
Row == [cost : Nat, net : Int, markup : Markup]

\* Some of the fields of a row.
IsPatch(patch) ==
    /\ DOMAIN patch \subseteq {"cost", "net", "markup"}
    /\ "cost" \in DOMAIN patch => patch.cost \in Nat
    /\ "net" \in DOMAIN patch => patch.net \in Int
    /\ "markup" \in DOMAIN patch => patch.markup \in Markup

ASSUME ProductPricesAssumption ==
    /\ RateSets \subseteq Seq(Nat) /\ <<>> \in RateSets
    /\ \A rates \in RateSets : Len(rates) + 1 <= 2 * (MaxRadius - 1)   \* the search is capped
    /\ Figures \subseteq Nat /\ UnitCosts \subseteq Nat
    /\ \A patch \in Patches : IsPatch(patch)

VARIABLES product,  \* cost_price, sale_price and markup_pct of the row
          taxes,    \* the rates of its active taxes
          pending,  \* what each request has read and is about to write
          typed     \* ghost: the final price the row was last solved for, while
                    \* nothing it depends on was edited since; 0 if none

priceVars == <<product, taxes, pending, typed>>

NoSave == [step |-> "none"]

Init ==
    /\ product = [cost |-> 0, net |-> 1, markup |-> NoMarkup] /\ taxes = <<>>
    /\ pending = [r \in Request |-> NoSave]
    /\ typed = 0

-----------------------------------------------------------------------------

Merged(patch) == [f \in DOMAIN product |-> IF f \in DOMAIN patch THEN patch[f] ELSE product[f]]

\* What validate_product makes of a row: a markup derives its net.
Derived(row) == IF row.markup = NoMarkup THEN row.net ELSE DeriveNet(row.cost, row.markup)

\* Mutant: a save keeps the net it was sent.
ValidatedAsSent(row) == row

Validated(row) == [row EXCEPT !.net = Derived(row)]

\* A product sells for something.
Accepted(row) ==
    /\ row.markup # NoMarkup => MarkupLegal(row.markup) /\ row.cost > 0
    /\ Derived(row) > 0

\* A patch that types no price leaves the one that was typed in force.
SaveRead(r, patch) ==
    /\ pending[r] = NoSave /\ Accepted(Merged(patch))
    /\ pending' = [pending EXCEPT ![r] =
           [step |-> "write", row |-> Validated(Merged(patch)),
            claim |-> IF Merged(patch) = product THEN typed ELSE 0]]
    /\ UNCHANGED <<product, taxes, typed>>

FinalRead(r, final, cost) ==
    /\ pending[r] = NoSave
    /\ pending' = [pending EXCEPT ![r] =
           [step |-> "solve", final |-> final, cost |-> cost, marked |-> product.markup # NoMarkup]]
    /\ UNCHANGED <<product, taxes, typed>>

\* solve_final_price under the taxes read now, and validate_product of its answer.
FinalSolve(r) ==
    LET screen == pending[r]
        price == FinalPrice(screen.final, screen.cost, screen.marked, taxes)
    IN  /\ screen.step = "solve"
        /\ pending' = [pending EXCEPT ![r] =
               IF "refused" \in DOMAIN price
               THEN [step |-> "refused", final |-> screen.final, rates |-> taxes, why |-> price.refused]
               ELSE LET row == [cost |-> screen.cost, net |-> price.net, markup |-> price.markup]
                    IN  [step |-> "write", row |-> Validated(row), claim |-> screen.final]]
        /\ UNCHANGED <<product, taxes, typed>>

Write(r) ==
    /\ pending[r].step = "write"
    /\ product' = pending[r].row /\ typed' = pending[r].claim
    /\ pending' = [pending EXCEPT ![r] = NoSave]
    /\ UNCHANGED taxes

\* A tax is linked, unlinked, edited or deactivated: what was solved for the
\* taxes before is no longer claimed.
TaxesChange(rates) ==
    /\ taxes' = rates /\ typed' = 0
    /\ pending' = [r \in Request |->
           IF pending[r].step = "write" THEN [pending[r] EXCEPT !.claim = 0] ELSE pending[r]]
    /\ UNCHANGED product

\* A request answers its refusal, or dies where it is.
Stop(r) ==
    /\ pending[r] # NoSave
    /\ pending' = [pending EXCEPT ![r] = NoSave]
    /\ UNCHANGED <<product, taxes, typed>>

Next ==
    \/ \E r \in Request :
        \/ \E patch \in Patches : SaveRead(r, patch)
        \/ \E final \in Figures, cost \in UnitCosts : FinalRead(r, final, cost)
        \/ FinalSolve(r) \/ Write(r) \/ Stop(r)
    \/ \E rates \in RateSets : TaxesChange(rates)

PricesSpec == Init /\ [][Next]_priceVars

-----------------------------------------------------------------------------

Screen == [step : {"solve"}, final : Figures, cost : UnitCosts, marked : BOOLEAN]
Refusal == [step : {"refused"}, final : Figures, rates : RateSets, why : Reasons]
Save == [step : {"write"}, row : Row, claim : Nat]
Pending == {NoSave} \cup Screen \cup Refusal \cup Save

TypeOK ==
    /\ product \in Row /\ taxes \in RateSets /\ typed \in Nat
    /\ pending \in [Request -> Pending]

NetsOf(gross, rates) == {net \in 0..gross : LineTotal(net, rates) = gross}

\* The row still grosses to the price that was typed.
PriceGrosses == typed # 0 => LineTotal(product.net, taxes) = typed

\* A price is called unreachable only where no net grosses to it.
RefusedFairly ==
    \A r \in Request : pending[r].step = "refused" /\ pending[r].why = "FinalPriceUnreachable" =>
        NetsOf(pending[r].final, pending[r].rates) = {}

\* The ladder always has a markup that reproduces the net.
MarkupFound ==
    \A r \in Request : pending[r].step = "refused" => pending[r].why # "FinalPriceMarkupUnreachable"

(* A typed price is kept to the cent or refused: it is refused only where  *)
(* no net grosses to it, and once written the row grosses to it until a    *)
(* price or a tax is edited, however often the markup stored beside it     *)
(* derives it again and however saves overlap.                             *)
PriceKept == PriceGrosses /\ RefusedFairly /\ MarkupFound

(* The net of a product with a markup is the one its cost and its markup   *)
(* derive: overlapping saves may replace one another, and never leave the  *)
(* cost of one beside the price of another.                                *)
PriceDerived == product.markup # NoMarkup => product.net = DeriveNet(product.cost, product.markup)

=============================================================================

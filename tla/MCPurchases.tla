------------------------------ MODULE MCPurchases ------------------------------
(* Purchases on small instances, with the price arithmetic that gives a    *)
(* line its total; requests and accounts are symmetric.                    *)
EXTENDS Purchases, Prices

Untaxed(qty, cost) == LineTotal(qty * cost, <<>>)

\* 50 %: half a cent on a cent, rounded up.
Taxed(qty, cost) == LineTotal(qty * cost, <<5000>>)

Markups == <<1>>   \* no line has a markup

(* Cash of the later date; credit of the earlier, due at once or later.    *)
d1 == <<2024, 1>>
d2 == <<2025, 1>>

CashOrCredit ==
    {[supplier |-> s, date |-> d2, due |-> NoDate] : s \in Supplier}
    \cup {[supplier |-> s, date |-> d1, due |-> d] : s \in Supplier, d \in {d1, d2}}

(* One unit of any product at any cost; or p1 at a single cost.            *)
CONSTANTS p1, p2

AnyUnit == Line

OneCostForP1 == {line \in Line : line.product = p1 => line.cost = 1}

Symmetry == Permutations(Request) \cup Permutations(Account) \cup Permutations(Supplier)
=============================================================================

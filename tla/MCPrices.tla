------------------------------ MODULE MCPrices ------------------------------
(* Product prices on a small instance; requests are symmetric.             *)
EXTENDS ProductPrices, FiniteSets, TLC

(* None; one tax; two of 50 %, where dividing by 2 is a cent off.          *)
SomeRates == {<<>>, <<2100>>, <<5000, 5000>>, <<2100, 1000, 500>>}

(* No, two and four decimals.                                              *)
Markups == <<1, 100, 10000>>

(* A name, a cost, a price, a markup of 50 %, and a form with all three.   *)
SomePatches ==
    {<<>>, [cost |-> 3], [net |-> 2], [markup |-> NoMarkup],
     [markup |-> [pct |-> 50, unit |-> 1]],
     [cost |-> 3, net |-> 5, markup |-> [pct |-> 50, unit |-> 1]]}

Symmetry == Permutations(Request)
=============================================================================

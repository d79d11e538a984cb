------------------------------- MODULE MCReturns -------------------------------
(* Returns on small instances: two parents, one of two lines of which one  *)
(* sells two units, and another of one line.                               *)
EXTENDS Returns

CONSTANTS p1

Lines ==
    <<[parent |-> 1, product |-> p1, qty |-> 2, price |-> 1],
      [parent |-> 2, product |-> p1, qty |-> 1, price |-> 1]>>

\* A movement by hand takes one unit.
Taking == {-1}

=============================================================================

------------------------------ MODULE MCFinance ------------------------------
(* Finance on small instances, with the request slots and accounts symmetric. *)
EXTENDS Finance, TLC

Symmetry == Permutations(Request) \cup Permutations(Account)
=============================================================================

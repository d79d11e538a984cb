------------------------------- MODULE MCSales -------------------------------
(* Sales on small instances; requests, products and accounts are symmetric *)
(* (the tracked products among themselves).                                *)
EXTENDS Sales

Symmetry == Permutations(Request) \cup Permutations(Tracked) \cup Permutations(Account)
=============================================================================

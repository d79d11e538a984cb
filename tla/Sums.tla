-------------------------------- MODULE Sums --------------------------------
(***************************************************************************)
(* The one arithmetic shape the ledgers of Roya are built from: the sum    *)
(* of a figure over the rows of a table, in id order.  Rows are kept in    *)
(* sequences (an AUTOINCREMENT id is a position and is never reused), so a *)
(* sum is taken over the positions 1..n of a function of integers.  It is  *)
(* a recursive function, not a RECURSIVE operator, so that its laws can be *)
(* proved (SumsProofs).                                                    *)
(***************************************************************************)
EXTENDS Integers, Sequences

(* The running sums of w[1], ..., w[n]; SumOver is the last of them. *)
SumOver(w, n) ==
    LET upto[i \in 0..n] == IF i = 0 THEN 0 ELSE upto[i - 1] + w[i]
    IN  upto[n]

(* The rows of s at the positions in ids, in order: what a loop keeps that *)
(* skips the others.                                                       *)
Picked(s, ids) ==
    LET upto[i \in 0..Len(s)] ==
            IF i = 0 THEN <<>>
            ELSE IF i \in ids THEN Append(upto[i - 1], s[i]) ELSE upto[i - 1]
    IN  upto[Len(s)]

=============================================================================

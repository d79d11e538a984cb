------------------------------ MODULE MCReceipts ------------------------------
(* Receipts, and with them Sales, on a small instance.                     *)
EXTENDS Receipts
=============================================================================

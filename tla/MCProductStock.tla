--------------------------- MODULE MCProductStock ---------------------------
(* ProductStock on a 4-bit integer: its largest value is 7.                *)
EXTENDS ProductStock, TLC

Symmetric == Permutations(Requests)
=============================================================================

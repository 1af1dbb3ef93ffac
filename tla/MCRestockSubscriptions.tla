----------------------- MODULE MCRestockSubscriptions -----------------------
(* RestockSubscriptions on small sets.                                     *)
EXTENDS RestockSubscriptions, TLC

Symmetric ==
  Permutations(Subs) \cup Permutations(Messages) \cup Permutations(Emails)
=============================================================================

----------------------- MODULE MCCatalogsAndCustomers -----------------------
(* Both services on small sets.                                            *)
EXTENDS CatalogsAndCustomers, TLC

Symmetric == Permutations(Requests)
=============================================================================

------------------------- MODULE MCCustomerAccounts -------------------------
(* Two mailboxes, one of them with two spellings.                          *)
EXTENDS CustomerAccounts

Spellings == {"ann", "Ann", "bob"}
Lowercase == [e \in Spellings |-> IF e = "Ann" THEN "ann" ELSE e]
=============================================================================

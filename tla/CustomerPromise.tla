--------------------------- MODULE CustomerPromise ---------------------------
(***************************************************************************)
(* What Identity and Customers promise together, without transactions,     *)
(* messages and read models: a registered user becomes a customer at most  *)
(* once, with the contact Identity has; a customer stays one, of the same  *)
(* user, and shares its contact with no other; and a user is taken for     *)
(* served only as a customer, or without the role User.                    *)
(***************************************************************************)
CONSTANTS Users, Ids, Accounts, Rows, Nobody

VARIABLES
  account,    \* registered users
  customer,   \* customers
  served      \* users whose registration needs no more work

vars == <<account, customer, served>>

Init ==
  /\ account = [u \in Users |-> Nobody]
  /\ customer = [c \in Ids |-> Nobody]
  /\ served = {}

Register(u, a) ==
  /\ account[u] = Nobody
  /\ account' = [account EXCEPT ![u] = a]
  /\ UNCHANGED <<customer, served>>

\* No other customer has the address or the number of x.
Fits(c, x) ==
  \A d \in Ids \ {c} : customer[d] # Nobody =>
    customer[d].email # x.email /\ customer[d].phone # x.phone

Join(c, x) ==
  /\ customer[c] = Nobody
  /\ account[x.user] # Nobody
  /\ x.email = account[x.user].email /\ x.phone = account[x.user].phone
  /\ \A d \in Ids : customer[d] # Nobody => customer[d].user # x.user
  /\ Fits(c, x)
  /\ customer' = [customer EXCEPT ![c] = x]
  /\ served' \in {served, served \cup {x.user}}
  /\ UNCHANGED account

Change(c, x) ==
  /\ customer[c] # Nobody
  /\ x.user = customer[c].user
  /\ Fits(c, x)
  /\ customer' = [customer EXCEPT ![c] = x]
  /\ UNCHANGED <<account, served>>

\* A user without the role User needs no customer.
Excuse(u) ==
  /\ account[u] # Nobody /\ ~account[u].isUser
  /\ served' = served \cup {u}
  /\ UNCHANGED <<account, customer>>

Next ==
  \/ \E u \in Users : Excuse(u) \/ \E a \in Accounts : Register(u, a)
  \/ \E c \in Ids, x \in Rows : Join(c, x) \/ Change(c, x)

Spec == Init /\ [][Next]_vars
=============================================================================

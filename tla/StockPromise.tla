---------------------------- MODULE StockPromise ----------------------------
(***************************************************************************)
(* What Catalogs promises about the stock of a product, without            *)
(* transactions, copies and columns: a request is served once or not at    *)
(* all; it moves units or changes the restock threshold, never both; the   *)
(* stock stays legal and keeps its maximum; and who moves units tells how  *)
(* many there are now.                                                     *)
(***************************************************************************)
CONSTANTS Requests, Stocks, NoStock   \* Stocks: the legal ones

VARIABLES
  stock,
  served,   \* requests that were served
  told      \* request and units, of what was announced

vars == <<stock, served, told>>

Init == stock = NoStock /\ served = {} /\ told = {}

Serve(r) == r \notin served /\ served' = served \cup {r}

Tell(r) == told' = told \cup {[request |-> r, units |-> stock'.available]}

Create(r) ==
  /\ stock = NoStock
  /\ stock' \in Stocks
  /\ Serve(r)
  /\ Tell(r)

\* A debit or a replenishment.
Move(r) ==
  /\ stock # NoStock
  /\ stock' \in Stocks
  /\ stock'.restockThreshold = stock.restockThreshold
  /\ stock'.maxStockThreshold = stock.maxStockThreshold
  /\ Serve(r)
  /\ Tell(r)

\* A new restock threshold.
Adjust(r) ==
  /\ stock # NoStock
  /\ stock' \in Stocks
  /\ stock'.available = stock.available
  /\ stock'.maxStockThreshold = stock.maxStockThreshold
  /\ Serve(r)
  /\ UNCHANGED told

Next == \E r \in Requests : Create(r) \/ Move(r) \/ Adjust(r)

Spec == Init /\ [][Next]_vars
=============================================================================

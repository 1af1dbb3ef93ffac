------------------------- MODULE ProductStockProofs -------------------------
(***************************************************************************)
(* Theorems about ProductStock, for every integer width, every set of      *)
(* requests, every set of quantities and every set of thresholds.          *)
(***************************************************************************)
EXTENDS ProductStock, TLAPS

InFlight(r) == phase[r] \in {"loaded", "saved"}

\* A copy that a handler holds is a legal stock with the row's own maximum: no
\* command changes the maximum once the product exists.
CopyOK ==
  \A r \in Requests : InFlight(r) =>
    /\ command[r] \in Commands
    /\ Validated(command[r])
    /\ command[r].op # "create" =>
         /\ row # NoRow
         /\ loaded[r] \in Stock
         /\ IsStock(loaded[r])
         /\ loaded[r].maxStockThreshold = row.maxStockThreshold

\* A CreateProduct runs alone on its identifier.
CreatesAlone ==
  \A r \in Requests : InFlight(r) /\ command[r].op = "create" =>
    /\ row = NoRow
    /\ \A q \in Requests \ {r} : ~InFlight(q)

SavedIsAccepted ==
  \A r \in Requests : phase[r] = "saved" => Accepts(command[r], loaded[r])

IInv ==
  /\ TypeOK
  /\ StockWithinBounds
  /\ CopyOK
  /\ CreatesAlone
  /\ SavedIsAccepted
  /\ UnitsKeptUnlessOvertaken

-----------------------------------------------------------------------------
(* The aggregate *)

\* A debit that Product.DebitStock accepts removes exactly the quantity asked
\* for: nothing wraps and nothing is capped.
LEMMA DebitRemovesQuantity ==
  ASSUME NEW s \in Stock, IsStock(s), NEW q \in Int32, q > 0, CanDebit(s, q)
  PROVE  /\ Debited(s, q) \in Stock
         /\ IsStock(Debited(s, q))
         /\ Debited(s, q).available = s.available - q
         /\ Debited(s, q).restockThreshold = s.restockThreshold
         /\ Debited(s, q).maxStockThreshold = s.maxStockThreshold
<1>1. /\ MaxInt \in Int /\ MaxInt > 0
      /\ s.available \in Int32 /\ s.restockThreshold \in Int32 /\ s.maxStockThreshold \in Int32
      /\ s = [available |-> s.available, restockThreshold |-> s.restockThreshold,
              maxStockThreshold |-> s.maxStockThreshold]
  BY MaxIntAssumption DEF Stock
<1>2. Magnitude(q) = q
  BY <1>1 DEF Magnitude, Int32
<1>3. q <= s.available
  BY <1>1, <1>2 DEF CanDebit, HasStock, Int32
<1>4. Debited(s, q) = [s EXCEPT !.available = Wrap(s.available - q)]
  BY <1>1, <1>2, <1>3 DEF Debited, Int32
<1>5. Wrap(s.available - q) = s.available - q /\ s.available - q \in Int32
  BY <1>1, <1>3 DEF Wrap, Int32, IsStock
<1>6. Debited(s, q) = [s EXCEPT !.available = s.available - q]
  BY <1>4, <1>5
<1>. QED
  BY <1>1, <1>5, <1>6 DEF CanDebit, Stock

\* A replenishment that Product.ReplenishStock accepts adds exactly the quantity
\* asked for: a sum that overflows is negative, so Stock.Of throws.
LEMMA ReplenishAddsQuantity ==
  ASSUME NEW s \in Stock, IsStock(s), NEW q \in Int32, CanReplenish(s, q)
  PROVE  /\ Replenished(s, q) \in Stock
         /\ IsStock(Replenished(s, q))
         /\ Replenished(s, q).available = s.available + q
         /\ Replenished(s, q).restockThreshold = s.restockThreshold
         /\ Replenished(s, q).maxStockThreshold = s.maxStockThreshold
         /\ q > 0
<1>1. /\ MaxInt \in Int /\ MaxInt > 0
      /\ s.available \in Int32 /\ s.restockThreshold \in Int32 /\ s.maxStockThreshold \in Int32
      /\ s = [available |-> s.available, restockThreshold |-> s.restockThreshold,
              maxStockThreshold |-> s.maxStockThreshold]
  BY MaxIntAssumption DEF Stock
<1>2. Replenished(s, q).available = Wrap(s.available + q)
  BY <1>1 DEF Replenished
<1>3. Wrap(s.available + q) > 0 /\ q > 0
  BY <1>2 DEF CanReplenish, IsStock
<1>4. Wrap(s.available + q) = s.available + q /\ s.available + q \in Int32
  BY <1>1, <1>3 DEF Wrap, Int32
<1>5. Replenished(s, q) = [s EXCEPT !.available = s.available + q]
  BY <1>4 DEF Replenished
<1>. QED
  BY <1>1, <1>3, <1>4, <1>5 DEF CanReplenish, Stock
-----------------------------------------------------------------------------
(* The transaction's write *)

\* When a copy and its row agree on the maximum, installing an accepted result
\* leaves a legal stock with that maximum, whatever other columns have changed
\* since the copy was read; the units are those of the result unless the
\* command is an update, which leaves the row's.
LEMMA WriteBackKeepsStock ==
  ASSUME NEW current \in Stock, IsStock(current),
         NEW copy \in Stock, IsStock(copy),
         copy.maxStockThreshold = current.maxStockThreshold,
         NEW c \in Commands, c.op # "create", Validated(c), Accepts(c, copy)
  PROVE  LET after == WriteBack(current, copy, Result(c, copy)) IN
         /\ after \in Stock
         /\ IsStock(after)
         /\ after.maxStockThreshold = current.maxStockThreshold
         /\ c.op = "update" => after.available = current.available
         /\ c.op = "debit" => after.available = copy.available - c.quantity
         /\ c.op = "replenish" => after.available = copy.available + c.quantity
         /\ c.op # "update" => after.available = Result(c, copy).available
<1>. DEFINE new == Result(c, copy)
            after == WriteBack(current, copy, new)
<1>1. /\ current # NoRow
      /\ current.available \in Int32 /\ current.restockThreshold \in Int32
      /\ current.maxStockThreshold \in Int32
      /\ copy.available \in Int32 /\ copy.restockThreshold \in Int32
      /\ copy.maxStockThreshold \in Int32
  BY NoRowAssumption DEF Stock
<1>2. after = [available |->
                 IF new.available = copy.available THEN current.available ELSE new.available,
               restockThreshold |->
                 IF new.restockThreshold = copy.restockThreshold
                 THEN current.restockThreshold ELSE new.restockThreshold,
               maxStockThreshold |->
                 IF new.maxStockThreshold = copy.maxStockThreshold
                 THEN current.maxStockThreshold ELSE new.maxStockThreshold]
  BY <1>1 DEF WriteBack
<1>3. CASE c.op = "debit"
  <2>1. c.quantity \in Int32 /\ c.quantity > 0
    BY <1>3, InputAssumption DEF Commands, Creates, Updates, Debits, Replenishes, Validated
  <2>2. CanDebit(copy, c.quantity) /\ new = Debited(copy, c.quantity)
    BY <1>3 DEF Accepts, Result
  <2>3. /\ new \in Stock /\ IsStock(new)
        /\ new.available = copy.available - c.quantity
        /\ new.restockThreshold = copy.restockThreshold
        /\ new.maxStockThreshold = copy.maxStockThreshold
    BY <2>1, <2>2, DebitRemovesQuantity
  <2>4. copy.available - c.quantity # copy.available
    BY <1>1, <2>1 DEF Int32
  <2>5. after = [available |-> copy.available - c.quantity,
                 restockThreshold |-> current.restockThreshold,
                 maxStockThreshold |-> current.maxStockThreshold]
    BY <1>2, <2>3, <2>4
  <2>6. copy.available - c.quantity \in Int32
    BY <2>3 DEF Stock
  <2>. QED  BY <1>1, <1>3, <2>3, <2>5, <2>6 DEF IsStock, Stock
<1>4. CASE c.op = "replenish"
  <2>1. c.quantity \in Int32
    BY <1>4, InputAssumption DEF Commands, Creates, Updates, Debits, Replenishes
  <2>2. CanReplenish(copy, c.quantity) /\ new = Replenished(copy, c.quantity)
    BY <1>4 DEF Accepts, Result
  <2>3. /\ new \in Stock /\ IsStock(new)
        /\ new.available = copy.available + c.quantity
        /\ new.restockThreshold = copy.restockThreshold
        /\ new.maxStockThreshold = copy.maxStockThreshold
        /\ c.quantity > 0
    BY <2>1, <2>2, ReplenishAddsQuantity
  <2>4. copy.available + c.quantity # copy.available
    BY <1>1, <2>1, <2>3 DEF Int32
  <2>5. after = [available |-> copy.available + c.quantity,
                 restockThreshold |-> current.restockThreshold,
                 maxStockThreshold |-> current.maxStockThreshold]
    BY <1>2, <2>3, <2>4
  <2>6. copy.available + c.quantity \in Int32
    BY <2>3 DEF Stock
  <2>. QED  BY <1>1, <1>4, <2>3, <2>5, <2>6 DEF IsStock, Stock
<1>5. CASE c.op = "update"
  <2>1. c.stock \in ValidStock
    BY <1>5 DEF Commands, Creates, Updates, Debits, Replenishes
  <2>2. c.stock.restockThreshold \in Int32
    BY <2>1 DEF ValidStock, Stock
  <2>3. new = [available |-> copy.available,
               restockThreshold |-> c.stock.restockThreshold,
               maxStockThreshold |-> copy.maxStockThreshold]
    BY <1>5 DEF Result, UpdatedStock, RestockThresholdChanged,
                MaxStockThresholdChanged, Stock
  <2>4. IsStock(new)
    BY <1>5 DEF Accepts, Result
  <2>5. after = [available |-> current.available,
                 restockThreshold |-> IF c.stock.restockThreshold = copy.restockThreshold
                                      THEN current.restockThreshold
                                      ELSE c.stock.restockThreshold,
                 maxStockThreshold |-> current.maxStockThreshold]
    BY <1>2, <2>3
  <2>. QED  BY <1>1, <1>5, <2>2, <2>3, <2>4, <2>5 DEF IsStock, Stock
<1>. QED
  BY <1>3, <1>4, <1>5 DEF Commands, Creates, Updates, Debits, Replenishes
\* A debit or replenishment leaves the row's restock threshold alone, though it
\* was computed from a copy that may hold an older one.
LEMMA MoveKeepsThreshold ==
  ASSUME NEW current \in Stock, NEW copy \in Stock, IsStock(copy),
         NEW c \in Commands, c.op # "create", c.op # "update",
         Validated(c), Accepts(c, copy)
  PROVE  WriteBack(current, copy, Result(c, copy)).restockThreshold
           = current.restockThreshold
<1>1. current # NoRow
  BY NoRowAssumption
<1>2. c.op \in {"debit", "replenish"} /\ c.quantity \in Int32
  BY InputAssumption DEF Commands, Creates, Updates, Debits, Replenishes
<1>3. Result(c, copy).restockThreshold = copy.restockThreshold
  <2>1. CASE c.op = "debit"
    BY <1>2, <2>1, DebitRemovesQuantity DEF Accepts, Result, Validated
  <2>2. CASE c.op = "replenish"
    BY <1>2, <2>2, ReplenishAddsQuantity DEF Accepts, Result
  <2>. QED  BY <1>2, <2>1, <2>2
<1>. QED
  BY <1>1, <1>3 DEF WriteBack
-----------------------------------------------------------------------------
(* The inductive invariant *)

\* There is no row, and no request has loaded one.
LEMMA InitIInv == Init => IInv
<1>. SUFFICES ASSUME Init PROVE IInv
  OBVIOUS
<1>1. TypeOK
  BY DEF Init, TypeOK, Phases
<1>. QED
  BY <1>1 DEF Init, IInv, StockWithinBounds, CopyOK, CreatesAlone, SavedIsAccepted,
              UnitsKeptUnlessOvertaken, InFlight

\* Everything in IInv except the row and the ledger speaks of requests in
\* flight; a request that only leaves flight cannot break it.
LEMMA EndKeepsIInv ==
  ASSUME IInv, NEW r \in Requests, NEW p \in {"refused", "aborted"},
         phase' = [phase EXCEPT ![r] = p],
         UNCHANGED <<row, command, loaded, published, ledger, overtaken>>
  PROVE  IInv'
<1>1. TypeOK'
  BY DEF IInv, TypeOK, Phases
<1>2. \A q \in Requests : InFlight(q)' => InFlight(q) /\ q # r
  BY DEF IInv, TypeOK, InFlight
<1>3. \A q \in Requests : (phase[q] = "saved")' => phase[q] = "saved"
  BY DEF IInv, TypeOK
<1>. QED
  BY <1>1, <1>2, <1>3 DEF IInv, StockWithinBounds, CopyOK, CreatesAlone, SavedIsAccepted,
                          UnitsKeptUnlessOvertaken, InFlight

\* What a request loads is the row, or that there is none.
LEMMA LoadKeepsIInv ==
  ASSUME IInv, NEW r \in Requests, NEW c \in Offered, Load(r, c)
  PROVE  IInv'
<1>1. c \in Commands
  BY InputAssumption DEF Offered, OfferedStocks, Commands, Creates, Updates, ValidStock, Stock
<1>2. /\ phase \in [Requests -> Phases] /\ command \in [Requests -> Commands \cup {NoCommand}]
      /\ loaded \in [Requests -> Stock \cup {NoRow}] /\ row \in Stock \cup {NoRow}
  BY DEF IInv, TypeOK
<1>3. TypeOK'
  BY <1>1, <1>2 DEF IInv, TypeOK, Load, Phases
<1>4. /\ \A q \in Requests \ {r} : phase'[q] = phase[q] /\ command'[q] = command[q]
                                    /\ loaded'[q] = loaded[q]
      /\ command'[r] = c
      /\ phase[r] = "idle" /\ phase'[r] \in {"loaded", "refused"}
      /\ phase'[r] = "loaded" =>
           Validated(c) /\ loaded'[r] = row /\ (c.op # "create" => row # NoRow)
      /\ c.op = "create" => row = NoRow /\ \A q \in Requests : ~InFlight(q)
      /\ row' = row
  BY <1>1, <1>2 DEF Load, InFlight
<1>5. CopyOK'
  <2>1. \A q \in Requests \ {r} : InFlight(q)' => InFlight(q)
    BY <1>4 DEF InFlight
  <2>2. c.op # "create" /\ row # NoRow => row \in Stock /\ IsStock(row)
    BY <1>2 DEF IInv, StockWithinBounds
  <2>. QED  BY <1>1, <1>4, <2>1, <2>2 DEF IInv, CopyOK, InFlight
<1>6. CreatesAlone'
  <2>1. ASSUME NEW q \in Requests, InFlight(q)', command'[q].op = "create"
        PROVE  row' = NoRow /\ \A s \in Requests \ {q} : ~InFlight(s)'
    <3>1. CASE q = r
      BY <3>1, <1>4, <2>1 DEF InFlight
    <3>2. CASE q # r
      <4>1. InFlight(q) /\ command[q].op = "create"
        BY <3>2, <1>4, <2>1 DEF InFlight
      <4>2. row = NoRow /\ \A s \in Requests \ {q} : ~InFlight(s)
        BY <4>1 DEF IInv, CreatesAlone
      <4>3. ~InFlight(r)'
        BY <4>1, <4>2, <1>4 DEF InFlight
      <4>. QED  BY <4>2, <4>3, <1>4 DEF InFlight
    <3>. QED  BY <3>1, <3>2
  <2>. QED  BY <2>1 DEF CreatesAlone
<1>7. SavedIsAccepted'
  BY <1>4 DEF IInv, SavedIsAccepted
<1>. QED
  BY <1>3, <1>5, <1>6, <1>7 DEF IInv, StockWithinBounds, UnitsKeptUnlessOvertaken, Load

\* A request that is past its write was accepted on its copy.
LEMMA SaveKeepsIInv ==
  ASSUME IInv, NEW r \in Requests, Save(r)
  PROVE  IInv'
<1>1. TypeOK'
  BY DEF IInv, TypeOK, Save, Phases
<1>2. \A q \in Requests : InFlight(q)' <=> InFlight(q)
  BY DEF IInv, TypeOK, InFlight, Save
<1>3. \A q \in Requests : (phase[q] = "saved")' => phase[q] = "saved" \/ q = r
  BY DEF IInv, TypeOK, Save
<1>. QED
  BY <1>1, <1>2, <1>3 DEF IInv, StockWithinBounds, CopyOK, CreatesAlone, SavedIsAccepted,
                          UnitsKeptUnlessOvertaken, Save, InFlight

\* The mixture of a copy and the row that a commit leaves is legal.
LEMMA CommitKeepsIInv ==
  ASSUME IInv, NEW r \in Requests, Commit(r)
  PROVE  IInv'
<1>. DEFINE c == command[r]
<1>1. /\ phase \in [Requests -> Phases] /\ row \in Stock \cup {NoRow}
      /\ ledger \in Int /\ overtaken \subseteq Requests
  BY DEF IInv, TypeOK
<1>2. /\ InFlight(r) /\ phase[r] = "saved" /\ phase' = [phase EXCEPT ![r] = "committed"]
      /\ row' = WriteBack(row, loaded[r], Result(c, loaded[r]))
      /\ command' = command /\ loaded' = loaded
      /\ ledger' = IF c.op = "create" THEN c.stock.available ELSE ledger + Moved(c)
      /\ overtaken' = IF /\ c.op \in {"debit", "replenish"}
                         /\ loaded[r].available # row.available
                      THEN overtaken \cup {r} ELSE overtaken
  BY DEF Commit, Install, InFlight
<1>3. c \in Commands /\ Validated(c) /\ Accepts(c, loaded[r])
  BY <1>2 DEF IInv, CopyOK, SavedIsAccepted
<1>4. \A q \in Requests : /\ InFlight(q)' => InFlight(q) /\ q # r
                          /\ phase'[q] = "saved" => phase[q] = "saved" /\ q # r
  BY <1>1, <1>2 DEF InFlight
<1>5. \A p \in published' : p.request \in Requests /\ p.event.type \in IntegrationEventTypes
  BY DEF Commit, Outgoing, ToIntegrationEvents, IInv, TypeOK
<1>6. CASE c.op = "create"
  <2>1. row = NoRow /\ \A q \in Requests \ {r} : ~InFlight(q)
    BY <1>2, <1>6 DEF IInv, CreatesAlone
  <2>2. c.stock \in ValidStock
    BY <1>3, <1>6 DEF Commands, Creates, Updates, Debits, Replenishes
  <2>3. row' = c.stock /\ row' \in Stock /\ IsStock(row') /\ ledger' = row'.available
    BY <1>2, <1>6, <2>1, <2>2 DEF WriteBack, Result, ValidStock
  <2>4. ledger' \in Int
    BY <2>3, MaxIntAssumption DEF Stock, Int32
  <2>5. \A q \in Requests : ~InFlight(q)' /\ phase'[q] # "saved"
    BY <1>4, <2>1 DEF InFlight
  <2>6. TypeOK'
    BY <1>1, <1>2, <1>5, <2>3, <2>4 DEF IInv, TypeOK, Phases
  <2>. QED
    BY <2>3, <2>5, <2>6 DEF IInv, StockWithinBounds, CopyOK, CreatesAlone, SavedIsAccepted,
                            UnitsKeptUnlessOvertaken, InFlight
<1>7. CASE c.op # "create"
  <2>1. /\ row # NoRow /\ row \in Stock /\ IsStock(row)
        /\ loaded[r] \in Stock /\ IsStock(loaded[r])
        /\ loaded[r].maxStockThreshold = row.maxStockThreshold
    BY <1>1, <1>2, <1>7 DEF IInv, CopyOK, StockWithinBounds
  <2>2. /\ row' \in Stock /\ IsStock(row')
        /\ row'.maxStockThreshold = row.maxStockThreshold
        /\ c.op = "update" => row'.available = row.available
        /\ c.op = "debit" => row'.available = loaded[r].available - c.quantity
        /\ c.op = "replenish" => row'.available = loaded[r].available + c.quantity
    BY <1>2, <1>3, <1>7, <2>1, WriteBackKeepsStock
  <2>3. c.op \in {"debit", "replenish"} => c.quantity \in Int
    <3>1. c.op \in {"debit", "replenish"} => c.quantity \in Quantities
      BY <1>3 DEF Commands, Creates, Updates, Debits, Replenishes
    <3>2. \A n \in Int32 : n \in Int
      BY MaxIntAssumption DEF Int32
    <3>. QED  BY <3>1, <3>2, InputAssumption
  <2>4. c.op \in {"debit", "replenish", "update"}
    BY <1>3, <1>7 DEF Commands, Creates, Updates, Debits, Replenishes
  <2>5. ledger' = ledger + Moved(c) /\ Moved(c) \in Int /\ ledger' \in Int
    BY <1>1, <1>2, <1>7, <2>3, <2>4 DEF Moved
  <2>6. TypeOK'
    BY <1>1, <1>2, <1>5, <2>2, <2>5 DEF IInv, TypeOK, Phases
  <2>7. row' # NoRow
    BY <2>2, NoRowAssumption
  <2>8. CopyOK'
    BY <1>2, <1>4, <2>2, <2>7 DEF IInv, CopyOK, InFlight
  <2>9. CreatesAlone'
    BY <1>2, <1>4, <2>1 DEF IInv, CreatesAlone, InFlight
  <2>10. SavedIsAccepted'
    BY <1>2, <1>4 DEF IInv, SavedIsAccepted
  <2>11. UnitsKeptUnlessOvertaken'
    <3>. SUFFICES ASSUME overtaken' = {} PROVE row'.available = ledger'
      BY DEF UnitsKeptUnlessOvertaken
    <3>1. overtaken = {} /\ (c.op \in {"debit", "replenish"} => loaded[r].available = row.available)
      BY <1>2
    <3>2. row.available = ledger
      BY <3>1, <2>1 DEF IInv, UnitsKeptUnlessOvertaken
    <3>. QED  BY <3>1, <3>2, <1>1, <2>2, <2>3, <2>4, <2>5 DEF Moved
  <2>. QED
    BY <2>2, <2>6, <2>8, <2>9, <2>10, <2>11 DEF IInv, StockWithinBounds
<1>. QED
  BY <1>6, <1>7

\* Every step keeps the invariant.
LEMMA NextKeepsIInv == IInv /\ [Next]_vars => IInv'
<1>. SUFFICES ASSUME IInv, [Next]_vars PROVE IInv'
  OBVIOUS
<1>1. ASSUME NEW r \in Requests, NEW c \in Offered, Load(r, c) PROVE IInv'
  BY <1>1, LoadKeepsIInv
<1>2. ASSUME NEW r \in Requests, Refuse(r) PROVE IInv'
  BY <1>2, EndKeepsIInv DEF Refuse
<1>3. ASSUME NEW r \in Requests, Save(r) PROVE IInv'
  BY <1>3, SaveKeepsIInv
<1>4. ASSUME NEW r \in Requests, Commit(r) PROVE IInv'
  BY <1>4, CommitKeepsIInv
<1>5. ASSUME NEW r \in Requests, Abort(r) PROVE IInv'
  BY <1>5, EndKeepsIInv DEF Abort
<1>6. CASE UNCHANGED vars
  BY <1>6 DEF vars, IInv, TypeOK, StockWithinBounds, CopyOK, CreatesAlone, SavedIsAccepted,
              UnitsKeptUnlessOvertaken, InFlight
<1>. QED
  BY <1>1, <1>2, <1>3, <1>4, <1>5, <1>6 DEF Next

\* The inductive invariant holds in every reachable state.
THEOREM IInvIsInvariant == Spec => []IInv
<1>. QED
  BY InitIInv, NextKeepsIInv, PTL DEF Spec

\* Type correctness of the product row, the requests and the outbox.
THEOREM TypeCorrect == Spec => []TypeOK
<1>1. IInv => TypeOK
  BY DEF IInv
<1>. QED
  BY <1>1, IInvIsInvariant, PTL

\* The committed stock of a product is positive and within its maximum, however
\* many handlers race on stale copies of it.
THEOREM StockAlwaysWithinBounds == Spec => []StockWithinBounds
<1>1. IInv => StockWithinBounds
  BY DEF IInv
<1>. QED
  BY <1>1, IInvIsInvariant, PTL

\* The only way to lose or invent units is a debit or replenishment that was
\* overtaken: overlapping updates, refusals and rollbacks never do.
THEOREM UnitsAreKept == Spec => []UnitsKeptUnlessOvertaken
<1>1. IInv => UnitsKeptUnlessOvertaken
  BY DEF IInv
<1>. QED
  BY <1>1, IInvIsInvariant, PTL

-----------------------------------------------------------------------------
(* The announcements *)

\* A create, debit or replenishment always has exactly one integration event: it
\* carries the stock of the result, and the quantity that was validated.
LEMMA OneIntegrationEvent ==
  ASSUME NEW c \in Commands, c.op # "update", Validated(c), NEW s
  PROVE  \E e : /\ ToIntegrationEvents(Raised(c, s)) = {e}
                /\ e.available = Result(c, s).available
                /\ Announced(e) = IF c.op = "create" THEN c.stock.available ELSE Moved(c)
<1>1. CASE c.op = "create"
  <2>. DEFINE e == Event("ProductCreated", c.stock, 0)
  <2>1. Raised(c, s) = {e} /\ Result(c, s) = c.stock
    BY <1>1 DEF Raised, Result
  <2>2. e.type = "ProductCreated" /\ e.available = (c.stock).available
    BY DEF Event
  <2>3. Announced(e) = c.stock.available
    BY <2>2 DEF Announced
  <2>. HIDE DEF e
  <2>. QED  BY <1>1, <2>1, <2>2, <2>3 DEF ToIntegrationEvents, IntegrationEventTypes
<1>2. CASE c.op = "debit"
  <2>. DEFINE q == c.quantity
              e == Event("ProductStockDebited", Debited(s, q), Magnitude(q))
              alert == Event("ProductRestockThresholdReached", Debited(s, q), Magnitude(q))
  <2>1. /\ Raised(c, s) \in {{e}, {e, alert}}
        /\ Result(c, s) = Debited(s, q)
    BY <1>2 DEF Raised, Result, DebitEvents
  <2>2. /\ e.type = "ProductStockDebited" /\ e.available = Debited(s, q).available
        /\ e.quantity = Magnitude(q) /\ alert.type = "ProductRestockThresholdReached"
    BY DEF Event
  <2>3. q \in Int32 /\ q > 0
    BY <1>2, InputAssumption DEF Commands, Creates, Updates, Debits, Replenishes, Validated
  <2>4. Magnitude(q) = q
    BY <2>3, MaxIntAssumption DEF Magnitude, Int32
  <2>5. Announced(e) = Moved(c)
    BY <1>2, <2>2, <2>4 DEF Announced, Moved
  <2>. HIDE DEF e, alert
  <2>6. ToIntegrationEvents(Raised(c, s)) = {e}
    BY <2>1, <2>2 DEF ToIntegrationEvents, IntegrationEventTypes
  <2>. QED  BY <1>2, <2>1, <2>2, <2>5, <2>6
<1>3. CASE c.op = "replenish"
  <2>. DEFINE e == Event("ProductStockReplenished", Replenished(s, c.quantity), c.quantity)
  <2>1. Raised(c, s) = {e} /\ Result(c, s) = Replenished(s, c.quantity)
    BY <1>3 DEF Raised, Result
  <2>2. /\ e.type = "ProductStockReplenished" /\ e.quantity = c.quantity
        /\ e.available = (Replenished(s, c.quantity)).available
    BY DEF Event
  <2>3. Announced(e) = Moved(c)
    BY <1>3, <2>2 DEF Announced, Moved
  <2>. HIDE DEF e
  <2>. QED  BY <1>3, <2>1, <2>2, <2>3 DEF ToIntegrationEvents, IntegrationEventTypes
<1>. QED
  BY <1>1, <1>2, <1>3 DEF Commands, Creates, Updates, Debits, Replenishes

\* What a commit announces: nothing, or one event of its request.
LEMMA CommitTells ==
  ASSUME IInv, NEW r \in Requests, Commit(r)
  PROVE  LET c == command[r]
         IN  /\ c.op = "update" => published' = published
             /\ c.op # "update" =>
                  \E p : /\ published' = published \cup {p}
                         /\ p.request = r
                         /\ p.event.available = Result(c, loaded[r]).available
                         /\ Announced(p.event)
                              = IF c.op = "create" THEN c.stock.available ELSE Moved(c)
<1>. DEFINE c == command[r]
            S == ToIntegrationEvents(Raised(c, loaded[r]))
<1>1. c \in Commands /\ Validated(c)
  BY DEF Commit, IInv, CopyOK, InFlight
<1>2. /\ published' = published \cup Outgoing(r)
      /\ Outgoing(r) = {[request |-> r, event |-> e] : e \in S}
  BY DEF Commit, Outgoing
<1>3. CASE c.op = "update"
  <2>1. S = {}
    BY <1>3 DEF ToIntegrationEvents, Raised, IntegrationEventTypes, Event
  <2>. QED  BY <1>2, <1>3, <2>1
<1>4. CASE c.op # "update"
  <2>1. PICK e : /\ S = {e}
                 /\ e.available = Result(c, loaded[r]).available
                 /\ Announced(e) = IF c.op = "create" THEN c.stock.available ELSE Moved(c)
    BY <1>1, <1>4, OneIntegrationEvent
  <2>. DEFINE p == [request |-> r, event |-> e]
  <2>. HIDE DEF S
  <2>2. Outgoing(r) = {p}
    BY <1>2, <2>1
  <2>3. p.request = r /\ p.event = e
    OBVIOUS
  <2>. HIDE DEF p
  <2>4. /\ published' = published \cup {p}
        /\ p.event.available = Result(c, loaded[r]).available
        /\ Announced(p.event) = IF c.op = "create" THEN c.stock.available ELSE Moved(c)
    BY <1>2, <2>1, <2>2, <2>3
  <2>. QED  BY <1>4, <2>3, <2>4
<1>. QED
  BY <1>3, <1>4

\* Only requests that have committed have announced anything.
OnlyCommittedAnnounce == \A p \in published : phase[p.request] = "committed"

LEMMA AnnouncingStep == IInv /\ OnlyCommittedAnnounce /\ [Next]_vars => OnlyCommittedAnnounce'
<1>. SUFFICES ASSUME IInv, OnlyCommittedAnnounce, [Next]_vars  PROVE OnlyCommittedAnnounce'
  OBVIOUS
<1>. USE DEF OnlyCommittedAnnounce
<1>1. phase \in [Requests -> Phases] /\ \A p \in published : p.request \in Requests
  BY DEF IInv, TypeOK
<1>2. ASSUME NEW r \in Requests, NEW c \in Offered, Load(r, c)  PROVE OnlyCommittedAnnounce'
  BY <1>1, <1>2 DEF Load
<1>3. ASSUME NEW r \in Requests, Refuse(r) \/ Save(r) \/ Abort(r)
      PROVE  OnlyCommittedAnnounce'
  BY <1>1, <1>3 DEF Refuse, Save, Abort
<1>4. ASSUME NEW r \in Requests, Commit(r)  PROVE OnlyCommittedAnnounce'
  <2>1. \A p \in Outgoing(r) : p.request = r
    BY DEF Outgoing
  <2>. QED  BY <1>1, <1>4, <2>1 DEF Commit
<1>5. CASE UNCHANGED vars
  BY <1>5 DEF vars
<1>. QED  BY <1>2, <1>3, <1>4, <1>5 DEF Next

\* The units a commit adds to the row are those it announces, or it was
\* overtaken; without an announcement it adds none.
LEMMA CommitMovesAsAnnounced ==
  ASSUME IInv, NEW r \in Requests, Commit(r)
  PROVE  LET c == command[r]
         IN  /\ c.op = "update" => Units(row') = Units(row)
             /\ c.op # "update" /\ r \notin overtaken' =>
                  Units(row') - Units(row)
                    = IF c.op = "create" THEN c.stock.available ELSE Moved(c)
<1>. DEFINE c == command[r]
<1>1. /\ InFlight(r) /\ row' = WriteBack(row, loaded[r], Result(c, loaded[r]))
      /\ row \in Stock \cup {NoRow}
      /\ c.op \in {"debit", "replenish"} /\ r \notin overtaken' =>
           loaded[r].available = row.available
  BY DEF Commit, Install, InFlight, IInv, TypeOK
<1>2. c \in Commands /\ Validated(c) /\ Accepts(c, loaded[r])
  BY <1>1 DEF IInv, CopyOK, SavedIsAccepted, Commit
<1>3. CASE c.op = "create"
  <2>1. row = NoRow /\ c.stock \in ValidStock
    BY <1>1, <1>2, <1>3 DEF IInv, CreatesAlone, Commands, Creates, Updates, Debits, Replenishes
  <2>2. row' = c.stock /\ row' # NoRow /\ c.stock.available \in Int
    BY <1>1, <1>3, <2>1, NoRowAssumption, MaxIntAssumption
    DEF WriteBack, Result, ValidStock, Stock, Int32
  <2>. QED  BY <1>3, <2>1, <2>2 DEF Units
<1>4. CASE c.op # "create"
  <2>1. /\ row # NoRow /\ row \in Stock /\ IsStock(row)
        /\ loaded[r] \in Stock /\ IsStock(loaded[r])
        /\ loaded[r].maxStockThreshold = row.maxStockThreshold
    BY <1>1, <1>4 DEF IInv, CopyOK, StockWithinBounds
  <2>2. /\ row' \in Stock
        /\ c.op = "update" => row'.available = row.available
        /\ c.op = "debit" => row'.available = loaded[r].available - c.quantity
        /\ c.op = "replenish" => row'.available = loaded[r].available + c.quantity
    BY <1>1, <1>2, <1>4, <2>1, WriteBackKeepsStock
  <2>3. row' # NoRow /\ row.available \in Int
    BY <2>1, <2>2, NoRowAssumption, MaxIntAssumption DEF Stock, Int32
  <2>4. c.op \in {"debit", "replenish"} => c.quantity \in Int
    <3>1. \A n \in Int32 : n \in Int
      BY MaxIntAssumption DEF Int32
    <3>2. c.op \in {"debit", "replenish"} => c.quantity \in Quantities
      BY <1>2 DEF Commands, Creates, Updates, Debits, Replenishes
    <3>. QED  BY <3>1, <3>2, InputAssumption
  <2>5. c.op \in {"debit", "replenish", "update"}
    BY <1>2, <1>4 DEF Commands, Creates, Updates, Debits, Replenishes
  <2>. QED  BY <1>1, <1>4, <2>1, <2>2, <2>3, <2>4, <2>5 DEF Units, Moved
<1>. QED  BY <1>3, <1>4

\* A subscriber who adds up the announced quantities has the row's units, unless
\* a request was overtaken: nothing moves unannounced, nothing is announced twice.
THEOREM AnnouncementsAddUp == Spec => UnitsMoveAsAnnounced
<1>1. Init => OnlyCommittedAnnounce
  BY DEF Init, OnlyCommittedAnnounce
<1>2. IInv /\ OnlyCommittedAnnounce /\ [Next]_vars =>
        [\/ published' = published /\ Units(row') = Units(row)
         \/ \E p \in published' \ published :
              /\ published' = published \cup {p}
              /\ \A q \in published : q.request # p.request
              /\ p.request \notin overtaken' =>
                   Units(row') - Units(row) = Announced(p.event)]_vars
  <2>. SUFFICES ASSUME IInv, OnlyCommittedAnnounce, NEW r \in Requests, Commit(r)
                PROVE  \/ published' = published /\ Units(row') = Units(row)
                       \/ \E p \in published' \ published :
                            /\ published' = published \cup {p}
                            /\ \A q \in published : q.request # p.request
                            /\ p.request \notin overtaken' =>
                                 Units(row') - Units(row) = Announced(p.event)
    BY DEF Next, vars, Load, Refuse, Save, Abort, Units
  <2>1. CASE command[r].op = "update"
    BY <2>1, CommitTells, CommitMovesAsAnnounced
  <2>2. CASE command[r].op # "update"
    <3>1. PICK p : /\ published' = published \cup {p} /\ p.request = r
                   /\ Announced(p.event) = IF command[r].op = "create"
                                           THEN command[r].stock.available
                                           ELSE Moved(command[r])
      BY <2>2, CommitTells
    <3>2. \A q \in published : q.request # r
      BY DEF OnlyCommittedAnnounce, Commit
    <3>3. r \notin overtaken' => Units(row') - Units(row) = Announced(p.event)
      BY <2>2, <3>1, CommitMovesAsAnnounced
    <3>. QED  BY <3>1, <3>2, <3>3
  <2>. QED  BY <2>1, <2>2
<1>. QED
  BY <1>1, <1>2, AnnouncingStep, IInvIsInvariant, PTL DEF Spec, UnitsMoveAsAnnounced

\* The stock in every integration event is the row's stock at the commit that
\* publishes it.
THEOREM EventsTellTheRow == Spec => PublishedStockIsRowStock
<1>1. IInv /\ [Next]_vars =>
        [\A p \in published' \ published : p.event.available = row'.available]_vars
  <2>. SUFFICES ASSUME IInv, NEW r \in Requests, Commit(r), NEW p \in published' \ published
                PROVE  p.event.available = row'.available
    BY DEF Next, vars, Load, Refuse, Save, Abort
  <2>. DEFINE c == command[r]
  <2>1. /\ InFlight(r) /\ phase[r] = "saved"
        /\ row' = WriteBack(row, loaded[r], Result(c, loaded[r]))
        /\ row \in Stock \cup {NoRow}
    BY DEF Commit, Install, InFlight, IInv, TypeOK
  <2>2. c \in Commands /\ Validated(c) /\ Accepts(c, loaded[r])
    BY <2>1 DEF IInv, CopyOK, SavedIsAccepted
  <2>3. p.event \in ToIntegrationEvents(Raised(c, loaded[r]))
    BY DEF Commit, Outgoing
  <2>4. c.op # "update"
    BY <2>3 DEF ToIntegrationEvents, Raised, IntegrationEventTypes, Event
  <2>5. p.event.available = Result(c, loaded[r]).available
    BY <2>2, <2>3, <2>4, OneIntegrationEvent
  <2>6. CASE c.op = "create"
    BY <2>1, <2>5, <2>6 DEF IInv, CreatesAlone, WriteBack
  <2>7. CASE c.op # "create"
    <3>1. /\ row # NoRow /\ row \in Stock /\ IsStock(row)
          /\ loaded[r] \in Stock /\ IsStock(loaded[r])
          /\ loaded[r].maxStockThreshold = row.maxStockThreshold
      BY <2>1, <2>7 DEF IInv, CopyOK, StockWithinBounds
    <3>. QED  BY <2>1, <2>2, <2>4, <2>5, <2>7, <3>1, WriteBackKeepsStock
  <2>. QED  BY <2>6, <2>7
<1>. QED
  BY <1>1, IInvIsInvariant, PTL DEF Spec, PublishedStockIsRowStock
-----------------------------------------------------------------------------
(* The promise *)

\* Every step but a commit leaves what StockPromise speaks of alone.
LEMMA OnlyCommitsAreSeen ==
  ASSUME IInv, [Next]_vars, \A r \in Requests : ~Commit(r)
  PROVE  UNCHANGED Promise!vars
<1>. DEFINE Done == {q \in Requests : phase[q] = "committed"}
<1>1. phase \in [Requests -> Phases]
  BY DEF IInv, TypeOK
<1>2. /\ UNCHANGED <<row, published>>
      /\ \A q \in Requests : phase'[q] = "committed" <=> phase[q] = "committed"
  BY <1>1 DEF Next, vars, Load, Refuse, Save, Abort
<1>3. Done' = Done
  BY <1>2
<1>. QED
  BY <1>2, <1>3 DEF Promise!vars

\* The announcements of the outbox, as StockPromise counts them.
Told == {[request |-> p.request, units |-> p.event.available] : p \in published}

\* A commit is one step of the promise: a creation, a movement of units that
\* keeps both thresholds, or a new restock threshold that keeps the units.
LEMMA CommitKeepsPromise ==
  ASSUME IInv, NEW r \in Requests, Commit(r)
  PROVE  Promise!Next
<1>. DEFINE c == command[r]
            Done == {q \in Requests : phase[q] = "committed"}
<1>1. /\ InFlight(r) /\ phase[r] = "saved" /\ phase' = [phase EXCEPT ![r] = "committed"]
      /\ row' = WriteBack(row, loaded[r], Result(c, loaded[r]))
      /\ published' = published \cup Outgoing(r)
      /\ phase \in [Requests -> Phases] /\ row \in Stock \cup {NoRow}
  BY DEF Commit, Install, InFlight, IInv, TypeOK
<1>2. c \in Commands /\ Validated(c) /\ Accepts(c, loaded[r])
  BY <1>1 DEF IInv, CopyOK, SavedIsAccepted
<1>3. r \notin Done /\ Done' = Done \cup {r}
  BY <1>1
<1>4. Promise!Serve(r)
  BY <1>3 DEF Promise!Serve
<1>5. /\ c.op = "update" => Told' = Told
      /\ c.op # "update" =>
           Told' = Told \cup {[request |-> r, units |-> Result(c, loaded[r]).available]}
  <2>1. CASE c.op = "update"
    BY <2>1, CommitTells DEF Told
  <2>2. CASE c.op # "update"
    <3>1. PICK p : /\ published' = published \cup {p} /\ p.request = r
                   /\ p.event.available = Result(c, loaded[r]).available
      BY <2>2, CommitTells
    <3>. QED  BY <2>2, <3>1 DEF Told
  <2>. QED  BY <2>1, <2>2
<1>6. CASE c.op = "create"
  <2>1. row = NoRow /\ c.stock \in ValidStock
    BY <1>1, <1>2, <1>6 DEF IInv, CreatesAlone, Commands, Creates, Updates, Debits, Replenishes
  <2>2. row' = c.stock /\ Result(c, loaded[r]) = c.stock
    BY <1>1, <1>6, <2>1 DEF WriteBack, Result
  <2>3. Promise!Tell(r)
    BY <1>5, <1>6, <2>2 DEF Promise!Tell, Told
  <2>4. Promise!Create(r)
    BY <1>4, <2>1, <2>2, <2>3 DEF Promise!Create
  <2>. QED  BY <2>4 DEF Promise!Next
<1>7. CASE c.op # "create"
  <2>1. /\ row # NoRow /\ row \in Stock /\ IsStock(row)
        /\ loaded[r] \in Stock /\ IsStock(loaded[r])
        /\ loaded[r].maxStockThreshold = row.maxStockThreshold
    BY <1>1, <1>7 DEF IInv, CopyOK, StockWithinBounds
  <2>2. /\ row' \in ValidStock
        /\ row'.maxStockThreshold = row.maxStockThreshold
        /\ c.op = "update" => row'.available = row.available
        /\ c.op # "update" => row'.available = Result(c, loaded[r]).available
    BY <1>1, <1>2, <1>7, <2>1, WriteBackKeepsStock DEF ValidStock
  <2>3. CASE c.op = "update"
    <3>1. UNCHANGED Told
      BY <1>5, <2>3
    <3>2. Promise!Adjust(r)
      BY <1>4, <2>1, <2>2, <2>3, <3>1 DEF Promise!Adjust, Told
    <3>. QED  BY <3>2 DEF Promise!Next
  <2>4. CASE c.op # "update"
    <3>1. row'.restockThreshold = row.restockThreshold
      BY <1>1, <1>2, <1>7, <2>1, <2>4, MoveKeepsThreshold
    <3>2. Promise!Tell(r)
      BY <1>5, <2>2, <2>4 DEF Promise!Tell, Told
    <3>3. Promise!Move(r)
      BY <1>4, <2>1, <2>2, <3>1, <3>2 DEF Promise!Move
    <3>. QED  BY <3>3 DEF Promise!Next
  <2>. QED  BY <2>3, <2>4
<1>. QED
  BY <1>6, <1>7

\* Every step is one of the promise or is not seen by it.
LEMMA NextKeepsPromise == IInv /\ [Next]_vars => [Promise!Next]_(Promise!vars)
<1>1. ASSUME IInv, NEW r \in Requests, Commit(r) PROVE Promise!Next
  BY <1>1, CommitKeepsPromise
<1>. QED  BY <1>1, OnlyCommitsAreSeen

\* The promise is enough to see that a product stays and keeps its maximum.
LEMMA ProductKeepsMaximum ==
  ASSUME IInv, [Next]_vars, row # NoRow
  PROVE  row' # NoRow /\ row'.maxStockThreshold = row.maxStockThreshold
<1>1. CASE UNCHANGED Promise!vars
  BY <1>1 DEF Promise!vars
<1>2. CASE Promise!Next
  <2>1. row' \in ValidStock /\ row'.maxStockThreshold = row.maxStockThreshold
    BY <1>2 DEF Promise!Next, Promise!Create, Promise!Move, Promise!Adjust
  <2>. QED  BY <2>1, NoRowAssumption DEF ValidStock
<1>. QED  BY <1>1, <1>2, NextKeepsPromise

\* Handlers that race on stale copies implement StockPromise: each step is one
\* of its steps or changes nothing it speaks of.
THEOREM TransactionsKeepPromise == Spec => KeepsStockPromise
<1>1. Init => Promise!Init
  BY DEF Init, Promise!Init
<1>. QED
  BY <1>1, NextKeepsPromise, IInvIsInvariant, PTL DEF Spec, KeepsStockPromise, Promise!Spec
=============================================================================

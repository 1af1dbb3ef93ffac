-------------------------- MODULE ProductAggregate --------------------------
(***************************************************************************)
(* The stock of a Catalogs product: the value object Stock and the methods *)
(* of the aggregate Product that replace it.  A method that throws leaves  *)
(* no trace, so each one is a pair: Can<Method> holds when it returns, and *)
(* the operator named for its result is the stock the product then has.    *)
(*                                                                         *)
(* Quantities and stocks are C# ints: unchecked arithmetic on them wraps.  *)
(***************************************************************************)
EXTENDS Integers

CONSTANT MaxInt   \* int.MaxValue; the runs use a narrower integer

ASSUME MaxIntAssumption == MaxInt \in Nat \ {0}

Int32 == (-MaxInt - 1) .. MaxInt

\* What an unchecked C# addition or negation of two ints leaves of the exact
\* result n, which is never further than one modulus away from Int32.
Wrap(n) ==
  CASE n > MaxInt      -> n - 2 * (MaxInt + 1)
    [] n < -MaxInt - 1 -> n + 2 * (MaxInt + 1)
    [] OTHER           -> n

Stock == [available : Int32, restockThreshold : Int32, maxStockThreshold : Int32]

\* Stock.Of that checks for negative numbers only.
IsNonNegativeStock(s) ==
  /\ s.available >= 0 /\ s.restockThreshold >= 0 /\ s.maxStockThreshold >= 0
  /\ s.available <= s.maxStockThreshold

\* Stock.Of returns instead of throwing: all three numbers are positive (so a
\* stock of zero units does not exist) and the units fit the maximum.
IsStock(s) ==
  /\ s.available > 0
  /\ s.restockThreshold > 0
  /\ s.maxStockThreshold > 0
  /\ s.available <= s.maxStockThreshold

ValidStock == {s \in Stock : IsStock(s)}

-----------------------------------------------------------------------------

HasStock(s, quantity) == s.available >= quantity

Magnitude(quantity) == IF quantity < 0 THEN Wrap(-quantity) ELSE quantity

\* Product.DebitStock.  The negation overflows for int.MinValue, which is why
\* the units removed are still a minimum.
Debited(s, quantity) ==
  LET q == Magnitude(quantity)
      removed == IF q < s.available THEN q ELSE s.available
  IN  [s EXCEPT !.available = Wrap(s.available - removed)]

CanDebit(s, quantity) ==
  /\ HasStock(s, Magnitude(quantity))
  /\ IsStock(Debited(s, quantity))
  /\ Magnitude(quantity) > 0        \* ProductStockDebited.Of

\* Product.ReplenishStock.  The sum is compared after it wrapped.
Replenished(s, quantity) == [s EXCEPT !.available = Wrap(s.available + quantity)]

CanReplenish(s, quantity) ==
  /\ Wrap(s.available + quantity) <= s.maxStockThreshold
  /\ IsStock(Replenished(s, quantity))
  /\ quantity > 0                   \* ProductStockReplenished.Of

\* What ChangeMaxStockThreshold would do if it used its parameter.
MaxStockThresholdAssigned(s, newMaxStockThreshold) ==
  [s EXCEPT !.maxStockThreshold = newMaxStockThreshold]

\* Product.ChangeMaxStockThreshold rebuilds the stock from the numbers it
\* already holds; its parameter is never read.
MaxStockThresholdChanged(s, newMaxStockThreshold) ==
  [s EXCEPT !.maxStockThreshold = s.maxStockThreshold]

\* Product.ChangeRestockThreshold.
RestockThresholdChanged(s, restockThreshold) ==
  [s EXCEPT !.restockThreshold = restockThreshold]

-----------------------------------------------------------------------------

\* A domain event of the aggregate: the stock it carries and the quantity.
Event(type, s, quantity) ==
  [type |-> type, available |-> s.available, quantity |-> quantity]

DomainEventTypes ==
  {"ProductCreated", "ProductStockDebited", "ProductStockReplenished",
   "ProductRestockThresholdReached", "MaxThresholdChanged",
   "RestockThresholdChanged"}

\* DebitStock that raises its events before it replaces the stock.
DebitEventsOfOldStock(s, quantity) ==
  {Event("ProductStockDebited", s, Magnitude(quantity))}

DebitEvents(s, quantity) ==
  LET after == Debited(s, quantity)
      q == Magnitude(quantity)
  IN  {Event("ProductStockDebited", after, q)}
      \cup (IF after.available <= after.restockThreshold
            THEN {Event("ProductRestockThresholdReached", after, q)}
            ELSE {})

IntegrationEventTypes ==
  {"ProductCreated", "ProductStockDebited", "ProductStockReplenished"}

\* Every domain event is handed to the broker, whatever its type.
Unfiltered(events) == events

\* ProductEventMapper.MapToIntegrationEvent: the other types map to null and
\* stay inside the service.
ToIntegrationEvents(events) == {e \in events : e.type \in IntegrationEventTypes}
=============================================================================

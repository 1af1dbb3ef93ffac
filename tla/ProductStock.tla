---------------------------- MODULE ProductStock ----------------------------
(***************************************************************************)
(* One row of catalog.products under concurrent CreateProduct,             *)
(* DebitProductStock, ReplenishProductStock and UpdateProduct commands.    *)
(*                                                                         *)
(* A handler runs inside EfTxBehavior's READ COMMITTED transaction: it     *)
(* loads the row (no lock), runs the aggregate's method on the copy it     *)
(* loaded, SaveChanges writes the row (and locks it), and the behaviour    *)
(* commits after the handler has returned.  Product carries no concurrency *)
(* token, so nothing compares the row with the loaded copy at the write.   *)
(***************************************************************************)
EXTENDS ProductAggregate

CONSTANTS
  Requests,     \* HTTP requests, one command each
  Quantities,   \* quantities the debit and replenish requests may carry
  Thresholds,   \* thresholds the create and update requests may carry
  NoRow, NoCommand

ASSUME InputAssumption == Quantities \subseteq Int32 /\ Thresholds \subseteq Int32

ASSUME NoRowAssumption == NoRow \notin Stock

VARIABLES
  row,         \* the committed row: a stock, or NoRow before the product exists
  phase,       \* where each request is
  command,     \* the command of each request
  loaded,      \* the copy of the row each request works on
  published,   \* integration events in the committed outbox
  ledger,      \* history: units created + replenished - debited by commits
  overtaken    \* history: committed debits and replenishments whose loaded
               \* copy no longer was the row

vars == <<row, phase, command, loaded, published, ledger, overtaken>>

\* The endpoints build a CreateProduct or UpdateProduct command around
\* Stock.Of, so a command never holds an illegal stock.
Creates == [op : {"create"}, stock : ValidStock]
Updates == [op : {"update"}, stock : ValidStock]
Debits == [op : {"debit"}, quantity : Quantities]
Replenishes == [op : {"replenish"}, quantity : Quantities]
Commands == Creates \cup Updates \cup Debits \cup Replenishes

\* The commands TLC draws from: their stocks use the configured thresholds.
OfferedStocks ==
  {s \in [available : Int32, restockThreshold : Thresholds, maxStockThreshold : Thresholds] :
     IsStock(s)}

Offered ==
  [op : {"create"}, stock : OfferedStocks]
  \cup [op : {"update"}, stock : {s \in OfferedStocks : s.available = 1}]
  \cup Debits \cup Replenishes

Phases == {"idle", "loaded", "saved", "committed", "refused", "aborted"}
Ended == {"committed", "refused", "aborted"}

-----------------------------------------------------------------------------
(* What a command does to the copy it loaded *)

\* The validators of DebitProductStock and ReplenishProductStock.
Validated(c) == c.op \in {"debit", "replenish"} => c.quantity > 0

\* The stock of an UpdateProduct taken as it is.
StockReplaced(s, new) == new

UpdatedStock(s, new) ==
  RestockThresholdChanged(MaxStockThresholdChanged(s, new.maxStockThreshold),
                          new.restockThreshold)

Accepts(c, s) ==
  CASE c.op = "create"    -> s = NoRow
    [] c.op = "debit"     -> s # NoRow /\ CanDebit(s, c.quantity)
    [] c.op = "replenish" -> s # NoRow /\ CanReplenish(s, c.quantity)
    [] c.op = "update"    ->
         /\ s # NoRow
         /\ IsStock(MaxStockThresholdChanged(s, c.stock.maxStockThreshold))
         /\ IsStock(UpdatedStock(s, c.stock))

Result(c, s) ==
  CASE c.op = "create"    -> c.stock
    [] c.op = "debit"     -> Debited(s, c.quantity)
    [] c.op = "replenish" -> Replenished(s, c.quantity)
    [] c.op = "update"    -> UpdatedStock(s, c.stock)

Raised(c, s) ==
  CASE c.op = "create"    -> {Event("ProductCreated", c.stock, 0)}
    [] c.op = "debit"     -> DebitEvents(s, c.quantity)
    [] c.op = "replenish" ->
         {Event("ProductStockReplenished", Replenished(s, c.quantity), c.quantity)}
    [] c.op = "update"    ->
         {Event("MaxThresholdChanged", s, 0), Event("RestockThresholdChanged", s, 0)}

\* SaveChanges of an entity that was attached instead of loaded writes all columns.
WriteAll(current, copy, new) == new

\* EF Core's SaveChanges updates the columns whose value differs from the copy
\* that was loaded, and only those.
WriteBack(current, copy, new) ==
  LET Column(now, read, computed) == IF computed = read THEN now ELSE computed
  IN  IF current = NoRow THEN new
      ELSE [available |->
              Column(current.available, copy.available, new.available),
            restockThreshold |->
              Column(current.restockThreshold, copy.restockThreshold, new.restockThreshold),
            maxStockThreshold |->
              Column(current.maxStockThreshold, copy.maxStockThreshold, new.maxStockThreshold)]

Moved(c) == CASE c.op = "debit" -> -c.quantity
              [] c.op = "replenish" -> c.quantity
              [] OTHER -> 0
-----------------------------------------------------------------------------

Init ==
  /\ row = NoRow
  /\ phase = [r \in Requests |-> "idle"]
  /\ command = [r \in Requests |-> NoCommand]
  /\ loaded = [r \in Requests |-> NoRow]
  /\ published = {}
  /\ ledger = 0
  /\ overtaken = {}

\* A transaction that wrote the row and has not ended holds its lock.
RowLocked == \E r \in Requests : phase[r] = "saved"

\* A request arrives.  Validation refuses it before the transaction; otherwise
\* the handler loads the row as last committed.  A product that is not found
\* refuses every command but CreateProduct; the identifier of the row is drawn
\* by one CreateProduct (SnowFlakIdGenerator), so two never insert it.
Load(r, c) ==
  /\ phase[r] = "idle"
  /\ c.op = "create" => row = NoRow /\ \A q \in Requests : phase[q] \notin {"loaded", "saved"}
  /\ command' = [command EXCEPT ![r] = c]
  /\ IF Validated(c) /\ (c.op # "create" => row # NoRow)
     THEN /\ phase' = [phase EXCEPT ![r] = "loaded"]
          /\ loaded' = [loaded EXCEPT ![r] = row]
     ELSE /\ phase' = [phase EXCEPT ![r] = "refused"]
          /\ UNCHANGED loaded
  /\ UNCHANGED <<row, published, ledger, overtaken>>

\* The aggregate throws on the loaded copy: the transaction rolls back.
Refuse(r) ==
  /\ phase[r] = "loaded"
  /\ ~Accepts(command[r], loaded[r])
  /\ phase' = [phase EXCEPT ![r] = "refused"]
  /\ UNCHANGED <<row, command, loaded, published, ledger, overtaken>>

\* SaveChanges: the write waits for the row lock and takes it.
Save(r) ==
  /\ phase[r] = "loaded"
  /\ Accepts(command[r], loaded[r])
  /\ ~RowLocked
  /\ phase' = [phase EXCEPT ![r] = "saved"]
  /\ UNCHANGED <<row, command, loaded, published, ledger, overtaken>>

Install(r) ==
  LET c == command[r]
      new == Result(c, loaded[r])
  IN  /\ row' = WriteBack(row, loaded[r], new)
      /\ ledger' = IF c.op = "create" THEN c.stock.available ELSE ledger + Moved(c)
      /\ overtaken' = IF /\ c.op \in {"debit", "replenish"}
                         /\ loaded[r].available # row.available
                      THEN overtaken \cup {r} ELSE overtaken

Outgoing(r) ==
  {[request |-> r, event |-> e] :
     e \in ToIntegrationEvents(Raised(command[r], loaded[r]))}

\* EfTxBehavior commits.  That the row and the outgoing messages become visible in
\* one PostgreSQL transaction is the outbox's doing, which is external: assumed.
Commit(r) ==
  /\ phase[r] = "saved"
  /\ Install(r)
  /\ published' = published \cup Outgoing(r)
  /\ phase' = [phase EXCEPT ![r] = "committed"]
  /\ UNCHANGED <<command, loaded>>

\* The connection fails, the client goes away or the process stops; or one of
\* the aggregates an UpdateProduct names does not exist: nothing is kept.
Abort(r) ==
  /\ phase[r] \in {"loaded", "saved"}
  /\ phase' = [phase EXCEPT ![r] = "aborted"]
  /\ UNCHANGED <<row, command, loaded, published, ledger, overtaken>>

Next ==
  \E r \in Requests :
    \/ \E c \in Offered : Load(r, c)
    \/ Refuse(r)
    \/ Save(r)
    \/ Commit(r)
    \/ Abort(r)

Spec == Init /\ [][Next]_vars

-----------------------------------------------------------------------------

TypeOK ==
  /\ row \in Stock \cup {NoRow}
  /\ phase \in [Requests -> Phases]
  /\ command \in [Requests -> Commands \cup {NoCommand}]
  /\ loaded \in [Requests -> Stock \cup {NoRow}]
  /\ \A p \in published : p.request \in Requests /\ p.event.type \in IntegrationEventTypes
  /\ ledger \in Int
  /\ overtaken \subseteq Requests

Units(stock) == IF stock = NoRow THEN 0 ELSE stock.available

\* The units that an event says were added to the product.
Announced(event) ==
  CASE event.type = "ProductCreated"      -> event.available
    [] event.type = "ProductStockDebited" -> -event.quantity
    [] OTHER                              -> event.quantity

\* The stock of a product stays legal under every interleaving of handlers that
\* work on stale copies: positive, and never above its maximum (Stock.Of checks
\* the copy, the database checks nothing, and the columns come from different
\* transactions).
StockWithinBounds == row # NoRow => IsStock(row)

\* Units are lost or invented only by a debit or replenishment that was
\* overtaken between its load and its commit (DebitProductStockHandler,
\* ReplenishingProductStockHandler): an UpdateProduct that overlaps them, a
\* refused or an aborted request never disturbs the count.
UnitsKeptUnlessOvertaken ==
  row # NoRow /\ overtaken = {} => row.available = ledger

\* Whoever adds up the quantities that Catalogs announces knows the row's count
\* of units, unless a request was overtaken: units never move unannounced, not
\* under an UpdateProduct that writes back a copy older than the last debit; a
\* request announces once; and the quantity announced, which was computed from
\* the copy, is what the commit adds to the row or takes from it.
UnitsMoveAsAnnounced ==
  [][\/ published' = published /\ Units(row') = Units(row)
     \/ \E p \in published' \ published :
          /\ published' = published \cup {p}
          /\ \A q \in published : q.request # p.request
          /\ p.request \notin overtaken' =>
               Units(row') - Units(row) = Announced(p.event)]_vars

\* The new stock an integration event carries was computed from a copy; it is
\* nevertheless what the row holds when the event leaves.
PublishedStockIsRowStock ==
  [][\A p \in published' \ published : p.event.available = row'.available]_vars

\* However handlers with stale copies interleave, each commit is one step of
\* StockPromise: an UpdateProduct takes no units back that a debit has moved
\* meanwhile, a debit undoes no threshold, nothing touches the maximum, and a
\* request that fails leaves no trace.
Promise == INSTANCE StockPromise WITH
  Stocks <- ValidStock, NoStock <- NoRow, stock <- row,
  served <- {r \in Requests : phase[r] = "committed"},
  told <- {[request |-> p.request, units |-> p.event.available] : p \in published}

KeepsStockPromise == Promise!Spec

-----------------------------------------------------------------------------
(* Claims of the source that the code does not keep *)

\* DebitStock "Decrements the quantity of a particular item in inventory": the
\* units of the committed commands add up to the row.
EveryUnitAccountedFor == row # NoRow => row.available = ledger

\* UpdateProduct calls ChangeMaxStockThreshold with the maximum of the request:
\* the row has that maximum when the command commits.
UpdateSetsMaximum ==
  [][\A r \in Requests :
       /\ phase[r] = "saved" /\ phase'[r] = "committed"
       /\ command[r].op = "update"
       => row'.maxStockThreshold = command[r].stock.maxStockThreshold]_vars

\* DebitStock throws for want of stock only when HasStock is false: a debit that
\* HasStock admits is not refused.
AvailableUnitsCanBeDebited ==
  \A r \in Requests :
    phase[r] = "refused" /\ command[r].op = "debit" /\ loaded[r] # NoRow =>
      ~HasStock(loaded[r], command[r].quantity)
=============================================================================

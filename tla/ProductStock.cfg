\* Three requests race on one product after a fourth has created it; quantity 7
\* overflows the 4-bit integer, 0 is refused by the validators.
CONSTANTS
  MaxInt = 7
  Requests = {r1, r2, r3, r4}
  Quantities = {0, 1, 2, 7}
  Thresholds = {2, 5}
  NoRow = NoRow
  NoCommand = NoCommand
SYMMETRY Symmetric
SPECIFICATION Spec
INVARIANTS
  TypeOK
  StockWithinBounds
  UnitsKeptUnlessOvertaken
PROPERTIES
  UnitsMoveAsAnnounced
  PublishedStockIsRowStock
  KeepsStockPromise
CHECK_DEADLOCK FALSE

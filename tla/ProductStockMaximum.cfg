CONSTANTS
  MaxInt = 7
  Requests = {r1, r2, r3}
  Quantities = {1, 2}
  Thresholds = {2, 5}
  NoRow = NoRow
  NoCommand = NoCommand

SPECIFICATION Spec
PROPERTY UpdateSetsMaximum
CHECK_DEADLOCK FALSE

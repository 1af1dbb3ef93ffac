CONSTANTS
  MaxInt = 7
  Requests = {r1, r2, r3}
  Quantities = {1, 2}
  Thresholds = {2, 3}
  NoRow = NoRow
  NoCommand = NoCommand
  Subs = {s1}
  Emails = {e1}
  Deletions = {d1}
  MaxFailures = 1
  NoEmail = NoEmail
SYMMETRY Symmetric
SPECIFICATION SystemSpec
INVARIANTS NobodySubscribes AnswersMissMovesOnly
CHECK_DEADLOCK FALSE

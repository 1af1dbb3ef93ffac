CONSTANTS
  Users = {u1}
  Clients = {}
  Updates = {r1}
  Emails <- Spellings
  Mailbox <- Lowercase
  Phones = {p1, p2}
  MaxFailures = 0
  NoUser = NoUser
  NoRow = NoRow
SPECIFICATION LiveSpec
PROPERTY QueuedUpdateReachesDocument
CHECK_DEADLOCK FALSE

CONSTANTS
  Users = {u1, u2}
  Clients = {h1}
  Updates = {r1}
  Emails <- Spellings
  Mailbox <- Lowercase
  Phones = {p1, p2}
  MaxFailures = 1
  NoUser = NoUser
  NoRow = NoRow
SPECIFICATION LiveSpec
INVARIANTS TypeOK CustomersAreDistinct HandledUserIsCustomer ReadSideFollowsRows
PROPERTIES RegisteredUserIsServed KeepsCustomerPromise
CHECK_DEADLOCK FALSE

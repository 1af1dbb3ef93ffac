CONSTANTS
  Subs = {s1, s2}
  Emails = {e1, e2}
  Messages = {m1, m2}
  Deletions = {d1}
  MaxFailures = 1
  NoEmail = NoEmail
SYMMETRY Symmetric
SPECIFICATION Spec
INVARIANTS
  TypeOK
  MailOnlyAfterProcessing
  ProcessedIsNotified
  ReadSideFollowsRows
  NotifiedOnce
  ProcessedIsReported
CHECK_DEADLOCK FALSE

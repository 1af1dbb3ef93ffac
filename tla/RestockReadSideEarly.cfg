CONSTANTS
  Subs = {s1, s2}
  Emails = {e1}
  Messages = {m1}
  Deletions = {}
  MaxFailures = 1
  NoEmail = NoEmail
SPECIFICATION Spec
INVARIANT ReadSideAfterCommit
CHECK_DEADLOCK FALSE

\* No symmetry: it is unsound for liveness.
CONSTANTS
  Subs = {s1, s2}
  Emails = {e1}
  Messages = {m1}
  Deletions = {d1}
  MaxFailures = 1
  NoEmail = NoEmail
SPECIFICATION FairSpec
PROPERTIES
  EveryMessageIsHandled
  WaitingSubscriberIsServed
  KeepsPromise
CHECK_DEADLOCK FALSE

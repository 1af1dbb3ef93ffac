CONSTANTS
  Products = {p1, p2}
  NoProduct = NoProduct
  MaxPages = 2
  Failures <- MCFailures
  EffectRuns = 1
  MaxReads = 2
  MaxWrites = 2
  Sessions = {s1, s2}
  NoSession = NoSession
  Addressed = {s1}
  AskRuns = 1
  MaxAsks = 2
  MaxLoads = 1
  History <- MCHistory
SPECIFICATION MCSpec
INVARIANTS
  PagesTypeOK
  WaitingHasReason
  ShowsWhatWasAsked
  EmptyFormIsNeverSent
  FormSavesItsProduct
  FailuresAreNamed
  SavedOnceAtATime
  TypedInputIsSafe
  SessionTypeOK
  AskingHasReason
  AuthFollowsNewestAnswer
  LogoutNamesTheSession
PROPERTIES
  WaitingEnds
  AskingEnds
CHECK_DEADLOCK FALSE

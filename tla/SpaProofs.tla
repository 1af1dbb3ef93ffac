------------------------------ MODULE SpaProofs -----------------------------
(***************************************************************************)
(* The composition: the product pages and the session of one tab behave as *)
(* their own specifications say, so that the theorems about each hold for  *)
(* the application.                                                        *)
(***************************************************************************)
EXTENDS Spa, ProductPagesProofs, SpaSessionProofs

\* The account page is mounted while the address is its own.
AccountHasRoute == account.open = (route.name = "account")

SpaIInv ==
  /\ PagesIInv
  /\ SessionIInv
  /\ AccountHasRoute

\* Where the route goes, the account page opens or closes or stays.
LEMMA AccountFollowsRouteOK ==
  ASSUME AccountHasRoute, AccountFollowsRoute
  PROVE  [SessionNext]_sessionVars /\ AccountHasRoute'
<1>1. CASE route'.name = "account" /\ route.name # "account"
  <2>1. OpenAccount
    BY <1>1 DEF AccountFollowsRoute
  <2>. QED  BY <1>1, <2>1 DEF SessionNext, OpenAccount, Opened, AccountHasRoute
<1>2. CASE route'.name # "account" /\ route.name = "account"
  <2>1. CloseAccount
    BY <1>2 DEF AccountFollowsRoute
  <2>. QED  BY <1>2, <2>1 DEF SessionNext, CloseAccount, Closed, AccountHasRoute
<1>3. CASE (route'.name = "account") <=> (route.name = "account")
  <2>1. UNCHANGED sessionVars
    BY <1>3 DEF AccountFollowsRoute
  <2>. QED  BY <1>3, <2>1 DEF sessionVars, AccountHasRoute
<1>. QED  BY <1>1, <1>2, <1>3

\* Whatever a link or the history leads to is a route.
LEMMA LinksAreRoutes ==
  ASSUME PagesTypeOK
  PROVE  PageLinks \cup MenuLinks \cup History \subseteq Route
<1>1. {At("home"), At("account"), At("products"), At("new")} \subseteq Route
  BY DEF At, Route
<1>2. [name : {"details", "edit"}, id : Products] \subseteq Route
  BY DEF Route
<1>3. ui.product # NoProduct => [name |-> "edit", id |-> ui.product] \in Route
  BY <1>2 DEF PagesTypeOK, UI
<1>4. DetailsView = "product" => ui.product # NoProduct
  BY DEF DetailsView, Gated
<1>5. PageLinks \subseteq Route
  BY <1>1, <1>2, <1>3, <1>4 DEF PageLinks, HomeLinks
<1>. QED  BY <1>1, <1>5, HistoryAssumption DEF MenuLinks

\* A step of the application is a step of the pages, or of the session, or both.
LEMMA SpaStepIsStep ==
  ASSUME SpaIInv, [Next]_vars
  PROVE  [PagesNext]_pageVars /\ [SessionNext]_sessionVars /\ AccountHasRoute'
<1>. USE DEF SpaIInv
<1>1. CASE Visit
  <2>1. PICK r \in Route : GoTo(r) /\ AccountFollowsRoute
    BY <1>1, LinksAreRoutes DEF Visit, PagesIInv
  <2>. QED  BY <2>1, AccountFollowsRouteOK DEF PagesNext
<1>2. CASE PageAnswered
  BY <1>2, AccountFollowsRouteOK DEF PageAnswered, PagesNext
<1>3. CASE PageUsed
  <2>1. UNCHANGED route
    BY <1>3 DEF PageUsed, UserActs, NextPage, PreviousPage, ShowPage, Delete, SubmitEdit,
       SubmitNew, Submit, Type
  <2>. QED  BY <1>3, <2>1 DEF PageUsed, PagesNext, sessionVars, AccountHasRoute
<1>4. CASE SessionStep
  <2>1. UNCHANGED route /\ InDocument
    BY <1>4 DEF SessionStep, pageVars
  <2>2. account'.open = account.open
    <3>1. CASE Asked
      BY <3>1 DEF Asked, BffAnswers, AnswerArrives, AccountAfter, SessionIInv, SessionTypeOK
    <3>2. CASE Refresh \/ Login \/ Logout \/ SessionChanges
      BY <3>2 DEF Refresh, Login, Logout, SessionChanges, SessionIInv, SessionTypeOK
    <3>. QED  BY <2>1, <3>1, <3>2 DEF InDocument
  <2>. QED  BY <1>4, <2>1, <2>2 DEF SessionStep, SessionNext, AccountHasRoute
<1>5. CASE Load
  <2>1. PICK r \in Route : LoadPages(r) /\ Loaded(r.name = "account")
    BY <1>5 DEF Load
  <2>2. AccountHasRoute'
    <3>1. account' = IF r.name = "account" THEN Opened ELSE Closed
      BY <2>1 DEF Loaded, LoggedOut, LoggedIn, Reload, LoadDocument
    <3>2. route' = r
      BY <2>1 DEF LoadPages
    <3>3. CASE r.name = "account"
      BY <3>1, <3>2, <3>3 DEF Opened, AccountHasRoute
    <3>4. CASE r.name # "account"
      BY <3>1, <3>2, <3>4 DEF Closed, AccountHasRoute
    <3>. QED  BY <3>3, <3>4
  <2>. QED  BY <2>1, <2>2 DEF PagesNext, SessionNext
<1>6. CASE UNCHANGED vars
  BY <1>6 DEF vars, pageVars, sessionVars, AccountHasRoute
<1>. QED  BY <1>1, <1>2, <1>3, <1>4, <1>5, <1>6 DEF Next

\* The account page is mounted exactly while its address is shown: also when the
\* answer to a save of a page that is long gone takes the user to the list.
THEOREM SpaInvariant == Spec => []SpaIInv
<1>1. Init => SpaIInv
  BY PagesInitOK, SessionInitOK DEF Init, SpaIInv, AccountHasRoute
<1>2. SpaIInv /\ [Next]_vars => SpaIInv'
  <2>. SUFFICES ASSUME SpaIInv, [Next]_vars  PROVE SpaIInv'
    OBVIOUS
  <2>1. [PagesNext]_pageVars /\ [SessionNext]_sessionVars /\ AccountHasRoute'
    BY SpaStepIsStep
  <2>. QED  BY <2>1, PagesStepOK, SessionStepOK DEF SpaIInv
<1>. QED  BY <1>1, <1>2, PTL DEF Spec

\* In the application, the product pages do what ProductPages allows: the steps
\* of the session, and the links that there are, add nothing.
THEOREM PagesOfSpa == Spec => PagesSpec
<1>1. Init => PagesInit
  BY DEF Init
<1>2. SpaIInv /\ [Next]_vars => [PagesNext]_pageVars
  BY SpaStepIsStep
<1>. QED  BY <1>1, <1>2, SpaInvariant, PTL DEF Spec, PagesSpec

\* In the application, the session does what SpaSession allows, whichever page
\* opens and closes the account.
THEOREM SessionOfSpa == Spec => SessionSpec
<1>1. Init => SessionInit
  BY DEF Init
<1>2. SpaIInv /\ [Next]_vars => [SessionNext]_sessionVars
  BY SpaStepIsStep
<1>. QED  BY <1>1, <1>2, SpaInvariant, PTL DEF Spec, SessionSpec

\* Every property of the pages and of the session holds in the application.
THEOREM SpaIsCorrect ==
  Spec => []( /\ PagesTypeOK /\ SessionTypeOK
              /\ WaitingHasReason /\ ShowsWhatWasAsked /\ EmptyFormIsNeverSent
              /\ FormSavesItsProduct /\ FailuresAreNamed /\ SavedOnceAtATime
              /\ TypedInputIsSafe
              /\ AskingHasReason /\ AuthFollowsNewestAnswer
              /\ LogoutNamesTheSession )
<1>1. SpaIInv => /\ PagesTypeOK /\ SessionTypeOK
                 /\ WaitingHasReason /\ ShowsWhatWasAsked /\ EmptyFormIsNeverSent
                 /\ FormSavesItsProduct /\ FailuresAreNamed /\ SavedOnceAtATime
                 /\ TypedInputIsSafe
                 /\ AskingHasReason /\ AuthFollowsNewestAnswer
                 /\ LogoutNamesTheSession
  BY PagesIInvImplies, SessionIInvImplies DEF SpaIInv
<1>. QED  BY <1>1, SpaInvariant, PTL
=============================================================================

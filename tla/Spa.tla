-------------------------------- MODULE Spa ---------------------------------
(***************************************************************************)
(* The single-page application in one browser tab: the product pages and   *)
(* the account page behind one address bar, the menu above them, and the   *)
(* session.  The account page is mounted while the address is its own; a   *)
(* load of the document begins everything anew.                            *)
(***************************************************************************)
EXTENDS ProductPages, SpaSession

CONSTANT History   \* what the tab's history leads to, from earlier loads too

ASSUME HistoryAssumption == History \subseteq Route

vars == <<pageVars, sessionVars>>

\* The menu offers the products and the account to users it knows.
MenuLinks ==
  {At("home")}
    \cup (IF auth.isAuthenticated THEN {At("products"), At("account")} ELSE {})

\* The account page is mounted and unmounted by the route.
AccountFollowsRoute ==
  CASE route'.name = "account" /\ route.name # "account" -> OpenAccount
    [] route'.name # "account" /\ route.name = "account" -> CloseAccount
    [] OTHER -> UNCHANGED sessionVars

Init ==
  /\ PagesInit
  /\ SessionInit
  /\ account.open = (route.name = "account")

Visit ==
  \E r \in PageLinks \cup MenuLinks \cup History : GoTo(r) /\ AccountFollowsRoute

PageAnswered == Answered /\ AccountFollowsRoute

PageUsed == UserActs /\ UNCHANGED sessionVars

SessionAsked == Asked /\ UNCHANGED pageVars

SessionStep == InDocument /\ UNCHANGED pageVars

Load == \E r \in Route : LoadPages(r) /\ Loaded(r.name = "account")

Next == Visit \/ PageAnswered \/ PageUsed \/ SessionStep \/ Load

Spec == Init /\ [][Next]_vars

\* Every call is answered, by the service, the BFF or the gateway's timeout.
FairSpec == Spec /\ WF_vars(PageAnswered) /\ WF_vars(SessionAsked)
=============================================================================

----------------------------- MODULE SpaSession -----------------------------
(***************************************************************************)
(* The session of the single-page application: AuthService, a singleton of *)
(* the document, the navigation menu that shows its state, and the account *)
(* page.  The session itself is a cookie at the BFF (external): it begins  *)
(* with a login, ends with a logout or expires, in this tab or in another, *)
(* and the application only learns of it by asking for the user's claims.  *)
(*                                                                         *)
(* The menu and the account page ask independently.  The BFF answers a     *)
(* question at some moment, the answer arrives later, and answers arrive   *)
(* in any order.                                                           *)
(***************************************************************************)
EXTENDS Naturals, Functions

CONSTANTS
  Sessions,      \* sessions the BFF may begin; each has the name of its user
  NoSession,     \* none: answered with 401
  Addressed,     \* those whose claims have a bff:logout_url, their own
  AskRuns,       \* runs of an effect when a component mounts
  MaxAsks,       \* bound on questions in flight
  MaxLoads       \* bound on loads of the document

ASSUME NoSessionAssumption == NoSession \notin Sessions

ASSUME AddressedAssumption == Addressed \subseteq Sessions

ASSUME AskRunsAssumption == AskRuns \in {1, 2}

ASSUME MaxAsksAssumption == MaxAsks \in Nat

ASSUME MaxLoadsAssumption == MaxLoads \in Nat

Session == Sessions \cup {NoSession}

\* A call of getUserClaims: who awaits it ("nobody" when the account page is
\* gone), the answer of the BFF, and whether no later answer was given (history).
Ask ==
  [by : {"menu", "account", "nobody"}, phase : {"sent"}]
    \cup [by : {"menu", "account", "nobody"}, phase : {"answered"},
          claims : Session, newest : BOOLEAN]

Sent(by) == [by |-> by, phase |-> "sent"]

VARIABLES
  session,   \* the BFF's session of this browser
  auth,      \* state of AuthService
  username,  \* the name in the menu
  account,   \* state of the account page
  asks,      \* calls of getUserClaims in flight, with their number
  leaving,   \* where the document is being redirected to
  loads,
  told,      \* history: what the BFF answered last
  seen,      \* history: the sessions there were since the document was loaded
  overtaken  \* history: an answer came after a newer one

sessionVars ==
  <<session, auth, username, account, asks, leaving, loads, told, seen, overtaken>>

AsksInFlight == {a \in Ask : asks[a] > 0}

Closed == [open |-> FALSE, loading |-> FALSE, info |-> NoSession]

\* The logout address of a session is the session; NoSession stands for the
\* address without a session, BFF_ENDPOINTS.LOGOUT alone.  An account page that
\* is gone keeps no state, and nothing in flight is awaited by it.
SessionTypeOK ==
  /\ session \in Session
  /\ auth \in [isAuthenticated : BOOLEAN, userClaims : Session,
               logoutUrl : Addressed \cup {NoSession}, isLoading : BOOLEAN]
  /\ username \in Session
  /\ account \in [open : BOOLEAN, loading : BOOLEAN, info : Session]
  /\ account.open \/ (account = Closed /\ \A a \in AsksInFlight : a.by # "account")
  /\ asks \in [Ask -> Nat]
  /\ leaving \in [to : {"nowhere", "login", "logout"}, url : Addressed \cup {NoSession}]
  /\ loads \in Nat
  /\ told \in Session /\ seen \subseteq Sessions /\ overtaken \in BOOLEAN
-----------------------------------------------------------------------------
Nowhere == [to |-> "nowhere", url |-> NoSession]

\* The constructor's state, after the menu's effect has called getUserClaims.
FreshAuth ==
  [isAuthenticated |-> FALSE, userClaims |-> NoSession, logoutUrl |-> NoSession,
   isLoading |-> TRUE]

\* Another call of getUserClaims, up to its await.
Asking(by, as, runs) == [as EXCEPT ![Sent(by)] = @ + runs]

NoAsks == [a \in Ask |-> 0]

FirstAsks(open) ==
  LET menu == Asking("menu", NoAsks, AskRuns)
  IN  IF open THEN Asking("account", menu, AskRuns) ELSE menu

Opened == [open |-> TRUE, loading |-> TRUE, info |-> NoSession]

SessionInit ==
  /\ session \in Session
  /\ auth = FreshAuth
  /\ username = NoSession
  /\ account \in {Closed, Opened}
  /\ asks = FirstAsks(account.open)
  /\ leaving = Nowhere
  /\ loads = 0
  /\ told = NoSession
  /\ seen = {session} \ {NoSession}
  /\ overtaken = FALSE

\* The document is loaded anew: nothing of the old one remains.
LoadDocument(open, s) ==
  /\ loads < MaxLoads /\ loads' = loads + 1
  /\ session' = s
  /\ auth' = FreshAuth
  /\ username' = NoSession
  /\ account' = IF open THEN Opened ELSE Closed
  /\ asks' = FirstAsks(open)
  /\ leaving' = Nowhere
  /\ told' = NoSession
  /\ seen' = {s} \ {NoSession}
  /\ overtaken' = FALSE
-----------------------------------------------------------------------------
\* The account page.

MayAsk == SumFunction(asks) < MaxAsks

OpenAccount ==
  /\ ~account.open
  /\ account' = Opened
  /\ auth' = [auth EXCEPT !.isLoading = TRUE]
  /\ asks' = Asking("account", asks, AskRuns)
  /\ MayAsk
  /\ UNCHANGED <<session, username, leaving, loads, told, seen, overtaken>>

CloseAccountKeepingAsks ==
  /\ account.open
  /\ account' = Closed
  /\ UNCHANGED <<session, auth, username, asks, leaving, loads, told, seen, overtaken>>

\* AuthService waits for the answer all the same.
CloseAccount ==
  /\ account.open
  /\ account' = Closed
  /\ asks' = [a \in Ask |->
       CASE a.by = "account" -> 0
         [] a.by = "nobody"  -> asks[a] + asks[[a EXCEPT !.by = "account"]]
         [] a.by = "menu"    -> asks[a]]
  /\ UNCHANGED <<session, auth, username, leaving, loads, told, seen, overtaken>>

\* What the account page shows.  getUserClaims does not reject, so there is no
\* error to show: a failure is an empty table.
AccountView ==
  CASE ~account.open   -> "nothing"
    [] account.loading -> "spinner"
    [] OTHER           -> "claims"

CanRefresh == AccountView = "claims"

\* fetchUserSessionInfo, up to its await.
Refresh ==
  /\ CanRefresh
  /\ account' = [account EXCEPT !.loading = TRUE]
  /\ auth' = [auth EXCEPT !.isLoading = TRUE]
  /\ MayAsk
  /\ asks' = Asking("account", asks, 1)
  /\ UNCHANGED <<session, username, leaving, loads, told, seen, overtaken>>
-----------------------------------------------------------------------------
\* Questions and answers.

\* An answer makes every earlier one, arrived or not, an old one.
Aged(as) ==
  [a \in Ask |->
     IF a.phase = "sent" THEN as[a]
     ELSE IF a.newest THEN 0 ELSE as[a] + as[[a EXCEPT !.newest = TRUE]]]

\* The BFF answers with the claims of the session, or fails: there is none, or
\* something on the way went wrong.
BffAnswers(by, claims) ==
  /\ asks[Sent(by)] > 0
  /\ asks' = [Aged([asks EXCEPT ![Sent(by)] = @ - 1]) EXCEPT
                ![[by |-> by, phase |-> "answered", claims |-> claims,
                   newest |-> TRUE]] = 1]
  /\ told' = claims
  /\ UNCHANGED <<session, auth, username, account, leaving, loads, seen, overtaken>>

\* The bff:logout_url of the claims, or else the address there is.
LogoutUrl(claims) == IF claims \in Addressed THEN claims ELSE auth.logoutUrl

AfterAnswerStillLoading(claims) ==
  [isAuthenticated |-> claims # NoSession, userClaims |-> claims,
   logoutUrl |-> LogoutUrl(claims), isLoading |-> claims = NoSession]

AfterAnswerKeepingClaims(claims) ==
  [isAuthenticated |-> claims # NoSession,
   userClaims |-> IF claims # NoSession THEN claims ELSE auth.userClaims,
   logoutUrl |-> LogoutUrl(claims), isLoading |-> FALSE]

\* The state of AuthService after an answer.  Claims without a bff:logout_url
\* leave the address of an earlier session beside them, and so does a failure.
AfterAnswer(claims) ==
  [isAuthenticated |-> claims # NoSession, userClaims |-> claims,
   logoutUrl |-> LogoutUrl(claims), isLoading |-> FALSE]

MenuName(by, claims) ==
  IF by = "menu" /\ claims # NoSession THEN claims ELSE username

AccountAfterSuccess(by, claims) ==
  IF by = "account" /\ claims # NoSession
  THEN [account EXCEPT !.loading = FALSE, !.info = claims] ELSE account

AccountAfter(by, claims) ==
  IF by = "account" THEN [account EXCEPT !.loading = FALSE, !.info = claims]
  ELSE account

\* The rest of getUserClaims, and of what awaited it.
AnswerArrives(a) ==
  /\ a.phase = "answered"
  /\ asks' = [asks EXCEPT ![a] = @ - 1]
  /\ auth' = AfterAnswer(a.claims)
  /\ username' = MenuName(a.by, a.claims)
  /\ account' = AccountAfter(a.by, a.claims)
  /\ overtaken' = IF a.newest THEN FALSE
                  ELSE \/ overtaken
                       \/ \A b \in Ask :
                            b.phase = "answered" /\ b.newest => asks[b] = 0
  /\ UNCHANGED <<session, leaving, loads, told, seen>>
-----------------------------------------------------------------------------
\* Login and logout.

\* login: the document goes to the BFF.  Until it is gone it works on.
Login ==
  /\ ~auth.isAuthenticated
  /\ leaving' = [to |-> "login", url |-> NoSession]
  /\ UNCHANGED <<session, auth, username, account, asks, loads, told, seen, overtaken>>

LogoutAfterClearing ==
  /\ auth.isAuthenticated
  /\ auth' = [FreshAuth EXCEPT !.isLoading = auth.isLoading]
  /\ leaving' = [to |-> "logout", url |-> auth'.logoutUrl]
  /\ UNCHANGED <<session, username, account, asks, loads, told, seen, overtaken>>

\* logout: the address is built, then the claims are cleared.
Logout ==
  /\ auth.isAuthenticated
  /\ auth' = [auth EXCEPT !.isAuthenticated = FALSE, !.userClaims = NoSession]
  /\ leaving' = [to |-> "logout", url |-> auth.logoutUrl]
  /\ UNCHANGED <<session, username, account, asks, loads, told, seen, overtaken>>

\* The BFF logs out the session the address names and refuses the address of
\* another one; the address without a session it may take or refuse.  Either way
\* the user comes back to a new document.
LoggedOut(open) ==
  /\ leaving.to = "logout"
  /\ \/ leaving.url \in {session, NoSession} /\ LoadDocument(open, NoSession)
     \/ leaving.url # session /\ LoadDocument(open, session)

LoggedIn(open) ==
  /\ leaving.to = "login"
  /\ \E s \in Session : LoadDocument(open, s)

Reload(open) == LoadDocument(open, session)

\* The session expires, or another tab logs out or in.
SessionChanges ==
  /\ \E s \in Session : s # session /\ session' = s
  /\ seen' = seen \cup ({session'} \ {NoSession})
  /\ UNCHANGED <<auth, username, account, asks, leaving, loads, told, overtaken>>
-----------------------------------------------------------------------------
Asked ==
  \/ \E by \in {"menu", "account", "nobody"}, claims \in {session, NoSession} :
       BffAnswers(by, claims)
  \/ \E a \in AsksInFlight : AnswerArrives(a)

InDocument == Asked \/ Refresh \/ Login \/ Logout \/ SessionChanges

Loaded(open) == LoggedOut(open) \/ LoggedIn(open) \/ Reload(open)

SessionNext ==
  \/ InDocument
  \/ OpenAccount \/ CloseAccount
  \/ \E open \in BOOLEAN : Loaded(open)

SessionSpec == SessionInit /\ [][SessionNext]_sessionVars

-----------------------------------------------------------------------------
\* Neither the service nor the account page says that it is loading when no
\* answer is on the way to end it.
AskingHasReason ==
  /\ auth.isLoading => AsksInFlight # {}
  /\ account.loading => \E a \in AsksInFlight : a.by = "account"

\* Once every answer has arrived, the service's state is what the BFF said last,
\* unless that answer was overtaken by an older one.  Two components ask, and
\* nothing tells the service which answer is the newer.
AuthFollowsNewestAnswer ==
  /\ leaving.to = "nowhere"
  /\ ~overtaken
  /\ \A a \in AsksInFlight : a.phase = "sent"
  => auth.userClaims = told /\ auth.isAuthenticated = (told # NoSession)

\* As long as the document has known one session only, logging out names this
\* session: by its own address if its claims have one, else by the address without
\* a session; and the menu shows its user's name or none.  Answers that fail, come
\* late or after an earlier logout do not mix in anything of the documents before.
\* (With a second session the address may be the first one's, see LogoutUrl, and
\* so may the name in the menu.)
LogoutNamesTheSession ==
  \A s \in Sessions : leaving.to = "logout" /\ seen = {s} =>
    /\ leaving.url = IF s \in Addressed THEN s ELSE NoSession
    /\ username \in {s, NoSession}

\* The account page ends its waiting.
AskingEnds == AccountView = "spinner" ~> AccountView # "spinner"
=============================================================================

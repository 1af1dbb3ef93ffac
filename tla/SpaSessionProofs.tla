-------------------------- MODULE SpaSessionProofs --------------------------
(***************************************************************************)
(* Theorems about SpaSession: for any set of sessions, with effects that   *)
(* run once or twice, any number of questions in flight and any number of  *)
(* loads of the document.                                                  *)
(***************************************************************************)
EXTENDS SpaSession, TLAPS

\* What the document knows it was told since it was loaded.
KnownIsSeen ==
  /\ {session, username, auth.userClaims} \subseteq seen \cup {NoSession}
  /\ \A a \in AsksInFlight : a.phase = "answered" => a.claims \in seen \cup {NoSession}
  /\ auth.isAuthenticated => auth.userClaims # NoSession

\* At most the answer given last counts as the newest.
NewestIsTold ==
  \A a \in AsksInFlight : a.phase = "answered" /\ a.newest => a.claims = told

\* The logout address is that of a session of this document, of the one the
\* service knows when that has an address.
AddressIsKnown ==
  /\ auth.logoutUrl \in seen \cup {NoSession}
  /\ auth.isAuthenticated /\ auth.userClaims \in Addressed => auth.logoutUrl = auth.userClaims
  /\ leaving.to = "logout" => seen # {}

SessionIInv ==
  /\ SessionTypeOK
  /\ AskingHasReason
  /\ AuthFollowsNewestAnswer
  /\ LogoutNamesTheSession
  /\ KnownIsSeen
  /\ AddressIsKnown
  /\ NewestIsTold

By == {"menu", "account", "nobody"}
-----------------------------------------------------------------------------
(* Calls of getUserClaims *)

\* The fields of a call.
LEMMA AskFields ==
  ASSUME NEW a \in Ask
  PROVE  /\ a.by \in By /\ a.phase \in {"sent", "answered"}
         /\ a.phase = "sent" => a = Sent(a.by)
         /\ a.phase = "answered" =>
              /\ a.claims \in Session /\ a.newest \in BOOLEAN
              /\ [a EXCEPT !.newest = TRUE] \in Ask
  BY DEF Ask, Sent, By

\* When the account page closes, its call becomes nobody's.
LEMMA AskOfNobody ==
  ASSUME NEW a \in Ask, NEW by \in By
  PROVE  LET b == [a EXCEPT !.by = by]
         IN  /\ b \in Ask /\ b.by = by /\ b.phase = a.phase
             /\ a.phase = "answered" => b.claims = a.claims /\ b.newest = a.newest
  BY DEF Ask, By

\* A call just made is one.
LEMMA SentIsAsk ==
  ASSUME NEW by \in By
  PROVE  Sent(by) \in Ask /\ Sent(by).by = by /\ Sent(by).phase = "sent"
  BY DEF Sent, Ask, By

\* Asking leaves counters, and adds to one of them.
LEMMA AskingOK ==
  ASSUME NEW by \in By, NEW as \in [Ask -> Nat], NEW runs \in {1, 2}
  PROVE  /\ Asking(by, as, runs) \in [Ask -> Nat]
         /\ {a \in Ask : Asking(by, as, runs)[a] > 0} = {a \in Ask : as[a] > 0} \cup {Sent(by)}
<1>1. Sent(by) \in Ask
  BY SentIsAsk
<1>2. runs \in Nat /\ runs > 0
  OBVIOUS
<1>3. \A q \in Ask : as[q] \in Nat
  OBVIOUS
<1>4. Asking(by, as, runs)
        = [a \in Ask |-> IF a = Sent(by) THEN as[Sent(by)] + runs ELSE as[a]]
  BY <1>1 DEF Asking
<1>. DEFINE new == Asking(by, as, runs)
<1>. HIDE DEF new
<1>5. \A a \in Ask : new[a] = IF a = Sent(by) THEN as[Sent(by)] + runs ELSE as[a]
  BY <1>4 DEF new
<1>6. \A a \in Ask : new[a] \in Nat /\ (new[a] > 0 <=> as[a] > 0 \/ a = Sent(by))
  <2>. SUFFICES ASSUME NEW a \in Ask
                PROVE  new[a] \in Nat /\ (new[a] > 0 <=> as[a] > 0 \/ a = Sent(by))
    OBVIOUS
  <2>. DEFINE m == as[a]
  <2>1. m \in Nat
    BY <1>3
  <2>2. CASE a = Sent(by)
    <3>1. new[a] = m + runs
      BY <2>2, <1>5
    <3>. HIDE DEF m
    <3>2. m + runs \in Nat /\ m + runs > 0
      BY <2>1, <1>2
    <3>. QED  BY <3>1, <3>2, <2>2
  <2>3. CASE a # Sent(by)
    BY <2>1, <2>3, <1>5
  <2>. QED  BY <2>2, <2>3
<1>7. new \in [Ask -> Nat]
  <2>1. new = [a \in Ask |-> new[a]]
    BY <1>4 DEF new
  <2>. QED  BY <1>6, <2>1
<1>. QED  BY <1>1, <1>6, <1>7 DEF new

\* A new document asks for the menu, and for the account page if that is open.
LEMMA FirstAsksOK ==
  ASSUME NEW open \in BOOLEAN
  PROVE  /\ FirstAsks(open) \in [Ask -> Nat]
         /\ {a \in Ask : FirstAsks(open)[a] > 0}
              = IF open THEN {Sent("menu"), Sent("account")} ELSE {Sent("menu")}
<1>. DEFINE menu == Asking("menu", NoAsks, AskRuns)
<1>1. NoAsks \in [Ask -> Nat] /\ {a \in Ask : NoAsks[a] > 0} = {}
  BY DEF NoAsks
<1>2. menu \in [Ask -> Nat] /\ {a \in Ask : menu[a] > 0} = {Sent("menu")}
  BY <1>1, AskingOK, AskRunsAssumption DEF By
<1>3. /\ Asking("account", menu, AskRuns) \in [Ask -> Nat]
      /\ {a \in Ask : Asking("account", menu, AskRuns)[a] > 0} = {Sent("menu"), Sent("account")}
  <2>. HIDE DEF menu
  <2>. QED  BY <1>2, AskingOK, AskRunsAssumption DEF By
<1>. QED  BY <1>2, <1>3 DEF FirstAsks
-----------------------------------------------------------------------------
(* A new document *)

FreshDocument ==
  /\ session \in Session
  /\ auth = FreshAuth
  /\ username = NoSession
  /\ \E open \in BOOLEAN :
       account = (IF open THEN Opened ELSE Closed) /\ asks = FirstAsks(open)
  /\ leaving = Nowhere
  /\ loads \in Nat
  /\ told = NoSession
  /\ seen = {session} \ {NoSession}
  /\ overtaken = FALSE

\* A document just loaded satisfies the invariant.
LEMMA FreshDocumentOK == FreshDocument => SessionIInv
<1>. SUFFICES ASSUME FreshDocument  PROVE SessionIInv
  OBVIOUS
<1>1. PICK open \in BOOLEAN :
        account = (IF open THEN Opened ELSE Closed) /\ asks = FirstAsks(open)
  BY DEF FreshDocument
<1>2. /\ asks \in [Ask -> Nat]
      /\ AsksInFlight = IF open THEN {Sent("menu"), Sent("account")} ELSE {Sent("menu")}
  BY <1>1, FirstAsksOK DEF AsksInFlight
<1>3. \A a \in AsksInFlight : a.phase = "sent"
  BY <1>2, SentIsAsk DEF By
<1>4. SessionTypeOK
  BY <1>1, <1>2, SentIsAsk DEF FreshDocument, SessionTypeOK, FreshAuth, Opened, Closed,
     Nowhere, Session, By
<1>5. AskingHasReason
  BY <1>1, <1>2, SentIsAsk DEF AskingHasReason, Opened, Closed, By
<1>6. AuthFollowsNewestAnswer /\ LogoutNamesTheSession /\ AddressIsKnown
  BY AddressedAssumption, NoSessionAssumption
     DEF FreshDocument, FreshAuth, AuthFollowsNewestAnswer, LogoutNamesTheSession,
     AddressIsKnown, Nowhere
<1>7. KnownIsSeen /\ NewestIsTold
  BY <1>3 DEF FreshDocument, FreshAuth, KnownIsSeen, NewestIsTold
<1>. QED  BY <1>4, <1>5, <1>6, <1>7 DEF SessionIInv

\* The same of the state after a step.
LEMMA FreshDocumentNext == FreshDocument' => SessionIInv'
  BY FreshDocumentOK, PTL

\* The invariant holds initially.
LEMMA SessionInitOK == SessionInit => SessionIInv
<1>. SUFFICES ASSUME SessionInit  PROVE FreshDocument
  BY FreshDocumentOK
<1>1. account.open \in BOOLEAN /\ account = IF account.open THEN Opened ELSE Closed
  <2>1. CASE account = Opened
    BY <2>1 DEF Opened
  <2>2. CASE account = Closed
    BY <2>2 DEF Closed
  <2>. QED  BY <2>1, <2>2 DEF SessionInit
<1>. QED  BY <1>1 DEF SessionInit, FreshDocument

\* A reload and the return from login and logout load the document.
LEMMA LoadedKeepsIInv ==
  ASSUME SessionIInv, NEW open \in BOOLEAN, Loaded(open)
  PROVE  SessionIInv'
<1>1. PICK s \in Session : LoadDocument(open, s)
  BY DEF Loaded, LoggedOut, LoggedIn, Reload, Session, SessionIInv, SessionTypeOK
<1>2. loads' \in Nat
  BY <1>1 DEF LoadDocument, SessionIInv, SessionTypeOK
<1>3. FreshDocument'
  BY <1>1, <1>2 DEF LoadDocument, FreshDocument
<1>. QED  BY <1>3, FreshDocumentNext
-----------------------------------------------------------------------------
(* The account page *)

\* OpenAccount and Refresh: the account page asks.
LEMMA AccountAsksKeepsIInv ==
  ASSUME SessionIInv, NEW runs \in {1, 2},
         asks' = Asking("account", asks, runs),
         account' \in [open : {TRUE}, loading : BOOLEAN, info : Session],
         auth' = [auth EXCEPT !.isLoading = TRUE],
         UNCHANGED <<session, username, leaving, loads, told, seen, overtaken>>
  PROVE  SessionIInv'
<1>1. /\ asks' \in [Ask -> Nat] /\ AsksInFlight' = AsksInFlight \cup {Sent("account")}
  BY AskingOK DEF SessionIInv, SessionTypeOK, AsksInFlight, By
<1>2. Sent("account").phase = "sent" /\ Sent("account").by = "account"
  BY DEF Sent
<1>3. /\ auth'.isAuthenticated = auth.isAuthenticated /\ auth'.userClaims = auth.userClaims
      /\ auth'.logoutUrl = auth.logoutUrl
      /\ auth' \in [isAuthenticated : BOOLEAN, userClaims : Session,
                    logoutUrl : Addressed \cup {NoSession}, isLoading : BOOLEAN]
  BY DEF SessionIInv, SessionTypeOK
<1>4. SessionTypeOK'
  BY <1>1, <1>3 DEF SessionIInv, SessionTypeOK
<1>5. AskingHasReason'
  BY <1>1, <1>2 DEF AskingHasReason
<1>6. AuthFollowsNewestAnswer' /\ LogoutNamesTheSession' /\ AddressIsKnown'
  BY <1>1, <1>3 DEF SessionIInv, AuthFollowsNewestAnswer, LogoutNamesTheSession, AddressIsKnown
<1>7. KnownIsSeen' /\ NewestIsTold'
  BY <1>1, <1>2, <1>3 DEF SessionIInv, KnownIsSeen, NewestIsTold
<1>. QED  BY <1>4, <1>5, <1>6, <1>7 DEF SessionIInv

\* The account page opens and asks.
LEMMA OpenAccountKeepsIInv ==
  ASSUME SessionIInv, OpenAccount
  PROVE  SessionIInv'
  BY AccountAsksKeepsIInv, AskRunsAssumption DEF OpenAccount, Opened, Session

\* The account page asks again.
LEMMA RefreshKeepsIInv ==
  ASSUME SessionIInv, Refresh
  PROVE  SessionIInv'
<1>1. account' \in [open : {TRUE}, loading : BOOLEAN, info : Session]
  BY DEF Refresh, CanRefresh, AccountView, SessionIInv, SessionTypeOK
<1>. QED  BY <1>1, AccountAsksKeepsIInv DEF Refresh

\* A question of the account page is nobody's when the page is gone, and is still
\* answered.
LEMMA CloseAccountKeepsIInv ==
  ASSUME SessionIInv, CloseAccount
  PROVE  SessionIInv'
<1>1. /\ asks \in [Ask -> Nat]
      /\ asks' = [a \in Ask |->
           CASE a.by = "account" -> 0
             [] a.by = "nobody"  -> asks[a] + asks[[a EXCEPT !.by = "account"]]
             [] a.by = "menu"    -> asks[a]]
      /\ account' = Closed
      /\ UNCHANGED <<session, auth, username, leaving, loads, told, seen, overtaken>>
  BY DEF CloseAccount, SessionIInv, SessionTypeOK
<1>2. ASSUME NEW a \in Ask
      PROVE  /\ asks'[a] \in Nat
             /\ asks'[a] > 0 =>
                  \/ asks[a] > 0
                  \/ asks[[a EXCEPT !.by = "account"]] > 0
             /\ a.by = "nobody" /\ asks[[a EXCEPT !.by = "account"]] > 0 => asks'[a] > 0
             /\ a.by # "account" /\ asks[a] > 0 => asks'[a] > 0
             /\ asks'[a] > 0 => a.by # "account"
  <2>. DEFINE b == [a EXCEPT !.by = "account"]
              m == asks[a]
              n == asks[b]
  <2>1. b \in Ask /\ a.by \in By
    BY AskOfNobody, AskFields DEF By
  <2>2. m \in Nat /\ n \in Nat
    BY <1>1, <2>1
  <2>3. asks'[a] = CASE a.by = "account" -> 0
                     [] a.by = "nobody"  -> m + n
                     [] a.by = "menu"    -> m
    BY <1>1
  <2>. HIDE DEF b, m, n
  <2>4. asks'[a] \in Nat /\ (asks'[a] > 0 => m > 0 \/ n > 0)
        /\ (a.by = "nobody" /\ n > 0 => asks'[a] > 0)
        /\ (a.by # "account" /\ m > 0 => asks'[a] > 0)
        /\ (asks'[a] > 0 => a.by # "account")
    BY <2>1, <2>2, <2>3 DEF By
  <2>. QED  BY <2>4 DEF b, m, n
<1>3. asks' \in [Ask -> Nat]
  <2>. DEFINE moved(a) ==
         CASE a.by = "account" -> 0
           [] a.by = "nobody"  -> asks[a] + asks[[a EXCEPT !.by = "account"]]
           [] a.by = "menu"    -> asks[a]
  <2>1. asks' = [a \in Ask |-> moved(a)]
    BY <1>1
  <2>. HIDE DEF moved
  <2>2. \A a \in Ask : asks'[a] = moved(a)
    BY <2>1
  <2>. QED  BY <1>2, <2>1, <2>2
<1>4. ASSUME NEW a \in AsksInFlight'
      PROVE  \E b \in AsksInFlight :
               /\ b.phase = a.phase
               /\ a.phase = "answered" => b.claims = a.claims /\ b.newest = a.newest
  <2>1. a \in Ask /\ asks'[a] > 0
    BY DEF AsksInFlight
  <2>2. CASE asks[a] > 0
    BY <2>1, <2>2 DEF AsksInFlight
  <2>3. CASE asks[[a EXCEPT !.by = "account"]] > 0
    BY <2>1, <2>3, AskOfNobody DEF AsksInFlight, By
  <2>. QED  BY <1>2, <2>1, <2>2, <2>3
<1>5. ASSUME NEW b \in AsksInFlight
      PROVE  \E a \in AsksInFlight' : a.phase = b.phase
  <2>1. b \in Ask /\ asks[b] > 0
    BY DEF AsksInFlight
  <2>2. CASE b.by # "account"
    BY <1>2, <2>1, <2>2 DEF AsksInFlight
  <2>3. CASE b.by = "account"
    <3>. DEFINE a == [b EXCEPT !.by = "nobody"]
    <3>1. a \in Ask /\ a.by = "nobody" /\ a.phase = b.phase
      BY <2>1, AskOfNobody DEF By
    <3>2. [a EXCEPT !.by = "account"] = b
      BY <2>1, <2>3 DEF Ask
    <3>. HIDE DEF a
    <3>. QED  BY <1>2, <2>1, <3>1, <3>2 DEF AsksInFlight
  <2>. QED  BY <2>2, <2>3
<1>6. SessionTypeOK'
  BY <1>1, <1>2, <1>3 DEF SessionIInv, SessionTypeOK, Closed, Session, AsksInFlight
<1>7. AskingHasReason'
  BY <1>1, <1>5 DEF SessionIInv, AskingHasReason, Closed
<1>8. AuthFollowsNewestAnswer' /\ LogoutNamesTheSession' /\ AddressIsKnown'
  BY <1>1, <1>5 DEF SessionIInv, AuthFollowsNewestAnswer, LogoutNamesTheSession, AddressIsKnown
<1>9. KnownIsSeen' /\ NewestIsTold'
  BY <1>1, <1>4 DEF SessionIInv, KnownIsSeen, NewestIsTold
<1>. QED  BY <1>6, <1>7, <1>8, <1>9 DEF SessionIInv
-----------------------------------------------------------------------------
(* Answers *)

\* A new answer makes the earlier ones old, and changes nothing else about them.
LEMMA AgedOK ==
  ASSUME NEW as \in [Ask -> Nat]
  PROVE  /\ Aged(as) \in [Ask -> Nat]
         /\ \A a \in Ask : Aged(as)[a] > 0 =>
              /\ a.phase = "answered" => ~a.newest
              /\ \/ as[a] > 0
                 \/ a.phase = "answered" /\ as[[a EXCEPT !.newest = TRUE]] > 0
         /\ \A a \in Ask : as[a] > 0 =>
              \E b \in Ask : Aged(as)[b] > 0 /\ b.by = a.by
<1>. DEFINE old(a) == IF a.phase = "sent" THEN as[a]
                      ELSE IF a.newest THEN 0 ELSE as[a] + as[[a EXCEPT !.newest = TRUE]]
<1>1. Aged(as) = [a \in Ask |-> old(a)]
  BY DEF Aged
<1>2. ASSUME NEW a \in Ask
      PROVE  /\ old(a) \in Nat
             /\ old(a) > 0 =>
                  /\ a.phase = "answered" => ~a.newest
                  /\ \/ as[a] > 0
                     \/ a.phase = "answered" /\ as[[a EXCEPT !.newest = TRUE]] > 0
             /\ as[a] > 0 /\ (a.phase = "sent" \/ ~a.newest) => old(a) > 0
             /\ a.phase = "answered" /\ ~a.newest /\ as[[a EXCEPT !.newest = TRUE]] > 0
                  => old(a) > 0
  <2>. DEFINE m == as[a]
              n == as[[a EXCEPT !.newest = TRUE]]
  <2>1. m \in Nat /\ a.phase \in {"sent", "answered"}
    BY AskFields
  <2>2. a.phase = "answered" => n \in Nat /\ a.newest \in BOOLEAN
    BY AskFields
  <2>3. old(a) = IF a.phase = "sent" THEN m ELSE IF a.newest THEN 0 ELSE m + n
    OBVIOUS
  <2>. HIDE DEF m, n, old
  <2>4. /\ old(a) \in Nat
        /\ old(a) > 0 =>
             /\ a.phase = "answered" => ~a.newest
             /\ m > 0 \/ (a.phase = "answered" /\ n > 0)
        /\ m > 0 /\ (a.phase = "sent" \/ ~a.newest) => old(a) > 0
        /\ a.phase = "answered" /\ ~a.newest /\ n > 0 => old(a) > 0
    BY <2>1, <2>2, <2>3
  <2>. QED  BY <2>4 DEF m, n
<1>. HIDE DEF old
<1>3. Aged(as) \in [Ask -> Nat] /\ \A a \in Ask : Aged(as)[a] = old(a)
  BY <1>1, <1>2
<1>4. ASSUME NEW a \in Ask, as[a] > 0
      PROVE  \E b \in Ask : Aged(as)[b] > 0 /\ b.by = a.by
  <2>1. CASE a.phase = "sent" \/ ~a.newest
    BY <2>1, <1>2, <1>3, <1>4
  <2>2. CASE a.phase = "answered" /\ a.newest
    <3>. DEFINE b == [a EXCEPT !.newest = FALSE]
    <3>1. b \in Ask /\ b.by = a.by /\ b.phase = "answered" /\ ~b.newest
      BY <2>2 DEF Ask
    <3>2. [b EXCEPT !.newest = TRUE] = a
      BY <2>2 DEF Ask
    <3>. HIDE DEF b
    <3>. QED  BY <1>2, <1>3, <1>4, <3>1, <3>2
  <2>. QED  BY <2>1, <2>2, AskFields
<1>. QED  BY <1>2, <1>3, <1>4

\* The answer of the BFF is the newest, and is about the session there is.
LEMMA BffAnswersKeepsIInv ==
  ASSUME SessionIInv, NEW by \in By, NEW claims \in {session, NoSession},
         BffAnswers(by, claims)
  PROVE  SessionIInv'
<1>. DEFINE q == Sent(by)
            a0 == [by |-> by, phase |-> "answered", claims |-> claims, newest |-> TRUE]
            taken == [asks EXCEPT ![q] = @ - 1]
<1>1. /\ asks \in [Ask -> Nat] /\ claims \in Session /\ claims \in seen \cup {NoSession}
      /\ asks[q] > 0 /\ asks' = [Aged(taken) EXCEPT ![a0] = 1] /\ told' = claims
      /\ UNCHANGED <<session, auth, username, account, leaving, loads, seen, overtaken>>
  BY DEF BffAnswers, SessionIInv, SessionTypeOK, KnownIsSeen, Session
<1>2. /\ q \in Ask /\ q.by = by
      /\ a0 \in Ask /\ a0.by = by /\ a0.phase = "answered" /\ a0.claims = claims
  BY <1>1, SentIsAsk DEF Ask, By
<1>3. taken \in [Ask -> Nat] /\ \A a \in Ask : a # q => taken[a] = asks[a]
  <2>1. asks[q] - 1 \in Nat
    BY <1>1, <1>2
  <2>. QED  BY <1>1, <1>2, <2>1
<1>4. \A a \in Ask : taken[a] > 0 => asks[a] > 0
  BY <1>1, <1>3
<1>. HIDE DEF q, a0, taken
<1>5. /\ Aged(taken) \in [Ask -> Nat]
      /\ \A a \in Ask : Aged(taken)[a] > 0 =>
           /\ a.phase = "answered" => ~a.newest
           /\ \/ taken[a] > 0
              \/ a.phase = "answered" /\ taken[[a EXCEPT !.newest = TRUE]] > 0
      /\ \A a \in Ask : taken[a] > 0 => \E b \in Ask : Aged(taken)[b] > 0 /\ b.by = a.by
  BY <1>3, AgedOK
<1>6. /\ asks' \in [Ask -> Nat] /\ asks'[a0] = 1
      /\ \A a \in Ask : a # a0 => asks'[a] = Aged(taken)[a]
  BY <1>1, <1>2, <1>5
<1>7. a0 \in AsksInFlight'
  BY <1>2, <1>6 DEF AsksInFlight
<1>8. ASSUME NEW a \in AsksInFlight', a.phase = "answered"
      PROVE  /\ a.newest => a.claims = claims
             /\ a.claims \in seen \cup {NoSession}
  <2>1. a \in Ask /\ asks'[a] > 0
    BY DEF AsksInFlight
  <2>2. CASE a = a0
    BY <2>2, <1>1, <1>2
  <2>3. CASE a # a0
    <3>. DEFINE b == [a EXCEPT !.newest = TRUE]
    <3>1. ~a.newest /\ (taken[a] > 0 \/ taken[b] > 0)
      BY <2>1, <2>3, <1>5, <1>6, <1>8
    <3>2. b \in Ask /\ b.claims = a.claims /\ b.phase = "answered"
      BY <2>1, <1>8, AskFields DEF Ask
    <3>. HIDE DEF b
    <3>3. a \in AsksInFlight \/ b \in AsksInFlight
      BY <2>1, <3>1, <3>2, <1>4 DEF AsksInFlight
    <3>. QED  BY <3>1, <3>2, <3>3, <1>8 DEF SessionIInv, KnownIsSeen
  <2>. QED  BY <2>2, <2>3
<1>9. ASSUME NEW a \in AsksInFlight, a.by = "account"
      PROVE  \E b \in AsksInFlight' : b.by = "account"
  <2>1. a \in Ask /\ asks[a] > 0
    BY DEF AsksInFlight
  <2>2. CASE a = q
    BY <2>2, <1>2, <1>7, <1>9
  <2>3. CASE a # q
    <3>1. PICK b \in Ask : Aged(taken)[b] > 0 /\ b.by = "account"
      BY <2>1, <2>3, <1>3, <1>5, <1>9
    <3>2. asks'[b] > 0
      BY <3>1, <1>6
    <3>. QED  BY <3>1, <3>2 DEF AsksInFlight
  <2>. QED  BY <2>2, <2>3
<1>10. SessionTypeOK'
  <2>1. ASSUME NEW a \in AsksInFlight', a.by = "account"
        PROVE  \E b \in AsksInFlight : b.by = "account"
    <3>1. a \in Ask /\ asks'[a] > 0
      BY DEF AsksInFlight
    <3>2. CASE a = a0
      BY <3>2, <2>1, <1>1, <1>2 DEF AsksInFlight
    <3>3. CASE a # a0
      <4>. DEFINE b == [a EXCEPT !.newest = TRUE]
      <4>1. taken[a] > 0 \/ (a.phase = "answered" /\ taken[b] > 0)
        BY <3>1, <3>3, <1>5, <1>6
      <4>2. a.phase = "answered" => b \in Ask /\ b.by = "account"
        BY <3>1, <2>1 DEF Ask
      <4>. HIDE DEF b
      <4>. QED  BY <4>1, <4>2, <3>1, <2>1, <1>4 DEF AsksInFlight
    <3>. QED  BY <3>2, <3>3
  <2>. QED  BY <2>1, <1>1, <1>6 DEF SessionIInv, SessionTypeOK
<1>11. AskingHasReason'
  BY <1>1, <1>7, <1>9 DEF SessionIInv, AskingHasReason
<1>12. AuthFollowsNewestAnswer' /\ LogoutNamesTheSession' /\ AddressIsKnown'
  BY <1>1, <1>2, <1>7 DEF SessionIInv, AuthFollowsNewestAnswer, LogoutNamesTheSession,
     AddressIsKnown
<1>13. KnownIsSeen' /\ NewestIsTold'
  BY <1>1, <1>8 DEF SessionIInv, KnownIsSeen, NewestIsTold
<1>. QED  BY <1>10, <1>11, <1>12, <1>13 DEF SessionIInv

\* An answer sets the service, the menu and the account page.
LEMMA AnswerArrivesKeepsIInv ==
  ASSUME SessionIInv, NEW a \in AsksInFlight, AnswerArrives(a)
  PROVE  SessionIInv'
<1>1. /\ a \in Ask /\ a.phase = "answered" /\ a.claims \in Session
      /\ a.newest \in BOOLEAN /\ a.claims \in seen \cup {NoSession}
      /\ asks \in [Ask -> Nat] /\ asks[a] > 0 /\ asks' = [asks EXCEPT ![a] = @ - 1]
      /\ UNCHANGED <<session, leaving, loads, told, seen>>
  BY AskFields DEF AnswerArrives, AsksInFlight, SessionIInv, SessionTypeOK, KnownIsSeen
<1>2. /\ auth'.isAuthenticated = (a.claims # NoSession) /\ auth'.userClaims = a.claims
      /\ auth'.logoutUrl = IF a.claims \in Addressed THEN a.claims ELSE auth.logoutUrl
      /\ ~auth'.isLoading
      /\ auth' \in [isAuthenticated : BOOLEAN, userClaims : Session,
                    logoutUrl : Addressed \cup {NoSession}, isLoading : BOOLEAN]
  BY <1>1 DEF AnswerArrives, AfterAnswer, LogoutUrl, SessionIInv, SessionTypeOK
<1>3. username' \in {username, a.claims}
  BY DEF AnswerArrives, MenuName
<1>4. /\ account' \in [open : BOOLEAN, loading : BOOLEAN, info : Session]
      /\ account'.loading => account.loading /\ a.by # "account"
      /\ account'.open = account.open
      /\ a.by # "account" => account' = account
  BY <1>1 DEF AnswerArrives, AccountAfter, SessionIInv, SessionTypeOK
<1>5. /\ asks' \in [Ask -> Nat] /\ AsksInFlight' \subseteq AsksInFlight
      /\ \A b \in AsksInFlight : b # a => b \in AsksInFlight'
  <2>1. asks[a] - 1 \in Nat
    BY <1>1
  <2>. QED  BY <1>1, <2>1 DEF AsksInFlight
<1>6. overtaken' \in BOOLEAN
  BY <1>1 DEF AnswerArrives, SessionIInv, SessionTypeOK
<1>7. SessionTypeOK'
  BY <1>1, <1>2, <1>3, <1>4, <1>5, <1>6 DEF SessionIInv, SessionTypeOK
<1>8. AskingHasReason'
  BY <1>2, <1>4, <1>5 DEF SessionIInv, AskingHasReason
<1>9. AuthFollowsNewestAnswer'
  <2>1. CASE a.newest
    BY <2>1, <1>1, <1>2 DEF SessionIInv, NewestIsTold, AuthFollowsNewestAnswer
  <2>2. CASE ~a.newest /\ ~overtaken'
    <3>1. PICK b \in Ask : b.phase = "answered" /\ b.newest /\ asks[b] # 0
      BY <2>2 DEF AnswerArrives
    <3>2. b \in AsksInFlight'
      BY <3>1, <2>2, <1>1, <1>5 DEF AsksInFlight
    <3>. QED  BY <3>1, <3>2 DEF AuthFollowsNewestAnswer
  <2>3. CASE overtaken'
    BY <2>3 DEF AuthFollowsNewestAnswer
  <2>. QED  BY <2>1, <2>2, <2>3, <1>1, <1>6
<1>10. LogoutNamesTheSession' /\ AddressIsKnown'
  <2>1. AddressIsKnown'
    BY <1>1, <1>2 DEF SessionIInv, AddressIsKnown
  <2>2. username' \in seen \cup {NoSession}
    BY <1>1, <1>3 DEF SessionIInv, KnownIsSeen
  <2>. QED  BY <2>1, <2>2, <1>1 DEF SessionIInv, LogoutNamesTheSession
<1>11. KnownIsSeen' /\ NewestIsTold'
  BY <1>1, <1>2, <1>3, <1>5 DEF SessionIInv, KnownIsSeen, NewestIsTold
<1>. QED  BY <1>7, <1>8, <1>9, <1>10, <1>11 DEF SessionIInv
-----------------------------------------------------------------------------
(* Login, logout, and what happens at the BFF *)

\* Login and logout leave the document; logout clears the claims.
LEMMA LeavingKeepsIInv ==
  ASSUME SessionIInv, Login \/ Logout
  PROVE  SessionIInv'
<1>1. /\ UNCHANGED <<session, username, account, asks, loads, told, seen, overtaken>>
      /\ leaving' \in [to : {"login", "logout"}, url : Addressed \cup {NoSession}]
  BY DEF Login, Logout, SessionIInv, SessionTypeOK
<1>2. /\ auth' \in [isAuthenticated : BOOLEAN, userClaims : Session,
                    logoutUrl : Addressed \cup {NoSession}, isLoading : BOOLEAN]
      /\ auth'.isLoading = auth.isLoading
      /\ auth'.logoutUrl = auth.logoutUrl
      /\ auth' = auth \/ (~auth'.isAuthenticated /\ auth'.userClaims = NoSession)
  BY DEF Login, Logout, SessionIInv, SessionTypeOK, Session
<1>3. SessionTypeOK'
  BY <1>1, <1>2 DEF SessionIInv, SessionTypeOK, AsksInFlight
<1>4. AskingHasReason'
  BY <1>1, <1>2 DEF SessionIInv, AskingHasReason, AsksInFlight
<1>5. AuthFollowsNewestAnswer' /\ LogoutNamesTheSession' /\ AddressIsKnown'
  <2>1. AuthFollowsNewestAnswer'
    BY <1>1 DEF AuthFollowsNewestAnswer
  <2>2. CASE Login
    BY <2>1, <2>2, <1>1 DEF Login, SessionIInv, LogoutNamesTheSession, AddressIsKnown
  <2>3. CASE Logout
    <3>1. /\ leaving' = [to |-> "logout", url |-> auth.logoutUrl]
          /\ auth.userClaims \in seen
      BY <2>3 DEF Logout, SessionIInv, KnownIsSeen
    <3>2. AddressIsKnown'
      BY <2>3, <3>1, <1>1, <1>2, NoSessionAssumption
         DEF Logout, SessionIInv, AddressIsKnown
    <3>3. ASSUME NEW s \in Sessions, seen = {s}
          PROVE  /\ auth.logoutUrl = IF s \in Addressed THEN s ELSE NoSession
                 /\ username \in {s, NoSession}
      BY <2>3, <3>1, <3>3 DEF Logout, SessionIInv, SessionTypeOK, KnownIsSeen, AddressIsKnown
    <3>. QED  BY <2>1, <3>1, <3>2, <3>3, <1>1 DEF LogoutNamesTheSession
  <2>. QED  BY <2>1, <2>2, <2>3
<1>6. KnownIsSeen' /\ NewestIsTold'
  BY <1>1, <1>2 DEF SessionIInv, KnownIsSeen, NewestIsTold, AsksInFlight
<1>. QED  BY <1>3, <1>4, <1>5, <1>6 DEF SessionIInv

\* The session ends or changes without the application.
LEMMA SessionChangesKeepsIInv ==
  ASSUME SessionIInv, SessionChanges
  PROVE  SessionIInv'
<1>1. /\ session' \in Session
      /\ seen' = seen \cup ({session'} \ {NoSession})
      /\ UNCHANGED <<auth, username, account, asks, leaving, loads, told, overtaken>>
  BY DEF SessionChanges
<1>2. seen' \subseteq Sessions
  BY <1>1 DEF SessionIInv, SessionTypeOK, Session
<1>3. SessionTypeOK'
  BY <1>1, <1>2 DEF SessionIInv, SessionTypeOK, AsksInFlight
<1>4. /\ AskingHasReason' /\ AuthFollowsNewestAnswer' /\ AddressIsKnown'
      /\ NewestIsTold'
  BY <1>1 DEF SessionIInv, AskingHasReason, AuthFollowsNewestAnswer, AddressIsKnown,
     NewestIsTold, AsksInFlight
<1>5. KnownIsSeen'
  BY <1>1 DEF SessionIInv, KnownIsSeen, AsksInFlight
<1>6. LogoutNamesTheSession'
  <2>. SUFFICES ASSUME NEW s \in Sessions, leaving.to = "logout", seen' = {s}
                PROVE  /\ leaving.url = IF s \in Addressed THEN s ELSE NoSession
                       /\ username \in {s, NoSession}
    BY <1>1 DEF LogoutNamesTheSession
  <2>1. seen = {s}
    BY <1>1 DEF SessionIInv, AddressIsKnown
  <2>. QED  BY <2>1 DEF SessionIInv, LogoutNamesTheSession
<1>. QED  BY <1>3, <1>4, <1>5, <1>6 DEF SessionIInv
-----------------------------------------------------------------------------
(* Theorems *)

\* Every step keeps the invariant.
LEMMA SessionStepOK == SessionIInv /\ [SessionNext]_sessionVars => SessionIInv'
<1>. SUFFICES ASSUME SessionIInv, [SessionNext]_sessionVars  PROVE SessionIInv'
  OBVIOUS
<1>1. CASE Asked
  BY <1>1, BffAnswersKeepsIInv, AnswerArrivesKeepsIInv DEF Asked, By
<1>2. CASE Refresh \/ OpenAccount \/ CloseAccount
  BY <1>2, RefreshKeepsIInv, OpenAccountKeepsIInv, CloseAccountKeepsIInv
<1>3. CASE Login \/ Logout \/ SessionChanges
  BY <1>3, LeavingKeepsIInv, SessionChangesKeepsIInv
<1>4. ASSUME NEW open \in BOOLEAN, Loaded(open)  PROVE SessionIInv'
  BY <1>4, LoadedKeepsIInv
<1>5. CASE UNCHANGED sessionVars
  BY <1>5 DEF sessionVars, SessionIInv, SessionTypeOK, AskingHasReason, AsksInFlight,
     AuthFollowsNewestAnswer, LogoutNamesTheSession, KnownIsSeen, AddressIsKnown, NewestIsTold
<1>. QED  BY <1>1, <1>2, <1>3, <1>4, <1>5 DEF SessionNext, InDocument

\* The parts of the invariant that the reader of the session cares about.
LEMMA SessionIInvImplies ==
  SessionIInv => /\ SessionTypeOK
                 /\ AskingHasReason
                 /\ AuthFollowsNewestAnswer
                 /\ LogoutNamesTheSession
  BY DEF SessionIInv

\* The inductive invariant of the session: it holds of every state, however
\* sessions come and go and in whatever order the answers arrive.
THEOREM SessionInvariant == SessionSpec => []SessionIInv
<1>. QED  BY SessionInitOK, SessionStepOK, PTL DEF SessionSpec

\* Every reachable state of the session and of the menu is well typed: an account
\* page that is gone keeps no state, and no question in flight is its own.
THEOREM SessionIsWellTyped == SessionSpec => []SessionTypeOK
<1>. QED  BY SessionInvariant, SessionIInvImplies, PTL

\* Neither AuthService nor the account page is loading when no answer is on its
\* way, however the questions of the menu and the account page overlap.
THEOREM AskingAlwaysHasReason == SessionSpec => []AskingHasReason
<1>. QED  BY SessionInvariant, SessionIInvImplies, PTL

\* When all answers have come, AuthService says what the BFF said last, unless an
\* older answer overtook it.
THEOREM AuthFollows == SessionSpec => []AuthFollowsNewestAnswer
<1>. QED  BY SessionInvariant, SessionIInvImplies, PTL

\* While the document has known one session only, a logout carries the address of
\* this session, or none when its claims have no address, and the menu shows no
\* other user, through whatever failures and late answers.
THEOREM LogoutNamesOneSession == SessionSpec => []LogoutNamesTheSession
<1>. QED  BY SessionInvariant, SessionIInvImplies, PTL
=============================================================================

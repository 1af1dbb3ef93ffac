----------------------- MODULE CustomerAccountsProofs -----------------------
(***************************************************************************)
(* Customers stay distinct, an acknowledged message has its customer, and  *)
(* the read side follows the rows: for any users, clients, updates,        *)
(* addresses with any normalization, phone numbers and failures.           *)
(***************************************************************************)
EXTENDS CustomerAccounts, TLAPS

\* No two users have the same mailbox.
MailboxesAreDistinct ==
  \A u, v \in Users :
    Registered(u) /\ Registered(v) /\ Mailbox[user[u].email] = Mailbox[user[v].email]
      => u = v

\* A message is sent by a registration.
SentIsRegistered == \A u \in Users : message[u] # "unsent" => Registered(u)

InProgress(c) == creation[c].phase \in {"checked", "answered", "inserted"}

Answered(c) == creation[c].phase \in {"answered", "inserted"}

\* The command for a user's message carries the user's address, and Identity
\* finds that user by it.
CreationsOK ==
  /\ \A u \in Users :
       InProgress(u) => Registered(u) /\ creation[u].email = user[u].email
  /\ \A c \in Ids :
       Answered(c) => creation[c].user \in Users /\ Registered(creation[c].user)
  /\ \A u \in Users : Answered(u) => creation[u].user = u

\* A customer made for a message is its user's; a client's command that is not
\* over has made none.
RowsOK ==
  /\ \A u \in Users : u \in Customers => row[u].user = u
  /\ \A c \in Clients : creation[c].phase # "ended" => c \notin Customers

\* Rows that are inserted and not yet committed fit in with one another and
\* with every committed row.
InsertedFit ==
  \A c \in Ids : creation[c].phase = "inserted" =>
    /\ \A d \in Customers : ~Conflict(row[d], NewRow(c))
    /\ \A d \in Ids : d # c /\ creation[d].phase = "inserted"
                        => ~Conflict(NewRow(c), NewRow(d))

\* An update was loaded from a row, and no row is ever deleted.
LoadedExists ==
  \A r \in Updates : update[r].phase = "loaded" => update[r].customer \in Customers

IInv ==
  /\ TypeOK /\ MailboxesAreDistinct /\ SentIsRegistered /\ CreationsOK /\ RowsOK
  /\ InsertedFit /\ LoadedExists /\ CustomersAreDistinct /\ HandledUserIsCustomer
  /\ ReadSideFollowsRows

-----------------------------------------------------------------------------

\* Nobody is registered and nothing is stored initially.
LEMMA InitIInv == Init => IInv
<1>. SUFFICES ASSUME Init PROVE IInv
  OBVIOUS
<1>1. Customers = {}
  BY DEF Init, Customers
<1>2. TypeOK
  <2>1. NoCreation \in Creation /\ NoUpdate \in Update
    BY DEF NoCreation, Creation, NoUpdate, Update
  <2>. QED  BY <2>1, MaxFailuresAssumption DEF Init, TypeOK
<1>3. CreationsOK
  BY DEF Init, CreationsOK, InProgress, Answered, NoCreation, Ids
<1>4. RowsOK /\ InsertedFit /\ LoadedExists /\ CustomersAreDistinct
  BY <1>1 DEF Init, RowsOK, InsertedFit, LoadedExists, CustomersAreDistinct,
     NoCreation, NoUpdate, Ids
<1>5. MailboxesAreDistinct /\ SentIsRegistered /\ HandledUserIsCustomer
  BY DEF Init, MailboxesAreDistinct, SentIsRegistered, Registered, HandledUserIsCustomer
<1>6. ReadSideFollowsRows
  BY <1>1 DEF Init, ReadSideFollowsRows, Documents
<1>. QED  BY <1>2, <1>3, <1>4, <1>5, <1>6 DEF IInv

\* A registration gives its user a mailbox of its own.
LEMMA RegisterKeepsIInv ==
  ASSUME IInv, NEW u \in Users, RegisterUser(u)
  PROVE  IInv'
<1>. PICK e \in Emails, p \in Phones, isUser \in BOOLEAN :
       /\ \A v \in Users : Registered(v) => Mailbox[user[v].email] # Mailbox[e]
       /\ user' = [user EXCEPT ![u] = [email |-> e, phone |-> p, isUser |-> isUser]]
  BY DEF RegisterUser
<1>. DEFINE account == [email |-> e, phone |-> p, isUser |-> isUser]
<1>0. /\ ~Registered(u)
      /\ message' = [message EXCEPT ![u] = "queued"]
      /\ UNCHANGED <<creation, row, update, docs, jobs, failures>>
  BY DEF RegisterUser
<1>1. TypeOK
  BY DEF IInv
<1>2. account \in Account /\ account # NoRow
  BY NoRowAssumption DEF Account
<1>3. /\ user' \in [Users -> Account \cup {NoRow}]
      /\ user'[u] = account
      /\ \A v \in Users : v # u => user'[v] = user[v]
  BY <1>1, <1>2 DEF TypeOK
<1>4. \A v \in Users : Registered(v)' <=> Registered(v) \/ v = u
  BY <1>2, <1>3 DEF Registered
<1>5. TypeOK'
  BY <1>0, <1>1, <1>3 DEF TypeOK
<1>6. MailboxesAreDistinct'
  BY <1>0, <1>3, <1>4 DEF IInv, MailboxesAreDistinct
<1>7. SentIsRegistered'
  BY <1>0, <1>1, <1>4 DEF IInv, SentIsRegistered, TypeOK
<1>8. CreationsOK'
  BY <1>0, <1>3, <1>4 DEF IInv, CreationsOK, InProgress, Answered
<1>9. RowsOK' /\ LoadedExists' /\ CustomersAreDistinct' /\ ReadSideFollowsRows'
  BY <1>0 DEF IInv, RowsOK, LoadedExists, CustomersAreDistinct, ReadSideFollowsRows,
     Customers, Documents, Conflict, SameContact
<1>10. \A c \in Ids : creation[c].phase = "inserted" => NewRow(c)' = NewRow(c)
  <2>. SUFFICES ASSUME NEW c \in Ids, creation[c].phase = "inserted"
                PROVE  NewRow(c)' = NewRow(c)
    OBVIOUS
  <2>1. creation[c].user \in Users /\ creation[c].user # u
    BY <1>0 DEF IInv, CreationsOK, Answered
  <2>. QED  BY <1>0, <1>3, <2>1 DEF NewRow
<1>11. InsertedFit'
  BY <1>0, <1>10 DEF IInv, InsertedFit, Conflict, SameContact, Customers
<1>12. HandledUserIsCustomer'
  BY <1>0, <1>1, <1>3 DEF IInv, HandledUserIsCustomer, TypeOK, Customers
<1>. QED  BY <1>5, <1>6, <1>7, <1>8, <1>9, <1>11, <1>12 DEF IInv

\* One command moves, and nothing else changes.
LEMMA MoveKeepsIInv ==
  ASSUME IInv, NEW c \in Ids, NEW new \in Creation,
         creation' = [creation EXCEPT ![c] = new],
         UNCHANGED <<user, message, row, update, docs, jobs>>,
         failures' \in 0 .. MaxFailures,
         c \in Users /\ new.phase \in {"checked", "answered", "inserted"}
           => Registered(c) /\ new.email = user[c].email,
         new.phase \in {"answered", "inserted"}
           => /\ new.user \in Users /\ Registered(new.user)
              /\ c \in Users => new.user = c,
         c \in Clients /\ new.phase # "ended" => c \notin Customers,
         new.phase = "inserted" =>
           /\ new.user = creation[c].user
           /\ \A d \in Customers : ~Conflict(row[d], NewRow(c))
           /\ \A d \in Ids : d # c /\ creation[d].phase = "inserted"
                               => ~Conflict(NewRow(d), NewRow(c))
  PROVE  IInv'
<1>1. /\ creation' \in [Ids -> Creation]
      /\ creation'[c] = new
      /\ \A d \in Ids : d # c => creation'[d] = creation[d]
  BY DEF IInv, TypeOK
<1>2. \A d \in Ids : Registered(d)' <=> Registered(d)
  BY DEF Registered
<1>3. Customers' = Customers /\ \A d \in Ids : Documents(d)' = Documents(d)
  BY DEF Customers, Documents
<1>4. TypeOK'
  BY <1>1 DEF IInv, TypeOK
<1>5. /\ MailboxesAreDistinct' /\ SentIsRegistered' /\ LoadedExists'
      /\ CustomersAreDistinct' /\ HandledUserIsCustomer' /\ ReadSideFollowsRows'
  BY <1>3 DEF IInv, MailboxesAreDistinct, SentIsRegistered, Registered, LoadedExists,
     CustomersAreDistinct, Conflict, SameContact, HandledUserIsCustomer, ReadSideFollowsRows
<1>6. CreationsOK'
  BY <1>1 DEF IInv, CreationsOK, InProgress, Answered, Registered, Ids
<1>7. RowsOK'
  BY <1>1, <1>3 DEF IInv, RowsOK, Ids
<1>8. \A d \in Ids : (d # c \/ new.phase = "inserted") => NewRow(d)' = NewRow(d)
  BY <1>1 DEF NewRow
<1>9. InsertedFit'
  <2>. SUFFICES ASSUME NEW d \in Ids, creation'[d].phase = "inserted"
                PROVE  /\ \A x \in Customers : ~Conflict(row[x], NewRow(d))
                       /\ \A x \in Ids : x # d /\ creation'[x].phase = "inserted"
                                           => ~Conflict(NewRow(d), NewRow(x))
    BY <1>1, <1>3, <1>8 DEF InsertedFit, Conflict, SameContact
  <2>1. CASE d = c
    BY <2>1, <1>1 DEF Conflict, SameContact
  <2>2. CASE d # c
    BY <2>2, <1>1 DEF IInv, InsertedFit
  <2>. QED  BY <2>1, <2>2
<1>. QED  BY <1>4, <1>5, <1>6, <1>7, <1>9 DEF IInv

\* A creation begins once it has found no customer with its address.
LEMMA BeginKeepsIInv ==
  ASSUME IInv, NEW c \in Ids, NEW e \in Emails, Begin(c, e),
         c \in Users => Registered(c) /\ e = user[c].email,
         UNCHANGED <<user, message, row, update, docs, jobs, failures>>
  PROVE  IInv'
<1>. DEFINE new == [NoCreation EXCEPT !.phase = "checked", !.email = e]
<1>1. /\ new \in Creation /\ new.phase = "checked" /\ new.email = e
      /\ creation' = [creation EXCEPT ![c] = new]
      /\ creation[c].phase = "idle"
  BY DEF NoCreation, Creation, Begin
<1>2. c \in Clients => c \notin Customers
  BY <1>1 DEF IInv, RowsOK
<1>3. failures' \in 0 .. MaxFailures
  BY DEF IInv, TypeOK
<1>. QED  BY <1>1, <1>2, <1>3, MoveKeepsIInv

\* A creation that fails leaves no row behind.
LEMMA EndWithFailureKeepsIInv ==
  ASSUME IInv, NEW c \in Ids, EndWithFailure(c),
         UNCHANGED <<user, row, update, docs, jobs>>, failures' \in 0 .. MaxFailures
  PROVE  IInv'
<1>. DEFINE new == [NoCreation EXCEPT !.phase = IF c \in Users THEN "idle" ELSE "ended"]
<1>1. /\ new \in Creation
      /\ new.phase = (IF c \in Users THEN "idle" ELSE "ended")
      /\ creation' = [creation EXCEPT ![c] = new]
      /\ UNCHANGED message
  BY DEF NoCreation, Creation, EndWithFailure
<1>2. c \in Clients => new.phase = "ended"
  BY <1>1, DisjointAssumption
<1>. HIDE DEF new
<1>. QED  BY <1>1, <1>2, MoveKeepsIInv

\* Identity answers with a registered user, for a message with the one it is about.
LEMMA AskIdentityKeepsIInv ==
  ASSUME IInv, NEW c \in Ids, AskIdentity(c)
  PROVE  IInv'
<1>. DEFINE found == {u \in Users : Registered(u) /\ Mailbox[user[u].email] = Mailbox[creation[c].email]}
<1>1. /\ creation[c].phase = "checked"
      /\ UNCHANGED <<user, row, update, docs, jobs, failures>>
  BY DEF AskIdentity
<1>2. failures' \in 0 .. MaxFailures
  BY <1>1 DEF IInv, TypeOK
<1>3. CASE EndWithFailure(c)
  BY <1>1, <1>2, <1>3, EndWithFailureKeepsIInv
<1>4. ASSUME NEW u \in found,
             creation' = [creation EXCEPT ![c].phase = "answered", ![c].user = u],
             UNCHANGED message
      PROVE  IInv'
  <2>. DEFINE new == [creation[c] EXCEPT !.phase = "answered", !.user = u]
  <2>1. /\ new \in Creation /\ new.phase = "answered" /\ new.user = u
        /\ new.email = creation[c].email
    BY DEF IInv, TypeOK, Creation
  <2>2. creation' = [creation EXCEPT ![c] = new]
    BY <1>4, <1>1 DEF IInv, TypeOK
  <2>3. c \in Users => Registered(c) /\ new.email = user[c].email /\ u = c
    BY <1>1, <2>1 DEF IInv, CreationsOK, InProgress, MailboxesAreDistinct
  <2>4. c \in Clients => c \notin Customers
    BY <1>1 DEF IInv, RowsOK
  <2>. HIDE DEF new
  <2>. QED  BY <1>1, <1>2, <1>4, <2>1, <2>2, <2>3, <2>4, MoveKeepsIInv
<1>. QED  BY <1>3, <1>4 DEF AskIdentity

\* A row that is inserted conflicts with no row, committed or not; else the creation ends.
LEMMA InsertKeepsIInv ==
  ASSUME IInv, NEW c \in Ids, Insert(c)
  PROVE  IInv'
<1>1. /\ creation[c].phase = "answered"
      /\ \A x \in Uncommitted : ~Conflict(x, NewRow(c))
      /\ UNCHANGED <<user, row, update, docs, jobs, failures>>
  BY DEF Insert
<1>2. failures' \in 0 .. MaxFailures
  BY <1>1 DEF IInv, TypeOK
<1>3. CASE EndWithFailure(c)
  BY <1>1, <1>2, <1>3, EndWithFailureKeepsIInv
<1>4. ASSUME \A d \in Customers : ~Conflict(row[d], NewRow(c)),
             creation' = [creation EXCEPT ![c].phase = "inserted"],
             UNCHANGED message
      PROVE  IInv'
  <2>. DEFINE new == [creation[c] EXCEPT !.phase = "inserted"]
  <2>1. /\ new \in Creation /\ new.phase = "inserted" /\ new.user = creation[c].user
        /\ new.email = creation[c].email
        /\ creation' = [creation EXCEPT ![c] = new]
    BY <1>4 DEF IInv, TypeOK, Creation
  <2>2. c \in Users => Registered(c) /\ new.email = user[c].email /\ new.user = c
    BY <1>1, <2>1 DEF IInv, CreationsOK, InProgress, Answered
  <2>3. new.user \in Users /\ Registered(new.user)
    BY <1>1, <2>1 DEF IInv, CreationsOK, Answered
  <2>4. c \in Clients => c \notin Customers
    BY <1>1 DEF IInv, RowsOK
  <2>5. \A d \in Ids : d # c /\ creation[d].phase = "inserted"
                         => ~Conflict(NewRow(d), NewRow(c))
    BY <1>1 DEF Uncommitted
  <2>. HIDE DEF new
  <2>. QED  BY <1>1, <1>2, <1>4, <2>1, <2>2, <2>3, <2>4, <2>5, MoveKeepsIInv
<1>. QED  BY <1>3, <1>4 DEF Insert

\* A rollback takes the inserted row away.
LEMMA AbortKeepsIInv ==
  ASSUME IInv, NEW c \in Ids, Abort(c)
  PROVE  IInv'
<1>1. failures' \in 0 .. MaxFailures
  BY MaxFailuresAssumption DEF IInv, TypeOK, Abort, Fail
<1>. QED  BY <1>1, EndWithFailureKeepsIInv DEF Abort

\* The request of a client has no registered user behind it.
LEMMA RequestKeepsIInv ==
  ASSUME IInv, NEW c \in Ids, Request(c)
  PROVE  IInv'
<1>1. PICK e \in Emails : Begin(c, e)
  BY DEF Request
<1>2. c \notin Users
  BY DisjointAssumption DEF Request
<1>. QED  BY <1>1, <1>2, BeginKeepsIInv DEF Request

\* A message is passed over, or starts a creation for its registered user.
LEMMA ConsumeKeepsIInv ==
  ASSUME IInv, NEW u \in Users, Consume(u)
  PROVE  IInv'
<1>1. /\ message[u] = "queued"
      /\ UNCHANGED <<user, row, update, docs, jobs, failures>>
  BY DEF Consume
<1>2. ASSUME ~user[u].isUser, message' = [message EXCEPT ![u] = "handled"],
             UNCHANGED creation
      PROVE  IInv'
  <2>1. \A v \in Users : message'[v] = IF v = u THEN "handled" ELSE message[v]
    BY <1>2 DEF IInv, TypeOK
  <2>2. Customers' = Customers /\ \A d \in Ids : Documents(d)' = Documents(d)
    BY <1>1 DEF Customers, Documents
  <2>3. TypeOK'
    BY <1>1, <1>2 DEF IInv, TypeOK
  <2>4. MailboxesAreDistinct' /\ SentIsRegistered' /\ CreationsOK' /\ RowsOK'
    BY <1>1, <1>2, <2>1, <2>2 DEF IInv, MailboxesAreDistinct, SentIsRegistered,
       Registered, CreationsOK, InProgress, Answered, RowsOK
  <2>5. InsertedFit' /\ LoadedExists' /\ CustomersAreDistinct' /\ ReadSideFollowsRows'
    BY <1>1, <1>2, <2>2 DEF IInv, InsertedFit, NewRow, Conflict, SameContact,
       LoadedExists, CustomersAreDistinct, ReadSideFollowsRows
  <2>6. HandledUserIsCustomer'
    BY <1>1, <1>2, <2>1, <2>2 DEF IInv, HandledUserIsCustomer
  <2>. QED  BY <2>3, <2>4, <2>5, <2>6 DEF IInv
<1>3. ASSUME Begin(u, user[u].email), UNCHANGED message
      PROVE  IInv'
  <2>1. Registered(u)
    BY <1>1 DEF IInv, SentIsRegistered
  <2>2. user[u].email \in Emails
    BY <2>1 DEF IInv, TypeOK, Registered, Account
  <2>. QED  BY <1>1, <1>3, <2>1, <2>2, BeginKeepsIInv DEF Ids
<1>. QED  BY <1>2, <1>3 DEF Consume

\* The inserted row, which conflicts with nothing, becomes a customer.
LEMMA CommitKeepsIInv ==
  ASSUME IInv, NEW c \in Ids, Commit(c)
  PROVE  IInv'
<1>. DEFINE new == [NoCreation EXCEPT !.phase = IF c \in Users THEN "idle" ELSE "ended"]
<1>1. /\ creation[c].phase = "inserted"
      /\ row' = [row EXCEPT ![c] = NewRow(c)]
      /\ jobs' = jobs \cup {CreateJob(c, NewRow(c))}
      /\ creation' = [creation EXCEPT ![c] = new]
      /\ \/ message' = [u \in Users |-> IF u = c THEN "handled" ELSE message[u]]
         \/ UNCHANGED message
      /\ UNCHANGED <<user, update, docs>>
      /\ failures' \in 0 .. MaxFailures
  BY MaxFailuresAssumption DEF Commit, Fail, IInv, TypeOK
<1>2. /\ new \in Creation
      /\ new.phase = (IF c \in Users THEN "idle" ELSE "ended")
      /\ c \in Clients => new.phase = "ended"
  BY DisjointAssumption DEF NoCreation, Creation
<1>. HIDE DEF new
<1>3. /\ creation' \in [Ids -> Creation]
      /\ creation'[c] = new
      /\ \A d \in Ids : d # c => creation'[d] = creation[d]
  BY <1>1, <1>2 DEF IInv, TypeOK
<1>4. /\ creation[c].user \in Users /\ Registered(creation[c].user)
      /\ c \in Users => creation[c].user = c
  BY <1>1 DEF IInv, CreationsOK, Answered
<1>5. /\ NewRow(c) \in Row /\ NewRow(c) # NoRow
      /\ NewRow(c).user = creation[c].user
  <2>1. user[creation[c].user] \in Account
    BY <1>4 DEF IInv, TypeOK, Registered
  <2>. QED  BY <1>4, <2>1, NoRowAssumption DEF NewRow, Row, Account
<1>6. /\ row' \in [Ids -> Row \cup {NoRow}]
      /\ row'[c] = NewRow(c)
      /\ \A d \in Ids : d # c => row'[d] = row[d]
  BY <1>1, <1>5 DEF IInv, TypeOK
<1>7. Customers' = Customers \cup {c}
  BY <1>5, <1>6 DEF Customers
<1>8. /\ \A d \in Customers : ~Conflict(row[d], NewRow(c))
      /\ \A d \in Ids : d # c /\ creation[d].phase = "inserted"
                          => ~Conflict(NewRow(c), NewRow(d))
  BY <1>1 DEF IInv, InsertedFit
<1>9. c \notin Customers
  <2>1. CASE c \in Users
    BY <2>1, <1>4, <1>5, <1>8 DEF IInv, RowsOK, Conflict
  <2>2. CASE c \in Clients
    BY <2>2, <1>1 DEF IInv, RowsOK
  <2>. QED  BY <2>1, <2>2 DEF Ids
<1>10. TypeOK'
  <2>1. CreateJob(c, NewRow(c)) \in Job(CreateJob(c, NewRow(c)).id)
    BY <1>5 DEF CreateJob, Job, Row
  <2>2. message' \in [Users -> {"unsent", "queued", "handled"}]
    BY <1>1 DEF IInv, TypeOK
  <2>. QED  BY <1>1, <1>3, <1>6, <2>1, <2>2 DEF IInv, TypeOK
<1>11. MailboxesAreDistinct'
  BY <1>1 DEF IInv, MailboxesAreDistinct, Registered
<1>12. SentIsRegistered'
  BY <1>1, <1>4 DEF IInv, SentIsRegistered, Registered
<1>13. CreationsOK'
  BY <1>1, <1>2, <1>3 DEF IInv, CreationsOK, InProgress, Answered, Registered, Ids
<1>14. RowsOK'
  <2>1. \A u \in Users : u \in Customers' => row'[u].user = u
    BY <1>4, <1>5, <1>6, <1>7 DEF IInv, RowsOK, Ids
  <2>2. \A d \in Clients : creation'[d].phase # "ended" => d \notin Customers'
    BY <1>2, <1>3, <1>7 DEF IInv, RowsOK, Ids
  <2>. QED  BY <2>1, <2>2 DEF RowsOK
<1>15. \A d \in Ids : d # c => NewRow(d)' = NewRow(d)
  BY <1>1, <1>3 DEF NewRow
<1>16. InsertedFit'
  <2>1. ASSUME NEW d \in Ids, creation'[d].phase = "inserted"
        PROVE  /\ \A x \in Customers' : ~Conflict(row'[x], NewRow(d))
               /\ \A x \in Ids : x # d /\ creation'[x].phase = "inserted"
                                   => x # c /\ ~Conflict(NewRow(d), NewRow(x))
    <3>1. d # c /\ creation[d].phase = "inserted"
      BY <2>1, <1>2, <1>3
    <3>2. \A x \in Ids : creation'[x].phase = "inserted"
                           => x # c /\ creation[x].phase = "inserted"
      BY <1>2, <1>3
    <3>3. ASSUME NEW x \in Customers' PROVE ~Conflict(row'[x], NewRow(d))
      <4>1. CASE x = c
        BY <4>1, <3>1, <1>6, <1>8
      <4>2. CASE x # c
        BY <4>2, <3>1, <1>6, <1>7 DEF IInv, InsertedFit, Customers
      <4>. QED  BY <4>1, <4>2
    <3>. QED  BY <3>1, <3>2, <3>3 DEF IInv, InsertedFit
  <2>2. \A d \in Ids : creation'[d].phase = "inserted" => d # c
    BY <1>2, <1>3
  <2>. QED  BY <2>1, <2>2, <1>15 DEF InsertedFit, Conflict, SameContact
<1>17. LoadedExists'
  BY <1>1, <1>7 DEF IInv, LoadedExists
<1>18. CustomersAreDistinct'
  <2>. SUFFICES ASSUME NEW x \in Customers', NEW y \in Customers', x # y
                PROVE  ~Conflict(row'[x], row'[y])
    BY DEF CustomersAreDistinct, Conflict, SameContact
  <2>1. CASE x = c
    BY <2>1, <1>6, <1>7, <1>8 DEF Conflict, SameContact, Customers
  <2>2. CASE y = c
    BY <2>2, <1>6, <1>7, <1>8 DEF Conflict, SameContact, Customers
  <2>3. CASE x # c /\ y # c
    BY <2>3, <1>6, <1>7 DEF IInv, CustomersAreDistinct, Customers
  <2>. QED  BY <2>1, <2>2, <2>3
<1>19. HandledUserIsCustomer'
  <2>. SUFFICES ASSUME NEW u \in Users, message'[u] = "handled", user[u].isUser
                PROVE  \E d \in Customers' : row'[d].user = u
    BY <1>1 DEF HandledUserIsCustomer
  <2>1. CASE u = c
    BY <2>1, <1>4, <1>5, <1>6, <1>7
  <2>2. CASE u # c
    <3>1. message[u] = "handled"
      BY <2>2, <1>1
    <3>2. PICK d \in Customers : row[d].user = u
      BY <3>1 DEF IInv, HandledUserIsCustomer
    <3>. QED  BY <3>2, <1>6, <1>7, <1>9 DEF Customers
  <2>. QED  BY <2>1, <2>2
<1>20. ReadSideFollowsRows'
  <2>1. \A d \in Ids : Documents(d)' = Documents(d)
    BY <1>1 DEF Documents
  <2>2. /\ CreateJob(c, NewRow(c)).type = "create"
        /\ CreateJob(c, NewRow(c)).customer = c
    BY DEF CreateJob
  <2>. QED  BY <1>1, <1>7, <2>1, <2>2 DEF IInv, ReadSideFollowsRows
<1>. QED  BY <1>10, <1>11, <1>12, <1>13, <1>14, <1>16, <1>17, <1>18, <1>19, <1>20 DEF IInv

-----------------------------------------------------------------------------

\* A step of an update, or none, that leaves the rows and the queue alone.
LEMMA UpdateMoveKeepsIInv ==
  ASSUME IInv, update' \in [Updates -> Update],
         \A r \in Updates :
           update'[r].phase = "loaded" => update'[r].customer \in Customers,
         UNCHANGED <<user, message, creation, row, docs, jobs, failures>>
  PROVE  IInv'
<1>1. Customers' = Customers /\ \A c \in Ids : Documents(c)' = Documents(c)
  BY DEF Customers, Documents
<1>2. TypeOK' /\ LoadedExists'
  BY <1>1 DEF IInv, TypeOK, LoadedExists
<1>3. MailboxesAreDistinct' /\ SentIsRegistered' /\ CreationsOK' /\ RowsOK'
  BY <1>1 DEF IInv, MailboxesAreDistinct, SentIsRegistered, Registered, CreationsOK,
     InProgress, Answered, RowsOK
<1>4. InsertedFit' /\ CustomersAreDistinct'
  BY <1>1 DEF IInv, InsertedFit, NewRow, Conflict, SameContact, CustomersAreDistinct
<1>5. HandledUserIsCustomer' /\ ReadSideFollowsRows'
  BY <1>1 DEF IInv, HandledUserIsCustomer, ReadSideFollowsRows
<1>. QED  BY <1>2, <1>3, <1>4, <1>5 DEF IInv

\* An update loads a customer that exists.
LEMMA LoadCustomerKeepsIInv ==
  ASSUME IInv, NEW r \in Updates, LoadCustomer(r)
  PROVE  IInv'
<1>1. PICK c \in Customers :
        update' = [update EXCEPT ![r] = [phase |-> "loaded", customer |-> c, copy |-> row[c]]]
  BY DEF LoadCustomer
<1>. DEFINE new == [phase |-> "loaded", customer |-> c, copy |-> row[c]]
<1>2. c \in Ids /\ row[c] \in Row
  BY DEF IInv, TypeOK, Customers
<1>3. new \in Update /\ new.customer = c
  BY <1>2 DEF Update
<1>. HIDE DEF new
<1>4. /\ update' \in [Updates -> Update] /\ update'[r] = new
      /\ \A q \in Updates : q # r => update'[q] = update[q]
  BY <1>1, <1>3 DEF IInv, TypeOK, new
<1>. QED  BY <1>3, <1>4, UpdateMoveKeepsIInv DEF LoadCustomer, IInv, LoadedExists

\* The contact an update writes is no other row's, committed or not.
LEMMA SaveCustomerKeepsIInv ==
  ASSUME IInv, NEW r \in Updates, NEW e \in Emails, NEW p \in Phones,
         SaveCustomer(r, e, p)
  PROVE  IInv'
<1>. DEFINE c == update[r].customer
            new == Updated(r, e, p)
            over == [phase |-> "ended"]
<1>1. /\ update[r].phase = "loaded"
      /\ \A x \in Uncommitted : ~SameContact(x, new)
      /\ update' = [update EXCEPT ![r] = over]
      /\ UNCHANGED <<user, message, creation, docs, failures>>
  BY DEF SaveCustomer
<1>2. over \in Update /\ over.phase # "loaded"
  BY DEF Update
<1>3. /\ update' \in [Updates -> Update]
      /\ \A q \in Updates : update'[q].phase = "loaded"
                              => q # r /\ update'[q] = update[q]
  BY <1>1, <1>2 DEF IInv, TypeOK
<1>4. c \in Customers /\ c \in Ids /\ row[c] \in Row
  BY <1>1 DEF IInv, LoadedExists, TypeOK, Customers
<1>5. CASE UNCHANGED <<row, jobs>>
  BY <1>1, <1>3, <1>5, UpdateMoveKeepsIInv DEF IInv, LoadedExists
<1>6. ASSUME \A d \in Customers \ {c} : ~SameContact(row[d], new),
             row' = [row EXCEPT ![c] = new],
             jobs' \in {jobs, jobs \cup {UpdateJob(r, e, p)}}
      PROVE  IInv'
  <2>1. new \in Row /\ new # NoRow /\ new.user = row[c].user
    BY <1>4, NoRowAssumption DEF Updated, Row
  <2>. HIDE DEF new
  <2>2. /\ row' \in [Ids -> Row \cup {NoRow}]
        /\ row'[c] = new
        /\ \A d \in Ids : d # c => row'[d] = row[d]
    BY <1>4, <1>6, <2>1 DEF IInv, TypeOK
  <2>3. Customers' = Customers
    BY <1>4, <2>1, <2>2 DEF Customers
  <2>4. TypeOK'
    <3>1. UpdateJob(r, e, p) \in Job(UpdateJob(r, e, p).id)
      BY <1>4 DEF UpdateJob, Job
    <3>2. \A j \in jobs' : j \in Job(j.id)
      BY <1>6, <3>1 DEF IInv, TypeOK
    <3>. QED  BY <1>1, <1>3, <2>2, <3>2 DEF IInv, TypeOK
  <2>5. MailboxesAreDistinct' /\ SentIsRegistered' /\ CreationsOK'
    BY <1>1 DEF IInv, MailboxesAreDistinct, SentIsRegistered, Registered, CreationsOK,
       InProgress, Answered
  <2>6. RowsOK'
    BY <1>1, <2>1, <2>2, <2>3 DEF IInv, RowsOK, Ids
  <2>7. \A d \in Ids : NewRow(d)' = NewRow(d)
    BY <1>1 DEF NewRow
  <2>8. \A d \in Ids : creation[d].phase = "inserted" => ~Conflict(new, NewRow(d))
    <3>. SUFFICES ASSUME NEW d \in Ids, creation[d].phase = "inserted"
                  PROVE  ~Conflict(new, NewRow(d))
      OBVIOUS
    <3>1. ~SameContact(NewRow(d), new)
      BY <1>1 DEF Uncommitted
    <3>2. row[c].user # NewRow(d).user
      BY <1>4 DEF IInv, InsertedFit, Conflict
    <3>. QED  BY <3>1, <3>2, <2>1 DEF Conflict, SameContact
  <2>9. InsertedFit'
    <3>1. \A d \in Ids : creation[d].phase = "inserted" =>
            \A x \in Customers : ~Conflict(row'[x], NewRow(d))
      BY <2>2, <2>8 DEF IInv, InsertedFit, Customers
    <3>. QED  BY <1>1, <2>3, <2>7, <3>1 DEF IInv, InsertedFit, Conflict, SameContact
  <2>10. LoadedExists'
    BY <1>3, <2>3 DEF IInv, LoadedExists
  <2>11. \A d \in Customers \ {c} : ~Conflict(row[d], new)
    <3>. SUFFICES ASSUME NEW d \in Customers, d # c PROVE ~Conflict(row[d], new)
      OBVIOUS
    <3>1. row[d].user # row[c].user
      BY <1>4 DEF IInv, CustomersAreDistinct, Conflict
    <3>. QED  BY <1>6, <2>1, <3>1 DEF Conflict
  <2>12. CustomersAreDistinct'
    BY <2>2, <2>3, <2>11 DEF IInv, CustomersAreDistinct, Conflict, SameContact, Customers
  <2>13. HandledUserIsCustomer'
    <3>. SUFFICES ASSUME NEW u \in Users, message[u] = "handled", user[u].isUser
                  PROVE  \E d \in Customers : row'[d].user = u
      BY <1>1, <2>3 DEF HandledUserIsCustomer
    <3>1. PICK d \in Customers : row[d].user = u
      BY DEF IInv, HandledUserIsCustomer
    <3>. QED  BY <3>1, <2>1, <2>2 DEF Customers
  <2>14. ReadSideFollowsRows'
    <3>1. UpdateJob(r, e, p).type # "create"
      BY DEF UpdateJob
    <3>2. \A d \in Ids : Documents(d)' = Documents(d)
      BY <1>1 DEF Documents
    <3>. QED  BY <1>6, <2>3, <3>1, <3>2 DEF IInv, ReadSideFollowsRows
  <2>. QED  BY <2>4, <2>5, <2>6, <2>9, <2>10, <2>12, <2>13, <2>14 DEF IInv
<1>. QED  BY <1>5, <1>6 DEF SaveCustomer

-----------------------------------------------------------------------------

\* A step of the read side touches documents and queue only.
LEMMA ReadSideStepKeepsIInv ==
  ASSUME IInv, UNCHANGED <<user, message, creation, row, update>>,
         failures' \in 0 .. MaxFailures,
         \A d \in docs' : d \in Document(d.id),
         \A j \in jobs' : j \in Job(j.id),
         \A c \in Ids :
           (Documents(c)' # {} \/ \E j \in jobs' : j.type = "create" /\ j.customer = c)
           <=> (Documents(c) # {} \/ \E j \in jobs : j.type = "create" /\ j.customer = c)
  PROVE  IInv'
<1>1. Customers' = Customers
  BY DEF Customers
<1>2. TypeOK' /\ LoadedExists'
  BY <1>1 DEF IInv, TypeOK, LoadedExists
<1>3. MailboxesAreDistinct' /\ SentIsRegistered' /\ CreationsOK' /\ RowsOK'
  BY <1>1 DEF IInv, MailboxesAreDistinct, SentIsRegistered, Registered, CreationsOK,
     InProgress, Answered, RowsOK
<1>4. InsertedFit' /\ CustomersAreDistinct' /\ HandledUserIsCustomer'
  BY <1>1 DEF IInv, InsertedFit, NewRow, Conflict, SameContact, CustomersAreDistinct,
     HandledUserIsCustomer
<1>5. ReadSideFollowsRows'
  BY <1>1 DEF IInv, ReadSideFollowsRows
<1>. QED  BY <1>2, <1>3, <1>4, <1>5 DEF IInv

\* The document of a customer appears; its command ends, or runs again.
LEMMA CreateCustomerReadKeepsIInv ==
  ASSUME IInv, NEW j \in jobs, CreateCustomerRead(j)
  PROVE  IInv'
<1>. DEFINE c == j.customer
            new == [id |-> <<c, Cardinality(Documents(c)) + 1>>, customer |-> c,
                    email |-> j.email, phone |-> j.phone]
<1>1. /\ docs' = docs \cup {new}
      /\ jobs' \in {jobs, jobs \ {j}}
      /\ failures' \in 0 .. MaxFailures
      /\ UNCHANGED <<user, message, creation, row, update>>
      /\ j.type = "create"
  BY MaxFailuresAssumption DEF CreateCustomerRead, Fail, IInv, TypeOK
<1>2. c \in Ids /\ j.email \in Emails /\ j.phone \in Phones
  BY DEF IInv, TypeOK, Job
<1>3. new \in Document(new.id) /\ new.customer = c
  BY <1>2 DEF Document
<1>. HIDE DEF new
<1>4. /\ \A d \in docs' : d \in Document(d.id)
      /\ \A i \in jobs' : i \in Job(i.id)
  BY <1>1, <1>3 DEF IInv, TypeOK
<1>5. \A d \in Ids : Documents(d)' = IF d = c THEN Documents(d) \cup {new} ELSE Documents(d)
  BY <1>1, <1>3 DEF Documents
<1>6. \A d \in Ids :
        (Documents(d)' # {} \/ \E i \in jobs' : i.type = "create" /\ i.customer = d)
        <=> (Documents(d) # {} \/ \E i \in jobs : i.type = "create" /\ i.customer = d)
  BY <1>1, <1>5
<1>. QED  BY <1>1, <1>4, <1>6, ReadSideStepKeepsIInv

\* The command of an update changes the documents it finds, and adds none.
LEMMA UpdateCustomerReadKeepsIInv ==
  ASSUME IInv, NEW j \in jobs, UpdateCustomerRead(j)
  PROVE  IInv'
<1>. DEFINE found == {d \in Documents(j.customer) : d.id = j.id}
            Changed(d) == [d EXCEPT !.email = j.email, !.phone = j.phone]
<1>1. /\ docs' = (docs \ found) \cup {Changed(d) : d \in found}
      /\ jobs' \in {jobs, jobs \ {j}}
      /\ j.type = "update"
      /\ UNCHANGED <<user, message, creation, row, update, failures>>
  BY DEF UpdateCustomerRead
<1>2. j \in Job(j.id) /\ j.email \in Emails /\ j.phone \in Phones
  BY DEF IInv, TypeOK, Job
<1>3. ASSUME NEW d \in docs
      PROVE  Changed(d) \in Document(Changed(d).id) /\ Changed(d).customer = d.customer
  <2>1. d \in Document(d.id)
    BY DEF IInv, TypeOK
  <2>. QED  BY <2>1, <1>2 DEF Document
<1>4. found \subseteq docs
  BY DEF Documents
<1>. HIDE DEF found, Changed
<1>5. /\ \A d \in docs' : d \in Document(d.id)
      /\ \A i \in jobs' : i \in Job(i.id)
      /\ failures' \in 0 .. MaxFailures
  BY <1>1, <1>3, <1>4 DEF IInv, TypeOK
<1>6. \A c \in Ids : Documents(c)' # {} <=> Documents(c) # {}
  BY <1>1, <1>3, <1>4 DEF Documents
<1>7. \A c \in Ids :
        (\E i \in jobs' : i.type = "create" /\ i.customer = c)
        <=> (\E i \in jobs : i.type = "create" /\ i.customer = c)
  BY <1>1
<1>. QED  BY <1>1, <1>5, <1>6, <1>7, ReadSideStepKeepsIInv

-----------------------------------------------------------------------------

\* Every step keeps the invariant.
LEMMA NextKeepsIInv == IInv /\ [Next]_vars => IInv'
<1>. SUFFICES ASSUME IInv, [Next]_vars PROVE IInv'
  OBVIOUS
<1>1. ASSUME NEW u \in Users, RegisterUser(u) \/ Consume(u) PROVE IInv'
  BY <1>1, RegisterKeepsIInv, ConsumeKeepsIInv
<1>2. ASSUME NEW c \in Ids, Request(c) \/ Proceed(c) \/ Abort(c) PROVE IInv'
  BY <1>2, RequestKeepsIInv, AskIdentityKeepsIInv, InsertKeepsIInv, CommitKeepsIInv,
     AbortKeepsIInv DEF Proceed
<1>3. ASSUME NEW r \in Updates, LoadCustomer(r) PROVE IInv'
  BY <1>3, LoadCustomerKeepsIInv
<1>4. ASSUME NEW r \in Updates, NEW e \in Emails, NEW p \in Phones, SaveCustomer(r, e, p)
      PROVE  IInv'
  BY <1>4, SaveCustomerKeepsIInv
<1>5. CASE RunJob
  BY <1>5, CreateCustomerReadKeepsIInv, UpdateCustomerReadKeepsIInv DEF RunJob, RunUpdateJob
<1>6. CASE UNCHANGED vars
  BY <1>6, UpdateMoveKeepsIInv DEF vars, IInv, TypeOK, LoadedExists
<1>. QED  BY <1>1, <1>2, <1>3, <1>4, <1>5, <1>6 DEF Next

\* IInv holds in every reachable state.
THEOREM AccountsInvariant == Spec => []IInv
<1>. QED  BY InitIInv, NextKeepsIInv, PTL DEF Spec

\* Type correctness of the customers service.
THEOREM AccountsTypeCorrect == Spec => []TypeOK
<1>1. IInv => TypeOK
  BY DEF IInv
<1>. QED  BY <1>1, AccountsInvariant, PTL

\* The check by address lets duplicates through (another spelling, an address
\* that an update changed, two commands at once); the unique indexes do not.
THEOREM CustomersStayDistinct == Spec => []CustomersAreDistinct
<1>1. IInv => CustomersAreDistinct
  BY DEF IInv
<1>. QED  BY <1>1, AccountsInvariant, PTL

\* Acknowledging a UserRegisteredV1 message means that its user is a customer.
THEOREM AcknowledgedUserIsCustomer == Spec => []HandledUserIsCustomer
<1>1. IInv => HandledUserIsCustomer
  BY DEF IInv
<1>. QED  BY <1>1, AccountsInvariant, PTL

\* Customers are in MongoDB or on their way there, and nobody else is.
THEOREM DocumentsFollowCustomers == Spec => []ReadSideFollowsRows
<1>1. IInv => ReadSideFollowsRows
  BY DEF IInv
<1>. QED  BY <1>1, AccountsInvariant, PTL

-----------------------------------------------------------------------------
(* The promise *)

\* Users whose message is acknowledged, as CustomerPromise counts them.
ServedUsers == {u \in Users : message[u] = "handled"}

\* A registration is one of the promise.
LEMMA RegisterKeepsPromise ==
  ASSUME IInv, NEW u \in Users, RegisterUser(u)
  PROVE  Promise!Next
<1>. PICK e \in Emails, p \in Phones, isUser \in BOOLEAN :
       user' = [user EXCEPT ![u] = [email |-> e, phone |-> p, isUser |-> isUser]]
  BY DEF RegisterUser
<1>. DEFINE a == [email |-> e, phone |-> p, isUser |-> isUser]
<1>1. a \in Account
  BY DEF Account
<1>2. user[u] = NoRow /\ user' = [user EXCEPT ![u] = a] /\ row' = row
  BY DEF RegisterUser, Registered
<1>3. ServedUsers' = ServedUsers
  <2>1. message[u] = "unsent"
    BY <1>2 DEF IInv, SentIsRegistered, Registered, TypeOK
  <2>2. \A v \in Users : message'[v] = "handled" <=> message[v] = "handled"
    BY <2>1 DEF RegisterUser, IInv, TypeOK
  <2>. QED  BY <2>2 DEF ServedUsers
<1>. HIDE DEF a
<1>4. Promise!Register(u, a)
  BY <1>2, <1>3 DEF Promise!Register, ServedUsers
<1>. QED  BY <1>1, <1>4 DEF Promise!Next

\* The consumer excuses a user without the role; the creation it starts for
\* another user is not yet seen.
LEMMA ConsumeKeepsPromise ==
  ASSUME IInv, NEW u \in Users, Consume(u)
  PROVE  Promise!Next \/ UNCHANGED Promise!vars
<1>1. CASE UNCHANGED message
  BY <1>1 DEF Consume, Promise!vars
<1>2. CASE ~user[u].isUser /\ message' = [message EXCEPT ![u] = "handled"]
  <2>1. user[u] # NoRow /\ UNCHANGED <<user, row>>
    BY DEF Consume, IInv, SentIsRegistered, Registered
  <2>2. \A v \in Users : message'[v] = IF v = u THEN "handled" ELSE message[v]
    BY <1>2 DEF IInv, TypeOK
  <2>3. ServedUsers' = ServedUsers \cup {u}
    BY <2>2 DEF ServedUsers
  <2>4. Promise!Excuse(u)
    BY <1>2, <2>1, <2>3 DEF Promise!Excuse, ServedUsers
  <2>. QED  BY <2>4 DEF Promise!Next
<1>. QED  BY <1>1, <1>2 DEF Consume

\* The commit of a creation joins a customer that fits: Identity's answer is
\* still true, and no row took the place while the insertion waited.
LEMMA CommitJoins ==
  ASSUME IInv, NEW c \in Ids, Commit(c)
  PROVE  Promise!Next
<1>. PICK x : x = NewRow(c)
  OBVIOUS
<1>1. /\ creation[c].phase = "inserted"
      /\ row' = [row EXCEPT ![c] = x]
      /\ user' = user
      /\ \/ message' = [u \in Users |-> IF u = c THEN "handled" ELSE message[u]]
         \/ UNCHANGED message
  BY DEF Commit
<1>2. /\ creation[c].user \in Users /\ Registered(creation[c].user)
      /\ c \in Users => creation[c].user = c
  BY <1>1 DEF IInv, CreationsOK, Answered
<1>3. /\ x \in Row
      /\ x.user = creation[c].user
      /\ user[x.user] # NoRow
      /\ x.email = user[x.user].email /\ x.phone = user[x.user].phone
  <2>1. user[creation[c].user] \in Account
    BY <1>2 DEF IInv, TypeOK, Registered
  <2>. QED  BY <1>2, <2>1 DEF NewRow, Row, Account, Registered
<1>4. \A d \in Customers : ~Conflict(row[d], x)
  BY <1>1 DEF IInv, InsertedFit
<1>5. row[c] = NoRow
  <2>1. CASE c \in Users
    BY <2>1, <1>2, <1>3, <1>4 DEF IInv, RowsOK, Conflict, Customers
  <2>2. CASE c \in Clients
    BY <2>2, <1>1 DEF IInv, RowsOK, Customers
  <2>. QED  BY <2>1, <2>2 DEF Ids
<1>6. ServedUsers' \in {ServedUsers, ServedUsers \cup {x.user}}
  <2>1. CASE UNCHANGED message
    BY <2>1 DEF ServedUsers
  <2>2. CASE message' = [u \in Users |-> IF u = c THEN "handled" ELSE message[u]]
    <3>1. CASE c \in Users
      BY <2>2, <3>1, <1>2, <1>3 DEF ServedUsers
    <3>2. CASE c \notin Users
      BY <2>2, <3>2 DEF ServedUsers
    <3>. QED  BY <3>1, <3>2
  <2>. QED  BY <1>1, <2>1, <2>2
<1>7. Promise!Fits(c, x) /\ \A d \in Ids : row[d] # NoRow => row[d].user # x.user
  BY <1>4 DEF Promise!Fits, Customers, Conflict, SameContact
<1>8. Promise!Join(c, x)
  <2>1. {u \in Users : message[u] = "handled"}'
          \in {{u \in Users : message[u] = "handled"},
              {u \in Users : message[u] = "handled"} \cup {x.user}}
    BY <1>6 DEF ServedUsers
  <2>. QED  BY Zenon, <1>1, <1>3, <1>5, <1>7, <2>1 DEF Promise!Join
<1>. QED  BY <1>3, <1>8 DEF Promise!Next

\* A saved update changes the contact of a customer, never its user, to one
\* that nobody else has; an update that an index refuses changes nothing.
LEMMA SaveCustomerChanges ==
  ASSUME IInv, NEW r \in Updates, NEW e \in Emails, NEW p \in Phones,
         SaveCustomer(r, e, p)
  PROVE  Promise!Next \/ UNCHANGED Promise!vars
<1>. DEFINE c == update[r].customer
            x == Updated(r, e, p)
<1>1. c \in Customers /\ c \in Ids /\ row[c] \in Row /\ UNCHANGED <<user, message>>
  BY DEF SaveCustomer, IInv, LoadedExists, TypeOK, Customers
<1>2. x \in Row /\ x.user = row[c].user
  BY <1>1 DEF Updated, Row
<1>3. CASE UNCHANGED row
  BY <1>1, <1>3 DEF Promise!vars
<1>4. CASE /\ \A d \in Customers \ {c} : ~SameContact(row[d], x)
           /\ row' = [row EXCEPT ![c] = x]
  <2>. HIDE DEF x
  <2>1. Promise!Fits(c, x)
    BY <1>4 DEF Promise!Fits, Customers, SameContact
  <2>2. Promise!Change(c, x)
    BY <1>1, <1>2, <1>4, <2>1 DEF Promise!Change, Customers
  <2>. QED  BY <1>1, <1>2, <2>2 DEF Promise!Next
<1>. QED  BY <1>3, <1>4 DEF SaveCustomer

\* Every step is one of the promise or is not seen by it.
LEMMA NextKeepsPromise == IInv /\ [Next]_vars => [Promise!Next]_(Promise!vars)
<1>. SUFFICES ASSUME IInv, [Next]_vars PROVE Promise!Next \/ UNCHANGED Promise!vars
  OBVIOUS
<1>1. ASSUME NEW u \in Users, RegisterUser(u) \/ Consume(u)
      PROVE  Promise!Next \/ UNCHANGED Promise!vars
  BY <1>1, RegisterKeepsPromise, ConsumeKeepsPromise
<1>2. ASSUME NEW c \in Ids, Commit(c)
      PROVE  Promise!Next
  BY <1>2, CommitJoins
<1>3. ASSUME NEW c \in Ids, Request(c) \/ AskIdentity(c) \/ Insert(c) \/ Abort(c)
      PROVE  UNCHANGED Promise!vars
  <2>1. UNCHANGED <<user, row, message>>
    BY <1>3 DEF Request, AskIdentity, Insert, Abort, EndWithFailure
  <2>. QED  BY <2>1 DEF Promise!vars
<1>4. ASSUME NEW r \in Updates, LoadCustomer(r)
      PROVE  UNCHANGED Promise!vars
  BY <1>4 DEF LoadCustomer, Promise!vars
<1>5. ASSUME NEW r \in Updates, NEW e \in Emails, NEW p \in Phones, SaveCustomer(r, e, p)
      PROVE  Promise!Next \/ UNCHANGED Promise!vars
  BY <1>5, SaveCustomerChanges
<1>6. CASE RunJob
  <2>1. PICK j \in jobs : CreateCustomerRead(j) \/ UpdateCustomerRead(j)
    BY <1>6 DEF RunJob, RunUpdateJob
  <2>2. UNCHANGED <<user, row, message>>
    BY <2>1 DEF CreateCustomerRead, UpdateCustomerRead
  <2>. QED  BY <2>2 DEF Promise!vars
<1>7. CASE UNCHANGED vars
  BY <1>7 DEF vars, Promise!vars
<1>. QED  BY <1>1, <1>2, <1>3, <1>4, <1>5, <1>6, <1>7 DEF Next, Proceed

\* Identity and Customers, with their messages, redeliveries, overlapping
\* transactions and unprotected updates, implement CustomerPromise.
THEOREM CustomersKeepPromise == Spec => KeepsCustomerPromise
<1>1. Init => Promise!Init
  BY DEF Init, Promise!Init
<1>. QED
  BY <1>1, NextKeepsPromise, AccountsInvariant, PTL DEF Spec, KeepsCustomerPromise, Promise!Spec
=============================================================================

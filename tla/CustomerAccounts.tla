-------------------------- MODULE CustomerAccounts --------------------------
(***************************************************************************)
(* The customers of the Customers service: CreateCustomer, called over     *)
(* HTTP or for a UserRegisteredV1 message of Identity, UpdateCustomer, and *)
(* the commands that keep the MongoDB documents.                           *)
(*                                                                         *)
(* A row has a user, an e-mail address and a phone number; each is unique  *)
(* by an index.  CreateCustomer also looks for the address before it calls *)
(* Identity, at a time when the row it would find may not be there yet.    *)
(***************************************************************************)
EXTENDS Integers, FiniteSets

CONSTANTS
  Users,         \* users that may register at Identity
  Clients,       \* CreateCustomer requests over HTTP
  Updates,       \* UpdateCustomer requests
  Emails,        \* spellings of e-mail addresses
  Mailbox,       \* the normalized address, by which Identity finds users
  Phones,
  MaxFailures,   \* bound on rollbacks, crashes and redeliveries in a behaviour
  NoUser, NoRow

ASSUME MailboxAssumption == Mailbox \in [Emails -> Emails]

ASSUME MaxFailuresAssumption == MaxFailures \in Nat

\* A CreateCustomer command is named by the user whose message causes it, or
\* by the client that sends it; its customer has the same name.
Ids == Users \cup Clients

Account == [email : Emails, phone : Phones, isUser : BOOLEAN]
Row == [user : Users, email : Emails, phone : Phones]

ASSUME DisjointAssumption == Users \cap Clients = {} /\ NoUser \notin Users

ASSUME NoRowAssumption == NoRow \notin Account \cup Row

VARIABLES
  user,       \* Identity's registered users
  message,    \* UserRegisteredV1 of each user
  creation,   \* each CreateCustomer command
  row,        \* committed rows
  update,     \* each UpdateCustomer command
  docs,       \* MongoDB documents
  jobs,       \* internal commands in the durable local queue
  failures

vars == <<user, message, creation, row, update, docs, jobs, failures>>

NoCreation == [phase |-> "idle", email |-> "", user |-> NoUser]
NoUpdate == [phase |-> "idle"]

Fail == failures < MaxFailures /\ failures' = failures + 1

Registered(u) == user[u] # NoRow
Customers == {c \in Ids : row[c] # NoRow}
Documents(c) == {d \in docs : d.customer = c}

Init ==
  /\ user = [u \in Users |-> NoRow]
  /\ message = [u \in Users |-> "unsent"]
  /\ creation = [c \in Ids |-> NoCreation]
  /\ row = [c \in Ids |-> NoRow]
  /\ update = [r \in Updates |-> NoUpdate]
  /\ docs = {}
  /\ jobs = {}
  /\ failures = 0

-----------------------------------------------------------------------------
(* Identity *)

\* RegisterUser: the user, whose address no other user has in any spelling,
\* and its message commit together.  Identity has no rule for phone numbers.
RegisterUser(u) ==
  /\ ~Registered(u)
  /\ \E e \in Emails, p \in Phones, isUser \in BOOLEAN :
       /\ \A v \in Users : Registered(v) => Mailbox[user[v].email] # Mailbox[e]
       /\ user' = [user EXCEPT ![u] = [email |-> e, phone |-> p, isUser |-> isUser]]
  /\ message' = [message EXCEPT ![u] = "queued"]
  /\ UNCHANGED <<creation, row, update, docs, jobs, failures>>

-----------------------------------------------------------------------------
(* CreateCustomer *)

MailboxTaken(e) == \E c \in Customers : Mailbox[row[c].email] = Mailbox[e]

\* Compares the address as it is spelled.
EmailTaken(e) == \E c \in Customers : row[c].email = e

Begin(c, e) ==
  /\ creation[c].phase = "idle"
  /\ ~EmailTaken(e)
  /\ creation' = [creation EXCEPT ![c] = [NoCreation EXCEPT !.phase = "checked", !.email = e]]

\* CreateCustomerEndpoint.  A taken address is refused, which changes nothing.
Request(c) ==
  /\ c \in Clients
  /\ \E e \in Emails : Begin(c, e)
  /\ UNCHANGED <<user, message, row, update, docs, jobs, failures>>

\* UserRegisteredConsumer passes over users without the role User.  When the
\* address is taken the handler throws and the message stays queued.
Consume(u) ==
  /\ message[u] = "queued"
  /\ \/ /\ ~user[u].isUser
        /\ message' = [message EXCEPT ![u] = "handled"]
        /\ UNCHANGED creation
     \/ /\ user[u].isUser
        /\ Begin(u, user[u].email)
        /\ UNCHANGED message
  /\ UNCHANGED <<user, row, update, docs, jobs, failures>>

\* The consumer takes the message for handled although the command failed.
SwallowFailure(c) ==
  /\ creation' = [creation EXCEPT
       ![c] = [NoCreation EXCEPT !.phase = IF c \in Users THEN "idle" ELSE "ended"]]
  /\ message' = [u \in Users |-> IF u = c THEN "handled" ELSE message[u]]

\* The command fails: a client is told so, a message stays queued.
EndWithFailure(c) ==
  /\ creation' = [creation EXCEPT
       ![c] = [NoCreation EXCEPT !.phase = IF c \in Users THEN "idle" ELSE "ended"]]
  /\ UNCHANGED message

\* The REST call to Identity inside the open transaction.  Emails and Phones are
\* those that the call carries unharmed (the address goes into its path as it is)
\* and that Email.Of, PhoneNumber.Of and the validators accept.
AskIdentity(c) ==
  LET found == {u \in Users : Registered(u) /\ Mailbox[user[u].email] = Mailbox[creation[c].email]}
  IN  /\ creation[c].phase = "checked"
      /\ \/ /\ found = {}
            /\ EndWithFailure(c)
         \/ /\ \E u \in found :
                 creation' = [creation EXCEPT ![c].phase = "answered", ![c].user = u]
            /\ UNCHANGED message
      /\ UNCHANGED <<user, row, update, docs, jobs, failures>>

\* The row takes the command's identifier for that of the user.
NewRowOfCaller(c) ==
  LET u == creation[c].user
  IN  [user |-> c, email |-> user[u].email, phone |-> user[u].phone]

\* The row takes the address as the command spells it.
NewRowAsSpelled(c) ==
  LET u == creation[c].user
  IN  [user |-> u, email |-> creation[c].email, phone |-> user[u].phone]

\* Customer.Create takes everything from Identity's answer.
NewRow(c) ==
  LET u == creation[c].user
  IN  [user |-> u, email |-> user[u].email, phone |-> user[u].phone]

SameContact(x, y) == x.email = y.email \/ x.phone = y.phone

\* The unique indexes on IdentityId, e-mail and phone number.
Conflict(x, y) == x.user = y.user \/ SameContact(x, y)

\* Rows inserted by transactions that have not ended.  Whoever writes the same
\* key waits for them.
Uncommitted == {NewRow(c) : c \in {c \in Ids : creation[c].phase = "inserted"}}

InsertIgnoringIdentity(c) ==
  LET new == NewRow(c)
  IN  /\ creation[c].phase = "answered"
      /\ \A x \in Uncommitted : ~SameContact(x, new)
      /\ IF \E d \in Customers : SameContact(row[d], new)
         THEN EndWithFailure(c)
         ELSE creation' = [creation EXCEPT ![c].phase = "inserted"] /\ UNCHANGED message
      /\ UNCHANGED <<user, row, update, docs, jobs, failures>>

CreateJob(c, new) ==
  [type |-> "create", customer |-> c, id |-> <<>>, email |-> new.email,
   phone |-> new.phone]

\* The command for the document is sent at once, not with the commit.
InsertAndSend(c) ==
  LET new == NewRow(c)
  IN  /\ creation[c].phase = "answered"
      /\ \A x \in Uncommitted : ~Conflict(x, new)
      /\ IF \E d \in Customers : Conflict(row[d], new)
         THEN EndWithFailure(c) /\ UNCHANGED jobs
         ELSE /\ creation' = [creation EXCEPT ![c].phase = "inserted"]
              /\ jobs' = jobs \cup {CreateJob(c, new)}
              /\ UNCHANGED message
      /\ UNCHANGED <<user, row, update, docs, failures>>

\* SaveChanges inserts the row, or fails on an index.
Insert(c) ==
  LET new == NewRow(c)
  IN  /\ creation[c].phase = "answered"
      /\ \A x \in Uncommitted : ~Conflict(x, new)
      /\ IF \E d \in Customers : Conflict(row[d], new)
         THEN EndWithFailure(c)
         ELSE creation' = [creation EXCEPT ![c].phase = "inserted"] /\ UNCHANGED message
      /\ UNCHANGED <<user, row, update, docs, jobs, failures>>

\* The commit of the row and of the command that CustomerCreatedHandler
\* schedules.  After a crash before the inbox records it, the message comes
\* again.
Commit(c) ==
  /\ creation[c].phase = "inserted"
  /\ row' = [row EXCEPT ![c] = NewRow(c)]
  /\ jobs' = jobs \cup {CreateJob(c, NewRow(c))}
  /\ creation' = [creation EXCEPT
       ![c] = [NoCreation EXCEPT !.phase = IF c \in Users THEN "idle" ELSE "ended"]]
  /\ \/ /\ message' = [u \in Users |-> IF u = c THEN "handled" ELSE message[u]]
        /\ UNCHANGED failures
     \/ c \in Users /\ Fail /\ UNCHANGED message
  /\ UNCHANGED <<user, update, docs>>

\* A fault of the database, of Identity or of the process.
Abort(c) ==
  /\ creation[c].phase \in {"checked", "answered", "inserted"}
  /\ Fail
  /\ EndWithFailure(c)
  /\ UNCHANGED <<user, row, update, docs, jobs>>

-----------------------------------------------------------------------------
(* UpdateCustomer *)

\* FindAsync, outside any transaction.
LoadCustomer(r) ==
  /\ update[r].phase = "idle"
  /\ \E c \in Customers :
       update' = [update EXCEPT ![r] = [phase |-> "loaded", customer |-> c, copy |-> row[c]]]
  /\ UNCHANGED <<user, message, creation, row, docs, jobs, failures>>

\* SaveChanges writes the columns in which the command differs from the copy.
Updated(r, e, p) ==
  LET copy == update[r].copy
  IN  [row[update[r].customer] EXCEPT
        !.email = IF e = copy.email THEN @ ELSE e,
        !.phone = IF p = copy.phone THEN @ ELSE p]

\* Mapperly draws a new Guid for the command; no document has it.
UpdateJob(r, e, p) ==
  [type |-> "update", customer |-> update[r].customer, id |-> <<r>>,
   email |-> e, phone |-> p]

\* UpdateCustomer is no ITxCommand.  Whether its domain event is dispatched
\* without EfTxBehavior is up to BuildingBlocks.  The command's address and
\* number, which nothing reads earlier, are chosen here.
SaveCustomer(r, e, p) ==
  LET c == update[r].customer
      new == Updated(r, e, p)
  IN  /\ update[r].phase = "loaded"
      /\ \A x \in Uncommitted : ~SameContact(x, new)
      /\ \/ /\ \E d \in Customers \ {c} : SameContact(row[d], new)
            /\ UNCHANGED <<row, jobs>>
         \/ /\ \A d \in Customers \ {c} : ~SameContact(row[d], new)
            /\ row' = [row EXCEPT ![c] = new]
            /\ jobs' \in {jobs, jobs \cup {UpdateJob(r, e, p)}}
      /\ update' = [update EXCEPT ![r] = [phase |-> "ended"]]
      /\ UNCHANGED <<user, message, creation, docs, failures>>

-----------------------------------------------------------------------------
(* The read side *)

\* CreateCustomerReadHandler inserts without looking; a crash before the job
\* is acknowledged runs it again.  CreateCustomerReadValidator wants a birth date,
\* which no creation has: if the queue's commands pass RequestValidationBehavior
\* the handler is never reached, and this step is never taken.
CreateCustomerRead(j) ==
  LET c == j.customer
  IN  /\ j.type = "create"
      /\ docs' = docs \cup {[id |-> <<c, Cardinality(Documents(c)) + 1>>,
                             customer |-> c, email |-> j.email, phone |-> j.phone]}
      /\ \/ jobs' = jobs \ {j} /\ UNCHANGED failures
         \/ Fail /\ UNCHANGED jobs
      /\ UNCHANGED <<user, message, creation, row, update>>

\* UpdateCustomerReadHandler replaces the document that has the customer and
\* the id of the command.  Without one it throws, and the command stays queued.
UpdateCustomerRead(j) ==
  LET found == {d \in Documents(j.customer) : d.id = j.id}
  IN  /\ j.type = "update"
      /\ docs' = (docs \ found) \cup {[d EXCEPT !.email = j.email, !.phone = j.phone] : d \in found}
      /\ jobs' = IF found = {} THEN jobs ELSE jobs \ {j}
      /\ UNCHANGED <<user, message, creation, row, update, failures>>

-----------------------------------------------------------------------------

Proceed(c) == AskIdentity(c) \/ Insert(c) \/ Commit(c)
RunUpdateJob == \E j \in jobs : UpdateCustomerRead(j)
RunJob == RunUpdateJob \/ \E j \in jobs : CreateCustomerRead(j)

Next ==
  \/ \E u \in Users : RegisterUser(u) \/ Consume(u)
  \/ \E c \in Ids : Request(c) \/ Proceed(c) \/ Abort(c)
  \/ \E r \in Updates : 
       LoadCustomer(r) \/ \E e \in Emails, p \in Phones : SaveCustomer(r, e, p)
  \/ RunJob

Spec == Init /\ [][Next]_vars

\* Wolverine retries messages and queued commands, and a command that has
\* begun runs to its end.  Nobody has to register, create or update, and a
\* document need never be made, see CreateCustomerRead.
Fairness ==
  /\ \A u \in Users : WF_vars(Consume(u))
  /\ \A c \in Ids : WF_vars(Proceed(c))
  /\ WF_vars(RunUpdateJob)

LiveSpec == Spec /\ Fairness

-----------------------------------------------------------------------------
(* Properties *)

Creation == [phase : {"idle", "checked", "answered", "inserted", "ended"},
             email : Emails \cup {""}, user : Users \cup {NoUser}]

Update == [phase : {"idle", "ended"}]
            \cup [phase : {"loaded"}, customer : Ids, copy : Row]

Document(id) == [id : {id}, customer : Ids, email : Emails, phone : Phones]

Job(id) == [type : {"create", "update"}, customer : Ids, id : {id},
            email : Emails, phone : Phones]

\* Every variable has the shape the handlers give it.
TypeOK ==
  /\ user \in [Users -> Account \cup {NoRow}]
  /\ message \in [Users -> {"unsent", "queued", "handled"}]
  /\ creation \in [Ids -> Creation]
  /\ row \in [Ids -> Row \cup {NoRow}]
  /\ update \in [Updates -> Update]
  /\ \A d \in docs : d \in Document(d.id)
  /\ \A j \in jobs : j \in Job(j.id)
  /\ failures \in 0 .. MaxFailures

\* However creations, redeliveries and updates interleave, and whichever of
\* them the check by address lets through, no two customers belong to one
\* user, and none share an address or a phone number.
CustomersAreDistinct ==
  \A c, d \in Customers : c # d => ~Conflict(row[c], row[d])

\* A message that Customers has acknowledged left a customer behind for its
\* user, if the user has the role User.
HandledUserIsCustomer ==
  \A u \in Users :
    message[u] = "handled" /\ user[u].isUser => \E c \in Customers : row[c].user = u

\* A document or the command that makes it exists for the committed customers
\* and for nobody else.
ReadSideFollowsRows ==
  \A c \in Ids :
    c \in Customers <=>
      Documents(c) # {} \/ \E j \in jobs : j.type = "create" /\ j.customer = c

\* The handlers, their transactions, redeliveries and overlapping updates do
\* what CustomerPromise allows: whatever was read before Identity was asked or
\* an update was saved, a customer starts with its user's contact at Identity,
\* stays a customer of that user, and a served user is one.
Promise == INSTANCE CustomerPromise WITH
  Accounts <- Account, Rows <- Row, Nobody <- NoRow,
  account <- user, customer <- row,
  served <- {u \in Users : message[u] = "handled"}

KeepsCustomerPromise == Promise!Spec

Holds(c, u) == Registered(u) /\ SameContact(row[c], user[u])

\* A registered user becomes a customer, unless some other customer holds the
\* user's address or phone number.  (UpdateCustomer can give a customer any
\* address, and Identity lets users share a phone number.)
RegisteredUserIsServed ==
  \A u \in Users :
    message[u] = "queued" /\ user[u].isUser ~>
      \E c \in Customers : row[c].user = u \/ Holds(c, u)

\* "After committing write side, Wolverine dispatches that internal command"
\* and its handler updates MongoDB: if the customer has a document, in the end
\* one says what a queued update says.
QueuedUpdateReachesDocument ==
  \A r \in Updates, c \in Ids, e \in Emails, p \in Phones :
    (/\ Documents(c) # {}
     /\ \E j \in jobs : j.id = <<r>> /\ j.customer = c /\ j.email = e /\ j.phone = p)
      ~> \E d \in Documents(c) : d.email = e /\ d.phone = p
=============================================================================

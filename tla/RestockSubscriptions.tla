------------------------ MODULE RestockSubscriptions ------------------------
(***************************************************************************)
(* The restock subscriptions of one product in the Customers service: the  *)
(* PostgreSQL rows, the MongoDB documents that mirror them, the durable    *)
(* local queue, and the commands CreateRestockSubscription,                *)
(* ProcessRestockNotification (once per ProductStockReplenishedV1 message  *)
(* of Catalogs), SendRestockNotification, DeleteRestockSubscription and    *)
(* DeleteRestockSubscriptionsByTime that run on them concurrently.         *)
(*                                                                         *)
(* A command runs inside EfTxBehavior's READ COMMITTED transaction: what   *)
(* it writes to PostgreSQL and what it schedules on the local queue become *)
(* visible when it commits.  What it writes to MongoDB is visible at once  *)
(* and stays when it rolls back.                                           *)
(***************************************************************************)
EXTENDS Integers, FiniteSets

CONSTANTS
  Subs,          \* identifiers CreateRestockSubscription requests draw
  Emails,        \* e-mail addresses those requests carry
  Messages,      \* ProductStockReplenishedV1 messages for the product
  Deletions,     \* delete requests of an administrator
  MaxFailures,   \* bound on rollbacks, crashes and redeliveries in a behaviour
  NoEmail

ASSUME MaxFailuresAssumption == MaxFailures \in Nat

ASSUME FiniteAssumption == IsFiniteSet(Subs) /\ NoEmail \notin Emails

VARIABLES
  row,        \* committed write side: status of each subscription's row
  email,      \* e-mail of each request
  created,    \* Created of the row; 0 before it is stamped
  occurred,   \* OccurredOn of the command that makes the document, its Created
  creating,   \* where each CreateRestockSubscription is
  restock,    \* ProcessRestockNotification for each message
  deletion,   \* each delete request
  docs,       \* MongoDB documents
  jobs,       \* internal commands in the durable local queue
  mails,      \* number of e-mails sent for each subscription
  failures,   \* failures so far
  overlapped  \* history: subscriptions two handlers picked at the same time

requests == <<email, created, occurred, creating>>
vars == <<row, requests, restock, deletion, docs, jobs, mails, failures, overlapped>>

MaxTime == 2 * Cardinality(Subs) + 1

\* "processed" is a live row with Processed set.  A soft-deleted row is behind
\* the query filter of IHaveSoftDelete: nothing reads its Processed any more.
Statuses == {"none", "waiting", "processed", "deleted"}

NoRestock == [phase |-> "unsent", picked |-> {}, todo |-> {}]
NoDeletion == [phase |-> "idle", targets |-> {}, from |-> 0, to |-> 0, copies |-> {}]

ReadModelJob(s) == [type |-> "createReadModel", sub |-> s, stage |-> "queued"]
MailJob(s, m) == [type |-> "sendMail", sub |-> s, message |-> m, stage |-> "queued"]

Live == {s \in Subs : row[s] \in {"waiting", "processed"}}
Undeleted == Live
Unprocessed == {s \in Subs : row[s] = "waiting"}
Documents(s) == {d \in docs : d.sub = s}

\* Rows written by a transaction that has not ended yet.
LockedRows ==
  UNION {restock[m].picked : m \in {m \in Messages : restock[m].phase = "saved"}}
  \cup UNION {deletion[d].targets :
                d \in {d \in Deletions : deletion[d].phase \in {"saved", "mirrored"}}}

Fail == failures < MaxFailures /\ failures' = failures + 1

\* DateTime.Now: later than every time stamped so far.
Now == 1 + Cardinality({s \in Subs : created[s] # 0})
         + Cardinality({s \in Subs : occurred[s] # 0})

Init ==
  /\ row = [s \in Subs |-> "none"]
  /\ email = [s \in Subs |-> NoEmail]
  /\ created = [s \in Subs |-> 0]
  /\ occurred = [s \in Subs |-> 0]
  /\ creating = [s \in Subs |-> "idle"]
  /\ restock = [m \in Messages |-> NoRestock]
  /\ deletion = [d \in Deletions |-> NoDeletion]
  /\ docs = {}
  /\ jobs = {}
  /\ mails = [s \in Subs |-> 0]
  /\ failures = 0
  /\ overlapped = {}

-----------------------------------------------------------------------------
(* CreateRestockSubscription *)

\* The customer exists and Catalogs answers the REST call: zero units let the
\* request go on, any other answer (no product, units in stock) refuses it.
\* The transaction is open but nothing is written during the call.
AskStock(s, e) ==
  /\ creating[s] = "idle"
  /\ email' = [email EXCEPT ![s] = e]
  /\ \E answer \in {"asked", "refused"} : creating' = [creating EXCEPT ![s] = answer]
  /\ UNCHANGED <<row, created, occurred, restock, deletion, docs, jobs, mails, failures, overlapped>>

AlreadySubscribed(s) == \E t \in Unprocessed : email[t] = email[s]

\* The check for a subscription of the same address, then the insert.  No
\* unique index backs the check.
InsertSubscription(s) ==
  /\ creating[s] = "asked"
  /\ IF AlreadySubscribed(s)
     THEN /\ creating' = [creating EXCEPT ![s] = "refused"]
          /\ UNCHANGED created
     ELSE /\ creating' = [creating EXCEPT ![s] = "inserted"]
          /\ created' = [created EXCEPT ![s] = Now]
  /\ UNCHANGED <<row, email, occurred, restock, deletion, docs, jobs, mails, failures, overlapped>>

\* The internal command is sent to the queue outside the transaction, which
\* may then roll back.
CommitSubscriptionAfterSend(s) ==
  /\ creating[s] = "inserted"
  /\ occurred' = [occurred EXCEPT ![s] = Now]
  /\ jobs' = jobs \cup {ReadModelJob(s)}
  /\ \/ /\ row' = [row EXCEPT ![s] = "waiting"]
        /\ creating' = [creating EXCEPT ![s] = "committed"]
        /\ UNCHANGED failures
     \/ /\ Fail
        /\ creating' = [creating EXCEPT ![s] = "aborted"]
        /\ UNCHANGED row
  /\ UNCHANGED <<email, created, restock, deletion, docs, mails, overlapped>>

CommitSubscriptionSilently(s) ==
  /\ creating[s] = "inserted"
  /\ occurred' = [occurred EXCEPT ![s] = Now]
  /\ row' = [row EXCEPT ![s] = "waiting"]
  /\ creating' = [creating EXCEPT ![s] = "committed"]
  /\ UNCHANGED <<email, created, restock, deletion, docs, jobs, mails, failures, overlapped>>

\* RestockSubscriptionCreatedHandler schedules the command that creates the
\* document, and the transaction commits the row together with that command.
CommitSubscription(s) ==
  /\ creating[s] = "inserted"
  /\ occurred' = [occurred EXCEPT ![s] = Now]
  /\ row' = [row EXCEPT ![s] = "waiting"]
  /\ jobs' = jobs \cup {ReadModelJob(s)}
  /\ creating' = [creating EXCEPT ![s] = "committed"]
  /\ UNCHANGED <<email, created, restock, deletion, docs, mails, failures, overlapped>>

AbortSubscription(s) ==
  /\ creating[s] \in {"asked", "inserted"}
  /\ Fail
  /\ creating' = [creating EXCEPT ![s] = "aborted"]
  /\ UNCHANGED <<row, email, created, occurred, restock, deletion, docs, jobs, mails, overlapped>>

-----------------------------------------------------------------------------
(* ProcessRestockNotification *)

SetRestock(m, phase, picked, todo) ==
  restock' = [restock EXCEPT ![m] = [phase |-> phase, picked |-> picked, todo |-> todo]]

\* Catalogs' outbox delivers ProductStockReplenishedV1.
Deliver(m) ==
  /\ restock[m].phase = "unsent"
  /\ SetRestock(m, "queued", {}, {})
  /\ UNCHANGED <<row, requests, deletion, docs, jobs, mails, failures, overlapped>>

\* The handler loads the unprocessed rows; without one it returns.
Pick(m) ==
  /\ restock[m].phase = "queued"
  /\ IF Unprocessed = {} THEN SetRestock(m, "handled", {}, {})
     ELSE SetRestock(m, "picked", Unprocessed, {})
  /\ UNCHANGED <<row, requests, deletion, docs, jobs, mails, failures, overlapped>>

\* The scheduled e-mails leave for the queue before the transaction commits.
SaveRestockAfterSend(m) ==
  /\ restock[m].phase = "picked"
  /\ restock[m].picked \cap LockedRows = {}
  /\ SetRestock(m, "saved", restock[m].picked, restock[m].picked \cap Live)
  /\ jobs' = jobs \cup {MailJob(s, m) : s \in restock[m].picked}
  /\ UNCHANGED <<row, requests, deletion, docs, mails, failures, overlapped>>

\* SaveChanges writes Processed to every picked row, waiting for their locks.
\* The domain event of a row is then handled in the same transaction, unless
\* the query filter hides the row by now.
SaveRestock(m) ==
  /\ restock[m].phase = "picked"
  /\ restock[m].picked \cap LockedRows = {}
  /\ SetRestock(m, "saved", restock[m].picked, restock[m].picked \cap Live)
  /\ UNCHANGED <<row, requests, deletion, docs, jobs, mails, failures, overlapped>>

\* RestockNotificationProcessedHandler: the document of the row is replaced,
\* IsDeleted falling back to its default false.
MirrorProcessed(m, s) ==
  /\ restock[m].phase = "saved" /\ s \in restock[m].todo
  /\ \E d \in Documents(s) :
       docs' = (docs \ {d}) \cup {[d EXCEPT !.processed = TRUE, !.deleted = FALSE]}
  /\ SetRestock(m, "saved", restock[m].picked, restock[m].todo \ {s})
  /\ UNCHANGED <<row, requests, deletion, jobs, mails, failures, overlapped>>

\* A missing document is ignored.
MirrorMissingIgnored(m, s) ==
  /\ restock[m].phase = "saved" /\ s \in restock[m].todo
  /\ Documents(s) = {}
  /\ SetRestock(m, "saved", restock[m].picked, restock[m].todo \ {s})
  /\ UNCHANGED <<row, requests, deletion, docs, jobs, mails, failures, overlapped>>

\* A missing document rolls back, and the message is dropped.
MirrorMissingGivesUp(m, s) ==
  /\ restock[m].phase = "saved" /\ s \in restock[m].todo
  /\ Documents(s) = {}
  /\ SetRestock(m, "handled", {}, {})
  /\ UNCHANGED <<row, requests, deletion, docs, jobs, mails, failures, overlapped>>

\* A missing document throws RestockSubscriptionNotFoundException: the
\* transaction rolls back and the message is queued again.
MirrorMissing(m, s) ==
  /\ restock[m].phase = "saved" /\ s \in restock[m].todo
  /\ Documents(s) = {}
  /\ SetRestock(m, "queued", {}, {})
  /\ UNCHANGED <<row, requests, deletion, docs, jobs, mails, failures, overlapped>>

\* The commit: rows that a deletion has not hidden are processed now, and one
\* SendRestockNotification is queued for every picked row.
CommitRestock(m) ==
  LET picked == restock[m].picked
  IN  /\ restock[m].phase = "saved" /\ restock[m].todo = {}
      /\ row' = [s \in Subs |-> IF s \in picked \cap Live THEN "processed" ELSE row[s]]
      /\ jobs' = jobs \cup {MailJob(s, m) : s \in picked}
      /\ overlapped' = overlapped \cup
           UNION {picked \cap restock[n].picked : n \in Messages \ {m}}
      /\ SetRestock(m, "handled", {}, {})
      /\ UNCHANGED <<requests, deletion, docs, mails, failures>>

\* A rollback, or a crash after the commit and before the inbox recorded it:
\* the message is handled again.
RedeliverRestock(m) ==
  /\ restock[m].phase \in {"picked", "saved", "handled"}
  /\ Fail
  /\ SetRestock(m, "queued", {}, {})
  /\ UNCHANGED <<row, requests, deletion, docs, jobs, mails, overlapped>>

-----------------------------------------------------------------------------
(* The durable local queue: a job leaves it when its handler has returned, *)
(* and a crash before that runs the handler again                          *)

\* The job stays in the queue when its handler has returned.
InsertDocumentUnacknowledged(s) ==
  /\ ReadModelJob(s) \in jobs
  /\ docs' = docs \cup {[sub |-> s, copy |-> Cardinality(Documents(s)) + 1,
                         processed |-> FALSE, deleted |-> FALSE]}
  /\ UNCHANGED <<row, requests, restock, deletion, jobs, mails, failures, overlapped>>

\* CreateRestockSubscriptionReadModelHandler inserts without looking.
InsertDocument(s) ==
  /\ ReadModelJob(s) \in jobs
  /\ docs' = docs \cup {[sub |-> s, copy |-> Cardinality(Documents(s)) + 1,
                         processed |-> FALSE, deleted |-> FALSE]}
  /\ \/ jobs' = jobs \ {ReadModelJob(s)} /\ UNCHANGED failures
     \/ Fail /\ UNCHANGED jobs
  /\ UNCHANGED <<row, requests, restock, deletion, mails, overlapped>>

\* SendRestockNotificationHandler looks the row up; a hidden one ends the job.
\* E-mail is switched on, as appsettings.json has it: with EmailOptions.Enable
\* off the handler ends every job here.
ReadForMail(s, m) ==
  LET job == MailJob(s, m)
  IN  /\ job \in jobs
      /\ jobs' = (jobs \ {job}) \cup
           {[j EXCEPT !.stage = "read"] : j \in {j \in {job} : s \in Live}}
      /\ UNCHANGED <<row, requests, restock, deletion, docs, mails, failures, overlapped>>

\* The job is acknowledged as soon as it is handed to the handler.
SendMailAtMostOnce(s, m) ==
  LET job == [MailJob(s, m) EXCEPT !.stage = "read"]
  IN  /\ job \in jobs
      /\ jobs' = jobs \ {job}
      /\ \/ mails' = [mails EXCEPT ![s] = @ + 1] /\ UNCHANGED failures
         \/ Fail /\ UNCHANGED mails
      /\ UNCHANGED <<row, requests, restock, deletion, docs, overlapped>>

\* The e-mail leaves; a crash before or after it queues the job again.
SendMail(s, m) ==
  LET job == [MailJob(s, m) EXCEPT !.stage = "read"]
  IN  /\ job \in jobs
      /\ \/ /\ mails' = [mails EXCEPT ![s] = @ + 1]
            /\ jobs' = jobs \ {job}
            /\ UNCHANGED failures
         \/ /\ Fail
            /\ mails' \in {mails, [mails EXCEPT ![s] = @ + 1]}
            /\ jobs' = (jobs \ {job}) \cup {MailJob(s, m)}
      /\ UNCHANGED <<row, requests, restock, deletion, docs, overlapped>>

-----------------------------------------------------------------------------
(* DeleteRestockSubscription and DeleteRestockSubscriptionsByTime *)

InRange(time, from, to) == time # 0 /\ from <= time /\ time <= to

\* Ends a range may have: a time that was stamped, or MaxTime for an open end.
Ends == (1 .. Now - 1) \cup {MaxTime}

\* The handler loads its row, or the rows created in the range (open ends are
\* 1 and MaxTime).  Without one it throws, which changes nothing.
LoadById(d, s) ==
  /\ deletion[d].phase = "idle" /\ s \in Live
  /\ deletion' = [deletion EXCEPT ![d].phase = "byId", ![d].targets = {s}]
  /\ UNCHANGED <<row, requests, restock, docs, jobs, mails, failures, overlapped>>

LoadByTime(d, from, to) ==
  LET targets == {s \in Live : InRange(created[s], from, to)}
  IN  /\ deletion[d].phase = "idle" /\ targets # {}
      /\ deletion' = [deletion EXCEPT ![d].phase = "byTime", ![d].targets = targets,
                                      ![d].from = from, ![d].to = to]
      /\ UNCHANGED <<row, requests, restock, docs, jobs, mails, failures, overlapped>>

\* SaveChanges hides the rows.  By identifier, that is all; by time, the
\* handler goes on to read the documents created in the range.
SaveDeletion(d) ==
  LET inRange == {x \in docs : InRange(occurred[x.sub], deletion[d].from, deletion[d].to)}
  IN  /\ deletion[d].targets \cap LockedRows = {}
      /\ \/ /\ deletion[d].phase = "byId"
            /\ deletion' = [deletion EXCEPT ![d].phase = "mirrored"]
         \/ /\ deletion[d].phase = "byTime"
            /\ deletion' = [deletion EXCEPT ![d].phase = "saved", ![d].copies = inRange,
                                            ![d].from = 0, ![d].to = 0]
      /\ UNCHANGED <<row, requests, restock, docs, jobs, mails, failures, overlapped>>

\* UpdateMongoRestockSubscriptionsReadModelByTimeHandler replaces each document
\* by the copy it read, marked deleted.
MirrorDeleted(d) ==
  LET copies == deletion[d].copies
      stale == {x \in docs : \E c \in copies : c.sub = x.sub /\ c.copy = x.copy}
  IN  /\ deletion[d].phase = "saved"
      /\ docs' = (docs \ stale) \cup {[c EXCEPT !.deleted = TRUE] : c \in copies}
      /\ deletion' = [deletion EXCEPT ![d].phase = "mirrored", ![d].copies = {}]
      /\ UNCHANGED <<row, requests, restock, jobs, mails, failures, overlapped>>

CommitDeletion(d) ==
  /\ deletion[d].phase = "mirrored"
  /\ row' = [s \in Subs |-> IF s \in deletion[d].targets THEN "deleted" ELSE row[s]]
  /\ deletion' = [deletion EXCEPT ![d] = [NoDeletion EXCEPT !.phase = "ended"]]
  /\ UNCHANGED <<requests, restock, docs, jobs, mails, failures, overlapped>>

AbortDeletion(d) ==
  /\ deletion[d].phase \in {"byId", "byTime", "saved", "mirrored"}
  /\ Fail
  /\ deletion' = [deletion EXCEPT ![d] = [NoDeletion EXCEPT !.phase = "ended"]]
  /\ UNCHANGED <<row, requests, restock, docs, jobs, mails, overlapped>>
-----------------------------------------------------------------------------

CreateStep(s) ==
  \/ \E e \in Emails : AskStock(s, e)
  \/ InsertSubscription(s)
  \/ CommitSubscription(s)
  \/ AbortSubscription(s)

RestockStep(m) ==
  \/ Pick(m)
  \/ SaveRestock(m)
  \/ \E s \in Subs : MirrorProcessed(m, s) \/ MirrorMissing(m, s)
  \/ CommitRestock(m)

MailStep(s, m) == ReadForMail(s, m) \/ SendMail(s, m)

DeletionStep(d) == SaveDeletion(d) \/ MirrorDeleted(d) \/ CommitDeletion(d)

Next ==
  \/ \E s \in Subs : CreateStep(s) \/ InsertDocument(s)
  \/ \E m \in Messages : Deliver(m) \/ RestockStep(m) \/ RedeliverRestock(m)
  \/ \E s \in Subs, m \in Messages : MailStep(s, m)
  \/ \E d \in Deletions :
       \/ \E s \in Subs : LoadById(d, s)
       \/ \E from, to \in Ends : LoadByTime(d, from, to)
       \/ DeletionStep(d)
       \/ AbortDeletion(d)

Spec == Init /\ [][Next]_vars

\* Wolverine keeps running the messages and the internal commands it has
\* stored until their handlers return; a delete request that was picked up is
\* run to its end.  Clients and Catalogs need not act.
Fairness ==
  /\ \A s \in Subs : WF_vars(InsertDocument(s))
  /\ \A m \in Messages : WF_vars(RestockStep(m))
  /\ \A s \in Subs, m \in Messages : WF_vars(MailStep(s, m))
  /\ \A d \in Deletions : WF_vars(DeletionStep(d))

FairSpec == Spec /\ Fairness
-----------------------------------------------------------------------------

Document == [sub : Subs, copy : 1 .. 1 + MaxFailures, processed : BOOLEAN, deleted : BOOLEAN]

TypeOK ==
  /\ row \in [Subs -> Statuses]
  /\ email \in [Subs -> Emails \cup {NoEmail}]
  /\ created \in [Subs -> 0 .. MaxTime]
  /\ occurred \in [Subs -> 0 .. MaxTime]
  /\ creating \in [Subs -> {"idle", "asked", "inserted", "committed", "refused", "aborted"}]
  /\ restock \in [Messages ->
       [phase : {"unsent", "queued", "picked", "saved", "handled"},
        picked : SUBSET Subs, todo : SUBSET Subs]]
  /\ \A d \in Deletions :
       /\ deletion[d].phase \in {"idle", "byId", "byTime", "saved", "mirrored", "ended"}
       /\ deletion[d].targets \subseteq Subs
       /\ deletion[d].copies \subseteq Document
  /\ docs \subseteq Document
  /\ jobs \subseteq {ReadModelJob(s) : s \in Subs}
       \cup {[MailJob(s, m) EXCEPT !.stage = t] :
               s \in Subs, m \in Messages, t \in {"queued", "read"}}
  /\ mails \in [Subs -> Nat]
  /\ failures \in 0 .. MaxFailures
  /\ overlapped \subseteq Subs

\* Nobody is written to about a subscription that was not processed: an e-mail
\* scheduled by a ProcessRestockNotification that rolls back never leaves.
MailOnlyAfterProcessing ==
  \A s \in Subs : mails[s] > 0 => row[s] \in {"processed", "deleted"}

\* Processed subscriptions are not forgotten: as long as one is there, its
\* e-mail was sent or the command that sends it is in the durable queue,
\* whatever crashed since ProcessRestockNotification committed.
ProcessedIsNotified ==
  \A s \in Subs : row[s] = "processed" =>
    mails[s] > 0 \/ \E j \in jobs : j.type = "sendMail" /\ j.sub = s

\* The read side holds committed subscriptions only, and every one of them
\* whose command CreateMongoRestockSubscriptionReadModels has been run.
ReadSideFollowsRows ==
  \A s \in Subs :
    (row[s] # "none") <=> (Documents(s) # {} \/ ReadModelJob(s) \in jobs)

\* Without a crash a subscriber gets one e-mail, however many replenishments
\* there are, unless two handlers picked the subscription at the same time.
NotifiedOnce ==
  failures = 0 => \A s \in Subs \ overlapped : mails[s] <= 1

\* What the queries return of a subscription (GetRestockSubscriptions and the
\* two queries by identifier): the documents not marked deleted.
Returned(s) == {d \in Documents(s) : ~d.deleted}

\* The queries report a processed subscription as processed.  They return a
\* document that says so, unless one is marked deleted, which takes a deletion
\* that is writing the read side or has ended (the row may be there for all that:
\* the deletion may roll back).  And they return a document that does not say so
\* only beside another one of the subscription, the copy of a command that a
\* crash ran again: the handlers replace one document, and with two of them the
\* queries may return the one that nobody replaced.
ProcessedIsReported ==
  \A s \in Subs : row[s] = "processed" =>
    /\ Returned(s) = Documents(s) => \E d \in Returned(s) : d.processed
    /\ \A d \in Returned(s) : d.processed \/ Documents(s) # {d}
    /\ Returned(s) # Documents(s) =>
         \E e \in Deletions : deletion[e].phase \in {"mirrored", "ended"}

\* Messages do not go round for ever: a notification that rolls back because
\* the document is missing meets the document in the end.
EveryMessageIsHandled ==
  \A m \in Messages : restock[m].phase = "queued" ~> restock[m].phase = "handled"

\* A subscription that was there when a replenishment arrived is served by it
\* or by another one, or deleted, across rollbacks and redeliveries.
WaitingSubscriberIsServed ==
  \A s \in Subs, m \in Messages :
    row[s] = "waiting" /\ restock[m].phase = "queued" ~> row[s] \in {"processed", "deleted"}

\* The service keeps the promise of RestockPromise: steps and fairness.
Promise == INSTANCE RestockPromise WITH
  status <- row,
  due <- {s \in Subs : row[s] = "processed" \/ \E j \in jobs : j.stage = "read" /\ j.sub = s},
  notified <- {s \in Subs : mails[s] > 0}

KeepsPromise == Promise!Spec
-----------------------------------------------------------------------------
(* Claims of the sources that the code does not keep *)

\* CreateRestockSubscription refuses an address that waits for the product
\* already (ProductAlreadySubscribedException).
OneSubscriptionPerEmail ==
  \A s, t \in Unprocessed : email[s] = email[t] => s = t

\* MongoDB read models are updated "after committing write side".
ReadSideAfterCommit ==
  \A d \in docs : d.processed => row[d.sub] \in {"processed", "deleted"}
=============================================================================

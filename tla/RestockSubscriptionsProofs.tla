--------------------- MODULE RestockSubscriptionsProofs ---------------------
(***************************************************************************)
(* Theorems about RestockSubscriptions: for any finite set of              *)
(* subscriptions, any addresses, messages and deletions, and any bound on  *)
(* failures.                                                               *)
(***************************************************************************)
EXTENDS RestockSubscriptions, FiniteSetTheorems, TLAPS

Phases == {"idle", "byId", "byTime", "saved", "mirrored", "ended"}

Job ==
  {ReadModelJob(s) : s \in Subs}
    \cup {[MailJob(s, m) EXCEPT !.stage = t] :
            s \in Subs, m \in Messages, t \in {"queued", "read"}}

\* TypeOK, with the whole type of a deletion.
TypeInv ==
  /\ row \in [Subs -> Statuses]
  /\ email \in [Subs -> Emails \cup {NoEmail}]
  /\ created \in [Subs -> 0 .. MaxTime]
  /\ occurred \in [Subs -> 0 .. MaxTime]
  /\ creating \in [Subs -> {"idle", "asked", "inserted", "committed", "refused", "aborted"}]
  /\ restock \in [Messages ->
       [phase : {"unsent", "queued", "picked", "saved", "handled"},
        picked : SUBSET Subs, todo : SUBSET Subs]]
  /\ deletion \in [Deletions -> [phase : Phases, targets : SUBSET Subs, from : Int,
                                 to : Int, copies : SUBSET Document]]
  /\ docs \subseteq Document
  /\ jobs \subseteq Job
  /\ mails \in [Subs -> Nat]
  /\ failures \in 0 .. MaxFailures
  /\ overlapped \subseteq Subs

\* The commands that send e-mails for s.
MailJobs(s) == {j \in jobs : j.type = "sendMail" /\ j.sub = s}

\* A request that has not ended its transaction has no row, and no command.
RequestsOK ==
  \A s \in Subs : (row[s] = "none") <=> (creating[s] # "committed")

\* What was loaded from the rows is a row, and deletions hide rows.
LoadedIsRow ==
  /\ \A m \in Messages : \A s \in restock[m].picked : row[s] # "none"
  /\ \A d \in Deletions : \A s \in deletion[d].targets : row[s] # "none"

\* A command that sends an e-mail was committed with the row it is about.
JobsFollowProcessing ==
  \A s \in Subs : MailJobs(s) # {} => row[s] \in {"processed", "deleted"}

\* A document is known by its subscription and the number of its copy.
SameKey(x, y) == x.sub = y.sub /\ x.copy = y.copy

Copies(s) == {d.copy : d \in Documents(s)}

\* The copies of a document are numbered without a gap, and each but the last
\* has cost a failure.
DocumentsNumbered ==
  /\ \A x, y \in docs : SameKey(x, y) => x = y
  /\ \A s \in Subs : \E k \in 0 .. 1 + failures :
       /\ Copies(s) = 1 .. k
       /\ ReadModelJob(s) \in jobs => k <= failures

\* What a deletion has read is there, though it may look different by now.
CopiesOfDocuments ==
  \A d \in Deletions :
    /\ \A x, y \in deletion[d].copies : SameKey(x, y) => x = y
    /\ \A x \in deletion[d].copies : \E y \in docs : SameKey(x, y)

Visible(s) == \E d \in Documents(s) : d.processed \/ d.deleted

\* A processed row has a document that says so, or that a deletion has marked.
ProcessedIsMirrored == \A s \in Subs : row[s] = "processed" => Visible(s)

\* A notification that is about to commit has mirrored every row it will process.
MirroredBeforeCommit ==
  \A m \in Messages : restock[m].phase = "saved" =>
    \A s \in (restock[m].picked \cap Live) \ restock[m].todo : Visible(s)

\* What a handler has picked alone was not notified yet.
PickedIsUnnotified ==
  \A m \in Messages : \A s \in restock[m].picked \ overlapped :
    mails[s] = 0 /\ MailJobs(s) = {}

\* Without a failure, what one handler picked has one command or one e-mail.
OneMailJob ==
  failures = 0 => \A s \in Subs \ overlapped :
    /\ mails[s] > 0 => MailJobs(s) = {}
    /\ \A j, k \in MailJobs(s) : j = k

RowsInv == RequestsOK /\ LoadedIsRow

MailInv ==
  /\ JobsFollowProcessing
  /\ PickedIsUnnotified
  /\ OneMailJob
  /\ MailOnlyAfterProcessing
  /\ ProcessedIsNotified
  /\ NotifiedOnce

ReadSideInv ==
  /\ DocumentsNumbered
  /\ CopiesOfDocuments
  /\ MirroredBeforeCommit
  /\ ReadSideFollowsRows
  /\ ProcessedIsMirrored

IInv == TypeInv /\ RowsInv /\ MailInv /\ ReadSideInv

-----------------------------------------------------------------------------
(* Times, jobs and the initial state *)

\* There are enough times for both stamps of every subscription.
LEMMA NowInRange == Now \in 1 .. MaxTime /\ MaxTime \in Nat
<1>. DEFINE Made == {s \in Subs : created[s] # 0}
            Sent == {s \in Subs : occurred[s] # 0}
<1>1. Cardinality(Subs) \in Nat
  BY FiniteAssumption, FS_CardinalityType
<1>2. /\ Cardinality(Made) \in Nat /\ Cardinality(Made) <= Cardinality(Subs)
      /\ Cardinality(Sent) \in Nat /\ Cardinality(Sent) <= Cardinality(Subs)
  <2>1. Made \in SUBSET Subs /\ Sent \in SUBSET Subs
    OBVIOUS
  <2>2. /\ IsFiniteSet(Made) /\ Cardinality(Made) <= Cardinality(Subs)
        /\ IsFiniteSet(Sent) /\ Cardinality(Sent) <= Cardinality(Subs)
    BY <2>1, FiniteAssumption, FS_Subset
  <2>. QED  BY <2>2, FS_CardinalityType
<1>. QED  BY <1>1, <1>2 DEF Now, MaxTime

\* The commands for documents and those for e-mails differ.
LEMMA JobShapes ==
  ASSUME NEW s \in Subs, NEW m \in Messages
  PROVE  /\ ReadModelJob(s).type = "createReadModel" /\ ReadModelJob(s).sub = s
         /\ MailJob(s, m).type = "sendMail" /\ MailJob(s, m).sub = s
         /\ [MailJob(s, m) EXCEPT !.stage = "read"].type = "sendMail"
         /\ [MailJob(s, m) EXCEPT !.stage = "read"].sub = s
         /\ MailJob(s, m) = [MailJob(s, m) EXCEPT !.stage = "queued"]
  BY DEF ReadModelJob, MailJob

\* Different subscriptions have different commands for their documents.
LEMMA ReadModelJobsDiffer ==
  ASSUME NEW s, NEW t, ReadModelJob(s) = ReadModelJob(t)
  PROVE  s = t
<1>1. ReadModelJob(s).sub = s /\ ReadModelJob(t).sub = t
  BY DEF ReadModelJob
<1>. QED  BY <1>1

\* The types of the module follow.
LEMMA TypesOK == TypeInv => TypeOK
  BY DEF TypeInv, TypeOK, Job, Phases

\* The invariant holds initially: there are no rows, documents or commands.
LEMMA InitIInv == Init => IInv
<1>. SUFFICES ASSUME Init PROVE IInv
  OBVIOUS
<1>. USE DEF Init
<1>1. TypeInv
  BY NowInRange, MaxFailuresAssumption
  DEF TypeInv, Statuses, NoRestock, NoDeletion, Phases
<1>2. RowsInv
  BY DEF RowsInv, RequestsOK, LoadedIsRow, NoRestock, NoDeletion
<1>3. \A s \in Subs : MailJobs(s) = {} /\ Documents(s) = {}
  BY DEF MailJobs, Documents
<1>4. MailInv
  BY <1>3 DEF MailInv, JobsFollowProcessing, PickedIsUnnotified, OneMailJob,
     MailOnlyAfterProcessing, ProcessedIsNotified, NotifiedOnce, NoRestock
<1>5. ReadSideInv
  <2>1. DocumentsNumbered
    <3>1. \A s \in Subs : Copies(s) = 1 .. 0
      BY <1>3 DEF Copies
    <3>. QED  BY <3>1 DEF DocumentsNumbered
  <2>. QED  BY <1>3, <2>1 DEF ReadSideInv, CopiesOfDocuments, MirroredBeforeCommit,
              ReadSideFollowsRows, ProcessedIsMirrored, NoRestock, NoDeletion
<1>. QED  BY <1>1, <1>2, <1>4, <1>5 DEF IInv
-----------------------------------------------------------------------------
(* What steps leave as it is *)

\* The commands and the e-mails that a step leaves alone: rows may be created or
\* hidden, and handlers pick waiting rows.
LEMMA MailFrame ==
  ASSUME IInv, UNCHANGED <<mails, overlapped>>,
         failures' \in {failures, failures + 1},
         \A s \in Subs : MailJobs(s)' = MailJobs(s),
         \A s \in Subs :
           /\ row[s] \in {"processed", "deleted"} => row'[s] \in {"processed", "deleted"}
           /\ row'[s] = "processed" => row[s] = "processed",
         \A m \in Messages : restock'[m].picked \subseteq restock[m].picked \cup Unprocessed
  PROVE  MailInv'
<1>1. /\ failures \in Nat
      /\ failures' = 0 => failures = 0
      /\ \A s \in Subs : mails[s] \in Nat
      /\ \A m \in Messages : restock[m].picked \subseteq Subs
  BY MaxFailuresAssumption DEF IInv, TypeInv
<1>2. \A s \in Unprocessed : mails[s] = 0 /\ MailJobs(s) = {}
  BY <1>1 DEF IInv, MailInv, JobsFollowProcessing, MailOnlyAfterProcessing, Unprocessed
<1>3. PickedIsUnnotified'
  <2>1. ASSUME NEW m \in Messages, NEW s \in restock'[m].picked \ overlapped
        PROVE  mails[s] = 0 /\ MailJobs(s) = {}
    <3>1. CASE s \in restock[m].picked
      BY <3>1 DEF IInv, MailInv, PickedIsUnnotified
    <3>2. CASE s \in Unprocessed
      BY <3>2, <1>2
    <3>. QED  BY <3>1, <3>2
  <2>2. \A m \in Messages : \A s \in restock'[m].picked : s \in Subs
    BY <1>1 DEF Unprocessed
  <2>. QED  BY <2>1, <2>2 DEF PickedIsUnnotified
<1>4. OneMailJob' /\ NotifiedOnce' /\ JobsFollowProcessing'
  BY <1>1 DEF IInv, MailInv, OneMailJob, NotifiedOnce, JobsFollowProcessing
<1>5. MailOnlyAfterProcessing'
  BY DEF IInv, MailInv, MailOnlyAfterProcessing
<1>6. ProcessedIsNotified'
  <2>1. ASSUME NEW s \in Subs, row'[s] = "processed", ~(mails[s] > 0)
        PROVE  \E j \in jobs' : j.type = "sendMail" /\ j.sub = s
    <3>1. MailJobs(s) # {}
      BY <2>1 DEF IInv, MailInv, ProcessedIsNotified, MailJobs
    <3>2. MailJobs(s)' # {}
      BY <3>1
    <3>. QED  BY <3>2 DEF MailJobs
  <2>. QED  BY <2>1 DEF ProcessedIsNotified
<1>. QED  BY <1>3, <1>4, <1>5, <1>6 DEF MailInv

\* What is bounded by the failures so far is bounded by those of the next state.
LEMMA OneMoreFailure ==
  ASSUME NEW n \in Nat, NEW next, next = n \/ next = n + 1, NEW k \in 0 .. 1 + n
  PROVE  k \in 0 .. 1 + next /\ (k <= n => k <= next)
  OBVIOUS

\* Documents stay or are replaced by ones with the same key that are no less visible.
DocumentsKept ==
  /\ \A x, y \in docs' : SameKey(x, y) => x = y
  /\ \A y \in docs' : \E x \in docs : SameKey(x, y)
  /\ \A x \in docs : \E y \in docs' :
       SameKey(x, y) /\ (x.processed \/ x.deleted => y.processed \/ y.deleted)

\* So they do when they do not change.
LEMMA SameDocuments == IInv /\ docs' = docs => DocumentsKept
  BY DEF IInv, ReadSideInv, DocumentsNumbered, DocumentsKept, SameKey

\* The read side that a step leaves alone: it keeps documents and their commands,
\* processes no row but those with a visible document, deletions read documents,
\* and notifications mirror what they have picked.
LEMMA ReadSideFrame ==
  ASSUME IInv, DocumentsKept,
         \A s \in Subs : ReadModelJob(s) \in jobs' <=> ReadModelJob(s) \in jobs,
         failures' \in {failures, failures + 1},
         \A s \in Subs :
           /\ row'[s] = "none" <=> row[s] = "none"
           /\ s \in Live' => s \in Live
           /\ row'[s] = "processed" => row[s] = "processed" \/ Visible(s),
         \A d \in Deletions : \/ deletion'[d].copies = deletion[d].copies
                              \/ deletion'[d].copies = {}
                              \/ docs' = docs /\ deletion'[d].copies \subseteq docs,
         \A m \in Messages : restock'[m].phase = "saved" =>
           \A s \in (restock'[m].picked \cap Live') \ restock'[m].todo :
             \/ Visible(s)'
             \/ restock[m].phase = "saved" /\ s \in restock[m].picked \ restock[m].todo
  PROVE  ReadSideInv'
<1>1. failures \in Nat
  BY MaxFailuresAssumption DEF IInv, TypeInv
<1>2. ASSUME NEW s \in Subs
      PROVE  /\ Copies(s)' = Copies(s)
             /\ Documents(s)' = {} <=> Documents(s) = {}
             /\ Visible(s) => Visible(s)'
  BY DEF DocumentsKept, Documents, Copies, Visible, SameKey
<1>3. DocumentsNumbered'
  <2>1. \A x, y \in docs' : SameKey(x, y) => x = y
    BY DEF DocumentsKept
  <2>2. ASSUME NEW s \in Subs
        PROVE  \E k \in 0 .. 1 + failures' :
                 Copies(s)' = 1 .. k /\ (ReadModelJob(s) \in jobs' => k <= failures')
    <3>1. PICK k \in 0 .. 1 + failures :
            Copies(s) = 1 .. k /\ (ReadModelJob(s) \in jobs => k <= failures)
      BY DEF IInv, ReadSideInv, DocumentsNumbered
    <3>2. k \in 0 .. 1 + failures' /\ (k <= failures => k <= failures')
      BY <1>1, OneMoreFailure
    <3>. QED  BY <1>2, <3>1, <3>2
  <2>. QED  BY <2>1, <2>2 DEF DocumentsNumbered, SameKey, ReadModelJob
<1>4. CopiesOfDocuments'
  <2>1. ASSUME NEW d \in Deletions
        PROVE  /\ \A x, y \in deletion'[d].copies : SameKey(x, y) => x = y
               /\ \A x \in deletion'[d].copies : \E y \in docs' : SameKey(x, y)
    <3>1. CASE deletion'[d].copies = deletion[d].copies
      BY <3>1 DEF IInv, ReadSideInv, CopiesOfDocuments, DocumentsKept, SameKey
    <3>2. CASE deletion'[d].copies = {}
      BY <3>2
    <3>3. CASE docs' = docs /\ deletion'[d].copies \subseteq docs
      BY <3>3 DEF DocumentsKept, SameKey
    <3>. QED  BY <3>1, <3>2, <3>3
  <2>. QED  BY <2>1 DEF CopiesOfDocuments, SameKey
<1>5. MirroredBeforeCommit'
  <2>1. ASSUME NEW m \in Messages, restock'[m].phase = "saved",
               NEW s \in (restock'[m].picked \cap Live') \ restock'[m].todo
        PROVE  Visible(s)'
    <3>1. s \in Subs /\ s \in Live
      BY DEF Live
    <3>2. Visible(s)' \/ Visible(s)
      BY <2>1, <3>1 DEF IInv, ReadSideInv, MirroredBeforeCommit
    <3>. QED  BY <1>2, <3>1, <3>2
  <2>. QED  BY <2>1 DEF MirroredBeforeCommit
<1>6. ReadSideFollowsRows'
  BY <1>2 DEF IInv, ReadSideInv, ReadSideFollowsRows
<1>7. ProcessedIsMirrored'
  BY <1>2 DEF IInv, ReadSideInv, ProcessedIsMirrored, Visible
<1>. QED  BY <1>3, <1>4, <1>5, <1>6, <1>7 DEF ReadSideInv
-----------------------------------------------------------------------------
(* CreateRestockSubscription *)

\* Before its commit a request touches no row, document, command or e-mail.
LEMMA RequestKeepsIInv ==
  ASSUME IInv, NEW s \in Subs,
         \/ \E e \in Emails : AskStock(s, e)
         \/ InsertSubscription(s)
         \/ AbortSubscription(s)
  PROVE  IInv'
<1>1. /\ UNCHANGED <<row, occurred, restock, deletion, docs, jobs, mails, overlapped>>
      /\ creating[s] \in {"idle", "asked", "inserted"}
      /\ \E where \in {"asked", "inserted", "refused", "aborted"} :
           creating' = [creating EXCEPT ![s] = where]
      /\ email' = email \/ \E e \in Emails : email' = [email EXCEPT ![s] = e]
      /\ created' = created \/ created' = [created EXCEPT ![s] = Now]
      /\ failures' = failures \/ (failures < MaxFailures /\ failures' = failures + 1)
  BY DEF AskStock, InsertSubscription, AbortSubscription, Fail
<1>2. TypeInv'
  <2>1. created' \in [Subs -> 0 .. MaxTime]
    BY <1>1, NowInRange DEF IInv, TypeInv
  <2>2. failures' \in 0 .. MaxFailures
    BY <1>1, MaxFailuresAssumption DEF IInv, TypeInv
  <2>3. email' \in [Subs -> Emails \cup {NoEmail}]
    BY <1>1 DEF IInv, TypeInv
  <2>4. creating' \in [Subs -> {"idle", "asked", "inserted", "committed", "refused", "aborted"}]
    BY <1>1 DEF IInv, TypeInv
  <2>. QED  BY <1>1, <2>1, <2>2, <2>3, <2>4 DEF IInv, TypeInv
<1>3. RowsInv'
  BY <1>1 DEF IInv, RowsInv, RequestsOK, LoadedIsRow, TypeInv
<1>4. MailInv'
  BY <1>1, MailFrame DEF MailJobs
<1>5. ReadSideInv'
  BY <1>1, SameDocuments, ReadSideFrame DEF Live, ReadModelJob, IInv, ReadSideInv,
     MirroredBeforeCommit, Visible, Documents
<1>. QED  BY <1>2, <1>3, <1>4, <1>5 DEF IInv

\* The row and the command for its document appear together; there was neither.
LEMMA CommitSubscriptionKeepsIInv ==
  ASSUME IInv, NEW s \in Subs, CommitSubscription(s)
  PROVE  IInv'
<1>. USE DEF CommitSubscription
<1>1. /\ row[s] = "none" /\ Documents(s) = {} /\ ReadModelJob(s) \notin jobs
      /\ MailJobs(s) = {}
  BY DEF IInv, RowsInv, RequestsOK, ReadSideInv, ReadSideFollowsRows, MailInv,
     JobsFollowProcessing
<1>2. TypeInv'
  <2>1. occurred' \in [Subs -> 0 .. MaxTime]
    BY NowInRange DEF IInv, TypeInv
  <2>2. row' \in [Subs -> Statuses]
    BY DEF IInv, TypeInv, Statuses
  <2>. QED  BY <2>1, <2>2 DEF IInv, TypeInv, Job
<1>3. RowsInv'
  BY <1>1 DEF IInv, RowsInv, RequestsOK, LoadedIsRow, TypeInv
<1>4. \A t \in Subs : row'[t] = IF t = s THEN "waiting" ELSE row[t]
  BY DEF IInv, TypeInv
<1>5. MailInv'
  <2>1. \A t \in Subs : MailJobs(t)' = MailJobs(t)
    BY DEF MailJobs, ReadModelJob
  <2>. QED  BY <1>1, <1>4, <2>1, MailFrame
<1>6. \A t \in Subs : /\ Documents(t)' = Documents(t) /\ Copies(t)' = Copies(t)
                      /\ (Visible(t)' <=> Visible(t))
  BY DEF Documents, Copies, Visible
<1>7. \A t \in Subs : ReadModelJob(t) \in jobs' <=> t = s \/ ReadModelJob(t) \in jobs
  BY ReadModelJobsDiffer
<1>8. DocumentsNumbered'
  <2>1. ASSUME NEW t \in Subs
        PROVE  \E k \in 0 .. 1 + failures :
                 Copies(t) = 1 .. k /\ (ReadModelJob(t) \in jobs' => k <= failures)
    <3>1. CASE t = s
      <4>1. Copies(t) = 1 .. 0 /\ failures \in Nat
        BY <1>1, <3>1, MaxFailuresAssumption DEF Copies, IInv, TypeInv
      <4>. QED  BY <4>1
    <3>2. CASE t # s
      BY <1>7, <3>2 DEF IInv, ReadSideInv, DocumentsNumbered
    <3>. QED  BY <3>1, <3>2
  <2>. QED  BY <1>6, <2>1 DEF DocumentsNumbered, IInv, ReadSideInv, SameKey, ReadModelJob
<1>9. CopiesOfDocuments'
  BY DEF IInv, ReadSideInv, CopiesOfDocuments, SameKey
<1>10. MirroredBeforeCommit'
  <2>1. \A m \in Messages : s \notin restock[m].picked /\ restock[m].picked \subseteq Subs
    BY <1>1 DEF IInv, RowsInv, LoadedIsRow, TypeInv
  <2>2. \A t \in Subs : t # s => (t \in Live' <=> t \in Live)
    BY <1>4 DEF Live
  <2>. QED  BY <1>6, <2>1, <2>2 DEF IInv, ReadSideInv, MirroredBeforeCommit
<1>11. ReadSideFollowsRows' /\ ProcessedIsMirrored'
  BY <1>4, <1>6, <1>7 DEF IInv, ReadSideInv, ReadSideFollowsRows, ProcessedIsMirrored, Visible
<1>. QED  BY <1>2, <1>3, <1>5, <1>8, <1>9, <1>10, <1>11 DEF IInv, ReadSideInv
-----------------------------------------------------------------------------
(* ProcessRestockNotification *)

\* A delivery, a pick, a save, a rollback and a redelivery touch the message only.
LEMMA MessageKeepsIInv ==
  ASSUME IInv, NEW m \in Messages,
         \/ Deliver(m) \/ Pick(m) \/ SaveRestock(m) \/ RedeliverRestock(m)
         \/ \E s \in Subs : MirrorMissing(m, s)
  PROVE  IInv'
<1>. DEFINE Restock(phase, picked, todo) ==
              [phase |-> phase, picked |-> picked, todo |-> todo]
<1>1. /\ UNCHANGED <<row, requests, deletion, docs, jobs, mails, overlapped>>
      /\ failures' = failures \/ (failures < MaxFailures /\ failures' = failures + 1)
  BY DEF Deliver, Pick, SaveRestock, RedeliverRestock, MirrorMissing, Fail
<1>2. PICK phase \in {"queued", "handled", "picked", "saved"},
           picked \in SUBSET Subs, todo \in SUBSET Subs :
        /\ restock' = [restock EXCEPT ![m] = Restock(phase, picked, todo)]
        /\ picked \subseteq restock[m].picked \cup Unprocessed
        /\ phase = "saved" => picked \cap Live \subseteq todo
  <2>1. restock[m].picked \in SUBSET Subs /\ Unprocessed \in SUBSET Subs
        /\ restock[m].picked \cap Live \in SUBSET Subs
    BY DEF IInv, TypeInv, Unprocessed, Live
  <2>2. CASE Deliver(m) \/ RedeliverRestock(m) \/ \E s \in Subs : MirrorMissing(m, s)
    <3>1. restock' = [restock EXCEPT ![m] = Restock("queued", {}, {})]
      BY <2>2 DEF Deliver, RedeliverRestock, MirrorMissing, SetRestock
    <3>. WITNESS "queued" \in {"queued", "handled", "picked", "saved"},
                 {} \in SUBSET Subs, {} \in SUBSET Subs
    <3>. QED  BY <3>1
  <2>3. CASE Pick(m)
    <3>1. \/ restock' = [restock EXCEPT ![m] = Restock("handled", {}, {})]
          \/ restock' = [restock EXCEPT ![m] = Restock("picked", Unprocessed, {})]
      BY <2>3 DEF Pick, SetRestock
    <3>. QED  BY <2>1, <3>1
  <2>4. CASE SaveRestock(m)
    <3>1. restock' = [restock EXCEPT ![m] =
                        Restock("saved", restock[m].picked, restock[m].picked \cap Live)]
      BY <2>4 DEF SaveRestock, SetRestock
    <3>. QED  BY <2>1, <3>1
  <2>. QED  BY <2>2, <2>3, <2>4
<1>3. /\ restock'[m] = Restock(phase, picked, todo)
      /\ \A n \in Messages : n # m => restock'[n] = restock[n]
  BY <1>2 DEF IInv, TypeInv
<1>4. TypeInv'
  <2>1. restock' \in [Messages ->
          [phase : {"unsent", "queued", "picked", "saved", "handled"},
           picked : SUBSET Subs, todo : SUBSET Subs]]
    BY <1>2 DEF IInv, TypeInv
  <2>2. failures' \in 0 .. MaxFailures
    BY <1>1, MaxFailuresAssumption DEF IInv, TypeInv
  <2>. QED  BY <1>1, <2>1, <2>2 DEF IInv, TypeInv, requests
<1>5. \A n \in Messages : restock'[n].picked \subseteq restock[n].picked \cup Unprocessed
  BY <1>2, <1>3
<1>6. RowsInv'
  <2>1. \A s \in Unprocessed : row[s] # "none"
    BY DEF Unprocessed
  <2>. QED  BY <1>1, <1>5, <2>1 DEF IInv, RowsInv, RequestsOK, LoadedIsRow, requests
<1>7. MailInv'
  BY <1>1, <1>5, MailFrame DEF MailJobs
<1>8. ReadSideInv'
  <2>1. ASSUME NEW n \in Messages, restock'[n].phase = "saved",
               NEW s \in (restock'[n].picked \cap Live') \ restock'[n].todo
        PROVE  \/ Visible(s)'
               \/ restock[n].phase = "saved" /\ s \in restock[n].picked \ restock[n].todo
    <3>1. Live' = Live
      BY <1>1 DEF Live
    <3>. QED  BY <1>2, <1>3, <2>1, <3>1
  <2>. QED  BY <1>1, <2>1, SameDocuments, ReadSideFrame DEF Live
<1>. QED  BY <1>4, <1>6, <1>7, <1>8 DEF IInv

\* The replaced document has its key still, and is visible.
LEMMA MirrorProcessedKeepsIInv ==
  ASSUME IInv, NEW m \in Messages, NEW s \in Subs, MirrorProcessed(m, s)
  PROVE  IInv'
<1>. USE DEF MirrorProcessed
<1>1. PICK d \in Documents(s) :
        docs' = (docs \ {d}) \cup {[d EXCEPT !.processed = TRUE, !.deleted = FALSE]}
  OBVIOUS
<1>. DEFINE e == [d EXCEPT !.processed = TRUE, !.deleted = FALSE]
<1>2. /\ d \in docs /\ d \in Document /\ d.sub = s
      /\ e \in Document /\ SameKey(d, e) /\ e.processed /\ e.sub = s
  <2>1. d \in docs /\ d \in Document /\ d.sub = s
    BY DEF Documents, IInv, TypeInv
  <2>. QED  BY <2>1 DEF Document, SameKey
<1>3. DocumentsKept
  <2>1. \A x, y \in docs : SameKey(x, y) => x = y
    BY DEF IInv, ReadSideInv, DocumentsNumbered
  <2>. HIDE DEF e
  <2>2. \A x, y \in docs' : SameKey(x, y) => x = y
    <3>1. \A x \in docs' : x = e \/ (x \in docs /\ ~SameKey(x, e))
      BY <1>1, <1>2, <2>1 DEF SameKey, e
    <3>. QED  BY <2>1, <3>1 DEF SameKey
  <2>3. \A y \in docs' : \E x \in docs : SameKey(x, y)
    BY <1>1, <1>2 DEF SameKey, e
  <2>4. \A x \in docs : \E y \in docs' :
          SameKey(x, y) /\ (x.processed \/ x.deleted => y.processed \/ y.deleted)
    BY <1>1, <1>2 DEF SameKey, e
  <2>. QED  BY <2>2, <2>3, <2>4 DEF DocumentsKept
<1>4. Visible(s)'
  BY <1>1, <1>2 DEF Visible, Documents
<1>5. /\ \A n \in Messages : restock'[n].picked = restock[n].picked
                             /\ restock'[n].phase = restock[n].phase
      /\ \A n \in Messages : n # m => restock'[n] = restock[n]
      /\ restock'[m].todo = restock[m].todo \ {s}
  BY DEF SetRestock, IInv, TypeInv
<1>6. TypeInv'
  <2>1. docs' \subseteq Document
    BY <1>1, <1>2 DEF IInv, TypeInv
  <2>2. restock' \in [Messages ->
          [phase : {"unsent", "queued", "picked", "saved", "handled"},
           picked : SUBSET Subs, todo : SUBSET Subs]]
    BY DEF SetRestock, IInv, TypeInv
  <2>. QED  BY <2>1, <2>2 DEF IInv, TypeInv, requests
<1>7. RowsInv'
  BY <1>5 DEF IInv, RowsInv, RequestsOK, LoadedIsRow, requests
<1>8. MailInv'
  BY <1>5, MailFrame DEF MailJobs
<1>9. ReadSideInv'
  <2>1. ASSUME NEW n \in Messages, restock'[n].phase = "saved",
               NEW t \in (restock'[n].picked \cap Live') \ restock'[n].todo
        PROVE  \/ Visible(t)'
               \/ restock[n].phase = "saved" /\ t \in restock[n].picked \ restock[n].todo
    BY <1>4, <1>5, <2>1
  <2>. QED  BY <1>3, <2>1, ReadSideFrame DEF Live
<1>. QED  BY <1>6, <1>7, <1>8, <1>9 DEF IInv

\* The rows that are there are processed, and each picked one has its command.
LEMMA CommitRestockKeepsIInv ==
  ASSUME IInv, NEW m \in Messages, CommitRestock(m)
  PROVE  IInv'
<1>. DEFINE picked == restock[m].picked
<1>1. /\ restock[m].phase = "saved" /\ restock[m].todo = {} /\ picked \subseteq Subs
      /\ row' = [s \in Subs |-> IF s \in picked \cap Live THEN "processed" ELSE row[s]]
      /\ jobs' = jobs \cup {MailJob(s, m) : s \in picked}
      /\ overlapped' = overlapped \cup
           UNION {picked \cap restock[n].picked : n \in Messages \ {m}}
      /\ UNCHANGED <<requests, deletion, docs, mails, failures>>
  BY DEF CommitRestock, IInv, TypeInv
<1>2. /\ restock' \in [Messages ->
           [phase : {"unsent", "queued", "picked", "saved", "handled"},
            picked : SUBSET Subs, todo : SUBSET Subs]]
      /\ restock'[m].phase = "handled" /\ restock'[m].picked = {}
      /\ \A n \in Messages : n # m => restock'[n] = restock[n]
  BY DEF CommitRestock, SetRestock, IInv, TypeInv
<1>. HIDE DEF picked
<1>3. /\ \A s \in Subs : row[s] \in Statuses
      /\ \A s \in picked : s \in Subs /\ row[s] # "none"
      /\ \A s \in Subs : s \in Live <=> row[s] \in {"waiting", "processed"}
      /\ \A s \in Subs : row'[s] = IF s \in picked /\ s \in Live THEN "processed" ELSE row[s]
  BY <1>1 DEF IInv, TypeInv, RowsInv, LoadedIsRow, Live, picked
<1>4. \A s \in Subs :
        MailJobs(s)' = MailJobs(s) \cup (IF s \in picked THEN {MailJob(s, m)} ELSE {})
  BY <1>1 DEF MailJobs, MailJob
<1>5. TypeInv'
  <2>1. row' \in [Subs -> Statuses]
    BY <1>1, <1>3 DEF Statuses
  <2>2. jobs' \subseteq Job
    <3>1. \A s \in picked : MailJob(s, m) \in Job
      BY <1>1, JobShapes DEF Job
    <3>. QED  BY <1>1, <3>1 DEF IInv, TypeInv
  <2>3. overlapped' \subseteq Subs
    BY <1>1 DEF IInv, TypeInv
  <2>. QED  BY <1>1, <1>2, <2>1, <2>2, <2>3 DEF IInv, TypeInv, requests
<1>6. RowsInv'
  <2>1. \A s \in Subs : row'[s] = "none" <=> row[s] = "none"
    BY <1>3
  <2>2. \A n \in Messages : restock'[n].picked \subseteq restock[n].picked
    BY <1>2
  <2>3. /\ \A n \in Messages : restock[n].picked \subseteq Subs
        /\ \A d \in Deletions : deletion[d].targets \subseteq Subs
    BY DEF IInv, TypeInv
  <2>. QED  BY <1>1, <2>1, <2>2, <2>3 DEF IInv, RowsInv, RequestsOK, LoadedIsRow, requests
<1>7. MailInv'
  <2>1. \A s \in Subs : s \notin overlapped' =>
          /\ s \notin overlapped
          /\ s \in picked => mails[s] = 0 /\ MailJobs(s) = {}
          /\ s \in picked => \A n \in Messages : s \notin restock'[n].picked
    BY <1>1, <1>2 DEF IInv, MailInv, PickedIsUnnotified, picked
  <2>2. JobsFollowProcessing'
    BY <1>3, <1>4 DEF IInv, MailInv, JobsFollowProcessing, Statuses
  <2>3. PickedIsUnnotified'
    BY <1>1, <1>2, <1>4, <2>1 DEF IInv, TypeInv, MailInv, PickedIsUnnotified
  <2>4. OneMailJob'
    BY <1>1, <1>4, <2>1, MaxFailuresAssumption DEF IInv, TypeInv, MailInv, OneMailJob
  <2>5. MailOnlyAfterProcessing' /\ NotifiedOnce'
    BY <1>1, <1>3, <2>1 DEF IInv, MailInv, MailOnlyAfterProcessing, NotifiedOnce
  <2>6. ProcessedIsNotified'
    <3>1. ASSUME NEW s \in Subs, row'[s] = "processed", ~(mails[s] > 0)
          PROVE  \E j \in jobs' : j.type = "sendMail" /\ j.sub = s
      <4>1. CASE s \in picked
        BY <1>1, <4>1, JobShapes
      <4>2. CASE s \notin picked
        BY <1>1, <1>3, <3>1, <4>2 DEF IInv, MailInv, ProcessedIsNotified
      <4>. QED  BY <4>1, <4>2
    <3>. QED  BY <1>1, <3>1 DEF ProcessedIsNotified
  <2>. QED  BY <2>2, <2>3, <2>4, <2>5, <2>6 DEF MailInv
<1>8. ReadSideInv'
  <2>1. \A s \in Subs : ReadModelJob(s) \in jobs' <=> ReadModelJob(s) \in jobs
    BY <1>1, JobShapes
  <2>2. \A s \in picked \cap Live : Visible(s)
    BY <1>1 DEF IInv, ReadSideInv, MirroredBeforeCommit, picked
  <2>3. \A s \in Subs : s \in Live' => s \in Live
    BY <1>3 DEF Live
  <2>4. \A n \in Messages : restock'[n].phase = "saved" => restock'[n] = restock[n]
    BY <1>2
  <2>5. \A s \in Live' : s \in Subs
    BY DEF Live
  <2>. QED  BY <1>1, <1>3, <2>1, <2>2, <2>3, <2>4, <2>5, SameDocuments, ReadSideFrame
<1>. QED  BY <1>5, <1>6, <1>7, <1>8 DEF IInv
-----------------------------------------------------------------------------
(* The durable local queue *)

\* The documents of a subscription are as many as their numbers say.
LEMMA DocumentsCounted ==
  ASSUME NEW s, NEW k \in Nat, Copies(s) = 1 .. k,
         \A x, y \in docs : SameKey(x, y) => x = y
  PROVE  Cardinality(Documents(s)) = k
<1>. DEFINE f == [i \in 1 .. k |-> CHOOSE d \in Documents(s) : d.copy = i]
<1>1. ASSUME NEW i \in 1 .. k
      PROVE  f[i] \in Documents(s) /\ f[i].copy = i
  <2>1. \E d \in Documents(s) : d.copy = i
    BY DEF Copies
  <2>. QED  BY <2>1
<1>2. \A d \in Documents(s) : d.copy \in 1 .. k /\ d \in docs /\ d.sub = s
  BY DEF Copies, Documents
<1>. HIDE DEF f
<1>3. \A d \in Documents(s) : f[d.copy] = d
  BY <1>1, <1>2 DEF SameKey
<1>4. f \in Bijection(1 .. k, Documents(s))
  <2>1. f \in [1 .. k -> Documents(s)]
    BY <1>1 DEF f
  <2>2. \A i, j \in 1 .. k : f[i] = f[j] => i = j
    BY <1>1
  <2>3. \A d \in Documents(s) : \E i \in 1 .. k : f[i] = d
    BY <1>2, <1>3
  <2>. QED  BY <2>1, <2>2, <2>3 DEF Bijection, Injection, Surjection, IsInjective
<1>. QED  BY <1>4, FS_CountingElements DEF ExistsBijection

\* A document is inserted; its command stays only if a failure keeps it.
LEMMA InsertDocumentKeepsIInv ==
  ASSUME IInv, NEW s \in Subs, InsertDocument(s)
  PROVE  IInv'
<1>. DEFINE new == [sub |-> s, copy |-> Cardinality(Documents(s)) + 1,
                    processed |-> FALSE, deleted |-> FALSE]
<1>1. /\ ReadModelJob(s) \in jobs /\ docs' = docs \cup {new}
      /\ \/ jobs' = jobs \ {ReadModelJob(s)} /\ failures' = failures
         \/ jobs' = jobs /\ failures < MaxFailures /\ failures' = failures + 1
      /\ UNCHANGED <<row, requests, restock, deletion, mails, overlapped>>
      /\ failures \in Nat /\ failures <= MaxFailures
  BY MaxFailuresAssumption DEF InsertDocument, Fail, IInv, TypeInv
<1>2. PICK k \in 0 .. failures : Copies(s) = 1 .. k
  BY <1>1 DEF IInv, ReadSideInv, DocumentsNumbered
<1>3. new.copy = k + 1 /\ new.sub = s
  BY <1>1, <1>2, DocumentsCounted DEF IInv, ReadSideInv, DocumentsNumbered
<1>4. new \in Document
  BY <1>1, <1>2, <1>3, MaxFailuresAssumption DEF Document
<1>. HIDE DEF new
<1>5. \A x \in docs : ~SameKey(x, new)
  <2>1. ASSUME NEW x \in docs, x.sub = s  PROVE x.copy \in 1 .. k
    BY <1>2, <2>1 DEF Copies, Documents
  <2>. QED  BY <1>1, <1>2, <1>3, <2>1 DEF SameKey
<1>6. \A t \in Subs : t # s => Documents(t)' = Documents(t) /\ Copies(t)' = Copies(t)
  BY <1>1, <1>3 DEF Documents, Copies
<1>7. Copies(s)' = 1 .. k + 1 /\ Documents(s)' # {}
  <2>1. Documents(s)' = Documents(s) \cup {new}
    BY <1>1, <1>3 DEF Documents
  <2>2. Copies(s)' = Copies(s) \cup {k + 1}
    BY <1>3, <2>1 DEF Copies
  <2>. QED  BY <1>1, <1>2, <2>1, <2>2
<1>8. \A t \in Subs : Visible(t) => Visible(t)'
  BY <1>1 DEF Visible, Documents
<1>9. \A t \in Subs : t # s => (ReadModelJob(t) \in jobs' <=> ReadModelJob(t) \in jobs)
  BY <1>1, ReadModelJobsDiffer
<1>10. TypeInv'
  <2>1. docs' \subseteq Document
    BY <1>1, <1>4 DEF IInv, TypeInv
  <2>2. jobs' \subseteq Job
    BY <1>1 DEF IInv, TypeInv
  <2>3. failures' \in 0 .. MaxFailures
    BY <1>1, MaxFailuresAssumption
  <2>. QED  BY <1>1, <2>1, <2>2, <2>3 DEF IInv, TypeInv, requests
<1>11. RowsInv'
  BY <1>1 DEF IInv, RowsInv, RequestsOK, LoadedIsRow, requests
<1>12. MailInv'
  <2>1. \A t \in Subs : MailJobs(t)' = MailJobs(t)
    BY <1>1 DEF MailJobs, ReadModelJob
  <2>. QED  BY <1>1, <2>1, MailFrame
<1>13. DocumentsNumbered'
  <2>1. \A x, y \in docs' : SameKey(x, y) => x = y
    BY <1>1, <1>5 DEF IInv, ReadSideInv, DocumentsNumbered, SameKey
  <2>2. ASSUME NEW t \in Subs
        PROVE  \E n \in 0 .. 1 + failures' :
                 Copies(t)' = 1 .. n /\ (ReadModelJob(t) \in jobs' => n <= failures')
    <3>1. CASE t = s
      <4>1. k + 1 \in 0 .. 1 + failures'
            /\ (ReadModelJob(s) \in jobs' => k + 1 <= failures')
        BY <1>1, <1>2
      <4>. QED  BY <1>7, <3>1, <4>1
    <3>2. CASE t # s
      <4>1. PICK n \in 0 .. 1 + failures :
              Copies(t) = 1 .. n /\ (ReadModelJob(t) \in jobs => n <= failures)
        BY DEF IInv, ReadSideInv, DocumentsNumbered
      <4>2. n \in 0 .. 1 + failures' /\ (n <= failures => n <= failures')
        BY <1>1, OneMoreFailure
      <4>. QED  BY <1>6, <1>9, <3>2, <4>1, <4>2
    <3>. QED  BY <3>1, <3>2
  <2>. QED  BY <2>1, <2>2 DEF DocumentsNumbered, SameKey, ReadModelJob
<1>14. CopiesOfDocuments'
  BY <1>1 DEF IInv, ReadSideInv, CopiesOfDocuments, SameKey
<1>15. MirroredBeforeCommit' /\ ProcessedIsMirrored'
  <2>1. Live' = Live /\ Live \subseteq Subs
    BY <1>1 DEF Live
  <2>2. MirroredBeforeCommit'
    BY <1>1, <1>8, <2>1 DEF IInv, ReadSideInv, MirroredBeforeCommit
  <2>3. ProcessedIsMirrored'
    BY <1>1, <1>8 DEF IInv, ReadSideInv, ProcessedIsMirrored, Visible
  <2>. QED  BY <2>2, <2>3
<1>16. ReadSideFollowsRows'
  BY <1>1, <1>6, <1>7, <1>9 DEF IInv, ReadSideInv, ReadSideFollowsRows
<1>. QED  BY <1>10, <1>11, <1>12, <1>13, <1>14, <1>15, <1>16 DEF IInv, ReadSideInv

\* The command goes on with the row it found, or ends; the e-mail leaves or not.
LEMMA MailStepKeepsIInv ==
  ASSUME IInv, NEW s \in Subs, NEW m \in Messages, MailStep(s, m)
  PROVE  IInv'
<1>. DEFINE queued == MailJob(s, m)
            read   == [MailJob(s, m) EXCEPT !.stage = "read"]
<1>1. PICK old \in MailJobs(s), new \in SUBSET {queued, read} :
        /\ jobs' = (jobs \ {old}) \cup new
        /\ \A j, k \in new : j = k
        /\ \/ s \in Live => new # {}
           \/ mails'[s] > 0
        /\ \/ mails' = mails
           \/ /\ mails' = [mails EXCEPT ![s] = @ + 1]
              /\ new = {} \/ failures' # 0
        /\ failures' = failures \/ (failures < MaxFailures /\ failures' = failures + 1)
  <2>1. ASSUME ReadForMail(s, m)
        PROVE  /\ queued \in jobs /\ UNCHANGED <<mails, failures>>
               /\ jobs' = (jobs \ {queued}) \cup (IF s \in Live THEN {read} ELSE {})
    BY <2>1 DEF ReadForMail
  <2>2. /\ queued \in jobs => queued \in MailJobs(s)
        /\ read \in jobs => read \in MailJobs(s)
    BY JobShapes DEF MailJobs
  <2>3. CASE ReadForMail(s, m)
    BY <2>1, <2>2, <2>3
  <2>4. ASSUME SendMail(s, m)
        PROVE  /\ read \in jobs
               /\ \/ /\ mails' = [mails EXCEPT ![s] = @ + 1] /\ failures' = failures
                     /\ jobs' = (jobs \ {read}) \cup {}
                  \/ /\ failures < MaxFailures /\ failures' = failures + 1
                     /\ mails' \in {mails, [mails EXCEPT ![s] = @ + 1]}
                     /\ jobs' = (jobs \ {read}) \cup {queued}
    BY <2>4 DEF SendMail, Fail
  <2>5. /\ mails \in [Subs -> Nat] /\ failures \in Nat
    BY MaxFailuresAssumption DEF IInv, TypeInv
  <2>6. CASE SendMail(s, m)
    <3>1. read \in MailJobs(s)
      BY <2>2, <2>4, <2>6
    <3>2. CASE /\ mails' = [mails EXCEPT ![s] = @ + 1] /\ failures' = failures
               /\ jobs' = (jobs \ {read}) \cup {}
      <4>1. mails'[s] > 0
        BY <2>5, <3>2
      <4>2. \A j, k \in {} : j = k
        OBVIOUS
      <4>. WITNESS read \in MailJobs(s), {} \in SUBSET {queued, read}
      <4>. QED  BY <3>2, <4>1, <4>2
    <3>3. CASE /\ failures < MaxFailures /\ failures' = failures + 1
               /\ mails' \in {mails, [mails EXCEPT ![s] = @ + 1]}
               /\ jobs' = (jobs \ {read}) \cup {queued}
      <4>1. failures' # 0 /\ {queued} # {}
        BY <2>5, <3>3
      <4>2. \A j, k \in {queued} : j = k
        OBVIOUS
      <4>. WITNESS read \in MailJobs(s), {queued} \in SUBSET {queued, read}
      <4>. QED  BY <3>3, <4>1, <4>2
    <3>. QED  BY <2>4, <2>6, <3>2, <3>3
  <2>. QED  BY <2>3, <2>6 DEF MailStep
<1>. HIDE DEF queued, read
<1>2. /\ UNCHANGED <<row, requests, restock, deletion, docs, overlapped>>
      /\ mails \in [Subs -> Nat] /\ failures \in Nat
      /\ queued \in Job /\ queued.type = "sendMail" /\ queued.sub = s
      /\ read \in Job /\ read.type = "sendMail" /\ read.sub = s
  <2>1. UNCHANGED <<row, requests, restock, deletion, docs, overlapped>>
    BY DEF MailStep, ReadForMail, SendMail
  <2>2. mails \in [Subs -> Nat] /\ failures \in Nat
    BY MaxFailuresAssumption DEF IInv, TypeInv
  <2>3. queued \in Job /\ read \in Job
    BY JobShapes DEF Job, queued, read
  <2>4. /\ queued.type = "sendMail" /\ queued.sub = s
        /\ read.type = "sendMail" /\ read.sub = s
    BY JobShapes DEF queued, read
  <2>. QED  BY <2>1, <2>2, <2>3, <2>4
<1>3. old \in jobs /\ old.type = "sendMail" /\ old.sub = s
  BY DEF MailJobs
<1>4. /\ MailJobs(s)' = (MailJobs(s) \ {old}) \cup new
      /\ \A t \in Subs : t # s => MailJobs(t)' = MailJobs(t)
  BY <1>1, <1>2, <1>3 DEF MailJobs
<1>5. /\ row[s] \in {"processed", "deleted"}
      /\ \A n \in Messages : s \in restock[n].picked => s \in overlapped
  BY DEF IInv, MailInv, JobsFollowProcessing, PickedIsUnnotified
<1>6. /\ mails' \in [Subs -> Nat]
      /\ \A t \in Subs : t # s => mails'[t] = mails[t]
      /\ mails'[s] = mails[s] \/ (mails'[s] = mails[s] + 1 /\ (new = {} \/ failures' # 0))
  BY <1>1, <1>2
<1>7. TypeInv'
  <2>1. jobs' \subseteq Job
    BY <1>1, <1>2 DEF IInv, TypeInv
  <2>2. failures' \in 0 .. MaxFailures
    BY <1>1, <1>2, MaxFailuresAssumption DEF IInv, TypeInv
  <2>. QED  BY <1>2, <1>6, <2>1, <2>2 DEF IInv, TypeInv, requests
<1>8. RowsInv'
  BY <1>2 DEF IInv, RowsInv, RequestsOK, LoadedIsRow, requests
<1>9. MailInv'
  <2>1. JobsFollowProcessing'
    BY <1>2, <1>4, <1>5 DEF IInv, MailInv, JobsFollowProcessing
  <2>2. PickedIsUnnotified'
    BY <1>2, <1>4, <1>5, <1>6 DEF IInv, TypeInv, MailInv, PickedIsUnnotified
  <2>3. ASSUME failures' = 0
        PROVE  \A t \in Subs \ overlapped :
                 /\ mails'[t] <= 1
                 /\ mails'[t] > 0 => MailJobs(t)' = {}
                 /\ \A j, k \in MailJobs(t)' : j = k
    <3>1. failures = 0
      BY <1>1, <1>2, <2>3
    <3>2. ASSUME s \notin overlapped
          PROVE  MailJobs(s) = {old} /\ mails[s] = 0
      BY <1>2, <3>1, <3>2 DEF IInv, MailInv, OneMailJob
    <3>3. ASSUME s \notin overlapped
          PROVE  MailJobs(s)' = new
      BY <1>4, <3>2, <3>3
    <3>. QED  BY <1>1, <1>2, <1>4, <1>6, <2>3, <3>1, <3>2, <3>3
              DEF IInv, MailInv, OneMailJob, NotifiedOnce
  <2>4. OneMailJob' /\ NotifiedOnce'
    BY <1>2, <2>3 DEF OneMailJob, NotifiedOnce
  <2>5. MailOnlyAfterProcessing'
    BY <1>2, <1>5, <1>6 DEF IInv, MailInv, MailOnlyAfterProcessing
  <2>6. ProcessedIsNotified'
    <3>1. ASSUME NEW t \in Subs, row[t] = "processed", ~(mails'[t] > 0)
          PROVE  \E j \in jobs' : j.type = "sendMail" /\ j.sub = t
      <4>1. CASE t = s
        BY <1>1, <1>2, <3>1, <4>1 DEF Live
      <4>2. CASE t # s
        <5>1. PICK j \in jobs : j.type = "sendMail" /\ j.sub = t
          BY <1>6, <3>1, <4>2 DEF IInv, MailInv, ProcessedIsNotified
        <5>. QED  BY <1>1, <1>3, <4>2, <5>1
      <4>. QED  BY <4>1, <4>2
    <3>. QED  BY <1>2, <3>1 DEF ProcessedIsNotified
  <2>. QED  BY <2>1, <2>2, <2>4, <2>5, <2>6 DEF MailInv
<1>10. ReadSideInv'
  <2>1. \A t \in Subs : ReadModelJob(t) \in jobs' <=> ReadModelJob(t) \in jobs
    BY <1>1, <1>2, <1>3, JobShapes
  <2>2. Live' = Live
    BY <1>2 DEF Live
  <2>. QED  BY <1>1, <1>2, <2>1, <2>2, SameDocuments, ReadSideFrame
<1>. QED  BY <1>7, <1>8, <1>9, <1>10 DEF IInv
-----------------------------------------------------------------------------
(* DeleteRestockSubscription and DeleteRestockSubscriptionsByTime *)

\* A deletion that has read its documents is a deletion still.
LEMMA Saved ==
  ASSUME NEW P, NEW T, NEW C,
         NEW x \in [phase : P, targets : T, from : Int, to : Int, copies : C],
         NEW p \in P, NEW c \in C, NEW i \in Int
  PROVE  /\ [x EXCEPT !.phase = p, !.copies = c, !.from = i, !.to = i]
              \in [phase : P, targets : T, from : Int, to : Int, copies : C]
         /\ [x EXCEPT !.phase = p, !.copies = c, !.from = i, !.to = i].targets = x.targets
         /\ [x EXCEPT !.phase = p, !.copies = c, !.from = i, !.to = i].copies = c
  OBVIOUS

\* Before its mirroring a deletion only loads: live rows, and documents.
LEMMA DeletionKeepsIInv ==
  ASSUME IInv, NEW d \in Deletions,
         \/ \E s \in Subs : LoadById(d, s)
         \/ \E from, to \in Ends : LoadByTime(d, from, to)
         \/ SaveDeletion(d)
         \/ AbortDeletion(d)
  PROVE  IInv'
<1>. DEFINE Deletion == [phase : Phases, targets : SUBSET Subs, from : Int, to : Int,
                         copies : SUBSET Document]
<1>1. /\ UNCHANGED <<row, requests, restock, docs, jobs, mails, overlapped>>
      /\ failures' = failures \/ (failures < MaxFailures /\ failures' = failures + 1)
  BY DEF LoadById, LoadByTime, SaveDeletion, AbortDeletion, Fail
<1>2. deletion \in [Deletions -> Deletion] /\ docs \subseteq Document
  BY DEF IInv, TypeInv
<1>3. PICK next \in Deletion :
        /\ deletion' = [deletion EXCEPT ![d] = next]
        /\ next.targets \subseteq deletion[d].targets \cup Live
        /\ \/ next.copies = deletion[d].copies
           \/ next.copies \subseteq docs
  <2>1. CASE \E s \in Subs : LoadById(d, s)
    <3>1. PICK s \in Subs : LoadById(d, s)
      BY <2>1
    <3>. DEFINE next == [deletion[d] EXCEPT !.phase = "byId", !.targets = {s}]
    <3>2. /\ deletion' = [deletion EXCEPT ![d] = next]
          /\ next \in Deletion /\ next.targets = {s} /\ s \in Live
          /\ next.copies = deletion[d].copies
      BY <1>2, <3>1 DEF LoadById, Phases
    <3>. QED  BY <3>2
  <2>2. CASE \E from, to \in Ends : LoadByTime(d, from, to)
    <3>1. PICK from \in Ends, to \in Ends : LoadByTime(d, from, to)
      BY <2>2
    <3>. DEFINE targets == {s \in Live : InRange(created[s], from, to)}
                next == [deletion[d] EXCEPT !.phase = "byTime", !.targets = targets,
                                            !.from = from, !.to = to]
    <3>2. from \in Int /\ to \in Int /\ targets \subseteq Live /\ targets \subseteq Subs
      BY NowInRange DEF Ends, Live
    <3>3. deletion' = [deletion EXCEPT ![d] = next]
      BY <1>2, <3>1 DEF LoadByTime
    <3>. HIDE DEF targets
    <3>4. /\ next \in Deletion /\ next.targets = targets
          /\ next.copies = deletion[d].copies
      BY <1>2, <3>2 DEF Phases
    <3>. QED  BY <3>2, <3>3, <3>4
  <2>3. CASE SaveDeletion(d)
    <3>. DEFINE inRange == {x \in docs : InRange(occurred[x.sub], deletion[d].from,
                                                 deletion[d].to)}
                byId   == [deletion[d] EXCEPT !.phase = "mirrored"]
                byTime == [deletion[d] EXCEPT !.phase = "saved", !.copies = inRange,
                                              !.from = 0, !.to = 0]
    <3>1. \/ deletion' = [deletion EXCEPT ![d] = byId]
          \/ deletion' = [deletion EXCEPT ![d] = byTime]
      BY <1>2, <2>3 DEF SaveDeletion
    <3>2. inRange \subseteq docs
      OBVIOUS
    <3>. HIDE DEF inRange
    <3>3. /\ byId \in Deletion /\ byId.targets = deletion[d].targets
          /\ byId.copies = deletion[d].copies
          /\ byTime \in Deletion /\ byTime.targets = deletion[d].targets
          /\ byTime.copies = inRange
      <4>1. deletion[d] \in Deletion /\ inRange \in SUBSET Document
        BY <1>2, <3>2
      <4>2. /\ byId \in Deletion /\ byId.targets = deletion[d].targets
            /\ byId.copies = deletion[d].copies
        BY <4>1 DEF Phases
      <4>3. /\ byTime \in Deletion /\ byTime.targets = deletion[d].targets
            /\ byTime.copies = inRange
        <5>1. "saved" \in Phases /\ 0 \in Int
          BY DEF Phases
        <5>. QED  BY <4>1, <5>1, Saved
      <4>. QED  BY <4>2, <4>3
    <3>. QED  BY <3>1, <3>2, <3>3
  <2>4. CASE AbortDeletion(d)
    <3>. DEFINE next == [NoDeletion EXCEPT !.phase = "ended"]
    <3>1. deletion' = [deletion EXCEPT ![d] = next]
      BY <2>4 DEF AbortDeletion
    <3>2. next \in Deletion /\ next.targets = {} /\ next.copies = {}
      BY DEF NoDeletion, Phases
    <3>. QED  BY <3>1, <3>2
  <2>. QED  BY <2>1, <2>2, <2>3, <2>4
<1>4. /\ deletion' \in [Deletions -> Deletion]
      /\ deletion'[d] = next
      /\ \A e \in Deletions : e # d => deletion'[e] = deletion[e]
  BY <1>2, <1>3
<1>5. TypeInv'
  <2>1. failures' \in 0 .. MaxFailures
    BY <1>1, MaxFailuresAssumption DEF IInv, TypeInv
  <2>. QED  BY <1>1, <1>4, <2>1 DEF IInv, TypeInv, requests
<1>6. RowsInv'
  <2>1. \A s \in Live : row[s] # "none"
    BY DEF Live
  <2>. QED  BY <1>1, <1>3, <1>4, <2>1 DEF IInv, RowsInv, RequestsOK, LoadedIsRow, requests
<1>7. MailInv'
  BY <1>1, MailFrame DEF MailJobs
<1>8. ReadSideInv'
  <2>1. \A e \in Deletions : \/ deletion'[e].copies = deletion[e].copies
                             \/ docs' = docs /\ deletion'[e].copies \subseteq docs
    BY <1>1, <1>3, <1>4
  <2>2. Live' = Live /\ Live \subseteq Subs
    BY <1>1 DEF Live
  <2>3. \A m \in Messages : restock'[m] = restock[m]
    BY <1>1
  <2>. QED  BY <1>1, <2>1, <2>2, <2>3, SameDocuments, ReadSideFrame DEF ReadModelJob
<1>. QED  BY <1>5, <1>6, <1>7, <1>8 DEF IInv

\* The commit hides rows that are there.
LEMMA CommitDeletionKeepsIInv ==
  ASSUME IInv, NEW d \in Deletions, CommitDeletion(d)
  PROVE  IInv'
<1>. DEFINE targets == deletion[d].targets
            next == [NoDeletion EXCEPT !.phase = "ended"]
<1>1. /\ row' = [s \in Subs |-> IF s \in targets THEN "deleted" ELSE row[s]]
      /\ deletion' = [deletion EXCEPT ![d] = next]
      /\ UNCHANGED <<requests, restock, docs, jobs, mails, failures, overlapped>>
  BY DEF CommitDeletion
<1>2. /\ deletion \in [Deletions -> [phase : Phases, targets : SUBSET Subs, from : Int,
                                     to : Int, copies : SUBSET Document]]
      /\ next \in [phase : Phases, targets : SUBSET Subs, from : Int, to : Int,
                   copies : SUBSET Document]
      /\ next.targets = {} /\ next.copies = {}
  BY DEF IInv, TypeInv, NoDeletion, Phases
<1>3. /\ \A s \in Subs : row[s] \in Statuses
      /\ \A s \in targets : row[s] # "none"
  BY DEF IInv, TypeInv, RowsInv, LoadedIsRow
<1>. HIDE DEF targets, next
<1>4. \A e \in Deletions : deletion'[e] = IF e = d THEN next ELSE deletion[e]
  BY <1>1, <1>2
<1>5. \A s \in Subs : row'[s] = IF s \in targets THEN "deleted" ELSE row[s]
  BY <1>1
<1>6. TypeInv'
  <2>1. row' \in [Subs -> Statuses]
    BY <1>1, <1>3 DEF Statuses
  <2>2. deletion' \in [Deletions -> [phase : Phases, targets : SUBSET Subs, from : Int,
                                     to : Int, copies : SUBSET Document]]
    BY <1>1, <1>2
  <2>. QED  BY <1>1, <2>1, <2>2 DEF IInv, TypeInv, requests
<1>7. RowsInv'
  <2>1. \A s \in Subs : row'[s] = "none" <=> row[s] = "none"
    BY <1>3, <1>5
  <2>2. /\ \A m \in Messages : restock[m].picked \subseteq Subs
        /\ \A e \in Deletions : deletion[e].targets \subseteq Subs
    BY <1>2 DEF IInv, TypeInv
  <2>. QED  BY <1>1, <1>2, <1>4, <2>1, <2>2
            DEF IInv, RowsInv, RequestsOK, LoadedIsRow, requests
<1>8. MailInv'
  BY <1>1, <1>5, MailFrame DEF MailJobs
<1>9. ReadSideInv'
  <2>1. \A s \in Subs : s \in Live' => s \in Live
    BY <1>5 DEF Live
  <2>2. \A s \in Live' : s \in Subs
    BY DEF Live
  <2>3. \A s \in Subs : row'[s] = "none" <=> row[s] = "none"
    BY <1>3, <1>5
  <2>. QED  BY <1>1, <1>2, <1>4, <1>5, <2>1, <2>2, <2>3, SameDocuments, ReadSideFrame
            DEF ReadModelJob
<1>. QED  BY <1>6, <1>7, <1>8, <1>9 DEF IInv

\* A stale copy takes the place of its document, and hides it.
LEMMA MirrorDeletedKeepsIInv ==
  ASSUME IInv, NEW d \in Deletions, MirrorDeleted(d)
  PROVE  IInv'
<1>. DEFINE copies == deletion[d].copies
            stale  == {x \in docs : \E c \in copies : c.sub = x.sub /\ c.copy = x.copy}
            Hide(c) == [c EXCEPT !.deleted = TRUE]
            hidden == {Hide(c) : c \in copies}
            next   == [deletion[d] EXCEPT !.phase = "mirrored", !.copies = {}]
<1>1. /\ docs' = (docs \ stale) \cup hidden
      /\ deletion' = [deletion EXCEPT ![d] = next]
      /\ UNCHANGED <<row, requests, restock, jobs, mails, failures, overlapped>>
  BY DEF MirrorDeleted, IInv, TypeInv
<1>2. /\ deletion \in [Deletions -> [phase : Phases, targets : SUBSET Subs, from : Int,
                                     to : Int, copies : SUBSET Document]]
      /\ next \in [phase : Phases, targets : SUBSET Subs, from : Int, to : Int,
                   copies : SUBSET Document]
      /\ next.targets = deletion[d].targets /\ next.copies = {}
      /\ docs \subseteq Document
  BY DEF IInv, TypeInv, Phases
<1>3. /\ \A x, y \in docs : SameKey(x, y) => x = y
      /\ \A x, y \in copies : SameKey(x, y) => x = y
      /\ \A x \in copies : \E y \in docs : SameKey(x, y)
  BY DEF IInv, ReadSideInv, DocumentsNumbered, CopiesOfDocuments
<1>4. /\ \A x \in stale : x \in docs /\ \E c \in copies : SameKey(c, x)
      /\ \A x \in docs \ stale : \A c \in copies : ~SameKey(c, x)
  BY DEF SameKey
<1>5. /\ \A c \in copies : \E y \in hidden : SameKey(c, y) /\ y.deleted
      /\ \A y \in hidden : y \in Document /\ \E c \in copies :
           SameKey(c, y) /\ y = Hide(c)
  <2>1. ASSUME NEW c \in copies
        PROVE  Hide(c) \in Document /\ SameKey(c, Hide(c)) /\ Hide(c).deleted
    <3>1. c \in Document
      BY <1>2
    <3>. QED  BY <3>1 DEF Document, SameKey
  <2>. HIDE DEF copies, Hide
  <2>. QED  BY <2>1
<1>. HIDE DEF copies, stale, Hide, hidden, next
<1>6. DocumentsKept
  <2>1. ASSUME NEW x \in docs', NEW y \in docs', SameKey(x, y)
        PROVE  x = y
    <3>1. CASE x \in hidden /\ y \in hidden
      <4>1. PICK c \in copies : SameKey(c, x) /\ x = Hide(c)
        BY <1>5, <3>1
      <4>2. PICK e \in copies : SameKey(e, y) /\ y = Hide(e)
        BY <1>5, <3>1
      <4>3. c = e
        BY <1>3, <2>1, <4>1, <4>2 DEF SameKey
      <4>. QED  BY <4>1, <4>2, <4>3
    <3>2. CASE x \notin hidden /\ y \notin hidden
      BY <1>1, <1>3, <2>1, <3>2
    <3>3. CASE x \in hidden /\ y \notin hidden
      BY <1>1, <1>4, <1>5, <2>1, <3>3 DEF SameKey
    <3>4. CASE x \notin hidden /\ y \in hidden
      BY <1>1, <1>4, <1>5, <2>1, <3>4 DEF SameKey
    <3>. QED  BY <3>1, <3>2, <3>3, <3>4
  <2>2. ASSUME NEW y \in docs'
        PROVE  \E x \in docs : SameKey(x, y)
    <3>1. CASE y \in hidden
      BY <1>3, <1>5, <3>1 DEF SameKey
    <3>2. CASE y \notin hidden
      BY <1>1, <3>2 DEF SameKey
    <3>. QED  BY <3>1, <3>2
  <2>3. ASSUME NEW x \in docs
        PROVE  \E y \in docs' :
                 SameKey(x, y) /\ (x.processed \/ x.deleted => y.processed \/ y.deleted)
    <3>1. CASE x \in stale
      BY <1>1, <1>4, <1>5, <3>1 DEF SameKey
    <3>2. CASE x \notin stale
      BY <1>1, <3>2 DEF SameKey
    <3>. QED  BY <3>1, <3>2
  <2>. QED  BY <2>1, <2>2, <2>3 DEF DocumentsKept
<1>7. \A e \in Deletions : deletion'[e] = IF e = d THEN next ELSE deletion[e]
  BY <1>1, <1>2
<1>8. TypeInv'
  <2>1. docs' \subseteq Document
    BY <1>1, <1>2, <1>5
  <2>2. deletion' \in [Deletions -> [phase : Phases, targets : SUBSET Subs, from : Int,
                                     to : Int, copies : SUBSET Document]]
    BY <1>1, <1>2
  <2>. QED  BY <1>1, <2>1, <2>2 DEF IInv, TypeInv, requests
<1>9. RowsInv'
  BY <1>1, <1>2, <1>7 DEF IInv, RowsInv, RequestsOK, LoadedIsRow, requests
<1>10. MailInv'
  BY <1>1, MailFrame DEF MailJobs
<1>11. ReadSideInv'
  <2>1. Live' = Live /\ Live \subseteq Subs
    BY <1>1 DEF Live
  <2>2. \A m \in Messages : restock'[m] = restock[m]
    BY <1>1
  <2>3. \A s \in Subs : ReadModelJob(s) \in jobs' <=> ReadModelJob(s) \in jobs
    BY <1>1
  <2>4. \A e \in Deletions : \/ deletion'[e].copies = deletion[e].copies
                             \/ deletion'[e].copies = {}
    BY <1>2, <1>7
  <2>. QED  BY <1>1, <1>6, <2>1, <2>2, <2>3, <2>4, ReadSideFrame
<1>. QED  BY <1>8, <1>9, <1>10, <1>11 DEF IInv
-----------------------------------------------------------------------------
(* The theorems *)

\* Every step keeps the invariant.
LEMMA NextKeepsIInv == IInv /\ [Next]_vars => IInv'
<1>. SUFFICES ASSUME IInv, [Next]_vars
              PROVE  IInv'
  OBVIOUS
<1>1. ASSUME NEW s \in Subs, CreateStep(s)
      PROVE  IInv'
  BY <1>1, RequestKeepsIInv, CommitSubscriptionKeepsIInv DEF CreateStep
<1>2. ASSUME NEW s \in Subs, InsertDocument(s)
      PROVE  IInv'
  BY <1>2, InsertDocumentKeepsIInv
<1>3. ASSUME NEW m \in Messages, Deliver(m) \/ RestockStep(m) \/ RedeliverRestock(m)
      PROVE  IInv'
  <2>1. ASSUME NEW s \in Subs, MirrorProcessed(m, s) \/ MirrorMissing(m, s)
        PROVE  IInv'
    BY <2>1, MirrorProcessedKeepsIInv, MessageKeepsIInv
  <2>. QED  BY <1>3, <2>1, MessageKeepsIInv, CommitRestockKeepsIInv DEF RestockStep
<1>4. ASSUME NEW s \in Subs, NEW m \in Messages, MailStep(s, m)
      PROVE  IInv'
  BY <1>4, MailStepKeepsIInv
<1>5. ASSUME NEW d \in Deletions,
             \/ \E s \in Subs : LoadById(d, s)
             \/ \E from, to \in Ends : LoadByTime(d, from, to)
             \/ DeletionStep(d)
             \/ AbortDeletion(d)
      PROVE  IInv'
  <2>1. CASE MirrorDeleted(d)
    BY <2>1, MirrorDeletedKeepsIInv
  <2>2. CASE CommitDeletion(d)
    BY <2>2, CommitDeletionKeepsIInv
  <2>3. CASE \/ \E s \in Subs : LoadById(d, s)
             \/ \E from, to \in Ends : LoadByTime(d, from, to)
             \/ SaveDeletion(d)
             \/ AbortDeletion(d)
    BY <2>3, DeletionKeepsIInv
  <2>. QED  BY <1>5, <2>1, <2>2, <2>3 DEF DeletionStep
<1>6. CASE UNCHANGED vars
  <2>. USE <1>6 DEF vars, requests
  <2>1. TypeInv'
    BY DEF IInv, TypeInv
  <2>2. RowsInv'
    BY DEF IInv, RowsInv, RequestsOK, LoadedIsRow
  <2>3. MailInv'
    BY MailFrame DEF MailJobs
  <2>4. ReadSideInv'
    BY SameDocuments, ReadSideFrame DEF Live, ReadModelJob, IInv, ReadSideInv,
       MirroredBeforeCommit, Visible, Documents
  <2>. QED  BY <2>1, <2>2, <2>3, <2>4 DEF IInv
<1>. QED  BY <1>1, <1>2, <1>3, <1>4, <1>5, <1>6 DEF Next

\* The invariant holds in every behaviour of the service: the copies of each
\* document are numbered without a gap and cost a failure each, what a handler
\* picked alone was not notified, and what is about to be processed is visible.
THEOREM RestockSubscriptionsInvariant == Spec => []IInv
  BY InitIInv, NextKeepsIInv, PTL DEF Spec

\* The rows, documents and commands of the service have their types.
THEOREM TypeCorrect == Spec => []TypeOK
<1>1. IInv => TypeOK
  BY TypesOK DEF IInv
<1>. QED  BY <1>1, RestockSubscriptionsInvariant, PTL

\* SendRestockNotification writes to nobody whose row was not processed.
THEOREM NobodyIsMailedEarly == Spec => []MailOnlyAfterProcessing
<1>1. IInv => MailOnlyAfterProcessing
  BY DEF IInv, MailInv
<1>. QED  BY <1>1, RestockSubscriptionsInvariant, PTL

\* ProcessRestockNotification forgets nobody it has processed, whatever crashed.
THEOREM NobodyIsForgotten == Spec => []ProcessedIsNotified
<1>1. IInv => ProcessedIsNotified
  BY DEF IInv, MailInv
<1>. QED  BY <1>1, RestockSubscriptionsInvariant, PTL

\* MongoDB holds documents of committed rows, or the queue the command for them.
THEOREM ReadSideIsComplete == Spec => []ReadSideFollowsRows
<1>1. IInv => ReadSideFollowsRows
  BY DEF IInv, ReadSideInv
<1>. QED  BY <1>1, RestockSubscriptionsInvariant, PTL

\* Without a failure one e-mail leaves for a subscription no two handlers of
\* ProductStockReplenishedV1 picked together.
THEOREM OneMailEach == Spec => []NotifiedOnce
<1>1. IInv => NotifiedOnce
  BY DEF IInv, MailInv
<1>. QED  BY <1>1, RestockSubscriptionsInvariant, PTL

\* A marked document takes a deletion that is writing the read side or has ended.
HiddenByDeletion ==
  \A x \in docs : x.deleted =>
    \E e \in Deletions : deletion[e].phase \in {"mirrored", "ended"}

\* No step but MirrorDeleted marks a document, and no deletion goes back.
LEMMA HiddenStep == IInv /\ HiddenByDeletion /\ [Next]_vars => HiddenByDeletion'
<1>. SUFFICES ASSUME IInv, HiddenByDeletion, [Next]_vars PROVE HiddenByDeletion'
  OBVIOUS
<1>1. ASSUME UNCHANGED deletion, \A x \in docs' : x.deleted => x \in docs
      PROVE  HiddenByDeletion'
  BY <1>1 DEF HiddenByDeletion
<1>2. ASSUME NEW s \in Subs, CreateStep(s) \/ InsertDocument(s)
      PROVE  HiddenByDeletion'
  BY <1>1, <1>2 DEF CreateStep, AskStock, InsertSubscription, CommitSubscription,
     AbortSubscription, InsertDocument
<1>3. ASSUME NEW m \in Messages, Deliver(m) \/ RestockStep(m) \/ RedeliverRestock(m)
      PROVE  HiddenByDeletion'
  <2>1. ASSUME NEW s \in Subs, MirrorProcessed(m, s)
        PROVE  HiddenByDeletion'
    <3>1. PICK d \in Documents(s) :
            docs' = (docs \ {d}) \cup {[d EXCEPT !.processed = TRUE, !.deleted = FALSE]}
      BY <2>1 DEF MirrorProcessed
    <3>2. d \in Document
      BY DEF Documents, IInv, TypeInv
    <3>3. [d EXCEPT !.processed = TRUE, !.deleted = FALSE].deleted = FALSE
      BY <3>2 DEF Document
    <3>. QED  BY <1>1, <2>1, <3>1, <3>3 DEF MirrorProcessed
  <2>2. CASE UNCHANGED <<deletion, docs>>
    BY <1>1, <2>2
  <2>. QED  BY <1>3, <2>1, <2>2 DEF RestockStep, Deliver, Pick, SaveRestock, MirrorMissing,
            CommitRestock, RedeliverRestock
<1>4. ASSUME NEW s \in Subs, NEW m \in Messages, MailStep(s, m)
      PROVE  HiddenByDeletion'
  BY <1>1, <1>4 DEF MailStep, ReadForMail, SendMail
<1>5. ASSUME NEW d \in Deletions,
             \/ \E s \in Subs : LoadById(d, s)
             \/ \E from, to \in Ends : LoadByTime(d, from, to)
             \/ DeletionStep(d)
             \/ AbortDeletion(d)
      PROVE  HiddenByDeletion'
  <2>. DEFINE Ran(e) == deletion[e].phase \in {"mirrored", "ended"}
  <2>1. \A e \in Deletions : e # d => deletion'[e] = deletion[e]
    BY <1>5 DEF LoadById, LoadByTime, DeletionStep, SaveDeletion, MirrorDeleted,
       CommitDeletion, AbortDeletion, IInv, TypeInv
  <2>2. CASE DeletionStep(d) \/ AbortDeletion(d)
    <3>1. Ran(d) => Ran(d)'
      BY <2>2 DEF DeletionStep, SaveDeletion, MirrorDeleted, CommitDeletion, AbortDeletion,
         NoDeletion, IInv, TypeInv
    <3>2. docs' = docs \/ Ran(d)'
      <4>1. CASE MirrorDeleted(d)
        <5>1. deletion' = [deletion EXCEPT ![d].phase = "mirrored", ![d].copies = {}]
          BY <4>1 DEF MirrorDeleted
        <5>. QED  BY <5>1 DEF IInv, TypeInv
      <4>2. CASE SaveDeletion(d) \/ CommitDeletion(d) \/ AbortDeletion(d)
        BY <4>2 DEF SaveDeletion, CommitDeletion, AbortDeletion
      <4>. QED  BY <2>2, <4>1, <4>2 DEF DeletionStep
    <3>. QED  BY <2>1, <3>1, <3>2 DEF HiddenByDeletion
  <2>3. CASE \/ \E s \in Subs : LoadById(d, s)
             \/ \E from, to \in Ends : LoadByTime(d, from, to)
    <3>1. ~Ran(d) /\ docs' = docs
      BY <2>3 DEF LoadById, LoadByTime
    <3>. QED  BY <2>1, <3>1 DEF HiddenByDeletion
  <2>. QED  BY <1>5, <2>2, <2>3
<1>6. CASE UNCHANGED vars
  BY <1>1, <1>6 DEF vars
<1>. QED  BY <1>2, <1>3, <1>4, <1>5, <1>6 DEF Next

\* GetRestockSubscriptions and the queries by identifier report what
\* ProcessRestockNotification committed: a document of a processed row says so,
\* an unprocessed one is returned only beside another, and documents are missing
\* from the answers only when a deletion has written the read side or has ended.
THEOREM ProcessedRowsAreReported == Spec => []ProcessedIsReported
<1>1. Init => HiddenByDeletion
  BY DEF Init, HiddenByDeletion
<1>2. IInv /\ HiddenByDeletion => ProcessedIsReported
  <2>. SUFFICES ASSUME IInv, HiddenByDeletion, NEW s \in Subs, row[s] = "processed"
                PROVE  /\ Returned(s) = Documents(s) => \E d \in Returned(s) : d.processed
                       /\ \A d \in Returned(s) : d.processed \/ Documents(s) # {d}
                       /\ Returned(s) # Documents(s) =>
                            \E e \in Deletions : deletion[e].phase \in {"mirrored", "ended"}
    BY DEF ProcessedIsReported
  <2>1. PICK d \in Documents(s) : d.processed \/ d.deleted
    BY DEF IInv, ReadSideInv, ProcessedIsMirrored, Visible
  <2>2. Returned(s) = Documents(s) => d \in Returned(s) /\ d.processed
    BY <2>1 DEF Returned
  <2>3. ASSUME NEW x \in Returned(s), Documents(s) = {x}
        PROVE  x.processed
    BY <2>1, <2>3 DEF Returned
  <2>4. ASSUME Returned(s) # Documents(s)
        PROVE  \E e \in Deletions : deletion[e].phase \in {"mirrored", "ended"}
    BY <2>4 DEF Returned, Documents, HiddenByDeletion
  <2>. QED  BY <2>2, <2>3, <2>4
<1>. QED  BY <1>1, <1>2, HiddenStep, RestockSubscriptionsInvariant, PTL DEF Spec
-----------------------------------------------------------------------------
(* The service keeps the promise of RestockPromise, fairness apart *)

\* An e-mail for s is about to leave.
Sending(s) == \E j \in jobs : j.stage = "read" /\ j.sub = s

DueNow == {s \in Subs : row[s] = "processed" \/ Sending(s)}

\* What RestockPromise calls due and notified, by the names of this module.
LEMMA PromiseFrame ==
  ASSUME IInv, UNCHANGED <<row, mails>>, \A s \in Subs : Sending(s)' <=> Sending(s)
  PROVE  UNCHANGED Promise!vars
<1>1. DueNow' = DueNow
  BY DEF DueNow
<1>. QED  BY <1>1 DEF Promise!vars, DueNow, Sending

\* Commands that are queued send nothing yet.
LEMMA QueuedIsNotSending ==
  ASSUME NEW s \in Subs, NEW m \in Messages
  PROVE  /\ ReadModelJob(s).stage # "read" /\ MailJob(s, m).stage # "read"
         /\ [MailJob(s, m) EXCEPT !.stage = "read"].stage = "read"
         /\ [MailJob(s, m) EXCEPT !.stage = "read"].sub = s
  BY DEF ReadModelJob, MailJob

\* Steps that neither commit a row nor run a command that sends e-mails.
LEMMA QuietSteps ==
  ASSUME IInv,
         \/ \E s \in Subs, e \in Emails : AskStock(s, e)
         \/ \E s \in Subs : InsertSubscription(s) \/ AbortSubscription(s) \/ InsertDocument(s)
         \/ \E m \in Messages : \/ Deliver(m) \/ Pick(m) \/ SaveRestock(m) \/ RedeliverRestock(m)
                                \/ \E s \in Subs : MirrorProcessed(m, s) \/ MirrorMissing(m, s)
         \/ \E d \in Deletions : \/ \E s \in Subs : LoadById(d, s)
                                 \/ \E from, to \in Ends : LoadByTime(d, from, to)
                                 \/ SaveDeletion(d) \/ MirrorDeleted(d) \/ AbortDeletion(d)
  PROVE  UNCHANGED Promise!vars
<1>1. UNCHANGED <<row, mails>> /\ (jobs' = jobs \/ \E s \in Subs : jobs' = jobs \ {ReadModelJob(s)})
  <2>1. CASE \E s \in Subs : InsertDocument(s)
    BY <2>1 DEF InsertDocument
  <2>2. CASE \/ \E s \in Subs, e \in Emails : AskStock(s, e)
             \/ \E s \in Subs : InsertSubscription(s) \/ AbortSubscription(s)
    BY <2>2 DEF AskStock, InsertSubscription, AbortSubscription
  <2>3. CASE \E m \in Messages : Deliver(m) \/ Pick(m) \/ SaveRestock(m) \/ RedeliverRestock(m)
    BY <2>3 DEF Deliver, Pick, SaveRestock, RedeliverRestock
  <2>4. CASE \E m \in Messages, s \in Subs : MirrorProcessed(m, s) \/ MirrorMissing(m, s)
    BY <2>4 DEF MirrorProcessed, MirrorMissing
  <2>5. CASE \E d \in Deletions : \/ \E s \in Subs : LoadById(d, s)
                                  \/ \E from, to \in Ends : LoadByTime(d, from, to)
    BY <2>5 DEF LoadById, LoadByTime
  <2>6. CASE \E d \in Deletions : SaveDeletion(d) \/ AbortDeletion(d)
    BY <2>6 DEF SaveDeletion, AbortDeletion
  <2>7. CASE \E d \in Deletions : MirrorDeleted(d)
    BY <2>7 DEF MirrorDeleted
  <2>. QED  BY <2>1, <2>2, <2>3, <2>4, <2>5, <2>6, <2>7
<1>2. \A s \in Subs : Sending(s)' <=> Sending(s)
  <2>1. \A s \in Subs : ReadModelJob(s).stage # "read"
    BY DEF ReadModelJob
  <2>. QED  BY <1>1, <2>1 DEF Sending
<1>. QED  BY <1>1, <1>2, PromiseFrame

\* The commit of a request subscribes.
LEMMA CommitSubscribes ==
  ASSUME IInv, NEW s \in Subs, CommitSubscription(s)
  PROVE  Promise!Subscribe(s)
<1>1. /\ row[s] = "none" /\ mails' = mails
      /\ row' = [t \in Subs |-> IF t \in {s} THEN "waiting" ELSE row[t]]
      /\ jobs' = jobs \cup {ReadModelJob(s)}
  BY DEF CommitSubscription, IInv, TypeInv, RowsInv, RequestsOK
<1>2. \A t \in Subs : Sending(t)' <=> Sending(t)
  BY <1>1 DEF Sending, ReadModelJob
<1>3. DueNow' = DueNow
  BY <1>1, <1>2 DEF DueNow
<1>. QED  BY <1>1, <1>3 DEF Promise!Subscribe, Promise!Become, DueNow, Sending

\* The commit of a notification processes those of the picked who still wait.
LEMMA CommitRestocks ==
  ASSUME IInv, NEW m \in Messages, CommitRestock(m)
  PROVE  Promise!Next
<1>1. /\ restock[m].picked \subseteq Subs /\ mails' = mails
      /\ row' = [s \in Subs |-> IF s \in restock[m].picked \cap Live THEN "processed" ELSE row[s]]
      /\ jobs' = jobs \cup {MailJob(s, m) : s \in restock[m].picked}
  BY DEF CommitRestock, IInv, TypeInv
<1>2. PICK S \in SUBSET Subs : S = {s \in restock[m].picked : row[s] = "waiting"}
  BY <1>1
<1>3. row' = [s \in Subs |-> IF s \in S THEN "processed" ELSE row[s]]
  BY <1>1, <1>2 DEF Live
<1>4. \A t \in Subs : Sending(t)' <=> Sending(t)
  <2>1. \A s \in restock[m].picked : MailJob(s, m).stage # "read"
    BY DEF MailJob
  <2>. QED  BY <1>1, <2>1 DEF Sending
<1>5. DueNow' = DueNow \cup S
  BY <1>2, <1>3, <1>4 DEF DueNow
<1>6. Promise!Restock(S)
  BY <1>1, <1>2, <1>3, <1>5 DEF Promise!Restock, Promise!Become, DueNow, Sending
<1>. QED  BY <1>6 DEF Promise!Next

\* The commit of a deletion ends the promise, unless an e-mail is about to leave.
LEMMA CommitCancels ==
  ASSUME IInv, NEW d \in Deletions, CommitDeletion(d)
  PROVE  Promise!Next
<1>. DEFINE T == DueNow \ DueNow'
<1>0. PICK S \in SUBSET Subs : S = deletion[d].targets
  BY DEF IInv, TypeInv
<1>1. /\ mails' = mails /\ jobs' = jobs
      /\ \A s \in S : row[s] # "none"
      /\ row' = [s \in Subs |-> IF s \in S THEN "deleted" ELSE row[s]]
  BY <1>0 DEF CommitDeletion, IInv, RowsInv, LoadedIsRow
<1>2. \A t \in Subs : Sending(t)' <=> Sending(t)
  BY <1>1 DEF Sending
<1>3. DueNow' \subseteq DueNow /\ T \subseteq S
  BY <1>1, <1>2 DEF DueNow
<1>4. T \in SUBSET S /\ DueNow' = DueNow \ T
  BY <1>3
<1>. HIDE DEF T
<1>5. DueNow' \in {DueNow \ U : U \in SUBSET S}
  BY <1>4
<1>6. Promise!Cancel(S)
  BY <1>1, <1>5 DEF Promise!Cancel, Promise!Become, DueNow, Sending
<1>. QED  BY <1>6 DEF Promise!Next

\* The command that sends an e-mail finds a processed row, or ends; an e-mail
\* that leaves was due, and only a deleted subscription is due no more after it.
LEMMA MailStepNotifies ==
  ASSUME IInv, NEW s \in Subs, NEW m \in Messages, MailStep(s, m)
  PROVE  Promise!Notify(s) \/ Promise!Withdraw(s) \/ UNCHANGED Promise!vars
<1>. DEFINE queued == MailJob(s, m)
            read   == [MailJob(s, m) EXCEPT !.stage = "read"]
<1>1. /\ queued.stage # "read" /\ queued.sub = s /\ queued.type = "sendMail"
      /\ read.stage = "read" /\ read.sub = s /\ read.type = "sendMail"
  BY QueuedIsNotSending, JobShapes
<1>2. queued \in jobs \/ read \in jobs => row[s] \in {"processed", "deleted"}
  BY <1>1 DEF IInv, MailInv, JobsFollowProcessing, MailJobs
<1>3. CASE ReadForMail(s, m)
  <2>1. /\ queued \in jobs /\ UNCHANGED <<row, mails>>
        /\ jobs' = (jobs \ {queued}) \cup (IF s \in Live THEN {read} ELSE {})
    BY <1>3 DEF ReadForMail
  <2>2. s \in Live => row[s] = "processed"
    BY <1>2, <2>1 DEF Live
  <2>. HIDE DEF queued, read
  <2>3. \A t \in Subs : t # s => (Sending(t)' <=> Sending(t))
    BY <1>1, <2>1 DEF Sending
  <2>4. row[s] # "processed" => (Sending(s)' <=> Sending(s))
    BY <1>1, <2>1, <2>2 DEF Sending
  <2>5. DueNow' = DueNow
    BY <2>1, <2>3, <2>4 DEF DueNow
  <2>. QED  BY <2>1, <2>5 DEF Promise!vars, DueNow, Sending
<1>4. CASE SendMail(s, m)
  <2>1. /\ read \in jobs /\ row' = row
        /\ mails' \in {mails, [mails EXCEPT ![s] = @ + 1]}
        /\ \/ jobs' = jobs \ {read} /\ mails' = [mails EXCEPT ![s] = @ + 1]
           \/ jobs' = (jobs \ {read}) \cup {queued}
    BY <1>4 DEF SendMail
  <2>2. mails \in [Subs -> Nat] /\ s \in DueNow /\ row[s] \in {"processed", "deleted"}
    BY <1>1, <1>2, <2>1 DEF IInv, TypeInv, DueNow, Sending
  <2>. HIDE DEF queued, read
  <2>3. \A t \in Subs : t # s => (Sending(t)' <=> Sending(t))
    BY <1>1, <2>1 DEF Sending
  <2>4. DueNow' = DueNow \/ (row[s] = "deleted" /\ DueNow' = DueNow \ {s})
    BY <2>1, <2>2, <2>3 DEF DueNow
  <2>. DEFINE notified == {t \in Subs : mails[t] > 0}
  <2>5. notified' = notified \/ notified' = notified \cup {s}
    BY <2>1, <2>2
  <2>6. CASE notified' = notified \cup {s}
    BY <2>1, <2>2, <2>4, <2>6 DEF Promise!Notify, DueNow, Sending
  <2>7. CASE notified' = notified
    BY <2>1, <2>2, <2>4, <2>7 DEF Promise!Withdraw, Promise!vars, DueNow, Sending
  <2>. QED  BY <2>5, <2>6, <2>7
<1>. QED  BY <1>3, <1>4 DEF MailStep

\* The promise of RestockPromise, without the fairness.
PromisedSteps == Promise!Init /\ [][Promise!Next]_(Promise!vars)

\* The commands of the service, with their transactions, queues, crashes and
\* redeliveries, do what RestockPromise allows: a subscription waits until it is
\* processed or deleted, and an e-mail leaves for one that was processed.
THEOREM StepsKeepPromise == Spec => PromisedSteps
<1>1. Init => Promise!Init
  BY DEF Init, Promise!Init
<1>2. IInv /\ [Next]_vars => [Promise!Next]_(Promise!vars)
  <2>. SUFFICES ASSUME IInv, [Next]_vars
                PROVE  Promise!Next \/ UNCHANGED Promise!vars
    OBVIOUS
  <2>1. ASSUME NEW s \in Subs, CommitSubscription(s)
        PROVE  Promise!Next
    BY <2>1, CommitSubscribes DEF Promise!Next
  <2>2. ASSUME NEW m \in Messages, CommitRestock(m)
        PROVE  Promise!Next
    BY <2>2, CommitRestocks
  <2>3. ASSUME NEW d \in Deletions, CommitDeletion(d)
        PROVE  Promise!Next
    BY <2>3, CommitCancels
  <2>4. ASSUME NEW s \in Subs, NEW m \in Messages, MailStep(s, m)
        PROVE  Promise!Next \/ UNCHANGED Promise!vars
    BY <2>4, MailStepNotifies DEF Promise!Next
  <2>5. CASE UNCHANGED vars
    BY <2>5, PromiseFrame DEF vars, Sending
  <2>6. CASE \E s \in Subs : CreateStep(s) \/ InsertDocument(s)
    BY <2>1, <2>6, QuietSteps DEF CreateStep
  <2>7. CASE \E m \in Messages : Deliver(m) \/ RestockStep(m) \/ RedeliverRestock(m)
    BY <2>2, <2>7, QuietSteps DEF RestockStep
  <2>8. CASE \E d \in Deletions : \/ \E s \in Subs : LoadById(d, s)
                                  \/ \E from, to \in Ends : LoadByTime(d, from, to)
                                  \/ DeletionStep(d)
                                  \/ AbortDeletion(d)
    BY <2>3, <2>8, QuietSteps DEF DeletionStep
  <2>. QED  BY <2>4, <2>5, <2>6, <2>7, <2>8 DEF Next
<1>. QED  BY <1>1, <1>2, RestockSubscriptionsInvariant, PTL DEF Spec, PromisedSteps
=============================================================================

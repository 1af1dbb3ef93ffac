--------------------- MODULE CatalogsAndCustomersProofs ---------------------
(***************************************************************************)
(* Nobody subscribes, answers miss moves only, and each service does what  *)
(* it does alone: for every integer width, every set of requests,          *)
(* quantities, thresholds, subscriptions, addresses and deletions, and     *)
(* any bound on failures.                                                  *)
(***************************************************************************)
EXTENDS CatalogsAndCustomers, ProductStockProofs

\* An answer that the product may have given: legal, with the product's maximum.
OfProduct(a) ==
  a \in Stock /\ IsStock(a) /\ row # NoRow /\ a.maxStockThreshold = row.maxStockThreshold

\* What a query answers, has read or is about to cache is the product's.
AnswersOK ==
  /\ cached # NoRow => OfProduct(cached)
  /\ \A a \in answers : OfProduct(a)

\* Customers as it is before anybody has subscribed.
NothingToDo ==
  /\ creating \in [Subs -> {"idle", "refused"}]
  /\ subscription = [s \in Subs |-> "none"]
  /\ mails = [s \in Subs |-> 0]
  /\ jobs = {}
  /\ restock \in [Requests -> [phase : {"unsent", "queued", "handled"},
                               picked : {{}}, todo : {{}}]]
  /\ deletion = [d \in Deletions |-> Customers!NoDeletion]

SystemInv == IInv /\ AnswersOK /\ NothingToDo

-----------------------------------------------------------------------------

\* Both services start with nothing to do, and no answer cached.
LEMMA SystemInitInv == SystemInit => SystemInv
<1>. SUFFICES ASSUME SystemInit PROVE AnswersOK /\ NothingToDo
  BY InitIInv DEF SystemInit, SystemInv
<1>1. AnswersOK
  BY DEF SystemInit, AnswersOK
<1>2. NothingToDo
  BY DEF SystemInit, NothingToDo, Customers!Init, Customers!NoRestock
<1>. QED  BY <1>1, <1>2

\* Catalogs never answers zero units.
LEMMA NeverOutOfStock == SystemInv => ~OutOfStock
<1>. SUFFICES ASSUME SystemInv, Answer # NoRow PROVE Answer.available > 0
  BY DEF OutOfStock
<1>1. row # NoRow => row.available > 0
  BY DEF SystemInv, IInv, StockWithinBounds, IsStock
<1>2. cached # NoRow => cached.available > 0
  BY DEF SystemInv, AnswersOK, OfProduct, IsStock
<1>. QED  BY <1>1, <1>2 DEF Answer

\* Without an answer of zero units, no step of Customers gets anywhere.
LEMMA CustomersStepInv == SystemInv /\ CustomersStep => NothingToDo'
<1>. SUFFICES ASSUME SystemInv, CustomersStep PROVE NothingToDo'
  OBVIOUS
<1>0. /\ NothingToDo
      /\ ~\E s \in Subs : creating[s] = "idle" /\ creating'[s] = "asked"
  BY NeverOutOfStock DEF SystemInv, CustomersStep
<1>1. /\ Customers!Live = {} /\ Customers!Unprocessed = {}
  BY <1>0 DEF NothingToDo, Customers!Live, Customers!Unprocessed
<1>2. ASSUME NEW s \in Subs, Customers!CreateStep(s) PROVE NothingToDo'
  <2>1. ASSUME NEW e \in Emails, Customers!AskStock(s, e) PROVE NothingToDo'
    BY <1>0, <2>1 DEF NothingToDo, Customers!AskStock
  <2>2. ~(\/ Customers!InsertSubscription(s) \/ Customers!CommitSubscription(s)
          \/ Customers!AbortSubscription(s))
    BY <1>0 DEF NothingToDo, Customers!InsertSubscription, Customers!CommitSubscription,
                Customers!AbortSubscription
  <2>. QED  BY <1>2, <2>1, <2>2 DEF Customers!CreateStep
<1>3. ASSUME NEW s \in Subs
      PROVE  ~Customers!InsertDocument(s) /\ \A m \in Requests : ~Customers!MailStep(s, m)
  BY <1>0 DEF NothingToDo, Customers!InsertDocument, Customers!MailStep,
              Customers!ReadForMail, Customers!SendMail
<1>4. ASSUME NEW m \in Requests,
             Customers!Deliver(m) \/ Customers!Pick(m) \/ Customers!RedeliverRestock(m)
      PROVE  NothingToDo'
  BY <1>0, <1>1, <1>4 DEF NothingToDo, Customers!Deliver, Customers!Pick,
       Customers!RedeliverRestock, Customers!SetRestock, Customers!requests
<1>5. ASSUME NEW m \in Requests
      PROVE  /\ ~Customers!SaveRestock(m) /\ ~Customers!CommitRestock(m)
             /\ \A s \in Subs : ~Customers!MirrorProcessed(m, s) /\ ~Customers!MirrorMissing(m, s)
  BY <1>0 DEF NothingToDo, Customers!SaveRestock, Customers!CommitRestock,
              Customers!MirrorProcessed, Customers!MirrorMissing
<1>6. ASSUME NEW d \in Deletions
      PROVE  /\ \A s \in Subs : ~Customers!LoadById(d, s)
             /\ \A from, to \in Customers!Ends : ~Customers!LoadByTime(d, from, to)
             /\ ~Customers!DeletionStep(d) /\ ~Customers!AbortDeletion(d)
  <2>1. deletion[d].phase = "idle"
    BY <1>0 DEF NothingToDo, Customers!NoDeletion
  <2>. QED
    BY <1>1, <2>1 DEF Customers!LoadById, Customers!LoadByTime, Customers!DeletionStep,
       Customers!SaveDeletion, Customers!MirrorDeleted, Customers!CommitDeletion,
       Customers!AbortDeletion
<1>. QED
  BY <1>2, <1>3, <1>4, <1>5, <1>6 DEF CustomersStep, Customers!Next, Customers!RestockStep

\* Every step of either service, and of the cache, keeps the invariant.
LEMMA SystemStepInv == SystemInv /\ [SystemNext]_allVars => SystemInv'
<1>. SUFFICES ASSUME SystemInv, [SystemNext]_allVars PROVE SystemInv'
  OBVIOUS
<1>1. IInv'
  <2>1. [Next]_vars
    BY DEF SystemNext, allVars, ReadProduct, StoreAnswer, Expire, CatalogsStep, CustomersStep
  <2>. QED  BY <2>1, NextKeepsIInv DEF SystemInv
<1>2. AnswersOK'
  <2>1. [Next]_vars
    BY DEF SystemNext, allVars, ReadProduct, StoreAnswer, Expire, CatalogsStep, CustomersStep
  <2>2. row # NoRow => OfProduct(row)
    BY DEF SystemInv, IInv, TypeOK, StockWithinBounds, OfProduct
  <2>3. \A a : OfProduct(a) => OfProduct(a)'
    BY <2>1, ProductKeepsMaximum DEF SystemInv, OfProduct
  <2>4. /\ cached' \in answers \cup {cached, NoRow}
        /\ answers' \subseteq answers \cup ({row} \ {NoRow})
    BY DEF SystemNext, allVars, queries, ReadProduct, StoreAnswer, Expire, CatalogsStep,
           CustomersStep
  <2>5. ASSUME NEW a \in answers' \cup ({cached'} \ {NoRow})  PROVE OfProduct(a)'
    BY <2>2, <2>3, <2>4 DEF SystemInv, AnswersOK
  <2>. QED  BY <2>5 DEF AnswersOK, OfProduct
<1>3. NothingToDo'
  <2>1. CASE CustomersStep
    BY <2>1, CustomersStepInv
  <2>2. CASE UNCHANGED customers
    BY <2>2 DEF customers, SystemInv, NothingToDo
  <2>. QED
    BY <2>1, <2>2 DEF SystemNext, allVars, ReadProduct, StoreAnswer, Expire, CatalogsStep
<1>. QED  BY <1>1, <1>2, <1>3 DEF SystemInv

\* Whatever the two services do, nobody ever subscribes to the product.
THEOREM NobodyEverSubscribes == SystemSpec => []NobodySubscribes
<1>1. SystemInv => NobodySubscribes
  BY DEF SystemInv, NothingToDo, NobodySubscribes
<1>. QED
  BY <1>1, SystemInitInv, SystemStepInv, PTL DEF SystemSpec

\* Answers go stale, but only as far as debits, replenishments and new restock
\* thresholds go: they stay legal and keep the product's maximum.
THEOREM AnswersOnlyMissMoves == SystemSpec => []AnswersMissMovesOnly
<1>1. SystemInv => AnswersMissMovesOnly
  BY DEF SystemInv, AnswersOK, OfProduct, AnswersMissMovesOnly
<1>. QED
  BY <1>1, SystemInitInv, SystemStepInv, PTL DEF SystemSpec

-----------------------------------------------------------------------------
(* The services do in the composition what they do alone *)

\* Queries, their cache and the messages to Customers add nothing to what the
\* stock of the product may do, so Catalogs still keeps StockPromise.
THEOREM CatalogsIsUndisturbed == SystemSpec => Spec /\ KeepsStockPromise
<1>1. SystemInit => Init
  BY DEF SystemInit
<1>2. [SystemNext]_allVars => [Next]_vars
  BY DEF SystemNext, allVars, ReadProduct, StoreAnswer, Expire, CatalogsStep, CustomersStep
<1>. QED
  BY <1>1, <1>2, TransactionsKeepPromise, PTL DEF SystemSpec, Spec

\* What RestockSubscriptions says of Customers for any messages and any answers
\* of Catalogs holds of it with the messages and answers that there are.
THEOREM CustomersIsUndisturbed == SystemSpec => Customers!Spec
<1>1. SystemInit => Customers!Init
  BY DEF SystemInit
<1>2. [SystemNext]_allVars => [Customers!Next]_(Customers!vars)
  BY DEF SystemNext, allVars, customers, ReadProduct, StoreAnswer, Expire, CatalogsStep,
         CustomersStep, Customers!vars, Customers!requests
<1>. QED
  BY <1>1, <1>2, PTL DEF SystemSpec, Customers!Spec
=============================================================================

------------------------ MODULE CatalogsAndCustomers ------------------------
(***************************************************************************)
(* The Catalogs and Customers services together, on one product.           *)
(* CreateRestockSubscription asks Catalogs for the product over REST, and  *)
(* the ProductStockReplenishedV1 messages of Catalogs' outbox are what     *)
(* makes Customers process subscriptions.  GetProductById answers from the *)
(* response cache when it can, so an answer may be older than the row.     *)
(***************************************************************************)
EXTENDS ProductStock

CONSTANTS Subs, Emails, Deletions, MaxFailures, NoEmail

VARIABLES
  cached,    \* the cached answer of GetProductById, or NoRow
  answers,   \* stocks read by queries that have not stored them yet
  subscription, email, created, occurred, creating, restock, deletion, docs,
  jobs, mails, failures, overlapped     \* of RestockSubscriptions

\* A message is named by the request of Catalogs that published it.
Customers == INSTANCE RestockSubscriptions WITH
  row <- subscription, Messages <- Requests

queries == <<cached, answers>>
customers == <<subscription, email, created, occurred, creating, restock,
               deletion, docs, jobs, mails, failures, overlapped>>
allVars == <<vars, queries, customers>>

SystemInit ==
  /\ Init
  /\ cached = NoRow
  /\ answers = {}
  /\ Customers!Init

-----------------------------------------------------------------------------

\* The handler of a query that missed the cache reads the row.
ReadProduct ==
  /\ cached = NoRow /\ row # NoRow
  /\ answers' = answers \cup {row}
  /\ UNCHANGED <<vars, cached, customers>>

\* CachingBehavior stores the answer, however old it is by now.
StoreAnswer ==
  /\ \E a \in answers : cached' = a /\ answers' = answers \ {a}
  /\ UNCHANGED <<vars, customers>>

Expire ==
  /\ cached # NoRow /\ cached' = NoRow
  /\ UNCHANGED <<vars, answers, customers>>

\* UpdateProduct drops the cached answer when its handler has returned (if the
\* keys that BuildingBlocks composes agree); no other command does.
CatalogsStep ==
  /\ Next
  /\ \/ UNCHANGED cached
     \/ \E r \in Requests : /\ phase[r] = "loaded" /\ phase'[r] = "saved"
                          /\ command[r].op = "update"
                          /\ cached' = NoRow
  /\ UNCHANGED <<answers, customers>>

Answer == IF cached # NoRow THEN cached ELSE row

\* CreateRestockSubscriptionHandler goes on only if the product exists and its
\* AvailableStock is not above zero.
OutOfStock == Answer # NoRow /\ ~(Answer.available > 0)

Published(r) ==
  \E p \in published : p.request = r /\ p.event.type = "ProductStockReplenished"

\* Any step of Customers whose input, if it has one, comes from Catalogs.
CustomersStep ==
  /\ Customers!Next
  /\ (\E s \in Subs : creating[s] = "idle" /\ creating'[s] = "asked") => OutOfStock
  /\ \A r \in Requests :
       restock[r].phase = "unsent" /\ restock'[r].phase = "queued" => Published(r)
  /\ UNCHANGED <<vars, queries>>

SystemNext ==
  ReadProduct \/ StoreAnswer \/ Expire \/ CatalogsStep \/ CustomersStep

SystemSpec == SystemInit /\ [][SystemNext]_allVars

-----------------------------------------------------------------------------

\* Nobody can subscribe to a product: a subscription needs a product with zero
\* units, a debit that would leave zero units is refused by Stock.Of, and so no
\* row, no cached answer and no answer under way ever says zero.  Every
\* replenishment therefore finds nobody to notify.
NobodySubscribes ==
  \A s \in Subs :
    /\ creating[s] \in {"idle", "refused"}
    /\ subscription[s] = "none"
    /\ mails[s] = 0

\* An answer may be older than the row, and UpdateProduct may drop the cached one
\* before its commit, so that a reader stores the old one again; still it is a
\* legal stock of this product, and wrong in its units and its restock threshold
\* at most, for nothing that commits meanwhile can move the maximum.
AnswersMissMovesOnly ==
  \A a \in answers \cup ({cached} \ {NoRow}) :
    IsStock(a) /\ row # NoRow /\ a.maxStockThreshold = row.maxStockThreshold
=============================================================================

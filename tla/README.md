# Verification of food-delivery-microservices

TLA+ models of the services' core logic, checked by TLC on small instances and,
where it matters most, proved by TLAPS for every instance. Paths are relative
to the repository; `Catalogs/` and `Customers/` stand for
`src/Services/<name>/FoodDelivery.Services.<name>/`, and `Spa/` for
`src/UIs/Spa/react-food-delivery/src/`.

## 1. The system

| Component | State | Operations | Talks to |
|---|---|---|---|
| Catalogs, products (`Catalogs/Products`) | PostgreSQL rows of products with an owned `Stock` (available, restock threshold, maximum), `ProductView` rows, cached answers | `CreateProduct`, `UpdateProduct`, `DebitProductStock`, `ReplenishProductStock`, queries | publishes `ProductCreatedV1`, `ProductStockDebitedV1`, `ProductStockReplenishedV1`; answers REST queries |
| Catalogs, categories, brands, suppliers | reference rows, seeded | none that change state; supplier consumers do nothing | - |
| Customers, restock subscriptions (`Customers/RestockSubscriptions`) | PostgreSQL rows (processed, soft-deleted), MongoDB documents that mirror them, commands in the durable local queue | create, process (on `ProductStockReplenishedV1`), send the e-mail, delete by identifier or by time | asks Catalogs over REST; sends e-mails |
| Customers, customers (`Customers/Customers`) | PostgreSQL rows, MongoDB documents | create (HTTP or `UserRegisteredV1`), update | asks Identity over REST |
| Identity | ASP.NET Identity users with a `UserState`, tokens | register, change state, verify e-mail, log in | publishes `UserRegisteredV1`, `UserStateUpdatedV1` |
| Orders | `Order` entity | none; one consumer that does nothing | - |
| Billing, Carts, Checkouts, GroceryStores, Pricing, Recommendations, Restaurants, Reviews, Search, Shippings, Stocks | none | none (stubs) | - |
| Web application (React, `Spa/`) | per browser tab: the mounted page with what it fetched, the calls in flight, `AuthService`'s state, the menu | lists, shows, edits, creates and deletes products; logs in and out, shows the claims | Catalogs and the session, through the gateway and the Spa BFF |
| Spa BFF (Duende) | the session cookie | begins, answers for and ends a session; forwards calls | Identity |
| API gateway, other BFFs, Blazor UI, Aspire host | none of their own | forwarding, configuration; the Blazor pages repeat those of React | all |
| BuildingBlocks (Squirrel), Wolverine | queues, inbox, outbox in PostgreSQL | transaction behaviour, delivery, retries | an empty submodule and libraries: external |

Three mechanisms shape every command:

* **The transaction.** `EfTxBehavior` wraps the handler of an `ITxCommand` in one
  READ COMMITTED transaction (`InfrastructureExtensions.cs`, the pipeline
  registrations). Handlers load entities without locks, change the copies, and
  call `SaveChangesAsync`. No entity has a concurrency token.
* **Events.** Aggregates collect domain events; their handlers run inside the
  transaction. Integration events and internal commands (`ScheduleAsync`) are
  stored by Wolverine in the same transaction and leave after the commit
  (`readme.md`, "Wolverine Transactional Messaging"). Handlers that use
  `SendAsync` run at once, inside the transaction.
* **Read models.** MongoDB is not part of the transaction. What is written to it
  stays when the transaction rolls back.

What is hard: commands on the same row interleave between load and write; the
read side is sometimes written before and sometimes after the commit; messages
are redelivered after crashes; a message can overtake the queued command it
depends on; two clocks stamp a row and its document. In the browser one thread
runs everything, but each call goes on after an `await`: no answer is ever
cancelled, so answers come to pages that have moved on or are gone, several calls
share one loading flag, and two components ask for the session at once.
`PROJECT.json` lists each hazard with its line.

What makes each component correct:

* *Product stock*: the stock stays positive and within its maximum; no unit is
  lost; events and rows agree.
* *Restock subscriptions*: one live subscription per address; a processed
  subscription is notified, once; nobody else is; the read side follows the rows.
* *Product cache and view*: a cached or mirrored product converges to its row.
* *Customers*: one customer per user, address and phone number; every registered
  user becomes one; the read model follows the row; a redelivered
  `UserRegisteredV1` is harmless.
* *Web application*: a page that says it is loading waits for something; the
  screen shows what was asked for last; no form is sent empty or twice; every
  failure is named; menu and logout follow the session.
* *Identity*: the published state of a user is the stored one; a locked user is
  unlocked only by an administrator.

## 2. Modules

| Module | Models | Correspondence |
|---|---|---|
| `ProductAggregate` | `Stock.Of`, the stock methods of `Product`, `ProductEventMapper` | One operator per method for the stock it leaves, and one `Can...` for when it returns instead of throwing. Integers wrap at `MaxInt`. |
| `ProductStock` | one row of `catalog.products` under concurrent commands | `row` is the committed row; a request goes `idle`, `loaded` (copy read), `saved` (row locked by its write), `committed`, or `refused`/`aborted`. `published` is the committed outbox. |
| `StockPromise` | what Catalogs promises about a product's stock, abstractly | `stock` is the row, `served` the committed requests, `told` the units announced with them. |
| `ProductStockProofs` | theorems about `ProductStock`, and it refines `StockPromise` | |
| `RestockPromise` | what a subscriber is promised, abstractly | `status`, who is `due` an e-mail, who was `notified`. |
| `RestockSubscriptions` | the subscriptions of one product in Customers | `row`, `docs` (MongoDB), `jobs` (durable local queue), and one little state machine per create request (`creating`), per message (`restock`) and per delete request (`deletion`). |
| `RestockSubscriptionsProofs` | theorems about `RestockSubscriptions`, and its steps refine `RestockPromise` | |
| `CatalogsAndCustomers` | both services on one product, with the response cache between them | extends `ProductStock`, instantiates `RestockSubscriptions`. A query reads the row (`ReadProduct`) and stores its answer later (`StoreAnswer`); a subscription asks the cache or the row; a `ProductStockReplenishedV1` message exists only when Catalogs published it. |
| `CatalogsAndCustomersProofs` | theorems about both, and each does in the composition what it does alone | |
| `CustomerAccounts` | registration at Identity, `CreateCustomer`, `UpdateCustomer`, and the documents of customers | `user` is what Identity stored, `message` each user's `UserRegisteredV1`; a creation goes `checked` (address not found), `answered` (by Identity), `inserted`; `row`, `docs`, `jobs` as above; `update` holds the copy an update has loaded. |
| `CustomerPromise` | what a registered user is promised, abstractly | `account` is what Identity stored, `customer` the rows, `served` the users whose message is acknowledged. |
| `CustomerAccountsProofs` | theorems about `CustomerAccounts`, and it refines `CustomerPromise` | |
| `ProblemDetails` | what the interceptor of axios makes of a failed call | a failure is a status, whether the response is recognised as problem details, whether its body is an object, and the status it states; `Titled` says whether a title can be found, or the look-up throws. |
| `ProductPages` | the product list, details, edit form and new form | `ui` is the mounted component's state (`useState`), `route` the address; `reads` and `writes` are the calls in flight, `reads` of the mounted page by what they ask for, `writes` with what is in them and whether their page is still mounted. One action per handler up to its `await`, one per answer, one per failure. |
| `SpaSession` | `AuthService`, the menu, the account page, and the BFF's session | `auth` is the service's state, `username` the menu's, `account` the page's; a call of `getUserClaims` is `sent`, then `answered` by the BFF at some moment, then arrives. |
| `Spa` | the tab: both behind one address bar | extends both. The account page opens and closes with the route; a load of the document begins everything anew. |
| `ProductPagesProofs`, `SpaSessionProofs`, `SpaProofs` | theorems about these | |
| `MCProductStock`, `MCRestockSubscriptions`, `MCCatalogsAndCustomers`, `MCCustomerAccounts`, `MCSpa` | symmetry sets, spellings of addresses, failures and scopes, for TLC | |

`ledger`, `overtaken` (ProductStock), `overlapped` (RestockSubscriptions), `unnamed`,
`ui.crossed`, `ui.reused` (ProductPages), `told`, `seen`, `overtaken` (SpaSession) and the
`newest` of a call are history: no guard reads them.

Operators described as what the code would do in another way (`StockReplaced`,
`SaveRestockAfterSend`, ...) are altered forms of the operator that follows them.
No specification uses them; `PROJECT.json` names the property that each one
breaks, which shows that the property depends on that piece of code.

Modelling decisions worth knowing:

* **SaveChanges** writes a column when its value differs from the loaded copy
  (`WriteBack`). That is EF Core's behaviour for the replaced `Stock`, and it is
  why thresholds and units of a row can stem from different transactions.
* **The write takes the row's lock** until commit or abort, so writes are
  serial; loads are not. A write of several rows takes its locks in one step; a
  deadlock that PostgreSQL would break is one of the aborts.
* **CreateProduct** draws a fresh identifier, so two requests never insert the
  row the model looks at.
* **A soft-deleted row** is hidden from every query by the filter that comes with
  `IHaveSoftDelete` (external), so `deleted` is one status and its `Processed`
  is forgotten.
* **The answer of Catalogs** to `CreateRestockSubscription` is arbitrary in
  `RestockSubscriptions`: zero units lets the request continue, anything else
  refuses it. In `CatalogsAndCustomers` it is the cached answer of
  `GetProductById` if there is one, and the row otherwise.
* **The cache** is BuildingBlocks' (external): a missed query reads, then stores,
  with any number of commits in between; entries expire at any time; only
  `UpdateProduct` invalidates. Whether the two keys agree is not in this
  repository, so the invalidation may also do nothing.
* **Times**: `created` and `occurred` are the two stamps, of the row and of the
  command that makes the document. Deletion by time compares the first for
  rows and the second for documents, as the code does.
* **Failures**: aborts, crashes between a handler's effect and its
  acknowledgement, and redeliveries are possible everywhere, `MaxFailures` of
  them in a behaviour. A rollback because the document is missing is not a
  failure: the code does it, as often as it must.
* **Addresses of customers** have spellings, and `Mailbox` is the normalization by
  which Identity compares them. Customers compares what is spelled: in
  `CreateCustomer.cs:60` and in the unique index.
* **A creation** is named by the user whose message causes it, or by the client
  that asks; so is its customer. A message's creation begins again when the message
  comes again. The user's data in Identity does not change after registration.
* **A unique index** makes a writer wait while another transaction has inserted
  the same key and not ended, and fail once it has committed.
* **UpdateCustomer** is an `ICommand`, not an `ITxCommand`, so nothing ties its row to
  the command its event schedules. Whether the event is dispatched at all without
  `EfTxBehavior` is decided in BuildingBlocks (external): both happen.
* **The validator of CreateCustomerRead** (`CreateCustomerRead.cs:67`) asks for a birth
  date that no creation has. `CustomerCreatedHandler` builds the command without it, but the
  mediator's `RequestValidationBehavior` and the validators are registered
  (`InfrastructureExtensions.cs:103`, `:111`). Whether a queued command passes through that
  behaviour is decided in BuildingBlocks (external): then every attempt is refused, although
  `CreateCustomerTests.cs:98` expects the document. So nothing forces `CreateCustomerRead` to
  happen: it has no fairness, and `QueuedUpdateReachesDocument` speaks of customers that
  have a document.
* **E-mail addresses and phone numbers** are those that Identity and Customers both
  accept and that the REST call carries unharmed: `IIdentityRestClientBase.cs:32` puts the address into the
  path as it is, and `Email.Of`, `PhoneNumber.Of` (external) and the validators can
  refuse for good what Identity has taken. Such refusals are not modelled; the liveness of
  `CustomerAccounts` says nothing of users they concern.
* **The switch of the e-mail service** (`SendRestockNotification.cs:44`) is on, as configured
  (`appsettings.json:53`). With it off the command is acknowledged without an e-mail.
* **One page is mounted** at a time. Routes that differ only in the identifier keep
  the component (`app.tsx:18`, `app.tsx:20`), so its state stays and its effect runs
  again; only the details set `loading` then. React ignores a state update of a
  component that is gone: the answers to its reads change nothing, though a failure among
  them is toasted by the interceptor all the same (`Missed` counts the untitled ones when the
  page is left, or when the deletion of a list that is gone reloads it). Its writes are
  kept, for `navigate("/products")` still moves the user and a deletion's failure is
  still toasted.
* **An answer and what follows it** up to the next `await` is one step; so are
  `navigate` and the `finally` after it.
* **StrictMode** (`main.tsx:8`) runs the effects of a new component twice in a
  development build, which is how the Aspire host starts the application
  (`npm run start`, `AppHost.cs:316`). `EffectRuns` and `AskRuns` are 1 or 2; the run
  has 1, the proofs cover both. With 2, the second answer overwrites what was typed
  into the edit form and enables its button during a save: `SavedOnceAtATime` and
  `TypedInputIsSafe` are therefore stated for pages with one read (`OneRead`).
* **The pages' answers from Catalogs** are arbitrary: any number of pages, any failure. That
  covers the Catalogs of today, which has no endpoint to delete a product and maps
  the update to POST (`UpdateProductEndpoint.cs:24`), so that it refuses both.
* **The data of a product** is the product it was fetched for; which of its fields the
  user changed is one bit, `edited`.
* **The session** of the BFF is external: it answers `/bff/user` with the claims or a
  failure, refuses the logout address of another session, may take or refuse the address
  without a session, and comes back to a new document. Claims have a `bff:logout_url` for the
  sessions in `Addressed` and none for the others, which keeps the address there was. It may begin, end or expire in another tab at any time.
* **Documents** are replaced one at a time; `copy` tells duplicates of a
  subscription apart. `FindOneAsync` returns any of them.

## 3. Runs

| Run | Instance | Shows |
|---|---|---|
| `product_stock` | 4 requests, quantities 0, 1, 2, 7, thresholds 2 and 5, 4-bit integers | the properties below: three invariants, two action properties and the refinement of `StockPromise` |
| `product_stock_lost_update` | 3 requests | a lost update (violated) |
| `product_stock_maximum` | 3 requests | a new maximum is dropped (violated) |
| `product_stock_last_unit` | 3 requests | the last units cannot be debited (violated) |
| `restock` | 2 subscriptions, 2 addresses, 2 messages, 1 deletion, 1 failure | six invariants |
| `catalogs_and_customers` | 3 requests, thresholds 2 and 3, 1 subscription, 1 deletion, 1 failure, 4-bit integers | nobody can subscribe, and what a stale answer can be wrong about |
| `restock_promise` | 2 subscriptions, 1 message, 1 deletion, 1 failure, fairness | liveness, and the refinement of `RestockPromise` |
| `restock_duplicate` | 2 subscriptions, no deletion | two live subscriptions of one address (violated) |
| `restock_read_side_early` | 2 subscriptions, 1 message | the document is ahead of the row (violated) |
| `customers` | 2 users, 1 client, 1 update, 2 mailboxes of which one has two spellings, 2 phone numbers, 1 failure, fairness | four invariants, a liveness property and the refinement of `CustomerPromise` |
| `customers_read_model` | 1 user, 1 update, fairness | the update never reaches the document (violated) |
| `spa` | 2 products, 2 pages of the list, 4 failures, 2 reads and 2 writes in flight, 2 sessions of which one has a logout address, 2 questions, 1 load, fairness | twelve invariants and two liveness properties of the tab |

Properties of `ProductStock`:

* `StockWithinBounds`: under any interleaving the row is a legal stock. `Stock.Of`
  only sees copies and the database checks nothing.
* `UnitsKeptUnlessOvertaken`: as long as no debit or replenishment committed over
  a row that had moved since it was loaded, the row equals the sum of the
  commands. Overlapping updates, refusals and aborts do no harm.
* `UnitsMoveAsAnnounced`: whoever adds up the quantities in the events knows the row's
  count of units, as long as nobody was overtaken: no commit moves units unannounced, not
  even an `UpdateProduct` that writes back a stock loaded before the last debit, no request
  announces twice, and the quantity that was computed from a copy is the one the row moves by.
* `PublishedStockIsRowStock`: the stock in an event is that of the row at the
  commit.
* `KeepsStockPromise`: seen from outside, each commit is one step of `StockPromise`. It
  creates the product, moves its units or changes its restock threshold, never two of these,
  although `SaveChanges` writes columns of a copy beside columns of other transactions;
  the maximum stays; and who moves units announces those that the row now has.

Properties of `CatalogsAndCustomers`:

* `NobodySubscribes`: with Catalogs as it is, no request ever gets past the stock
  check, not even on a stale cached answer. All the behaviour that the runs of
  `RestockSubscriptions` examine is reached only when something other than this
  Catalogs answers; the tests' mock does (`CatalogsServiceWireMock.cs:22`).
* `AnswersMissMovesOnly`: an answer can be older than the row for as long as its entry lives,
  and an invalidation before the commit may be undone by a reader; it is still a legal
  stock with the product's maximum, so that only units and restock threshold are stale.

Properties of `RestockSubscriptions`:

* `MailOnlyAfterProcessing`, `ProcessedIsNotified`, `NotifiedOnce`: who gets how
  many e-mails.
* `ReadSideFollowsRows`: a row has a document, or the queued command that makes one.
* `ProcessedIsReported`: the queries report a processed subscription as processed. They
  return nothing of it only when a deletion has marked a document, and they return an
  unprocessed document only beside another one of the same subscription, which takes a crash
  that ran the creating command twice.
* `EveryMessageIsHandled`, `WaitingSubscriberIsServed`: the loop of rollback and
  retry while a document is missing ends, and what it was to do is done.
* `KeepsPromise`: every step of the service is a step of `RestockPromise`, or none,
  and its fairness is kept.

Properties of `CustomerAccounts`:

* `CustomersAreDistinct`: no two customers share a user, an address or a phone
  number, although the check that should see to it runs before the answer of
  Identity, in another transaction than its rival's, and on another spelling.
* `HandledUserIsCustomer`: when Customers acknowledges a message, its user is a
  customer; failures leave the message in the queue.
* `ReadSideFollowsRows`: the customers are those with a document, or with the queued
  command that makes one.
* `RegisteredUserIsServed`: a user with the role User becomes a customer, unless a
  customer holds the user's address or number. Both can be: `UpdateCustomer` takes
  any address, and Identity lets users share a number. Such a user is refused on
  every retry for as long as that lasts.
* `KeepsCustomerPromise`: every step is one of `CustomerPromise`, or none. A user becomes a
  customer at most once and with the contact Identity has, however long ago Identity was
  asked; overlapping updates leave a customer of the same user that shares address and
  number with no other; a user is taken for served only as a customer, or without the
  role User.
* `QueuedUpdateReachesDocument`, which the code violates: a queued update ends in a
  document.

Properties of `ProductPages`:

* `WaitingHasReason`, `WaitingEnds`: a page says "Loading" only while a call is in flight
  that ends it, and it ends. Overlapping calls share the flag, and any of them
  may end it for all.
* `ShowsWhatWasAsked`: once the call for the present page or product has been answered,
  the screen shows that answer or an error, unless an answer to an earlier wish came
  last. Nothing in the code prevents that one exception.
* `EmptyFormIsNeverSent`: the empty product with which the edit form starts is neither
  offered for saving nor on its way to overwrite a product.
* `FormSavesItsProduct`: what the edit form sends goes to the product it was filled from,
  unless the page was reused for another identifier (section 5).
* `SavedOnceAtATime`, `TypedInputIsSafe`: where one read fills the form, it is not sent
  again before the answer, and no answer overwrites what was typed.
* `FailuresAreNamed`: a failure goes unnoticed only if a response came, and its status (the
  one its problem details state, or else that of the reply) is missing in the table of
  defaults, or it is declared problem details by its content type without an object for
  a body. Both throw inside the interceptor, the second already at
  `problem-details-utils.ts:8` or `:13`, so there is no toast and an error without a title.
  A page that is gone counts: its failures are toasted too.
* `PagesTypeOK` is more than types in one place: the page number stays at least 1, though
  the button that lowers it is enabled by an answer for another page.

Properties of `SpaSession`:

* `AskingHasReason`, `AskingEnds`: as for the pages.
* `AuthFollowsNewestAnswer`: when no answer is on its way, the service's state is what
  the BFF said last, unless an older answer overtook the last one.
* `LogoutNamesTheSession`: in a document that has known one session, a logout carries this
  session's address, or none if its claims have none, and the menu shows its user's name or
  none, though a logout clears the claims, and failed or late answers leave address and name in place. With
  two sessions in one document they can be the first one's (`auth-service.ts:73`,
  `nav-menu.tsx:18`): answers without `bff:logout_url` keep the address, and the
  menu asks once.
* `SessionTypeOK` is more than types too: an account page that is gone keeps no state and
  awaits nothing.

**Bounds.** Three requests on a product are enough for a stale copy, a write
between its load and its commit, and a third transaction that supplies another
column; quantity 7 overflows the 4-bit integer and 0 is what the validators
refuse. Two subscriptions and two messages give every overlap of pickings and
of locks; one deletion can fall anywhere in them; one failure suffices to
separate an effect from its acknowledgement. Two users, a client and an update are
two rivals for every index, and a third that moves a row under them; three
spellings give addresses that differ as text only, and ones that differ altogether.
The runs with symmetry check safety only.

`spa` has six scopes (`MCSpa`), each with all the interleavings of a few pages: list and new
form; details and edit form of two products; all three of one product; home and account;
account with loads, logins and logouts; account and edit form with loads. A behaviour
stays in one scope. Every pair of pages that hand state to each other is in one of them,
two reads and two writes give every overlap of two calls, and the product of all would only
add independent steps. `SpaProofs` needs no scopes. The four failures are a 404 that states no
status, a 502 declared problem details with an empty body, a 429, which the table lacks, and
one without a response; the second and the third, which go by untitled, occur in different
scopes. The inductive invariant of the pages was
checked in the same way with `EffectRuns = 2` and three reads before it was proved.

**Fairness.** `RestockSubscriptions` is weakly fair to the queued messages and
commands: Wolverine stores and retries them until their handlers return
(`readme.md:142`, `readme.md:153`; `ProductStockReplenishedConsumer.cs:19`), and
to the delete requests in progress, which hold locks and which a server thread
runs to their end. Clients need not send requests, Catalogs need not send
messages, and a failure never has to happen. `CustomerAccounts` is fair in the same
way to each user's message, to each creation that has begun, and to the queued updates of
documents. A retry limit that moves a message
to a dead-letter queue would void the leads-to properties. `Spa` is weakly fair to the
calls in flight: axios sets no timeout of its own (`axios-utils.ts:19`), but the gateway and
the BFF, both YARP proxies, answer for a service that does not, and the browser fails a
broken connection. The user need not do anything.

## 4. Proofs

`ProductStockProofs` proves, for every `MaxInt`, any set of requests and any
quantities and thresholds within the integer width:

* `TypeCorrect`: `Spec => []TypeOK`
* `StockAlwaysWithinBounds`: `Spec => []StockWithinBounds`
* `UnitsAreKept`: `Spec => []UnitsKeptUnlessOvertaken`
* `AnnouncementsAddUp`: `Spec => UnitsMoveAsAnnounced`
* `EventsTellTheRow`: `Spec => PublishedStockIsRowStock`
* `TransactionsKeepPromise`: `Spec => KeepsStockPromise`

They rest on the assumptions the modules name (`MaxInt` positive, quantities and
thresholds are integers of that width, `NoRow` is no stock) and on one
inductive invariant, `IInv`. `StockWithinBounds` is not inductive: when a request
commits, the row mixes columns of its own copy with columns of the row now. The
invariant adds what makes the mixture legal: every copy that was loaded is
itself legal, nothing ever changes the maximum, so every copy and the row
agree on it, and a request that is past its write was accepted by the aggregate
on its copy. The lemmas `DebitRemovesQuantity` and `ReplenishAddsQuantity` take the
wrapping integers out of the argument: a debit or replenishment that is
accepted did not wrap. `WriteBackKeepsStock` is the step for the mixture; it also says by how
much the units of the row move, which is what `AnnouncementsAddUp` sums up. Each
action has a lemma of its own, and the theorems combine them.

In the refinement a request is served when it commits. A commit is `Create`, `Move` or
`Adjust` by the kind of its command; loads, writes that hold their lock, refusals and
aborts stutter. That a `Move` leaves the thresholds alone and an `Adjust` the units is what
`WriteBack` gives for a copy that agrees with its result there (`MoveKeepsThreshold`); that
the result is legal is `WriteBackKeepsStock` again; and `CommitTells` says that the
announced units are those of the row. `StockPromise` has no fairness, so nothing of the
refinement is left to TLC.

`RestockSubscriptionsProofs` proves, for any finite set of subscriptions, any addresses,
messages and deletions, and any bound on failures:

* `TypeCorrect`: `Spec => []TypeOK`
* `NobodyIsMailedEarly`: `Spec => []MailOnlyAfterProcessing`
* `NobodyIsForgotten`: `Spec => []ProcessedIsNotified`
* `ReadSideIsComplete`: `Spec => []ReadSideFollowsRows`
* `OneMailEach`: `Spec => []NotifiedOnce`
* `ProcessedRowsAreReported`: `Spec => []ProcessedIsReported`
* `StepsKeepPromise`: every step of the service is a step of `RestockPromise` or a stutter

The assumptions are `FiniteAssumption` (requests are finitely many, so that the clock of
their stamps stays below `MaxTime`) and `MaxFailuresAssumption`. The six invariants are not
inductive; `IInv` adds

* of the rows, that a request has a row if and only if it is committed (`RequestsOK`), and that what a
  handler or a deletion has loaded is a row still (`LoadedIsRow`);
* of the e-mails, that a command that sends one was committed with the processed row
  (`JobsFollowProcessing`), that what one handler alone has picked was not notified yet
  (`PickedIsUnnotified`), and that without a failure a command and its e-mail exclude each
  other (`OneMailJob`);
* of the read side, that the copies of a document are numbered without a gap, one for
  each failure and one more (`DocumentsNumbered`), that what a deletion has read has a document
  with its key still (`CopiesOfDocuments`), and that a notification about to commit has
  mirrored all it will process (`MirroredBeforeCommit`), so that a processed row has a document
  that says so or is marked deleted (`ProcessedIsMirrored`). `ProcessedIsReported` follows with
  what hides a document: a deletion that has begun to write or has ended (`HiddenByDeletion`).

`MailFrame` and `ReadSideFrame` say which steps leave e-mails and read side in order; each
handler then only has to show what it does change. In the refinement, commits are the
steps of the promise (`Subscribe`, `Restock`, `Cancel`), an e-mail is `Notify`, a command that
finds its row deleted is `Withdraw`, and everything else stutters.

`CatalogsAndCustomersProofs` proves `NobodyEverSubscribes`
(`SystemSpec => []NobodySubscribes`) for any number of requests, subscriptions,
addresses, deletions and failures. Its invariant adds two parts to `IInv`: every
cached answer and every answer under way is a legal stock (`AnswersOK`), and
Customers has nothing to do: no row, no queued command, no picked subscription
(`NothingToDo`). `StockWithinBounds` gives that no answer says zero; each step of
Customers then only moves a message or a deletion that finds nothing. `AnswersOK` also says
that an answer has the maximum of the row, which gives

* `AnswersOnlyMissMoves`: `SystemSpec => []AnswersMissMovesOnly`

and it is kept because no step changes the maximum of a product (`ProductKeepsMaximum`).
That is not argued from the handlers a second time: it follows from `NextKeepsPromise`, since
no action of `StockPromise` changes it. `CatalogsIsUndisturbed`
(`SystemSpec => Spec /\ KeepsStockPromise`) and `CustomersIsUndisturbed`
(`SystemSpec => Customers!Spec`) say that each service does in the composition what it does
alone, so that the theorems about it hold there too.

`CustomerAccountsProofs` proves, for any finite or infinite sets of users, clients,
updates, addresses and numbers and any normalization of addresses:

* `AccountsTypeCorrect`: `Spec => []TypeOK`
* `CustomersStayDistinct`: `Spec => []CustomersAreDistinct`
* `AcknowledgedUserIsCustomer`: `Spec => []HandledUserIsCustomer`
* `DocumentsFollowCustomers`: `Spec => []ReadSideFollowsRows`
* `CustomersKeepPromise`: `Spec => KeepsCustomerPromise`

The assumptions are that users and clients are different names and that `NoUser` and
`NoRow` name nothing else. `CustomersAreDistinct` is not inductive: at its commit a
transaction looks at nothing. Its invariant `IInv` says of rows inserted and not
yet committed that they conflict with no committed row and with no other of their
kind (`InsertedFit`), that a creation only carries a registered user
(`CreationsOK`), and that what an update has loaded is a customer still
(`LoadedExists`). `HandledUserIsCustomer` needs in addition that a creation for a
message got the user of that message from Identity: users differ in
their mailboxes (`MailboxesAreDistinct`), by which Identity finds them.

In the refinement the commit of a creation is `Join`: the row was built from the user's
account when Identity answered, the account has not changed since, and `InsertedFit` says that
nobody has taken the user, the address or the number in the meantime. The save of an
update is `Change`, for the columns it does not write are those of the row and the index has
looked at the result (`SaveCustomerChanges`). A message of a user without the role User is `Excuse`;
a creation that fails stutters, and its message stays.

`ProductPagesProofs`, `SpaSessionProofs` and `SpaProofs` prove, for any products, numbers of
pages, failures, sessions, bounds on the calls, loads and links of the history, and for one or
two runs of an effect, the twelve invariants of the run `spa`: each of its component
(`PagesSpec`, `SessionSpec`), and all of the application (`SpaIsCorrect`). The two
specifications are what the application implements: `PagesOfSpa` (`Spec => PagesSpec`) and
`SessionOfSpa` (`Spec => SessionSpec`) map every step to a step or a stutter, so a theorem
of a part is one of the whole.

* `PagesIInv` adds to the invariants: reads are in flight only of a page that fetches and are
  of its kind (`ReadsFit`); live writes are of the page that is mounted (`LiveWritesFit`);
  an edit form that is not loading holds a product or an error (`FormIsFilled`), so that
  what it sends is filled (`FilledIsSent`); with one read of a form, loading and the read
  or the save are in step (`OneReadOfForm`); and until the page is reused, the product on the
  screen, the reads in flight and the form on its way are all of the product in the address
  (`FormIsOfRoute`), from which `FormSavesItsProduct` follows. Type correctness alone already
  needs `ReadsFit`: an answer becomes the product or the page on the screen.
* `SessionIInv` adds, among others, that a call in flight carries a session that was seen
  since the document was loaded (`KnownIsSeen`), that the logout address is of a session
  seen, and of the one the service knows if that has one (`AddressIsKnown`), and that
  the newest answer in flight is what the BFF said last (`NewestIsTold`).
* `FailuresAreNamed` rests on `UntitledIsResponse`: without a response nothing is recognised
  as problem details, the status is 500, and the table has it. `UnseenAreNamed` and
  `MissedAreNamed` carry it to the failures of pages that are mounted and of pages that are gone.

Only model-checked: the liveness properties (`RegisteredUserIsServed`,
`EveryMessageIsHandled`, `WaitingSubscriberIsServed`, `WaitingEnds`, `AskingEnds`) and the refinement
`KeepsPromise` with its fairness (liveness and ENABLED are beyond the prover; `StepsKeepPromise`
proves the rest of it).

## 5. Where code and claims disagree

`PROJECT.json` has the findings with the quoted lines. In short: concurrent debits
and replenishments lose updates; `ChangeMaxStockThreshold` ignores its
parameter; the last units of a product cannot be debited, so that no product
ever has the zero units a restock subscription requires; two subscriptions of
one address pass a check that nothing backs; the read model is updated
inside the transaction that the documentation says it follows; and the update of a
customer never reaches its document, because its command searches a random
identifier.

Of the web application, seen while modelling and not in that list:

* `problem-details-utils.ts:13` says "Apply defaults if available", but the look-up throws
  when they are not (`FailuresAreNamed` states what remains true).
* `UserSession`'s error branch (`user-session.tsx:23`) is dead: `getUserClaims` never rejects,
  so a failure shows an empty table.
* The list, the details and the edit form hide everything behind an error. The error of
  details and edit form is not reset when the identifier changes, and that of a failed
  deletion hides the whole list.
* Going back from one edit form to another shows the first product's form under the second
  one's address until the answer comes, and it can be sent. This is the only way in which one
  product's data reach another (`FormSavesItsProduct`).
* A save that is answered after its page was left takes the user to the list all the same.
* A question in flight during a logout can show the user as logged in again until the
  document is gone.
* The pages expect `stock`, `status` and `productType`; the `ProductDto` of Catalogs calls the first
  two `AvailableStock` and `ProductStatus`.

## 6. Not modelled, and why

* **The `ProductView` row** has one writer, `ProductCreated`, since nothing raises
  `ProductUpdated`: no interleaving changes what a reader sees.
* **State changes and e-mail verification in Identity** load, change and store a user with
  the `UserManager` of ASP.NET Identity, whose concurrency stamps decide what overlapping
  requests give and are outside this repository. Tokens and login are kept by IdentityServer.
* **Freshness of the cache**: no document or test says how old an answer may be; the effect
  of stale answers on subscriptions is in `CatalogsAndCustomers`, and `AnswersMissMovesOnly`
  says in what an answer can be wrong.
* Of `CustomerAccounts` are left out: names, postal address, birth date, nationality, and the
  events `CustomerCreatedV1` and `CustomerUpdatedV1`, which no service consumes.
* Of the web application are left out: `getDiagnostics` and `searchProducts`, which nothing calls,
  the collapsed menu, the required fields of the forms (the browser checks them), styling
  and texts. The Blazor application repeats the same pages on the server.
* The stub services, the gateway and the other BFFs, the Aspire host and the deployment files have no
  state of their own or no behaviour; queries without a cache are pure reads; seeding and
  wording of messages say nothing a property is about.

---------------------------- MODULE ProductPages ----------------------------
(***************************************************************************)
(* The product pages of the single-page application: the list with its     *)
(* pagination and its delete buttons, the details, and the forms that edit *)
(* and create a product.                                                   *)
(*                                                                         *)
(* One page is mounted at a time, with its state in ui.  A page calls the  *)
(* catalogue and goes on; the answers come in any order, and nothing is    *)
(* cancelled: not when the user asks for something else, and not when the  *)
(* page is left.  React ignores the state updates of a page that is gone,  *)
(* but what an answer does besides, it still does.  Two routes that differ *)
(* only in the identifier share the mounted page.                          *)
(***************************************************************************)
EXTENDS Naturals, Functions, ProblemDetails

CONSTANTS
  Products,      \* identifiers of products
  NoProduct,
  MaxPages,      \* the list has at most this many pages
  Failures,      \* how a call may fail
  EffectRuns,    \* runs of an effect when a page mounts: 2 under StrictMode
  MaxReads,      \* bound on reads in flight
  MaxWrites      \* bound on writes in flight

ASSUME MaxPagesAssumption == MaxPages \in Nat \ {0}

ASSUME NoProductAssumption == NoProduct \notin Products

ASSUME FailuresAssumption == Failures \subseteq Failure

ASSUME EffectRunsAssumption == EffectRuns \in {1, 2}

ASSUME BoundsAssumption == MaxReads \in Nat /\ MaxWrites \in Nat

Pages == 1 .. MaxPages

Route ==
  [name : {"home", "account", "products", "new"}, id : {NoProduct}]
    \cup [name : {"details", "edit"}, id : Products]

At(name) == [name |-> name, id |-> NoProduct]

\* What a mounted page can have asked for: a page of the list, or a product.
Wishes == Pages \cup Products

\* A delete keeps the page number it was clicked on; an update has the product
\* in the address and the one the form was filled from.  A write is live while
\* the page that sent it is mounted.
Write ==
  [op : {"delete"}, page : Pages, live : BOOLEAN]
    \cup [op : {"update"}, id : Products, data : Products \cup {NoProduct},
          live : BOOLEAN]
    \cup [op : {"create"}, live : BOOLEAN]

VARIABLES
  route,    \* what the address bar shows
  ui,       \* state of the mounted page
  reads,    \* reads in flight of the mounted page, by what they ask for
  writes,   \* writes in flight, of the mounted page and of pages that are gone
  unnamed   \* history: failures whose title the user was never shown

pageVars == <<route, ui, reads, writes, unnamed>>

\* The state of each page; crossed and reused are history.  list.no = 0 before
\* an answer has come.  crossed: an answer to an earlier wish than the present
\* one came when no answer to the present one was due, or is about to.  reused:
\* the page has served more than one identifier.
UI ==
  [loading : BOOLEAN, error : {"none", "message", "blank"}, page : Pages,
   list : [no : 0 .. MaxPages, of : 0 .. MaxPages],
   product : Products \cup {NoProduct}, edited : BOOLEAN,
   crossed : BOOLEAN, reused : BOOLEAN]

PagesTypeOK ==
  /\ route \in Route
  /\ ui \in UI
  /\ reads \in [Wishes -> Nat]
  /\ writes \in [Write -> Nat]
  /\ unnamed \subseteq Failures
-----------------------------------------------------------------------------
\* What is on the screen.

Gated(content) ==
  IF ui.loading THEN "loading" ELSE IF ui.error # "none" THEN "error" ELSE content

ListView == Gated(IF ui.list.no \in 1 .. ui.list.of THEN "rows" ELSE "empty")

DetailsView == Gated(IF ui.product = NoProduct THEN "not found" ELSE "product")

EditViewWithoutError == IF ui.loading THEN "loading" ELSE "form"

EditView == Gated("form")

\* The form for a new product is always there; its button waits for the answer.
CanCreate == ~ui.loading

\* The buttons below the list are enabled by the answer, not by the page number.
Paginated(allowed) ==
  ListView \in {"rows", "empty"} /\ ui.list.of > 1 /\ allowed

HomeLinks == {At("products")}

\* The links of the page itself.
PageLinks ==
  CASE route.name = "home" -> HomeLinks
    [] route.name = "products" /\ ListView = "empty" -> {At("new")}
    [] route.name = "products" /\ ListView = "rows" ->
         {At("new")} \cup [name : {"details", "edit"}, id : Products]
    [] route.name = "details" /\ DetailsView = "product" ->
         {[name |-> "edit", id |-> ui.product]}
    [] OTHER -> {}
-----------------------------------------------------------------------------
\* Mounting and leaving pages.

Fetches == {"products", "details", "edit"}

FreshUIWithForm(r) ==
  [loading |-> r.name \in {"products", "details"}, error |-> "none", page |-> 1,
   list |-> [no |-> 0, of |-> 0], product |-> NoProduct, edited |-> FALSE,
   crossed |-> FALSE, reused |-> FALSE]

FreshUI(r) ==
  [loading |-> r.name \in Fetches, error |-> "none", page |-> 1,
   list |-> [no |-> 0, of |-> 0], product |-> NoProduct, edited |-> FALSE,
   crossed |-> FALSE, reused |-> FALSE]

\* The wish of the mounted page.
Wish(r, u) == IF r.name = "products" THEN u.page ELSE r.id

FirstReads(r) ==
  [w \in Wishes |->
     IF r.name \in Fetches /\ w = Wish(r, FreshUI(r)) THEN EffectRuns ELSE 0]

\* The answers to these writes will find the page gone.
Orphaned(ws) ==
  [c \in Write |-> IF c.live THEN 0 ELSE ws[c] + ws[[c EXCEPT !.live = TRUE]]]

\* The answers to the page before come to this one: state outside the component.
MountKeepingReads(r, ws) ==
  /\ route' = r
  /\ ui' = FreshUI(r)
  /\ reads' = [w \in Wishes |-> reads[w] + FirstReads(r)[w]]
  /\ writes' = Orphaned(ws)

Mount(r, ws) ==
  /\ route' = r
  /\ ui' = FreshUI(r)
  /\ reads' = FirstReads(r)
  /\ writes' = Orphaned(ws)

Read(w) == SumFunction(reads) < MaxReads /\ reads' = [reads EXCEPT ![w] = @ + 1]

ReuseWithoutRead(r, ws) ==
  /\ route' = r
  /\ ui' = [ui EXCEPT !.crossed = FALSE, !.reused = TRUE]
  /\ writes' = ws
  /\ UNCHANGED reads

\* Another identifier in the same page: its effect runs again, and only the
\* details show that they are loading.
Reuse(r, ws) ==
  /\ route' = r
  /\ ui' = [ui EXCEPT !.loading = ui.loading \/ r.name = "details",
                      !.crossed = FALSE, !.reused = TRUE]
  /\ Read(r.id)
  /\ writes' = ws

ReadsInFlight == {w \in Wishes : reads[w] > 0}

WritesInFlight == {c \in Write : writes[c] > 0}

\* Reads whose page is gone may fail too, and nobody then sees a failure without
\* a title.  It is counted when the read loses its page.
Missed == \E fs \in SUBSET {f \in Failures : ~Toasted(f)} : unnamed' = unnamed \cup fs

\* navigate, with ws the writes that remain in flight.
Navigate(r, ws) ==
  \/ r = route /\ writes' = ws /\ UNCHANGED <<route, ui, reads, unnamed>>
  \/ r # route /\ r.name = route.name /\ Reuse(r, ws) /\ UNCHANGED unnamed
  \/ /\ r.name # route.name /\ Mount(r, ws)
     /\ IF ReadsInFlight = {} THEN UNCHANGED unnamed ELSE Missed

PagesInit ==
  /\ route \in Route
  /\ ui = FreshUI(route)
  /\ reads = FirstReads(route)
  /\ writes = [c \in Write |-> 0]
  /\ unnamed = {}

\* The user follows a link, or goes to an entry of the tab's history.
GoTo(r) == r # route /\ Navigate(r, writes)

\* The document is loaded anew: nothing of the old one remains.
LoadPages(r) ==
  /\ route' = r
  /\ ui' = FreshUI(r)
  /\ reads' = FirstReads(r)
  /\ writes' = [c \in Write |-> 0]
  /\ unnamed' = {}

-----------------------------------------------------------------------------
\* Reads.

\* An answer to w is applied though the page wants something else, for which no
\* answer will come any more.
Late(w) == w # Wish(route, ui) /\ reads[Wish(route, ui)] = 0

ReadEnds(w) ==
  /\ reads' = [reads EXCEPT ![w] = @ - 1]
  /\ UNCHANGED <<route, writes>>

Shown(w, content, error) ==
  ui' = [content EXCEPT !.loading = FALSE, !.error = error,
                        !.crossed = w # Wish(route, ui) /\ (ui.crossed \/ Late(w))]

\* loadProducts, after its await.
ListAnswered(w, pages) ==
  /\ route.name = "products"
  /\ ReadEnds(w)
  /\ Shown(w, [ui EXCEPT !.list = [no |-> w, of |-> pages]], ui.error)
  /\ UNCHANGED unnamed

DetailsAnswered(w) ==
  /\ route.name = "details"
  /\ ReadEnds(w)
  /\ Shown(w, [ui EXCEPT !.product = w], ui.error)
  /\ UNCHANGED unnamed

\* fetchProduct, after its await: the form is filled again, whatever is in it.
EditAnswered(w) ==
  /\ route.name = "edit"
  /\ ReadEnds(w)
  /\ Shown(w, [ui EXCEPT !.product = w, !.edited = FALSE], ui.error)
  /\ UNCHANGED unnamed

\* The user sees no title of the failure: neither in a toast nor on the page.
Unseen(f, error) ==
  unnamed' = IF Toasted(f) \/ error = "message" THEN unnamed ELSE unnamed \cup {f}

ReadFailsStillLoading(w, f) ==
  /\ route.name \in Fetches
  /\ ReadEnds(w)
  /\ ui' = [ui EXCEPT !.error = CallerError(f)]
  /\ Unseen(f, CallerError(f))

\* The list and the details show the title of the problem, the edit form a text
\* of its own.
ReadFails(w, f) ==
  LET error == IF route.name = "edit" THEN "message" ELSE CallerError(f)
  IN  /\ route.name \in Fetches
      /\ ReadEnds(w)
      /\ Shown(w, ui, error)
      /\ Unseen(f, error)
-----------------------------------------------------------------------------
\* The list: pagination and deletion.

\* setPage, and the effect that it triggers.
ShowPage(n) ==
  /\ ui' = [ui EXCEPT !.page = n, !.loading = TRUE, !.crossed = FALSE]
  /\ Read(n)
  /\ UNCHANGED <<route, writes, unnamed>>

NextPage ==
  /\ route.name = "products" /\ Paginated(ui.list.no < ui.list.of)
  /\ ui.page < ui.list.of
  /\ ShowPage(ui.page + 1)

PreviousPageOfAnswer ==
  /\ route.name = "products" /\ Paginated(ui.list.no > 1)
  /\ ShowPage(ui.page - 1)

PreviousPage ==
  /\ route.name = "products" /\ Paginated(ui.list.no > 1)
  /\ ui.page > 1
  /\ ShowPage(ui.page - 1)

Send(c) ==
  /\ SumFunction(writes) < MaxWrites
  /\ writes' = [writes EXCEPT ![c] = @ + 1]

\* handleDelete, up to its await: the list stays as it is.
Delete ==
  /\ route.name = "products" /\ ListView = "rows"
  /\ Send([op |-> "delete", page |-> ui.page, live |-> TRUE])
  /\ UNCHANGED <<route, ui, reads, unnamed>>

Without(c) == [writes EXCEPT ![c] = @ - 1]

\* handleDelete loads the page it was clicked on, which may no longer be the
\* page the user is at, also when the list is gone.
DeleteAnswered(c) ==
  /\ c.op = "delete"
  /\ writes' = Without(c)
  /\ \/ /\ c.live
        /\ ui' = [ui EXCEPT !.loading = TRUE, !.error = "none",
                            !.crossed = @ \/ c.page # ui.page]
        /\ Read(c.page)
        /\ UNCHANGED unnamed
     \/ ~c.live /\ UNCHANGED <<ui, reads>> /\ Missed
  /\ UNCHANGED route

DeleteFails(c, f) ==
  /\ c.op = "delete"
  /\ writes' = Without(c)
  /\ ui' = IF c.live THEN [ui EXCEPT !.error = CallerError(f)] ELSE ui
  /\ Unseen(f, IF c.live THEN CallerError(f) ELSE "none")
  /\ UNCHANGED <<route, reads>>
-----------------------------------------------------------------------------
\* The forms.

SubmitKeepingButton(c) ==
  /\ Send(c)
  /\ ui' = [ui EXCEPT !.error = "none"]
  /\ UNCHANGED <<route, reads, unnamed>>

\* handleSubmit of both forms, up to its await.
Submit(c) ==
  /\ Send(c)
  /\ ui' = [ui EXCEPT !.loading = TRUE, !.error = "none"]
  /\ UNCHANGED <<route, reads, unnamed>>

SubmitEdit ==
  /\ route.name = "edit" /\ EditView = "form"
  /\ Submit([op |-> "update", id |-> route.id, data |-> ui.product, live |-> TRUE])

SubmitNew ==
  /\ route.name = "new" /\ CanCreate
  /\ Submit([op |-> "create", live |-> TRUE])

\* handleChange
Type ==
  /\ \/ route.name = "new"
     \/ route.name = "edit" /\ EditView = "form"
  /\ ui' = [ui EXCEPT !.edited = TRUE]
  /\ UNCHANGED <<route, reads, writes, unnamed>>

\* A saved form leads to the list, from wherever the user is by now.
SaveAnswered(c) ==
  /\ c.op \in {"update", "create"}
  /\ Navigate(At("products"), Without(c))

SaveFailsStillLoading(c, f) ==
  /\ c.op \in {"update", "create"}
  /\ writes' = Without(c)
  /\ ui' = IF c.live THEN [ui EXCEPT !.error = "message"] ELSE ui
  /\ Unseen(f, IF c.live THEN "message" ELSE "none")
  /\ UNCHANGED <<route, reads>>

\* Both forms show a text, though not the title; that is in the toast.
SaveFails(c, f) ==
  /\ c.op \in {"update", "create"}
  /\ writes' = Without(c)
  /\ ui' = IF c.live THEN [ui EXCEPT !.loading = FALSE, !.error = "message"] ELSE ui
  /\ Unseen(f, IF c.live THEN "message" ELSE "none")
  /\ UNCHANGED <<route, reads>>
-----------------------------------------------------------------------------
ReadEnded ==
  \E w \in ReadsInFlight :
    \/ w \in Pages /\ \E pages \in 0 .. MaxPages : ListAnswered(w, pages)
    \/ DetailsAnswered(w)
    \/ EditAnswered(w)
    \/ \E f \in Failures : ReadFails(w, f)

WriteEnded ==
  \E c \in WritesInFlight :
    \/ DeleteAnswered(c)
    \/ SaveAnswered(c)
    \/ \E f \in Failures : DeleteFails(c, f) \/ SaveFails(c, f)

Answered == ReadEnded \/ WriteEnded

UserActs == NextPage \/ PreviousPage \/ Delete \/ SubmitEdit \/ SubmitNew \/ Type

PagesNext ==
  \/ Answered
  \/ UserActs
  \/ \E r \in Route : GoTo(r) \/ LoadPages(r)

PagesSpec == PagesInit /\ [][PagesNext]_pageVars

-----------------------------------------------------------------------------
LiveSaves == {c \in WritesInFlight : c.op \in {"update", "create"} /\ c.live}

\* A page that says it is loading waits for an answer that will end it: each of
\* the overlapping calls ends the waiting of all, and none may leave the page
\* waiting for nothing.
WaitingHasReason ==
  ui.loading => ReadsInFlight # {} \/ LiveSaves # {}

\* The page of the list or the product on the screen is the one the user asked
\* for last, once its answer has come, unless answers to earlier wishes came after
\* it.  (Nothing cancels a read, and a deletion reloads the page on which it was
\* clicked.)
ShowsWhatWasAsked ==
  LET wish  == Wish(route, ui)
      shown == IF route.name = "products" THEN ui.list.no ELSE ui.product
  IN  route.name \in Fetches /\ wish \notin ReadsInFlight /\ ~ui.crossed
        => ui.error # "none" \/ shown = wish

\* The form begins with an empty product and is filled by the answer; the empty
\* product is never offered for saving nor sent over an existing one, in no
\* order of answers, identifiers and submissions.
EmptyFormIsNeverSent ==
  /\ route.name = "edit" /\ EditView = "form" => ui.product # NoProduct
  /\ \A c \in WritesInFlight : c.op = "update" => c.data # NoProduct

\* A failure goes by without a title in a toast or a text on the page only if
\* there was a response and
\*   - it is declared problem details, and its body is no object, or
\*   - the table of defaults misses the status that the problem details in the
\*     body state, or else the status of the response.
\* The title is made in the interceptor, shown there, and shown again by a page
\* that may be gone.
FailuresAreNamed ==
  LET stated(f) == IF f.problem /\ f.ownStatus # None THEN f.ownStatus ELSE f.status
  IN  \A f \in unnamed :
        /\ f.status # None
        /\ (f.problem /\ f.body = "other") \/ stated(f) \notin KnownStatuses

\* A form is saved under the identifier of the product it was filled from, unless
\* the page was reused: then the form of the first identifier is shown under the
\* second, and can be sent, until the answer comes.
FormSavesItsProduct ==
  ~ui.reused => \A c \in LiveSaves : c.op = "update" => c.data = c.id

\* No answer comes to the page but the one it was mounted for.
OneRead == EffectRuns = 1 /\ ~ui.reused

\* A form is not sent a second time while the first answer is awaited: nothing
\* else ends the waiting.  (In the edit form another read does.)
SavedOnceAtATime ==
  OneRead =>
    /\ \A c \in LiveSaves : writes[c] = 1 /\ ui.loading
    /\ \A c, d \in LiveSaves : c = d

\* What the user types into the edit form is not overwritten by an answer.
TypedInputIsSafe ==
  OneRead /\ route.name = "edit" /\ ui.edited => ReadsInFlight = {}

\* A page ends its waiting.
WaitingEnds == ui.loading ~> ~ui.loading
=============================================================================

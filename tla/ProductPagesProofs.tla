------------------------- MODULE ProductPagesProofs -------------------------
(***************************************************************************)
(* Theorems about ProductPages: for any products, any number of pages, any *)
(* failures, with effects that run once or twice, and any number of calls  *)
(* in flight.                                                              *)
(***************************************************************************)
EXTENDS ProductPages, TLAPS

\* A page only waits for answers it can use.
ReadsFit ==
  \A w \in ReadsInFlight :
    \/ route.name = "products" /\ w \in Pages
    \/ route.name \in {"details", "edit"} /\ w \in Products

\* A write is live on the page that sends such writes.
LiveWritesFit ==
  \A c \in WritesInFlight : c.live =>
    /\ c.op = "delete" => route.name = "products"
    /\ c.op = "update" => route.name = "edit"
    /\ c.op = "create" => route.name = "new"

\* The edit form without a product is not shown.
FormIsFilled ==
  route.name = "edit" /\ ui.product = NoProduct => ui.loading \/ ui.error # "none"

FilledIsSent ==
  \A c \in WritesInFlight : c.op = "update" => c.data # NoProduct

\* The only read of the edit form comes before anything is typed or sent.
OneReadOfForm ==
  OneRead /\ route.name = "edit" =>
    \A w \in ReadsInFlight :
      /\ w = route.id /\ reads[w] = 1
      /\ ui.loading /\ ~ui.edited
      /\ LiveSaves = {}

\* Until the edit page is reused, what it waits for, shows and sends is the
\* product of its address.
FormIsOfRoute ==
  ~ui.reused /\ route.name = "edit" =>
    /\ ReadsInFlight \subseteq {route.id}
    /\ ui.product \in {route.id, NoProduct}
    /\ \A c \in LiveSaves : c.op = "update" => c.id = route.id /\ c.data = route.id

PagesIInv ==
  /\ PagesTypeOK
  /\ ReadsFit
  /\ LiveWritesFit
  /\ WaitingHasReason
  /\ ShowsWhatWasAsked
  /\ FormIsFilled
  /\ FilledIsSent
  /\ FailuresAreNamed
  /\ OneReadOfForm
  /\ SavedOnceAtATime
  /\ FormIsOfRoute

-----------------------------------------------------------------------------
(* Failures and writes *)

\* A failure to which a response came, of which no title can be made.
Untitleable(f) ==
  LET stated == IF f.problem /\ f.ownStatus # None THEN f.ownStatus ELSE f.status
  IN  f.status # None /\ ((f.problem /\ f.body = "other") \/ stated \notin KnownStatuses)

\* applyDefaults throws only for a response whose body is declared a problem and
\* is no object, or whose body's status, or else its own, is not in the table.
LEMMA UntitledIsResponse ==
  ASSUME NEW f \in Failure, ~Titled(f)
  PROVE  Untitleable(f)
<1>1. f.body \in {"object", "other"} /\ f.problem \in BOOLEAN
  BY DEF Failure
<1>2. f.status # None
  <2>. SUFFICES ASSUME f.status = None  PROVE FALSE
    OBVIOUS
  <2>1. ~Recognised(f) /\ ProblemOf(f) = [status |-> None, errors |-> FALSE]
    BY DEF ProblemOf, Recognised
  <2>2. FinalStatus(ProblemOf(f), f.status) = 500
    BY <2>1 DEF FinalStatus
  <2>. QED  BY <2>1, <2>2 DEF Titled, KnownStatuses
<1>3. CASE f.problem /\ f.body = "other"
  BY <1>2, <1>3 DEF Untitleable
<1>4. CASE f.problem /\ f.body = "object"
  <2>1. FinalStatus(ProblemOf(f), f.status)
          = IF f.ownStatus # None THEN f.ownStatus ELSE f.status
    BY <1>2, <1>4 DEF FinalStatus, ProblemOf, Recognised
  <2>. QED  BY <1>2, <1>4, <2>1 DEF Titled, Untitleable
<1>5. CASE ~f.problem
  <2>1. ~Recognised(f) /\ FinalStatus(ProblemOf(f), f.status) = f.status
    BY <1>2, <1>5 DEF FinalStatus, ProblemOf, Recognised
  <2>. QED  BY <1>2, <1>5, <2>1 DEF Titled, Untitleable
<1>. QED  BY <1>1, <1>3, <1>4, <1>5

\* What is added to the failures that nobody has seen leaves the property as it is.
LEMMA UnnamedGrows ==
  ASSUME unnamed \subseteq Failures, FailuresAreNamed,
         NEW fs \in SUBSET {f \in Failures : ~Toasted(f)}, unnamed' = unnamed \cup fs
  PROVE  unnamed' \subseteq Failures /\ FailuresAreNamed'
<1>1. \A f \in fs : Untitleable(f)
  BY FailuresAssumption, UntitledIsResponse DEF Toasted
<1>2. \A f \in unnamed : Untitleable(f)
  BY DEF FailuresAreNamed, Untitleable
<1>3. \A f \in unnamed' : Untitleable(f)
  BY <1>1, <1>2
<1>4. FailuresAreNamed'
  BY <1>3 DEF FailuresAreNamed, Untitleable
<1>. QED  BY <1>4

\* A failure that is neither toasted nor put in words could not be given a title.
LEMMA UnseenAreNamed ==
  ASSUME unnamed \subseteq Failures, FailuresAreNamed,
         NEW f \in Failures, NEW error, Unseen(f, error)
  PROVE  unnamed' \subseteq Failures /\ FailuresAreNamed'
<1>1. PICK fs \in SUBSET {g \in Failures : ~Toasted(g)} : unnamed' = unnamed \cup fs
  <2>1. CASE Toasted(f) \/ error = "message"
    <3>1. {} \in SUBSET {g \in Failures : ~Toasted(g)} /\ unnamed' = unnamed \cup {}
      BY <2>1 DEF Unseen
    <3>. QED  BY <3>1
  <2>2. CASE ~Toasted(f) /\ error # "message"
    <3>1. {f} \in SUBSET {g \in Failures : ~Toasted(g)} /\ unnamed' = unnamed \cup {f}
      BY <2>2 DEF Unseen
    <3>. QED  BY <3>1
  <2>. QED  BY <2>1, <2>2
<1>. QED  BY <1>1, UnnamedGrows

\* Neither do the failures of reads whose page is gone.
LEMMA MissedAreNamed ==
  ASSUME unnamed \subseteq Failures, FailuresAreNamed, UNCHANGED unnamed \/ Missed
  PROVE  unnamed' \subseteq Failures /\ FailuresAreNamed'
<1>1. CASE UNCHANGED unnamed
  BY <1>1 DEF FailuresAreNamed
<1>2. CASE Missed
  BY <1>2, UnnamedGrows DEF Missed
<1>. QED  BY <1>1, <1>2

\* The fields of each kind of write.
LEMMA WriteFields ==
  ASSUME NEW c \in Write
  PROVE  /\ c.op \in {"delete", "update", "create"}
         /\ c.live \in BOOLEAN
         /\ c.op = "delete" => c.page \in Pages
         /\ c.op = "update" => c.id \in Products /\ c.data \in Products \cup {NoProduct}
  BY DEF Write

\* Every write has a live form.
LEMMA LiveWrite ==
  ASSUME NEW c \in Write
  PROVE  LET d == [c EXCEPT !.live = TRUE]
         IN  /\ d \in Write /\ d.live /\ d.op = c.op
             /\ c.op = "update" => d.data = c.data
  BY DEF Write

\* Taking one write out of flight leaves counters.
LEMMA FewerWrites ==
  ASSUME writes \in [Write -> Nat], NEW c \in WritesInFlight
  PROVE  /\ Without(c) \in [Write -> Nat]
         /\ Without(c)[c] = writes[c] - 1
         /\ \A d \in Write : d # c => Without(c)[d] = writes[d]
         /\ \A d \in Write : Without(c)[d] > 0 => d \in WritesInFlight
  BY DEF Without, WritesInFlight

\* When the page goes, its writes stay in flight, none of them live.
LEMMA OrphanedWrites ==
  ASSUME NEW ws \in [Write -> Nat]
  PROVE  /\ Orphaned(ws) \in [Write -> Nat]
         /\ \A c \in Write : c.live => Orphaned(ws)[c] = 0
         /\ \A c \in Write : Orphaned(ws)[c] > 0
              => ws[c] > 0 \/ ws[[c EXCEPT !.live = TRUE]] > 0
  BY LiveWrite DEF Orphaned
-----------------------------------------------------------------------------
(* Pages come and go *)

\* A page that has just been mounted, with only writes of pages that are gone.
FreshPage ==
  /\ route \in Route
  /\ ui = FreshUI(route)
  /\ reads = FirstReads(route)
  /\ writes \in [Write -> Nat]
  /\ \A c \in WritesInFlight : ~c.live
  /\ FilledIsSent
  /\ unnamed \subseteq Failures
  /\ FailuresAreNamed

\* A page just mounted, with none of its own writes in flight, satisfies the invariant.
LEMMA FreshPageOK == FreshPage => PagesIInv
<1>. SUFFICES ASSUME FreshPage  PROVE PagesIInv
  OBVIOUS
<1>1. /\ route.name \in {"home", "account", "products", "new", "details", "edit"}
      /\ route.name \in {"details", "edit"} => route.id \in Products
  BY DEF FreshPage, Route
<1>2. /\ EffectRuns \in Nat /\ EffectRuns > 0
      /\ 1 \in Pages
  BY EffectRunsAssumption, MaxPagesAssumption DEF Pages
<1>3. /\ ui.loading = (route.name \in Fetches) /\ ui.error = "none" /\ ui.page = 1
      /\ ~ui.edited /\ ~ui.crossed /\ ~ui.reused
  BY DEF FreshPage, FreshUI
<1>4. ui \in UI
  BY <1>2, MaxPagesAssumption DEF FreshPage, FreshUI, UI, Pages
<1>5. Wish(route, ui) = IF route.name = "products" THEN 1 ELSE route.id
  BY <1>3 DEF Wish
<1>6. route.name \in Fetches => Wish(route, ui) \in Wishes
  BY <1>1, <1>2, <1>5 DEF Fetches, Wishes
<1>7. reads = [w \in Wishes |->
                  IF route.name \in Fetches /\ w = Wish(route, ui) THEN EffectRuns ELSE 0]
  BY DEF FreshPage, FirstReads
<1>8. ReadsInFlight = IF route.name \in Fetches THEN {Wish(route, ui)} ELSE {}
  BY <1>2, <1>6, <1>7 DEF ReadsInFlight
<1>9. LiveSaves = {}
  BY DEF FreshPage, LiveSaves
<1>10. PagesTypeOK
  BY <1>2, <1>4, <1>7 DEF FreshPage, PagesTypeOK
<1>11. ReadsFit
  BY <1>1, <1>2, <1>5, <1>8 DEF ReadsFit, Fetches
<1>12. LiveWritesFit /\ FilledIsSent /\ FailuresAreNamed
  BY DEF FreshPage, LiveWritesFit
<1>13. WaitingHasReason /\ ShowsWhatWasAsked /\ FormIsFilled
  BY <1>3, <1>8 DEF WaitingHasReason, ShowsWhatWasAsked, FormIsFilled, Fetches
<1>14. OneReadOfForm
  BY <1>3, <1>5, <1>6, <1>7, <1>8, <1>9 DEF OneReadOfForm, OneRead, Fetches
<1>15. SavedOnceAtATime
  BY <1>9 DEF SavedOnceAtATime
<1>16. FormIsOfRoute
  <2>1. ui.product = NoProduct
    BY DEF FreshPage, FreshUI
  <2>. QED  BY <1>5, <1>8, <1>9, <2>1 DEF FormIsOfRoute, Fetches
<1>. QED  BY <1>10, <1>11, <1>12, <1>13, <1>14, <1>15, <1>16 DEF PagesIInv

\* The same of the state after a step.
LEMMA FreshPageNext == FreshPage' => PagesIInv'
  BY FreshPageOK, PTL

\* The invariant holds initially.
LEMMA PagesInitOK == PagesInit => PagesIInv
<1>1. PagesInit => FreshPage
  BY DEF PagesInit, FreshPage, WritesInFlight, FilledIsSent, FailuresAreNamed
<1>. QED  BY <1>1, FreshPageOK

\* Loading the document mounts a page.
LEMMA LoadPagesKeepsIInv ==
  ASSUME NEW r \in Route, LoadPages(r)
  PROVE  PagesIInv'
<1>1. /\ route' = r /\ ui' = FreshUI(route') /\ reads' = FirstReads(route')
      /\ writes' = [c \in Write |-> 0] /\ unnamed' = {}
  BY DEF LoadPages
<1>2. WritesInFlight' = {}
  BY <1>1 DEF WritesInFlight
<1>3. FreshPage'
  BY <1>1, <1>2 DEF FreshPage, FilledIsSent, FailuresAreNamed
<1>. QED  BY <1>3, FreshPageNext

\* Going to another page mounts it, with the old writes orphaned.
LEMMA MountKeepsIInv ==
  ASSUME PagesIInv, NEW r \in Route, NEW ws \in [Write -> Nat],
         \A c \in Write : ws[c] > 0 => c \in WritesInFlight,
         Mount(r, ws), UNCHANGED unnamed \/ Missed
  PROVE  PagesIInv'
<1>1. /\ route' = r /\ ui' = FreshUI(route') /\ reads' = FirstReads(route')
      /\ writes' = Orphaned(ws)
  BY DEF Mount
<1>2. ASSUME NEW c \in WritesInFlight'
      PROVE  ~c.live /\ (c.op = "update" => c.data # NoProduct)
  <2>1. c \in Write /\ Orphaned(ws)[c] > 0
    BY <1>1 DEF WritesInFlight
  <2>2. ~c.live
    BY <2>1, OrphanedWrites
  <2>3. PICK d \in WritesInFlight : d.op = c.op /\ (c.op = "update" => d.data = c.data)
    BY <2>1, OrphanedWrites, LiveWrite
  <2>. QED  BY <2>2, <2>3 DEF PagesIInv, FilledIsSent
<1>3. unnamed' \subseteq Failures /\ FailuresAreNamed'
  BY MissedAreNamed DEF PagesIInv, PagesTypeOK
<1>4. writes' \in [Write -> Nat] /\ FilledIsSent' /\ \A c \in WritesInFlight' : ~c.live
  BY <1>1, <1>2, OrphanedWrites DEF FilledIsSent
<1>5. FreshPage'
  BY <1>1, <1>3, <1>4 DEF FreshPage
<1>. QED  BY <1>5, FreshPageNext

\* A page that is reused has a read in flight for its new identifier.
LEMMA ReuseKeepsIInv ==
  ASSUME PagesIInv, NEW r \in Route, r # route, r.name = route.name,
         Reuse(r, writes), UNCHANGED unnamed
  PROVE  PagesIInv'
<1>1. r.name \in {"details", "edit"} /\ r.id \in Products
  BY DEF PagesIInv, PagesTypeOK, Route
<1>2. /\ route' = r /\ writes' = writes /\ r.id \in Wishes
      /\ reads \in [Wishes -> Nat] /\ reads' = [reads EXCEPT ![r.id] = @ + 1]
  BY <1>1 DEF Reuse, Read, PagesIInv, PagesTypeOK, Wishes
<1>3. /\ ui' \in UI /\ ui'.reused /\ ui'.product = ui.product /\ ui'.error = ui.error
      /\ r.name = "edit" => ui'.loading = ui.loading
  BY <1>1 DEF Reuse, PagesIInv, PagesTypeOK, UI
<1>4. reads' \in [Wishes -> Nat] /\ ReadsInFlight' = ReadsInFlight \cup {r.id}
  BY <1>2 DEF ReadsInFlight
<1>5. /\ WritesInFlight' = WritesInFlight /\ LiveSaves' = LiveSaves
      /\ Wish(route, ui)' = r.id
  BY <1>1, <1>2 DEF WritesInFlight, LiveSaves, Wish
<1>6. PagesTypeOK'
  BY <1>2, <1>3, <1>4 DEF PagesIInv, PagesTypeOK
<1>7. ReadsFit' /\ LiveWritesFit' /\ FilledIsSent' /\ FailuresAreNamed'
  BY <1>1, <1>2, <1>4, <1>5 DEF PagesIInv, ReadsFit, LiveWritesFit, FilledIsSent,
     FailuresAreNamed
<1>8. WaitingHasReason' /\ ShowsWhatWasAsked' /\ FormIsFilled'
  BY <1>2, <1>3, <1>4, <1>5 DEF PagesIInv, WaitingHasReason, ShowsWhatWasAsked, FormIsFilled
<1>9. OneReadOfForm' /\ SavedOnceAtATime' /\ FormIsOfRoute'
  BY <1>3 DEF OneReadOfForm, SavedOnceAtATime, OneRead, FormIsOfRoute
<1>. QED  BY <1>6, <1>7, <1>8, <1>9 DEF PagesIInv

\* A link mounts a page or reuses the one that is there.
LEMMA GoToKeepsIInv ==
  ASSUME PagesIInv, NEW r \in Route, GoTo(r)
  PROVE  PagesIInv'
<1>1. writes \in [Write -> Nat] /\ r # route
  BY DEF GoTo, PagesIInv, PagesTypeOK
<1>2. CASE r.name = route.name /\ Reuse(r, writes) /\ UNCHANGED unnamed
  BY <1>1, <1>2, ReuseKeepsIInv
<1>3. CASE Mount(r, writes) /\ (UNCHANGED unnamed \/ Missed)
  BY <1>1, <1>3, MountKeepsIInv DEF WritesInFlight
<1>. QED  BY <1>1, <1>2, <1>3 DEF GoTo, Navigate
-----------------------------------------------------------------------------
(* Reads *)

\* An answer to a read, whichever the page: it ends the waiting, and the page
\* then has an error, or shows what the answer was about.
LEMMA ReadEndKeepsIInv ==
  ASSUME PagesIInv, NEW w \in ReadsInFlight, route.name \in Fetches, ReadEnds(w),
         NEW content \in UI, NEW error \in {"none", "message", "blank"},
         Shown(w, content, error),
         content.page = ui.page, content.crossed = ui.crossed,
         content.reused = ui.reused,
         error = "none" => w = IF route.name = "products" THEN content.list.no
                               ELSE content.product,
         content.product \in {ui.product, w},
         unnamed' \subseteq Failures, FailuresAreNamed'
  PROVE  PagesIInv'
<1>. DEFINE wish == Wish(route, ui)
<1>1. /\ w \in Wishes /\ reads \in [Wishes -> Nat] /\ reads[w] > 0
      /\ reads' = [reads EXCEPT ![w] = @ - 1]
      /\ route' = route /\ writes' = writes
  BY DEF ReadEnds, ReadsInFlight, PagesIInv, PagesTypeOK
<1>2. /\ ui' \in UI
      /\ ~ui'.loading /\ ui'.error = error
      /\ ui'.page = ui.page /\ ui'.reused = ui.reused
      /\ ui'.list = content.list /\ ui'.product = content.product
      /\ ui'.crossed = (w # wish /\ (ui.crossed \/ Late(w)))
  BY DEF Shown, UI, Late
<1>3. reads' \in [Wishes -> Nat] /\ ReadsInFlight' \subseteq ReadsInFlight
  BY <1>1 DEF ReadsInFlight
<1>4. WritesInFlight' = WritesInFlight /\ LiveSaves' = LiveSaves /\ wish' = wish
  BY <1>1, <1>2 DEF WritesInFlight, LiveSaves, Wish
<1>5. wish \in Wishes
  BY <1>1 DEF Wish, Wishes, PagesIInv, PagesTypeOK, UI, Route, Fetches
<1>6. PagesTypeOK'
  BY <1>1, <1>2, <1>3 DEF PagesIInv, PagesTypeOK
<1>7. ReadsFit' /\ LiveWritesFit' /\ FilledIsSent'
  BY <1>1, <1>3, <1>4 DEF PagesIInv, ReadsFit, LiveWritesFit, FilledIsSent
<1>8. WaitingHasReason'
  BY <1>2 DEF WaitingHasReason
<1>9. ShowsWhatWasAsked'
  <2>1. CASE w = wish
    BY <2>1, <1>1, <1>2, <1>4 DEF ShowsWhatWasAsked
  <2>2. CASE w # wish /\ ~Late(w)
    BY <2>2, <1>1, <1>3, <1>4, <1>5 DEF Late, ReadsInFlight, ShowsWhatWasAsked
  <2>3. CASE Late(w)
    BY <2>3, <1>2 DEF Late, ShowsWhatWasAsked
  <2>. QED  BY <2>1, <2>2, <2>3
<1>10. FormIsFilled'
  BY <1>1, <1>2, NoProductAssumption DEF FormIsFilled, PagesIInv, ReadsFit
<1>11. OneReadOfForm'
  <2>1. OneRead /\ route.name = "edit" => ReadsInFlight' = {}
    BY <1>1 DEF PagesIInv, OneReadOfForm, ReadsInFlight
  <2>. QED  BY <2>1, <1>1, <1>2 DEF OneReadOfForm, OneRead
<1>12. SavedOnceAtATime'
  <2>1. OneRead /\ route.name = "edit" => LiveSaves = {}
    BY DEF PagesIInv, OneReadOfForm
  <2>2. route.name # "edit" => LiveSaves = {}
    BY WriteFields DEF PagesIInv, LiveWritesFit, LiveSaves, WritesInFlight, Fetches
  <2>. QED  BY <2>1, <2>2, <1>2, <1>4 DEF SavedOnceAtATime, OneRead
<1>13. FormIsOfRoute'
  BY <1>1, <1>2, <1>3, <1>4 DEF PagesIInv, FormIsOfRoute
<1>. QED  BY <1>6, <1>7, <1>8, <1>9, <1>10, <1>11, <1>12, <1>13 DEF PagesIInv

\* An answer to a read of the list, the details or the edit form, or its failure.
LEMMA ReadEndedKeepsIInv ==
  ASSUME PagesIInv, ReadEnded
  PROVE  PagesIInv'
<1>1. PICK w \in ReadsInFlight :
        \/ w \in Pages /\ \E pages \in 0 .. MaxPages : ListAnswered(w, pages)
        \/ DetailsAnswered(w)
        \/ EditAnswered(w)
        \/ \E f \in Failures : ReadFails(w, f)
  BY DEF ReadEnded
<1>2. ui \in UI /\ unnamed \subseteq Failures /\ FailuresAreNamed /\ ui.error \in {"none", "message", "blank"}
  BY DEF PagesIInv, PagesTypeOK, UI
<1>3. ASSUME NEW pages \in 0 .. MaxPages, w \in Pages, ListAnswered(w, pages)
      PROVE  PagesIInv'
  <2>. DEFINE content == [ui EXCEPT !.list = [no |-> w, of |-> pages]]
  <2>1. content \in UI /\ content.list.no = w /\ content.product = ui.product
        /\ content.page = ui.page /\ content.crossed = ui.crossed /\ content.reused = ui.reused
    BY <1>2, <1>3, MaxPagesAssumption DEF UI, Pages
  <2>2. Shown(w, content, ui.error) /\ ReadEnds(w) /\ route.name = "products" /\ UNCHANGED unnamed
    BY <1>3 DEF ListAnswered
  <2>. HIDE DEF content
  <2>. QED  BY <1>2, <2>1, <2>2, ReadEndKeepsIInv DEF Fetches, FailuresAreNamed
<1>4. ASSUME DetailsAnswered(w)  PROVE PagesIInv'
  <2>. DEFINE content == [ui EXCEPT !.product = w]
  <2>1. Shown(w, content, ui.error) /\ ReadEnds(w) /\ route.name = "details" /\ UNCHANGED unnamed
    BY <1>4 DEF DetailsAnswered
  <2>2. w \in Products
    BY <2>1 DEF PagesIInv, ReadsFit
  <2>3. content \in UI /\ content.product = w
        /\ content.page = ui.page /\ content.crossed = ui.crossed /\ content.reused = ui.reused
    BY <1>2, <2>2 DEF UI
  <2>. HIDE DEF content
  <2>. QED  BY <1>2, <2>1, <2>3, ReadEndKeepsIInv DEF Fetches, FailuresAreNamed
<1>5. ASSUME EditAnswered(w)  PROVE PagesIInv'
  <2>. DEFINE content == [ui EXCEPT !.product = w, !.edited = FALSE]
  <2>1. Shown(w, content, ui.error) /\ ReadEnds(w) /\ route.name = "edit" /\ UNCHANGED unnamed
    BY <1>5 DEF EditAnswered
  <2>2. w \in Products
    BY <2>1 DEF PagesIInv, ReadsFit
  <2>3. content \in UI /\ content.product = w
        /\ content.page = ui.page /\ content.crossed = ui.crossed /\ content.reused = ui.reused
    BY <1>2, <2>2 DEF UI
  <2>. HIDE DEF content
  <2>. QED  BY <1>2, <2>1, <2>3, ReadEndKeepsIInv DEF Fetches, FailuresAreNamed
<1>6. ASSUME NEW f \in Failures, ReadFails(w, f)  PROVE PagesIInv'
  <2>1. PICK error \in {"message", "blank"} :
          Shown(w, ui, error) /\ ReadEnds(w) /\ route.name \in Fetches /\ Unseen(f, error)
    BY <1>6 DEF ReadFails, CallerError
  <2>2. unnamed' \subseteq Failures /\ FailuresAreNamed'
    BY <1>2, <2>1, UnseenAreNamed
  <2>. QED  BY <1>2, <2>1, <2>2, ReadEndKeepsIInv
<1>. QED  BY <1>1, <1>3, <1>4, <1>5, <1>6
-----------------------------------------------------------------------------
(* The list *)

\* Another page of the list is asked for.
LEMMA ShowPageKeepsIInv ==
  ASSUME PagesIInv, route.name = "products", NEW n \in Pages, ShowPage(n)
  PROVE  PagesIInv'
<1>1. /\ ui' \in UI /\ ui'.loading /\ ui'.page = n
      /\ UNCHANGED <<route, writes, unnamed>>
  BY DEF ShowPage, PagesIInv, PagesTypeOK, UI
<1>2. /\ n \in Wishes /\ reads \in [Wishes -> Nat]
      /\ reads' = [reads EXCEPT ![n] = @ + 1]
  BY DEF ShowPage, Read, PagesIInv, PagesTypeOK, Wishes
<1>3. /\ reads' \in [Wishes -> Nat] /\ ReadsInFlight' = ReadsInFlight \cup {n}
      /\ Wish(route, ui)' = n
  BY <1>1, <1>2 DEF ReadsInFlight, Wish
<1>4. WritesInFlight' = WritesInFlight /\ LiveSaves' = LiveSaves
  BY <1>1 DEF WritesInFlight, LiveSaves
<1>5. PagesTypeOK'
  BY <1>1, <1>3 DEF PagesIInv, PagesTypeOK
<1>6. ReadsFit' /\ LiveWritesFit' /\ FilledIsSent' /\ FailuresAreNamed'
  BY <1>1, <1>3, <1>4 DEF PagesIInv, ReadsFit, LiveWritesFit, FilledIsSent, FailuresAreNamed
<1>7. /\ WaitingHasReason' /\ ShowsWhatWasAsked' /\ FormIsFilled' /\ OneReadOfForm'
      /\ FormIsOfRoute'
  BY <1>1, <1>3 DEF WaitingHasReason, ShowsWhatWasAsked, FormIsFilled, OneReadOfForm,
     FormIsOfRoute
<1>8. LiveSaves = {}
  BY DEF PagesIInv, LiveWritesFit, LiveSaves
<1>9. SavedOnceAtATime'
  BY <1>4, <1>8 DEF SavedOnceAtATime
<1>. QED  BY <1>5, <1>6, <1>7, <1>9 DEF PagesIInv

\* The buttons stay within the pages there are.
LEMMA PaginationKeepsIInv ==
  ASSUME PagesIInv, NextPage \/ PreviousPage
  PROVE  PagesIInv'
<1>1. ui.page \in Pages /\ ui.list.of \in 0 .. MaxPages /\ MaxPages \in Nat
  BY MaxPagesAssumption DEF PagesIInv, PagesTypeOK, UI
<1>2. CASE NextPage
  <2>1. ui.page + 1 \in Pages /\ route.name = "products" /\ ShowPage(ui.page + 1)
    BY <1>1, <1>2 DEF NextPage, Pages
  <2>. QED  BY <2>1, ShowPageKeepsIInv
<1>3. CASE PreviousPage
  <2>1. ui.page - 1 \in Pages /\ route.name = "products" /\ ShowPage(ui.page - 1)
    BY <1>1, <1>3 DEF PreviousPage, Pages
  <2>. QED  BY <2>1, ShowPageKeepsIInv
<1>. QED  BY <1>2, <1>3

\* A write that is sent adds one to its counter.
LEMMA SentWrite ==
  ASSUME writes \in [Write -> Nat], NEW c \in Write, Send(c)
  PROVE  /\ writes' \in [Write -> Nat]
         /\ writes'[c] = writes[c] + 1
         /\ \A d \in Write : d # c => writes'[d] = writes[d]
         /\ WritesInFlight' = WritesInFlight \cup {c}
  BY DEF Send, WritesInFlight

\* A deletion is sent from the list.
LEMMA DeleteKeepsIInv ==
  ASSUME PagesIInv, Delete
  PROVE  PagesIInv'
<1>. DEFINE c == [op |-> "delete", page |-> ui.page, live |-> TRUE]
<1>1. /\ c \in Write /\ c.op = "delete" /\ Send(c) /\ writes \in [Write -> Nat]
      /\ route.name = "products"
      /\ UNCHANGED <<route, ui, reads, unnamed>>
  BY DEF Delete, Write, PagesIInv, PagesTypeOK, UI
<1>. HIDE DEF c
<1>2. /\ writes' \in [Write -> Nat] /\ WritesInFlight' = WritesInFlight \cup {c}
  BY <1>1, SentWrite
<1>3. /\ ReadsInFlight' = ReadsInFlight /\ Wish(route, ui)' = Wish(route, ui)
      /\ LiveSaves = {} /\ LiveSaves' = {}
  BY <1>1, <1>2 DEF ReadsInFlight, Wish, PagesIInv, LiveWritesFit, LiveSaves
<1>4. PagesTypeOK' /\ ReadsFit' /\ LiveWritesFit' /\ FilledIsSent' /\ FailuresAreNamed'
  BY <1>1, <1>2, <1>3 DEF PagesIInv, PagesTypeOK, ReadsFit, LiveWritesFit, FilledIsSent,
     FailuresAreNamed
<1>5. WaitingHasReason' /\ ShowsWhatWasAsked' /\ FormIsFilled'
  BY <1>1, <1>3 DEF PagesIInv, WaitingHasReason, ShowsWhatWasAsked, FormIsFilled
<1>6. OneReadOfForm' /\ SavedOnceAtATime' /\ FormIsOfRoute'
  BY <1>1, <1>3 DEF OneReadOfForm, SavedOnceAtATime, FormIsOfRoute
<1>. QED  BY <1>4, <1>5, <1>6 DEF PagesIInv

\* The answer to a write of which the page takes no notice.
LEMMA UnnoticedKeepsIInv ==
  ASSUME PagesIInv, NEW c \in WritesInFlight, writes' = Without(c), c \notin LiveSaves,
         UNCHANGED <<route, ui, reads>>,
         unnamed' \subseteq Failures, FailuresAreNamed'
  PROVE  PagesIInv'
<1>1. writes \in [Write -> Nat]
  BY DEF PagesIInv, PagesTypeOK
<1>2. /\ writes' \in [Write -> Nat] /\ WritesInFlight' \subseteq WritesInFlight
      /\ \A d \in LiveSaves : writes'[d] = writes[d]
      /\ LiveSaves' = LiveSaves
  BY <1>1, FewerWrites DEF WritesInFlight, LiveSaves
<1>3. ReadsInFlight' = ReadsInFlight /\ Wish(route, ui)' = Wish(route, ui)
  BY DEF ReadsInFlight, Wish
<1>4. PagesTypeOK' /\ ReadsFit' /\ LiveWritesFit' /\ FilledIsSent'
  BY <1>2, <1>3 DEF PagesIInv, PagesTypeOK, ReadsFit, LiveWritesFit, FilledIsSent
<1>5. WaitingHasReason' /\ ShowsWhatWasAsked' /\ FormIsFilled'
  BY <1>2, <1>3 DEF PagesIInv, WaitingHasReason, ShowsWhatWasAsked, FormIsFilled
<1>6. OneReadOfForm' /\ SavedOnceAtATime' /\ FormIsOfRoute'
  BY <1>2, <1>3 DEF PagesIInv, OneReadOfForm, SavedOnceAtATime, OneRead, FormIsOfRoute
<1>. QED  BY <1>4, <1>5, <1>6 DEF PagesIInv

\* An answered deletion reads the list again, if the list is still there.
LEMMA DeleteAnsweredKeepsIInv ==
  ASSUME PagesIInv, NEW c \in WritesInFlight, DeleteAnswered(c)
  PROVE  PagesIInv'
<1>1. /\ c \in Write /\ c.op = "delete" /\ writes' = Without(c) /\ UNCHANGED route
      /\ unnamed \subseteq Failures /\ FailuresAreNamed /\ c \notin LiveSaves
  BY DEF DeleteAnswered, WritesInFlight, LiveSaves, PagesIInv, PagesTypeOK
<1>2. CASE ~c.live
  <2>1. UNCHANGED <<ui, reads>> /\ Missed
    BY <1>2 DEF DeleteAnswered
  <2>2. unnamed' \subseteq Failures /\ FailuresAreNamed'
    BY <1>1, <2>1, MissedAreNamed
  <2>. QED  BY <1>1, <2>1, <2>2, UnnoticedKeepsIInv
<1>3. CASE c.live
  <2>1. /\ route.name = "products" /\ c.page \in Pages /\ c.page \in Wishes
        /\ Read(c.page) /\ UNCHANGED unnamed
        /\ ui' = [ui EXCEPT !.loading = TRUE, !.error = "none",
                            !.crossed = @ \/ c.page # ui.page]
    BY <1>1, <1>3, WriteFields DEF PagesIInv, LiveWritesFit, DeleteAnswered, Wishes
  <2>2. /\ ui' \in UI /\ ui'.loading /\ ui'.page = ui.page
        /\ c.page # ui.page => ui'.crossed
    BY <2>1 DEF PagesIInv, PagesTypeOK, UI
  <2>3. reads \in [Wishes -> Nat] /\ reads' = [reads EXCEPT ![c.page] = @ + 1]
    BY <2>1 DEF Read, PagesIInv, PagesTypeOK
  <2>4. reads' \in [Wishes -> Nat] /\ ReadsInFlight' = ReadsInFlight \cup {c.page}
    BY <2>1, <2>3 DEF ReadsInFlight
  <2>5. writes' \in [Write -> Nat] /\ WritesInFlight' \subseteq WritesInFlight
    BY <1>1, FewerWrites DEF PagesIInv, PagesTypeOK, WritesInFlight
  <2>6. LiveSaves' = {}
    BY <1>1, <2>1, <2>5 DEF PagesIInv, LiveWritesFit, LiveSaves
  <2>7. PagesTypeOK' /\ ReadsFit' /\ LiveWritesFit' /\ FilledIsSent' /\ FailuresAreNamed'
    BY <1>1, <2>1, <2>2, <2>4, <2>5 DEF PagesIInv, PagesTypeOK, ReadsFit, LiveWritesFit,
       FilledIsSent, FailuresAreNamed
  <2>8. WaitingHasReason' /\ ShowsWhatWasAsked' /\ FormIsFilled'
    BY <1>1, <2>1, <2>2, <2>4 DEF WaitingHasReason, ShowsWhatWasAsked, FormIsFilled, Wish
  <2>9. OneReadOfForm' /\ SavedOnceAtATime' /\ FormIsOfRoute'
    BY <1>1, <2>1, <2>6 DEF OneReadOfForm, SavedOnceAtATime, FormIsOfRoute
  <2>. QED  BY <2>7, <2>8, <2>9 DEF PagesIInv
<1>4. c.live \in BOOLEAN
  BY <1>1, WriteFields
<1>. QED  BY <1>2, <1>3, <1>4

\* A failed deletion puts an error in the list, if the list is still there.
LEMMA DeleteFailsKeepsIInv ==
  ASSUME PagesIInv, NEW c \in WritesInFlight, NEW f \in Failures, DeleteFails(c, f)
  PROVE  PagesIInv'
<1>1. /\ c \in Write /\ c.op = "delete" /\ writes' = Without(c) /\ UNCHANGED <<route, reads>>
      /\ unnamed \subseteq Failures /\ FailuresAreNamed /\ c \notin LiveSaves
  BY DEF DeleteFails, WritesInFlight, LiveSaves, PagesIInv, PagesTypeOK
<1>2. unnamed' \subseteq Failures /\ FailuresAreNamed'
  BY <1>1, UnseenAreNamed DEF DeleteFails
<1>3. CASE ~c.live
  <2>. UNCHANGED ui
    BY <1>3 DEF DeleteFails
  <2>. QED  BY <1>1, <1>2, UnnoticedKeepsIInv
<1>4. CASE c.live
  <2>1. PICK error \in {"message", "blank"} : ui' = [ui EXCEPT !.error = error]
    BY <1>4 DEF DeleteFails, CallerError
  <2>2. /\ ui' \in UI /\ ui'.loading = ui.loading /\ ui'.page = ui.page /\ ui'.error # "none"
        /\ route.name = "products"
    BY <1>1, <1>4, <2>1 DEF PagesIInv, PagesTypeOK, UI, LiveWritesFit
  <2>3. writes' \in [Write -> Nat] /\ WritesInFlight' \subseteq WritesInFlight
    BY <1>1, FewerWrites DEF PagesIInv, PagesTypeOK, WritesInFlight
  <2>4. LiveSaves = {} /\ LiveSaves' = {} /\ ReadsInFlight' = ReadsInFlight
    BY <1>1, <2>2, <2>3 DEF PagesIInv, LiveWritesFit, LiveSaves, ReadsInFlight
  <2>5. PagesTypeOK' /\ ReadsFit' /\ LiveWritesFit' /\ FilledIsSent'
    BY <1>1, <1>2, <2>2, <2>3, <2>4 DEF PagesIInv, PagesTypeOK, ReadsFit, LiveWritesFit,
       FilledIsSent
  <2>6. WaitingHasReason' /\ ShowsWhatWasAsked' /\ FormIsFilled'
    BY <1>1, <2>2, <2>4 DEF PagesIInv, WaitingHasReason, ShowsWhatWasAsked, FormIsFilled
  <2>7. OneReadOfForm' /\ SavedOnceAtATime' /\ FormIsOfRoute'
    BY <1>1, <2>2, <2>4 DEF OneReadOfForm, SavedOnceAtATime, FormIsOfRoute
  <2>. QED  BY <1>2, <2>5, <2>6, <2>7 DEF PagesIInv
<1>5. c.live \in BOOLEAN
  BY <1>1, WriteFields
<1>. QED  BY <1>3, <1>4, <1>5
-----------------------------------------------------------------------------
(* The forms *)

\* A form is sent when it shows nothing in flight and nothing wrong.
LEMMA SubmitKeepsIInv ==
  ASSUME PagesIInv, NEW c \in Write, Submit(c), c.live,
         \/ /\ c.op = "update" /\ route.name = "edit" /\ EditView = "form"
            /\ c.id = route.id /\ c.data = ui.product
         \/ c.op = "create" /\ route.name = "new" /\ ~ui.loading
  PROVE  PagesIInv'
<1>1. /\ writes \in [Write -> Nat] /\ Send(c)
      /\ UNCHANGED <<route, reads, unnamed>>
      /\ ~ui.loading /\ c.op \in {"update", "create"}
      /\ route.name = "edit" => ui.error = "none"
  BY DEF Submit, PagesIInv, PagesTypeOK, EditView, Gated
<1>2. /\ ui' \in UI /\ ui'.loading /\ ui'.error = "none" /\ ui'.page = ui.page
      /\ ui'.list = ui.list /\ ui'.product = ui.product /\ ui'.edited = ui.edited
      /\ ui'.crossed = ui.crossed /\ ui'.reused = ui.reused
  BY DEF Submit, PagesIInv, PagesTypeOK, UI
<1>3. /\ writes' \in [Write -> Nat] /\ writes'[c] = writes[c] + 1
      /\ \A d \in Write : d # c => writes'[d] = writes[d]
      /\ WritesInFlight' = WritesInFlight \cup {c}
  BY <1>1, SentWrite
<1>4. LiveSaves' = LiveSaves \cup {c}
  BY <1>1, <1>3 DEF LiveSaves
<1>5. ReadsInFlight' = ReadsInFlight /\ Wish(route, ui)' = Wish(route, ui)
  BY <1>1, <1>2 DEF ReadsInFlight, Wish
<1>6. route.name = "edit" => ui.product # NoProduct
  BY <1>1 DEF PagesIInv, FormIsFilled
<1>7. PagesTypeOK' /\ ReadsFit' /\ LiveWritesFit' /\ FilledIsSent' /\ FailuresAreNamed'
  BY <1>1, <1>2, <1>3, <1>5, <1>6 DEF PagesIInv, PagesTypeOK, ReadsFit, LiveWritesFit,
     FilledIsSent, FailuresAreNamed
<1>8. WaitingHasReason' /\ FormIsFilled'
  BY <1>2, <1>4 DEF WaitingHasReason, FormIsFilled
<1>9. ShowsWhatWasAsked'
  BY <1>1, <1>2, <1>5 DEF PagesIInv, ShowsWhatWasAsked, Fetches
<1>10. OneReadOfForm'
  <2>1. OneRead /\ route.name = "edit" => ReadsInFlight = {}
    BY <1>1 DEF PagesIInv, OneReadOfForm
  <2>. QED  BY <2>1, <1>1, <1>2, <1>5 DEF OneReadOfForm, OneRead
<1>11. SavedOnceAtATime'
  <2>1. OneRead => LiveSaves = {}
    BY <1>1 DEF PagesIInv, SavedOnceAtATime
  <2>2. OneRead => writes[c] = 0
    BY <2>1, <1>1 DEF LiveSaves, WritesInFlight
  <2>. QED  BY <2>1, <2>2, <1>2, <1>3, <1>4 DEF SavedOnceAtATime, OneRead
<1>12. FormIsOfRoute'
  BY <1>1, <1>2, <1>4, <1>5, <1>6 DEF PagesIInv, FormIsOfRoute
<1>. QED  BY <1>7, <1>8, <1>9, <1>10, <1>11, <1>12 DEF PagesIInv

\* Both forms send what they hold, and the edit form holds a product.
LEMMA FormsKeepIInv ==
  ASSUME PagesIInv, SubmitEdit \/ SubmitNew
  PROVE  PagesIInv'
<1>1. CASE SubmitEdit
  <2>. DEFINE c == [op |-> "update", id |-> route.id, data |-> ui.product, live |-> TRUE]
  <2>1. /\ c \in Write /\ c.op = "update" /\ c.live
        /\ c.id = route.id /\ c.data = ui.product
        /\ Submit(c) /\ route.name = "edit" /\ EditView = "form"
    BY <1>1 DEF SubmitEdit, Write, PagesIInv, PagesTypeOK, UI, Route
  <2>. HIDE DEF c
  <2>. QED  BY <2>1, SubmitKeepsIInv
<1>2. CASE SubmitNew
  <2>. DEFINE c == [op |-> "create", live |-> TRUE]
  <2>1. /\ c \in Write /\ c.op = "create" /\ c.live
        /\ Submit(c) /\ route.name = "new" /\ ~ui.loading
    BY <1>2 DEF SubmitNew, CanCreate, Write
  <2>. HIDE DEF c
  <2>. QED  BY <2>1, SubmitKeepsIInv
<1>. QED  BY <1>1, <1>2

\* Typing happens when nothing is in flight, where one read fills the form.
LEMMA TypeKeepsIInv ==
  ASSUME PagesIInv, Type
  PROVE  PagesIInv'
<1>1. /\ UNCHANGED <<route, reads, writes, unnamed>>
      /\ route.name \in {"new", "edit"}
      /\ route.name = "edit" => ~ui.loading
  BY DEF Type, EditView, Gated
<1>2. /\ ui' \in UI /\ ui'.loading = ui.loading /\ ui'.error = ui.error
      /\ ui'.page = ui.page /\ ui'.list = ui.list /\ ui'.product = ui.product
      /\ ui'.crossed = ui.crossed /\ ui'.reused = ui.reused
  BY DEF Type, PagesIInv, PagesTypeOK, UI
<1>3. /\ ReadsInFlight' = ReadsInFlight /\ Wish(route, ui)' = Wish(route, ui)
      /\ WritesInFlight' = WritesInFlight /\ LiveSaves' = LiveSaves
  BY <1>1, <1>2 DEF ReadsInFlight, WritesInFlight, LiveSaves, Wish
<1>4. PagesTypeOK' /\ ReadsFit' /\ LiveWritesFit' /\ FilledIsSent' /\ FailuresAreNamed'
  BY <1>1, <1>2, <1>3 DEF PagesIInv, PagesTypeOK, ReadsFit, LiveWritesFit, FilledIsSent,
     FailuresAreNamed
<1>5. WaitingHasReason' /\ ShowsWhatWasAsked' /\ FormIsFilled'
  BY <1>1, <1>2, <1>3 DEF PagesIInv, WaitingHasReason, ShowsWhatWasAsked, FormIsFilled
<1>6. OneReadOfForm'
  BY <1>1, <1>2, <1>3 DEF PagesIInv, OneReadOfForm, OneRead
<1>7. SavedOnceAtATime'
  BY <1>1, <1>2, <1>3 DEF PagesIInv, SavedOnceAtATime, OneRead
<1>8. FormIsOfRoute'
  BY <1>1, <1>2, <1>3 DEF PagesIInv, FormIsOfRoute
<1>. QED  BY <1>4, <1>5, <1>6, <1>7, <1>8 DEF PagesIInv

\* A saved form leads to the list, from this page or another.
LEMMA SaveAnsweredKeepsIInv ==
  ASSUME PagesIInv, NEW c \in WritesInFlight, SaveAnswered(c)
  PROVE  PagesIInv'
<1>. DEFINE list == At("products")
<1>1. /\ c \in Write /\ c.op \in {"update", "create"}
      /\ Navigate(list, Without(c))
      /\ unnamed \subseteq Failures /\ FailuresAreNamed
      /\ writes \in [Write -> Nat]
  BY DEF SaveAnswered, WritesInFlight, PagesIInv, PagesTypeOK
<1>2. list \in Route /\ list.name = "products"
  BY DEF At, Route
<1>3. /\ Without(c) \in [Write -> Nat]
      /\ \A d \in Write : Without(c)[d] > 0 => d \in WritesInFlight
  BY <1>1, FewerWrites
<1>4. CASE list = route /\ writes' = Without(c) /\ UNCHANGED <<route, ui, reads, unnamed>>
  <2>1. c \notin LiveSaves
    BY <1>1, <1>2, <1>4 DEF PagesIInv, LiveWritesFit, LiveSaves
  <2>. QED  BY <1>1, <1>4, <2>1, UnnoticedKeepsIInv DEF FailuresAreNamed
<1>5. CASE list.name = route.name /\ list # route
  BY <1>2, <1>5 DEF PagesIInv, PagesTypeOK, Route, At
<1>6. CASE Mount(list, Without(c)) /\ (UNCHANGED unnamed \/ Missed)
  <2>. HIDE DEF list
  <2>. QED  BY <1>1, <1>2, <1>3, <1>6, MountKeepsIInv
<1>. QED  BY <1>1, <1>4, <1>5, <1>6 DEF Navigate

\* A failed save ends the waiting of its page.
LEMMA SaveFailsKeepsIInv ==
  ASSUME PagesIInv, NEW c \in WritesInFlight, NEW f \in Failures, SaveFails(c, f)
  PROVE  PagesIInv'
<1>1. /\ c \in Write /\ c.op \in {"update", "create"} /\ writes' = Without(c)
      /\ UNCHANGED <<route, reads>>
      /\ unnamed \subseteq Failures /\ FailuresAreNamed /\ writes \in [Write -> Nat]
  BY DEF SaveFails, WritesInFlight, PagesIInv, PagesTypeOK
<1>2. unnamed' \subseteq Failures /\ FailuresAreNamed'
  BY <1>1, UnseenAreNamed DEF SaveFails
<1>3. CASE ~c.live
  <2>. UNCHANGED ui
    BY <1>3 DEF SaveFails
  <2>. QED  BY <1>1, <1>2, <1>3, UnnoticedKeepsIInv DEF LiveSaves
<1>4. CASE c.live
  <2>1. /\ ui' \in UI /\ ~ui'.loading /\ ui'.error = "message" /\ ui'.reused = ui.reused
        /\ ui'.page = ui.page /\ ui'.product = ui.product
    BY <1>4 DEF SaveFails, PagesIInv, PagesTypeOK, UI
  <2>2. /\ writes' \in [Write -> Nat] /\ writes'[c] = writes[c] - 1
        /\ \A d \in Write : d # c => writes'[d] = writes[d]
        /\ WritesInFlight' \subseteq WritesInFlight
    BY <1>1, FewerWrites DEF WritesInFlight
  <2>3. ReadsInFlight' = ReadsInFlight /\ c \in LiveSaves
    BY <1>1, <1>4 DEF ReadsInFlight, LiveSaves
  <2>4. PagesTypeOK' /\ ReadsFit' /\ LiveWritesFit' /\ FilledIsSent'
    BY <1>1, <1>2, <2>1, <2>2, <2>3 DEF PagesIInv, PagesTypeOK, ReadsFit, LiveWritesFit,
       FilledIsSent
  <2>5. WaitingHasReason' /\ ShowsWhatWasAsked' /\ FormIsFilled'
    BY <2>1 DEF WaitingHasReason, ShowsWhatWasAsked, FormIsFilled
  <2>6. OneReadOfForm'
    BY <1>1, <2>1, <2>3 DEF PagesIInv, OneReadOfForm, OneRead
  <2>7. SavedOnceAtATime'
    <3>1. OneRead => writes[c] = 1 /\ \A d \in LiveSaves : d = c
      BY <2>3 DEF PagesIInv, SavedOnceAtATime
    <3>2. OneRead => LiveSaves' = {}
      BY <3>1, <2>2 DEF LiveSaves, WritesInFlight
    <3>. QED  BY <3>2, <2>1 DEF SavedOnceAtATime, OneRead
  <2>8. FormIsOfRoute'
    BY <1>1, <2>1, <2>2, <2>3 DEF PagesIInv, FormIsOfRoute, LiveSaves
  <2>. QED  BY <1>2, <2>4, <2>5, <2>6, <2>7, <2>8 DEF PagesIInv
<1>5. c.live \in BOOLEAN
  BY <1>1, WriteFields
<1>. QED  BY <1>3, <1>4, <1>5
-----------------------------------------------------------------------------
(* Theorems *)

\* Every step keeps the invariant.
LEMMA PagesStepOK == PagesIInv /\ [PagesNext]_pageVars => PagesIInv'
<1>. SUFFICES ASSUME PagesIInv, [PagesNext]_pageVars  PROVE PagesIInv'
  OBVIOUS
<1>1. CASE ReadEnded
  BY <1>1, ReadEndedKeepsIInv
<1>2. CASE WriteEnded
  <2>. PICK c \in WritesInFlight :
          \/ DeleteAnswered(c)
          \/ SaveAnswered(c)
          \/ \E f \in Failures : DeleteFails(c, f) \/ SaveFails(c, f)
    BY <1>2 DEF WriteEnded
  <2>. QED
    BY DeleteAnsweredKeepsIInv, SaveAnsweredKeepsIInv, DeleteFailsKeepsIInv,
       SaveFailsKeepsIInv
<1>3. CASE UserActs
  BY <1>3, PaginationKeepsIInv, DeleteKeepsIInv, FormsKeepIInv, TypeKeepsIInv DEF UserActs
<1>4. ASSUME NEW r \in Route, GoTo(r) \/ LoadPages(r)  PROVE PagesIInv'
  BY <1>4, GoToKeepsIInv, LoadPagesKeepsIInv
<1>5. CASE UNCHANGED pageVars
  BY <1>5 DEF pageVars, PagesIInv, PagesTypeOK, ReadsFit, ReadsInFlight, LiveWritesFit,
     WritesInFlight, WaitingHasReason, LiveSaves, ShowsWhatWasAsked, Wish, FormIsFilled,
     FilledIsSent, FailuresAreNamed, OneReadOfForm, OneRead, SavedOnceAtATime, FormIsOfRoute
<1>. QED  BY <1>1, <1>2, <1>3, <1>4, <1>5 DEF PagesNext, Answered

\* The parts of the invariant that the reader of the pages cares for.
LEMMA PagesIInvImplies ==
  PagesIInv => /\ PagesTypeOK
               /\ WaitingHasReason
               /\ ShowsWhatWasAsked
               /\ EmptyFormIsNeverSent
               /\ FormSavesItsProduct
               /\ FailuresAreNamed
               /\ SavedOnceAtATime
               /\ TypedInputIsSafe
<1>. SUFFICES ASSUME PagesIInv
              PROVE  EmptyFormIsNeverSent /\ FormSavesItsProduct /\ TypedInputIsSafe
  BY DEF PagesIInv
<1>1. EmptyFormIsNeverSent
  BY DEF PagesIInv, FormIsFilled, FilledIsSent, EmptyFormIsNeverSent, EditView, Gated
<1>2. TypedInputIsSafe
  BY DEF PagesIInv, OneReadOfForm, TypedInputIsSafe
<1>3. FormSavesItsProduct
  <2>1. ASSUME NEW c \in LiveSaves, c.op = "update"
        PROVE  route.name = "edit"
    BY <2>1 DEF PagesIInv, LiveWritesFit, LiveSaves
  <2>. QED  BY <2>1 DEF PagesIInv, FormIsOfRoute, FormSavesItsProduct
<1>. QED  BY <1>1, <1>2, <1>3

\* The inductive invariant of the product pages: it holds of every state of
\* the pages, whatever the user does and in whatever order answers come.
THEOREM PagesInvariant == PagesSpec => []PagesIInv
<1>. QED  BY PagesInitOK, PagesStepOK, PTL DEF PagesSpec

\* Every reachable state of the product pages is well typed: no order of clicks
\* and answers leads to a page number that the list does not have, although the
\* buttons are enabled by an answer that may be another page's.
THEOREM PagesAreWellTyped == PagesSpec => []PagesTypeOK
<1>. QED  BY PagesInvariant, PagesIInvImplies, PTL

\* No page waits for nothing, in no order in which overlapping reads, deletions
\* and savings are answered or fail.
THEOREM WaitingAlwaysHasReason == PagesSpec => []WaitingHasReason
<1>. QED  BY PagesInvariant, PagesIInvImplies, PTL

\* With nothing newer on its way, the screen shows what was asked for last, or an
\* error, unless the last answer was to an earlier wish.
THEOREM ScreenShowsWhatWasAsked == PagesSpec => []ShowsWhatWasAsked
<1>. QED  BY PagesInvariant, PagesIInvImplies, PTL

\* The empty product, with which the edit form begins, is never saved over an
\* existing one.
THEOREM NoEmptyFormIsSent == PagesSpec => []EmptyFormIsNeverSent
<1>. QED  BY PagesInvariant, PagesIInvImplies, PTL

\* Until a second identifier is opened in the same page, an edit form is saved
\* under the product it was filled from, whatever was left unanswered before.
THEOREM FormsSaveTheirProduct == PagesSpec => []FormSavesItsProduct
<1>. QED  BY PagesInvariant, PagesIInvImplies, PTL

\* Only a response with a status that the table of defaults misses, stated by the
\* problem details in the body or else its own, or one declared problem details
\* whose body is no object, goes by without a title: the pages, gone or mounted,
\* lose no title that the interceptor makes.
THEOREM FailuresAlwaysNamed == PagesSpec => []FailuresAreNamed
<1>. QED  BY PagesInvariant, PagesIInvImplies, PTL

\* Where one read fills the form, a form has at most one save in flight.
THEOREM FormsSavedOnceAtATime == PagesSpec => []SavedOnceAtATime
<1>. QED  BY PagesInvariant, PagesIInvImplies, PTL

\* Where one read fills the form, no answer overwrites what the user typed.
THEOREM TypedInputIsKept == PagesSpec => []TypedInputIsSafe
<1>. QED  BY PagesInvariant, PagesIInvImplies, PTL
=============================================================================

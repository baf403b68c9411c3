----------------------------- MODULE WorkPages -----------------------------
(***************************************************************************)
(* What a page of the web application shows while its user works faster    *)
(* than the API answers.  Every page loads rows with a query, keeps them   *)
(* in its state and loads again when the query changes, at the user's      *)
(* request or after a write of its own; no request is aborted, so answers  *)
(* arrive in any order.  The pages differ in a few habits, and a page is   *)
(* here the set of its habits:                                             *)
(*   filters    the query can be changed while a load runs                 *)
(*   turns      the query has a page number, with buttons to turn          *)
(*   echoes     the page number is taken from the answer, in any state     *)
(*   refreshes  a button repeats the load                                  *)
(*   waits      a loader replaces the page until the load settles          *)
(*   guarded    an effect's cleanup makes the answers of older loads void  *)
(*   clears     a failed load empties the page (else the old rows stay)    *)
(*   reloads, patches, resets: what a write of the page is followed by     *)
(*   single     a busy flag keeps a second write out while one runs        *)
(*   rebuilds   a patch starts from the rows its handler was rendered with *)
(* A write is a modal or a button, and the page stays usable under it (a   *)
(* debounced search may still fire, and the next row has a button of its   *)
(* own): the flags there are belong to one row or one dialog, so writes of *)
(* the page overlap too.  Others write to the same rows.                   *)
(***************************************************************************)
EXTENDS Naturals

CONSTANTS
    Loads,     \* slots for the loads of the page in flight (bound)
    Handlers,  \* slots for its writes in flight (bound)
    Filters,   \* values of its filters
    MaxPage,   \* pages of the list (bound)
    MaxWrites, \* bound: writes to the rows
    MaxMoves,  \* bound: what the user does
    None

ASSUME PagesAssumption ==
    /\ MaxPage \in Nat \ {0} /\ MaxWrites \in Nat /\ MaxMoves \in Nat
    /\ None \notin Loads \cup Filters /\ Loads # {} /\ Filters # {}

-----------------------------------------------------------------------------
(* The pages. *)

OrderHistory   == {"filters", "turns", "echoes", "refreshes", "clears"}
ReportPage     == {"filters"}
ExpensePage    == {"filters", "turns", "resets", "reloads"}
UserPage       == {"filters", "reloads"}
ClientPage     == {"filters", "turns", "clears"}
ClientDetail   == {"waits", "clears"}
ClientEdit     == {"waits", "clears", "guarded"}
ClientOmnibox  == {"filters", "clears"}
AgencyPage     == {"filters", "reloads"}
OrderDetail    == {"waits", "clears", "patches"}
WorkflowPage   == {"filters", "refreshes", "clears", "patches", "reloads"}
DeliveryDesk   == {"filters", "refreshes", "clears", "reloads"}
StorageScan    == {"filters", "refreshes", "clears", "reloads"}
DeliveriesPage == {"filters", "reloads"}
StorageMap     == {"reloads"}
TenantsAdmin   == {"reloads"}
PlansAdmin     == {"refreshes", "patches"}
SignupsAdmin   == {"filters", "reloads"}
SettingsAdmin  == {"waits", "patches", "single"}
ExpenseTypes   == {"reloads"}
CashRegister   == {"waits", "clears", "reloads"}
FinancePage    == {"waits", "reloads"}
CataloguePage  == {"filters", "patches", "rebuilds"}
ServicesTab    == {"reloads"}
ArticlesTab    == {"reloads"}
PricingTab     == {"waits", "patches"}
LocalitiesCard == {"reloads"}
NetworkBoard   == {"filters", "clears", "guarded"}
SiteBoard      == {"waits", "guarded"}
SiteOpsHome    == {"waits", "guarded"}
SlotContents   == {"filters", "guarded"}
AgencyDetail   == {"reloads"}
AgencyChart    == {"waits", "clears"}
ArticlePicker  == {"waits"}
TenantHeader   == {"clears", "reloads"}
Preferences    == {"reloads", "single"}

Pages ==
    { OrderHistory, ReportPage, ExpensePage, UserPage, ClientPage, ClientDetail,
      ClientEdit, ClientOmnibox, AgencyPage, OrderDetail, WorkflowPage, DeliveryDesk,
      StorageScan, DeliveriesPage, StorageMap, TenantsAdmin, PlansAdmin, SignupsAdmin,
      SettingsAdmin, ExpenseTypes, CashRegister, FinancePage, CataloguePage, ServicesTab,
      ArticlesTab, PricingTab, LocalitiesCard, NetworkBoard, SiteBoard, SiteOpsHome,
      SlotContents, AgencyDetail, AgencyChart, ArticlePicker, TenantHeader, Preferences }

-----------------------------------------------------------------------------
VARIABLES
    page,      \* the habits of the page that is open
    query,     \* its filter and page number
    loads,     \* requests in flight: query, stage, version read, whether it counts
    newest,    \* the request begun last, None once it has settled
    loading,   \* the page's loading flag
    shown,     \* the rows in its state: their query and version
    saving,    \* writes of its own in flight: query, rows, stage, and version made
    version,   \* external: how often the rows have been written
    own,       \* history: version of the last write the page knows succeeded
    failed,    \* history: the load begun last failed
    overtaken, \* history: a late answer has replaced a newer one
    outdated,  \* history: the load begun last used a query of the past
    echoed,    \* history: an answer has turned the page back
    moves      \* history: what the user has done

web  == <<query, loads, newest, loading, shown, failed, overtaken, outdated, echoed>>
pageVars == <<page, web, saving, version, own, moves>>

Query  == [filter: Filters, page: 1..MaxPage]
Load   == [q: Query, at: {"asked", "served"}, v: 0..MaxWrites, live: BOOLEAN]
Rows   == [q: Query, v: 0..MaxWrites]
Write  == [q: Query, rows: Rows \cup {None}, then: {"reloads", "patches", "resets"},
           at: {"asked", "served"}, v: 0..MaxWrites]
Writes == page \cap {"reloads", "patches", "resets"}

ASSUME NoneAssumption == None \notin Load \cup Rows \cup Write

\* Mutated form: the answers of older loads still count.
MutantOnceAsked(s, q) == [loads EXCEPT ![s] = [q |-> q, at |-> "asked", v |-> 0, live |-> TRUE]]

\* The requests in flight once s asks for q: on a guarded page the others are void.
OnceAsked(s, q) ==
    [t \in Loads |->
        IF t = s THEN [q |-> q, at |-> "asked", v |-> 0, live |-> TRUE]
        ELSE IF loads[t] # None /\ "guarded" \in page
        THEN [loads[t] EXCEPT !.live = FALSE] ELSE loads[t]]

InFlight == {s \in Loads : loads[s] # None}
Unsettled == {w \in Handlers : saving[w] # None}

\* The slots are alike: a request takes the first that is free.
FreeLoad(s) == loads[s] = None /\ s = CHOOSE t \in Loads : loads[t] = None
FreeHandler(w) == saving[w] = None /\ w = CHOOSE x \in Handlers : saving[x] = None

PageInit ==
    /\ page \in Pages
    /\ \E f \in Filters : LET s == CHOOSE t \in Loads : TRUE IN
           /\ query = [filter |-> f, page |-> 1]
           /\ newest = s
           /\ loads = [t \in Loads |->
                          IF t # s THEN None
                          ELSE [q |-> query, at |-> "asked", v |-> 0, live |-> TRUE]]
    /\ loading = TRUE
    /\ shown = None /\ saving = [w \in Handlers |-> None]
    /\ version = 0 /\ own = 0 /\ moves = 0
    /\ failed = FALSE /\ overtaken = FALSE /\ outdated = FALSE /\ echoed = FALSE

-----------------------------------------------------------------------------
(* The user. *)

\* The user can reach the controls of the page.
Act ==
    /\ moves < MaxMoves
    /\ "waits" \in page => ~loading
    /\ moves' = moves + 1

\* The user's wish becomes the query, and an effect or a handler loads it.
Ask(s, q) ==
    /\ FreeLoad(s)
    /\ query' = q
    /\ loads' = OnceAsked(s, q)
    /\ newest' = s
    /\ loading' = TRUE
    /\ outdated' = FALSE
    /\ echoed' = (echoed /\ \E t \in InFlight : loads[t].live)
    /\ UNCHANGED <<page, shown, failed, overtaken, saving, version, own>>

\* A filter goes back to the first page.
ChangeFilter(s, f) ==
    /\ "filters" \in page /\ f # query.filter
    /\ Act
    /\ Ask(s, [filter |-> f, page |-> 1])

\* Only OrderHistory lets its user turn the page while a load runs.
TurnPage(s, p) ==
    /\ "turns" \in page /\ p # query.page
    /\ "echoes" \notin page => ~loading
    /\ Act
    /\ Ask(s, [query EXCEPT !.page = p])

\* Only PlansAdmin disables the button while a load runs.
Refresh(s) ==
    /\ "refreshes" \in page
    /\ page = PlansAdmin => ~loading
    /\ Act
    /\ Ask(s, query)

\* The handler keeps the query and the rows it was rendered with.
Submit(w, habit) ==
    /\ habit \in Writes /\ FreeHandler(w) /\ version < MaxWrites
    /\ "single" \in page => Unsettled = {}
    /\ Act
    /\ saving' = [saving EXCEPT ![w] =
                      [q |-> query, rows |-> shown, then |-> habit, at |-> "asked", v |-> 0]]
    /\ UNCHANGED <<page, web, version, own>>

-----------------------------------------------------------------------------
(* External: the API, and others who use it. *)

Serve(s) ==
    /\ loads[s] # None /\ loads[s].at = "asked"
    /\ loads' = [loads EXCEPT ![s].at = "served", ![s].v = version]
    /\ UNCHANGED <<page, query, newest, loading, shown, failed, overtaken, outdated, echoed,
                   saving, version, own, moves>>

ServeWrite(w) ==
    /\ saving[w] # None /\ saving[w].at = "asked" /\ version < MaxWrites
    /\ version' = version + 1
    /\ saving' = [saving EXCEPT ![w].at = "served", ![w].v = version']
    /\ UNCHANGED <<page, web, own, moves>>

OtherWrite ==
    /\ version < MaxWrites
    /\ version' = version + 1
    /\ UNCHANGED <<page, web, saving, own, moves>>

-----------------------------------------------------------------------------
(* Answers. *)

\* The histories after the rows of the page were replaced by those of load s,
\* or its failure was noted.  A page that patches its rows may be set back to
\* before the write.
Settle(s, replaced, fails) ==
    LET older == ~fails /\ "patches" \in page /\ loads[s].v < own
    IN  /\ newest' = IF newest = s THEN None ELSE newest
        /\ failed' = IF newest = s THEN fails ELSE failed
        /\ overtaken' = IF newest = s THEN older
                        ELSE overtaken \/ (newest = None /\ replaced)

\* Mutated form: the answer turns the page on every page with page numbers.
MutantEchoes(s) == "turns" \in page /\ loads[s].q.page # query.page

\* setPage(result.meta.page) runs the effect again.
Echoes(s) == "echoes" \in page /\ loads[s].q.page # query.page

\* The rows arrive.
Answer(s) ==
    /\ loads[s] # None /\ loads[s].at = "served" /\ loads[s].live
    /\ shown' = [q |-> loads[s].q, v |-> loads[s].v]
    /\ IF Echoes(s)
       THEN LET q == [query EXCEPT !.page = loads[s].q.page]
            IN  /\ query' = q
                /\ loads' = OnceAsked(s, q)
                /\ newest' = s
                /\ loading' = TRUE
                /\ echoed' = TRUE
                /\ UNCHANGED <<failed, overtaken>>
       ELSE /\ Settle(s, TRUE, FALSE)
            /\ loads' = [loads EXCEPT ![s] = None]
            /\ loading' = FALSE
            /\ UNCHANGED <<query, echoed>>
    /\ UNCHANGED <<page, outdated, saving, version, own, moves>>

\* A load fails, on the way there or back.
Fail(s) ==
    /\ loads[s] # None /\ loads[s].live
    /\ shown' = IF "clears" \in page THEN None ELSE shown
    /\ Settle(s, "clears" \in page, TRUE)
    /\ loads' = [loads EXCEPT ![s] = None]
    /\ loading' = FALSE
    /\ UNCHANGED <<page, query, outdated, echoed, saving, version, own, moves>>

\* The answer of a void load is dropped.
Ignored(s) ==
    /\ loads[s] # None /\ ~loads[s].live
    /\ loads' = [loads EXCEPT ![s] = None]
    /\ UNCHANGED <<page, query, newest, loading, shown, failed, overtaken, outdated, echoed,
                   saving, version, own, moves>>

\* After the write: the load of the handler's query.
Reload(w, s) ==
    /\ saving[w].then = "reloads"
    /\ FreeLoad(s)
    /\ loads' = OnceAsked(s, saving[w].q)
    /\ newest' = s
    /\ loading' = TRUE
    /\ outdated' = (saving[w].q # query)
    /\ UNCHANGED <<query, shown, failed, overtaken, echoed>>

\* The last write the page knows of, once the answer of w has come.
Known(w) == IF saving[w].v < own THEN own ELSE saving[w].v

\* The new row is put into the rows at hand, where it may be the row of a later
\* write, answered before; or into the rows of the handler, which takes what
\* other answers have brought since out of the page.
Patched(w) ==
    IF "rebuilds" \in page /\ saving[w].rows # shown THEN {saving[w].rows}
    ELSE IF shown = None THEN {None}
    ELSE {[shown EXCEPT !.v = v] : v \in {saving[w].v, Known(w)}}

\* Such an answer is late.
Late(w) == saving[w].v < own \/ ("rebuilds" \in page /\ saving[w].rows # shown)

Patch(w) ==
    /\ saving[w].then = "patches"
    /\ shown' \in Patched(w)
    /\ overtaken' = (overtaken \/ Late(w))
    /\ UNCHANGED <<query, loads, newest, loading, failed, outdated, echoed>>

\* handleCreate of the expenses: a load of the handler's query, and one of the
\* first page by the effect if another page was open.
Reset(w, s, t) ==
    /\ saving[w].then = "resets"
    /\ FreeLoad(s) /\ loads[t] = None
    /\ query' = [query EXCEPT !.page = 1]
    /\ IF query.page = 1
       THEN /\ loads' = OnceAsked(s, saving[w].q)
            /\ newest' = s
            /\ outdated' = (saving[w].q # query)
       ELSE /\ s # t
            /\ loads' = [OnceAsked(s, saving[w].q) EXCEPT
                            ![t] = [q |-> query', at |-> "asked", v |-> 0, live |-> TRUE]]
            /\ newest' = t
            /\ outdated' = FALSE
    /\ loading' = TRUE
    /\ UNCHANGED <<shown, failed, overtaken, echoed>>

WriteAnswered(w) ==
    /\ saving[w] # None /\ saving[w].at = "served"
    /\ \/ \E s \in Loads : Reload(w, s)
       \/ Patch(w)
       \/ \E s, t \in Loads : Reset(w, s, t)
    /\ own' = Known(w)
    /\ saving' = [saving EXCEPT ![w] = None]
    /\ UNCHANGED <<page, version, moves>>

\* The write is refused, or its answer is lost: a message, and no load.
WriteFails(w) ==
    /\ saving[w] # None
    /\ saving' = [saving EXCEPT ![w] = None]
    /\ UNCHANGED <<page, web, version, own, moves>>

-----------------------------------------------------------------------------
LoadStep(s) == Serve(s) \/ Answer(s) \/ Fail(s) \/ Ignored(s)
SaveStep(w) == ServeWrite(w) \/ WriteAnswered(w) \/ WriteFails(w)

PageNext ==
    \/ \E s \in Loads :
           \/ \E f \in Filters : ChangeFilter(s, f)
           \/ \E p \in 1..MaxPage : TurnPage(s, p)
           \/ Refresh(s)
           \/ LoadStep(s)
    \/ \E w \in Handlers : SaveStep(w) \/ \E habit \in Writes : Submit(w, habit)
    \/ OtherWrite

-----------------------------------------------------------------------------
(* Properties. *)

PageTypeOK ==
    /\ page \in Pages
    /\ query \in Query
    /\ loads \in [Loads -> Load \cup {None}]
    /\ newest \in InFlight \cup {None}
    /\ shown \in Rows \cup {None} /\ saving \in [Handlers -> Write \cup {None}]
    /\ own <= version

\* No request is in flight.
Quiet == InFlight = {} /\ Unsettled = {}

\* A page at rest shows what its filters and page number say, read after the
\* last write the page itself has made.  The exceptions, each only on the pages
\* with that habit: the load begun last failed, and the page is empty or shows
\* the rows before; a late answer has replaced a newer one, on a page that takes
\* every answer, and where a loader waits for the first of them, after two writes
\* that overlapped; a handler loaded with the query of before its write.
ShownIsAsked ==
    /\ PageTypeOK
    /\ Quiet =>
        \/ shown # None /\ shown.q = query /\ shown.v >= own
        \/ failed /\ ("clears" \in page => shown = None)
        \/ overtaken /\ "guarded" \notin page
           /\ ("waits" \in page => Writes # {} /\ "single" \notin page)
        \/ outdated /\ "filters" \in page /\ Writes # {}

\* The page comes to rest once its user does.  The exception is the order list:
\* two answers with different page numbers can send for each other forever.
PagesSettle == <>[](Quiet \/ ("echoes" \in page /\ echoed))

=============================================================================

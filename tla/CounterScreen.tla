--------------------------- MODULE CounterScreen ----------------------------
(***************************************************************************)
(* The order page of the counter: the draft that one browser tab edits and *)
(* keeps in its local storage (OrderDraftProvider), the payment form, the  *)
(* request that creates the order, the receipt and the storage step that   *)
(* follow, against the price list and the order service of the back end.   *)
(*                                                                         *)
(* The request carries the draft of the moment the form was confirmed.     *)
(* Until its answer comes the page stays alive: the grid, the client panel *)
(* and "back to the cart" work.  The answer may not come at all, whether   *)
(* or not the order was created, and the page may be reloaded at any time. *)
(* Delivery address, labels and the due date are left out; the merging of  *)
(* lines is in, so a draft is a quantity and a price per offer.            *)
(***************************************************************************)
EXTENDS Naturals, FiniteSets, FiniteSetsExt

CONSTANTS
    Clients,
    Offers,       \* the priced services of the catalogue
    Default,      \* the offer a click on its article adds
    Prices,
    FirstList,    \* the price list at the start
    Multipliers,  \* express multipliers a tenant may set
    FirstMultiplier,
    MaxPieces,    \* bound: pieces of the first draft
    MaxLater,     \* bound: pieces of a later draft
    MaxSends,     \* bound: requests ever sent
    MaxBaskets,   \* bound: drafts, but for those cleared by the storage step
    MaxEdits,     \* bound: changes of the price list and of the multiplier
    MaxMishaps,   \* bound: reloads of the page and answers lost
    None

VARIABLES
    list,     \* service_prices: the price of each offer
    multiplier, \* the tenant's express multiplier
    draft,    \* the draft, in the page and in local storage
    page,     \* what the page holds besides the draft
    request,  \* the requests out, and the orders made of them and not yet shelved
    sends,    \* requests sent so far
    basket,   \* history: number of the draft, a new one after every clearing
    ordered,  \* history: drafts an order was made of
    twice,    \* history: drafts two orders were made of
    excuse,   \* history: drafts whose answer was lost or whose page was reloaded
    touched,  \* history: the draft was edited while its request was out
    edits,    \* changes of the price list and of the multiplier so far
    mishaps   \* reloads and lost answers so far

vars == <<list, multiplier, draft, page, request, sends, basket, ordered, twice, excuse, touched, edits, mishaps>>
backend == <<list, multiplier, edits, ordered, twice>>

Draft == [client : Clients \cup {None}, qty : [Offers -> 0 .. MaxPieces],
          price : [Offers -> Prices \cup {0}], express : BOOLEAN]
EmptyDraft == [client |-> None, qty |-> [o \in Offers |-> 0], price |-> [o \in Offers |-> 0],
               express |-> FALSE]

\* A request out, and what was made of it: the multiplier the page showed and the
\* one that was charged, the total, the prices.
Request == [draft : Draft, pay : Nat, basket : Nat \ {0}, state : {"out", "created", "refused"},
            shown : Multipliers \cup {1}, charged : Multipliers \cup {1}, total : Nat, list : [Offers -> Prices]]

ASSUME ScreenAssumption ==
    /\ IsFiniteSet(Offers) /\ Default \in Offers
    /\ Prices \subseteq Nat \ {0}
    /\ FirstList \in [Offers -> Prices]
    /\ Multipliers \subseteq Nat \ {0} /\ FirstMultiplier \in Multipliers
    /\ MaxPieces \in Nat /\ MaxLater \in 0 .. MaxPieces
    /\ {MaxSends, MaxBaskets, MaxEdits, MaxMishaps} \subseteq Nat
    /\ None \notin Clients \cup Offers \cup Nat \cup Request

Base(qty, price) == MapThenSumSet(LAMBDA o : qty[o] * price[o], Offers)

\* A bug: the multiplier on every order.
MutantTotal(d, m) == Base(d.qty, d.price) * m

\* calculateOrderTotal.
Total(d, m) == Base(d.qty, d.price) * (IF d.express THEN m ELSE 1)

\* multiplier: that of the settings the page fetched, 1 without settings.
\* shown: the price list as the grid fetched it.  amount: the amount field.
\* sent: the request out.  receipt: the request the receipt on screen was made
\* from.  storing: the order to be put into a reception slot.
FreshPage == [panel |-> "cart", multiplier |-> 1, shown |-> None,
              amount |-> 0, sent |-> None, receipt |-> None, storing |-> None]

Init ==
    /\ list = FirstList /\ multiplier = FirstMultiplier
    /\ draft = EmptyDraft
    /\ page = FreshPage
    /\ request = [i \in 1 .. MaxSends |-> None]
    /\ sends = 0
    /\ basket = 1
    /\ ordered = {} /\ twice = {} /\ excuse = {}
    /\ touched = FALSE
    /\ edits = 0 /\ mishaps = 0

\* The receipt and the storage dialogue cover the page.
Uncovered == page.receipt = None /\ page.storing = None

Modify(d) ==
    /\ Uncovered
    /\ sends < MaxSends \/ page.sent # None       \* bound: no draft after the last
    /\ draft' = d
    /\ touched' = (touched \/ page.sent # None)
    /\ UNCHANGED <<backend, request, sends, basket, excuse, mishaps>>

ToPage(p) ==
    /\ page' = p
    /\ UNCHANGED <<backend, draft, request, sends, basket, excuse, touched, mishaps>>

\* Of a request nobody waits for any more only its draft's number is kept, and
\* that until the request is decided.
Left(r) ==
    IF r.state = "out" THEN [r EXCEPT !.draft = EmptyDraft, !.pay = 0, !.shown = 1, !.list = FirstList]
    ELSE None
Abandoned(gone) ==
    [i \in DOMAIN request |-> IF i \in gone THEN Left(request[i]) ELSE request[i]]

Mishap == mishaps < MaxMishaps /\ mishaps' = mishaps + 1

-----------------------------------------------------------------------------
(* Loading.                                                                *)

LoadPrices == page.shown = None /\ ToPage([page EXCEPT !.shown = list])

\* The settings arrive: they are asked for when the page opens and whenever the
\* session object changes, and not when the tenant's administrator changes them;
\* a request for them that fails changes nothing.
LoadConfig == page.multiplier # multiplier /\ ToPage([page EXCEPT !.multiplier = multiplier])

\* The requests whose answer or whose storage step the page is waiting for.
Pending == {page.sent, page.storing} \ {None}

\* A reload keeps the draft that is in local storage and nothing else.
Reload ==
    /\ Mishap
    /\ page' = FreshPage
    /\ excuse' = excuse \cup {request[i].basket : i \in Pending}
    /\ request' = Abandoned(Pending)
    /\ touched' = FALSE
    /\ UNCHANGED <<backend, draft, sends, basket>>

-----------------------------------------------------------------------------
(* Editing the draft.                                                      *)

Room ==
    MapThenSumSet(LAMBDA o : draft.qty[o], Offers) < IF basket = 1 THEN MaxPieces ELSE MaxLater

SetClient(c) == draft.client # c /\ Modify([draft EXCEPT !.client = c]) /\ UNCHANGED page

ToggleExpress ==
    /\ page.panel = "cart"
    /\ Modify([draft EXCEPT !.express = ~@])
    /\ UNCHANGED page

\* A line that is there grows and keeps its price.
AddItem ==
    /\ page.shown # None
    /\ draft.client # None                  \* the grid is covered without one
    /\ Room
    /\ Modify([draft EXCEPT !.qty[Default] = @ + 1,
                            !.price[Default] = IF @ = 0 THEN page.shown[Default] ELSE @])
    /\ UNCHANGED page

DropLine(d, o) == [d EXCEPT !.qty[o] = 0, !.price[o] = 0]

UpdateQuantity(o, up) ==
    /\ page.panel = "cart"
    /\ draft.qty[o] > 0
    /\ up => Room
    /\ Modify(IF up THEN [draft EXCEPT !.qty[o] = @ + 1]
              ELSE IF draft.qty[o] = 1 THEN DropLine(draft, o)
              ELSE [draft EXCEPT !.qty[o] = @ - 1])
    /\ UNCHANGED page

\* Merges into the line of the other service, at that line's price.
UpdateService(o, p) ==
    /\ page.panel = "cart"
    /\ page.shown # None
    /\ o # p /\ draft.qty[o] > 0
    /\ Modify([DropLine(draft, o) EXCEPT !.qty[p] = @ + draft.qty[o],
                                         !.price[p] = IF @ = 0 THEN page.shown[p] ELSE @])
    /\ UNCHANGED page

\* clearDraft replaces the whole state, the settings of the tenant with it.
Cleared(p) == [p EXCEPT !.multiplier = 1, !.receipt = None, !.storing = None]

Clear ==
    /\ Uncovered
    /\ page.panel = "cart"
    /\ basket < MaxBaskets
    /\ draft' = EmptyDraft
    /\ page' = Cleared(page)
    /\ basket' = basket + 1
    /\ touched' = (page.sent # None)
    /\ UNCHANGED <<backend, request, sends, excuse, mishaps>>

-----------------------------------------------------------------------------
(* Payment and creation.                                                   *)

Ready == draft.client # None /\ \E o \in Offers : draft.qty[o] > 0

HandleValidateClick ==
    /\ Uncovered
    /\ page.panel = "cart" /\ Ready
    /\ ToPage([page EXCEPT !.panel = "payment", !.amount = Total(draft, page.multiplier)])

\* The form goes, its amount with it.
FormClosed(p) == [p EXCEPT !.panel = "cart", !.amount = 0]

BackToCart == page.panel = "payment" /\ Uncovered /\ ToPage(FormClosed(page))

\* What the form may confirm: nothing, the amount in the field, or the total.
Payable == LET total == Total(draft, page.multiplier) IN {0, Min({page.amount, total}), total}

\* A bug: the form stays enabled while a request is out.
MutantConfirm(pay) ==
    /\ Uncovered
    /\ page.panel = "payment"
    /\ pay \in Payable
    /\ IF Ready
       THEN /\ sends < MaxSends
            /\ sends' = sends + 1
            /\ request' = [request EXCEPT ![sends'] =
                    [draft |-> draft, pay |-> pay, basket |-> basket, state |-> "out",
                     shown |-> page.multiplier, charged |-> 1, total |-> 0, list |-> FirstList]]
            /\ page' = [page EXCEPT !.sent = sends']
       ELSE page' = FormClosed(page) /\ UNCHANGED <<request, sends>>
    /\ touched' = FALSE
    /\ UNCHANGED <<backend, draft, basket, excuse, mishaps>>

\* The form is disabled while a request is out.  A draft that lost its client or
\* its lines is refused here, and the form closes.
Confirm(pay) ==
    /\ Uncovered
    /\ page.panel = "payment"
    /\ page.sent = None
    /\ pay \in Payable
    /\ IF Ready
       THEN /\ sends < MaxSends
            /\ sends' = sends + 1
            /\ request' = [request EXCEPT ![sends'] =
                    [draft |-> draft, pay |-> pay, basket |-> basket, state |-> "out",
                     shown |-> page.multiplier, charged |-> 1, total |-> 0, list |-> FirstList]]
            /\ page' = [page EXCEPT !.sent = sends']
       ELSE page' = FormClosed(page) /\ UNCHANGED <<request, sends>>
    /\ touched' = FALSE
    /\ UNCHANGED <<backend, draft, basket, excuse, mishaps>>

\* What the order service charges: the prices and the multiplier of that moment.
Charged(d) == Base(d.qty, list) * (IF d.express THEN multiplier ELSE 1)

\* OrdersService.create; the order is the request with its total, its prices and
\* its multiplier.
CreateOrder(i) ==
    LET r == request[i]
    IN /\ r # None /\ r.state = "out"
       /\ request' = [request EXCEPT ![i] =
               IF i = page.sent
               THEN [r EXCEPT !.state = "created", !.list = list, !.charged = multiplier,
                               !.total = Charged(r.draft)]
               ELSE None]
       /\ ordered' = ordered \cup {r.basket}
       /\ twice' = IF r.basket \in ordered THEN twice \cup {r.basket} ELSE twice
       /\ UNCHANGED <<list, multiplier, draft, page, sends, basket, excuse, touched, edits, mishaps>>

\* A quota, a closed cash register, an error; or the request does not arrive.
RefuseOrder(i) ==
    /\ request[i] # None /\ request[i].state = "out"
    /\ request' = [request EXCEPT ![i] = IF i = page.sent THEN [@ EXCEPT !.state = "refused"] ELSE None]
    /\ UNCHANGED <<backend, draft, page, sends, basket, excuse, touched, mishaps>>

\* The payment that is booked is capped at the total.
Booked(r) == Min({r.pay, r.total})

\* The receipt is made from the draft that was sent.
Receipt(i) == [client |-> request[i].draft.client, qty |-> request[i].draft.qty,
               paid |-> request[i].pay]

Answer ==
    /\ page.sent # None
    /\ \/ /\ request[page.sent].state = "created"
          /\ page' = [FormClosed(page) EXCEPT !.sent = None, !.receipt = Receipt(page.sent),
                                              !.storing = page.sent]
          /\ UNCHANGED request
       \/ /\ request[page.sent].state = "refused"
          /\ page' = [page EXCEPT !.sent = None]
          /\ request' = [request EXCEPT ![page.sent] = None]
    /\ UNCHANGED <<backend, draft, sends, basket, excuse, touched, mishaps>>

\* The connection breaks; the page cannot tell whether the order exists.
LoseAnswer ==
    /\ Mishap
    /\ page.sent # None
    /\ page' = [page EXCEPT !.sent = None]
    /\ excuse' = excuse \cup {request[page.sent].basket}
    /\ request' = Abandoned({page.sent})
    /\ UNCHANGED <<backend, draft, sends, basket, touched>>

-----------------------------------------------------------------------------
(* After the creation: the receipt, then the reception slot.               *)

DismissReceipt == page.receipt # None /\ ToPage([page EXCEPT !.receipt = None])

\* The order is on its shelf; the draft is cleared.
CompleteStorageStep ==
    /\ page.storing # None /\ page.receipt = None
    /\ request' = [request EXCEPT ![page.storing] = None]
    /\ draft' = EmptyDraft
    /\ page' = Cleared(page)
    /\ basket' = basket + 1
    /\ touched' = FALSE
    /\ UNCHANGED <<backend, sends, excuse, mishaps>>

\* The administrator changes a price (PricingService.upsert).
SetPrice(o, n) ==
    /\ edits < MaxEdits /\ list[o] # n
    /\ list' = [list EXCEPT ![o] = n]
    /\ edits' = edits + 1
    /\ UNCHANGED <<multiplier, draft, page, request, sends, basket, ordered, twice, excuse, touched, mishaps>>

\* The administrator changes the express multiplier (TenantService.updateConfig).
SetMultiplier(m) ==
    /\ edits < MaxEdits /\ multiplier # m
    /\ multiplier' = m
    /\ edits' = edits + 1
    /\ UNCHANGED <<list, draft, page, request, sends, basket, ordered, twice, excuse, touched, mishaps>>

-----------------------------------------------------------------------------
Load == LoadPrices \/ LoadConfig \/ Reload

Edit ==
    \/ \E c \in Clients \cup {None} : SetClient(c)
    \/ ToggleExpress \/ AddItem \/ Clear
    \/ \E o \in Offers, up \in BOOLEAN : UpdateQuantity(o, up)
    \/ \E o, p \in Offers : UpdateService(o, p)

Checkout ==
    \/ HandleValidateClick \/ BackToCart \/ Answer \/ LoseAnswer
    \/ \E pay \in Payable : Confirm(pay)
    \/ DismissReceipt \/ CompleteStorageStep

BackEnd ==
    \/ \E i \in DOMAIN request : CreateOrder(i) \/ RefuseOrder(i)
    \/ \E o \in Offers, n \in Prices : SetPrice(o, n)
    \/ \E m \in Multipliers : SetMultiplier(m)

Next == Load \/ Edit \/ Checkout \/ BackEnd

Spec == Init /\ [][Next]_vars

-----------------------------------------------------------------------------
\* The type invariant; a line has a price exactly when it has a quantity.
TypeOK ==
    /\ list \in [Offers -> Prices]
    /\ draft \in Draft
    /\ \A o \in Offers : draft.qty[o] > 0 <=> draft.price[o] # 0
    /\ page.panel \in {"cart", "payment"}
    /\ multiplier \in Multipliers /\ page.multiplier \in Multipliers \cup {1}
    /\ page.shown \in [Offers -> Prices] \cup {None}
    /\ page.amount \in Nat
    /\ \A i \in {page.sent, page.storing} : i # None => request[i] # None
    /\ page.receipt # None => page.storing # None
    /\ \A i \in DOMAIN request :
          request[i] # None => request[i].draft \in Draft /\ request[i].basket \in 1 .. basket
    /\ sends \in 0 .. MaxSends
    /\ basket \in Nat \ {0}
    /\ twice \subseteq ordered /\ ordered \cup excuse \subseteq 1 .. basket
    /\ touched \in BOOLEAN /\ edits \in 0 .. MaxEdits /\ mishaps \in 0 .. MaxMishaps

Orders == {i \in DOMAIN request : request[i] # None /\ request[i].state = "created"}

\* One draft makes one order, unless an answer was lost or the page was reloaded
\* between the request and the storage step (validateOrder, the submitting flag
\* of OrderDraftSummary, completeStorageStep).
OneOrderPerDraft == twice \subseteq excuse

\* No order is left on the counter: one that is not shelved is waiting on this
\* page for its slot or for its answer, unless that answer was lost or the page
\* reloaded (pendingStorageOrderId, the dialogue that cannot be closed).
NoOrderForgotten == Orders \subseteq Pending

\* The receipt on screen names the client and the articles of the order that is
\* about to be shelved and no less than the payment it booked, whatever was
\* edited while the answer was awaited (the closure of validateOrder).
ReceiptMatchesOrder ==
    page.receipt # None =>
        LET r == request[page.storing]
        IN /\ page.receipt.client = r.draft.client
           /\ page.receipt.qty = r.draft.qty
           /\ page.receipt.paid >= Booked(r)

\* The customer hands over more than is booked only if a price was lowered after
\* the article was scanned, or the multiplier of an express order after the page
\* fetched it (calculateOrderTotal, OrdersService.create).
SurplusOnlyFromOldPrices ==
    \A i \in Orders :
        LET r == request[i]
        IN r.pay > Booked(r) =>
               \/ r.draft.express /\ r.shown > r.charged
               \/ \E f \in Offers : r.draft.qty[f] > 0 /\ r.draft.price[f] > r.list[f]

\* An order the customer paid in full is settled, unless a price was raised after
\* the scan, or it is an express order of a page whose multiplier is lower than
\* the tenant's: it was raised since the page fetched it, or the page has no
\* settings, which clearDraft drops (order-draft.context.tsx, OrdersService.create).
PaidInFullIsSettled ==
    \A i \in Orders :
        LET r == request[i]
        IN r.pay = Total(r.draft, r.shown) =>
               \/ Booked(r) = r.total
               \/ r.draft.express /\ r.shown < r.charged
               \/ \E f \in Offers : r.draft.qty[f] > 0 /\ r.draft.price[f] < r.list[f]

\* The storage step clears the draft of the very order that is shelved, unless
\* the draft was edited while the answer was awaited: then the edits are lost.
StorageClearsItsDraft ==
    page.storing # None /\ ~touched => draft = request[page.storing].draft

\* From the cart to the shelf nothing is doubled, forgotten or dropped: every draft
\* becomes one order, every order reaches the storage step, which clears the
\* draft of that order (validateOrder, completeStorageStep, clearDraft).
DraftsBecomeOrders == TypeOK /\ OneOrderPerDraft /\ NoOrderForgotten /\ StorageClearsItsDraft

\* What the customer is told and gives agrees with what the back end books, which
\* prices the order again from its own list and multiplier (validateOrder, OrdersService.create).
MoneyAgrees == ReceiptMatchesOrder /\ SurplusOnlyFromOldPrices /\ PaidInFullIsSettled

=============================================================================

----------------------------- MODULE PlanQuota ------------------------------
(***************************************************************************)
(* The creations a subscription plan meters: orders, counted per period    *)
(* (QuotaService, UsageService, OrdersService.create), and sites, limited  *)
(* by how many there are (SiteService.create).  With them go the numbers   *)
(* the two creations hand out: the reference of an order, one more than    *)
(* the orders of the site in the month, and the code of a site, one more   *)
(* than the highest.                                                       *)
(*                                                                         *)
(* The quota is read before the transaction of the creation, the usage is  *)
(* counted after it, and each read and each counter is a statement of its  *)
(* own.  Requests interleave between any two statements, may die there     *)
(* (Abort), and the date may change (NextDay).                             *)
(***************************************************************************)
EXTENDS UsagePeriods, FiniteSets, FiniteSetsExt

CONSTANTS
    Workers,    \* requests in flight at the same time
    Windows,    \* the windows of orders.create in the plan, in their order
    Limit,      \* the hard limit of each of them
    SiteLimit,  \* sites.capacity
    Days,       \* bound: the dates the clock can show
    MaxOrders   \* bound: orders whose creation may begin

WindowSet == {Windows[i] : i \in DOMAIN Windows}

ASSUME PlanAssumption ==
    /\ Windows \in Seq(Period) /\ Windows # << >>
    /\ \A i, j \in DOMAIN Windows : Windows[i] = Windows[j] => i = j
    /\ Limit \in [WindowSet -> Nat \ {0}]
    /\ SiteLimit \in Nat \ {0} /\ MaxOrders \in Nat
    /\ IsFiniteSet(Workers) /\ Workers # {}
    /\ Days # {} /\ Days \subseteq Calendar

MaxSiteCode == 99

VARIABLES
    day,      \* today
    orders,   \* orders: date of creation and reference <<site code, month, number>>
    sites,    \* the codes of the tenant's sites; the first comes with the tenant
    usage,    \* tenant_usage_periods: count and period_start per window and key
    counted,  \* its idempotency rows: <<reference, window, key>>
    req       \* the request each worker runs

tables == <<orders, sites, usage, counted>>
vars == <<day, tables, req>>

\* The key, and the first day of the period, of every date of the run.
Key == [window \in WindowSet \cup {"monthly"} |-> [d \in Days |-> PeriodKey(window, d)]]
Start == [window \in WindowSet |-> [d \in Days |-> PeriodStart(window, d)]]

Keys == [window \in WindowSet |-> {Key[window][d] : d \in Days}]
Month(d) == Key["monthly"][d]
Months == {Month(d) : d \in Days}

\* Request: step, site and number it hands out, reference of the order it
\* created, window it is at, date it holds.
Idle == [at |-> "idle", site |-> 1, number |-> 0, ref |-> << >>, i |-> 0, now |-> 0]
Steps == {"idle", "quota", "order", "marker", "count", "mark",
          "code", "site"}

Init ==
    /\ day = CHOOSE d \in Days : \A e \in Days : d <= e
    /\ orders = {}
    /\ sites = {1}
    /\ usage = [window \in WindowSet |->
                   [key \in Keys[window] |-> [count |-> 0, start |-> 0]]]
    /\ counted = {}
    /\ req = [w \in Workers |-> Idle]

\* Worker w goes from step `at` to request record r.
Moves(w, at, r) == req[w].at = at /\ req' = [req EXCEPT ![w] = r]

-----------------------------------------------------------------------------
(* assertWithinQuota for orders.create. *)

CreateOrder(w, site) ==
    /\ Cardinality(orders) < MaxOrders
    /\ site \in sites
    /\ Moves(w, "idle", [Idle EXCEPT !.at = "quota", !.site = site, !.i = 1, !.now = day])
    /\ UNCHANGED <<day, tables>>

\* Mutated form: the order that reaches the limit is followed by one more.
MutantWithinWindow(window, date) ==
    usage[window][Key[window][date]].count <= Limit[window]

\* A hard window still has room on the date the request started.
WithinWindow(window, date) ==
    usage[window][Key[window][date]].count < Limit[window]

\* One window read; the request is refused once one of them is full.
ReadWindow(w) ==
    LET r == req[w]
    IN  /\ r.at = "quota" /\ r.i \in DOMAIN Windows
        /\ WithinWindow(Windows[r.i], r.now)
        /\ Moves(w, "quota", [r EXCEPT !.i = @ + 1])
        /\ UNCHANGED <<day, tables>>

-----------------------------------------------------------------------------
(* The transaction of OrdersService.create, as far as the reference goes. *)

\* Mutated form: the orders of every site are counted.
MutantNextNumber(site, date) ==
    1 + Cardinality({o \in orders : o.ref[2] = Month(date)})

\* generateOrderReference: one more than the orders of the site in the month.
NextNumber(site, date) ==
    1 + Cardinality({o \in orders : o.ref[1] = site /\ Month(o.day) = Month(date)})

CountOrders(w) ==
    LET r == req[w]
    IN  /\ r.at = "quota" /\ r.i \notin DOMAIN Windows
        /\ Moves(w, "quota", [r EXCEPT !.at = "order", !.now = day,
                                       !.number = NextNumber(r.site, day)])
        /\ UNCHANGED <<day, tables>>

Reference(r) == <<r.site, Month(r.now), r.number>>

\* Mutated form: usage is recorded though the insert was refused.
MutantInsertOrder(w) ==
    LET r == req[w]
    IN  /\ r.at = "order"
        /\ orders' = orders \cup {[day |-> r.now, ref |-> Reference(r)]}
        /\ Moves(w, "order", [r EXCEPT !.at = "marker", !.i = 1, !.ref = Reference(r)])
        /\ UNCHANGED <<day, sites, usage, counted>>

\* The insert commits unless the tenant has an order of that reference.
InsertOrder(w) ==
    LET r == req[w]
    IN  /\ r.at = "order"
        /\ \A o \in orders : o.ref # Reference(r)
        /\ orders' = orders \cup {[day |-> r.now, ref |-> Reference(r)]}
        /\ Moves(w, "order", [r EXCEPT !.at = "marker", !.i = 1, !.ref = Reference(r)])
        /\ UNCHANGED <<day, sites, usage, counted>>

-----------------------------------------------------------------------------
(* recordUsage: incrementUsage takes the windows one by one. *)

\* On to the window after that of request r, or done.
NextWindow(r) ==
    IF r.i + 1 \in DOMAIN Windows THEN [r EXCEPT !.at = "marker", !.i = @ + 1] ELSE Idle

\* The date is taken before the first window.
FindMarker(w) ==
    LET r == IF req[w].i = 1 THEN [req[w] EXCEPT !.now = day] ELSE req[w]
        window == Windows[r.i]
    IN  /\ r.at = "marker"
        /\ Moves(w, "marker", IF <<r.ref, window, Key[window][r.now]>> \in counted
                              THEN NextWindow(r) ELSE [r EXCEPT !.at = "count"])
        /\ UNCHANGED <<day, tables>>

\* INSERT ... ON CONFLICT DO UPDATE SET count = count + 1: the dates of the period
\* are those of the first insert.
Count(w) ==
    LET r == req[w]
        window == Windows[r.i]
    IN  /\ r.at = "count"
        /\ usage' = [usage EXCEPT ![window][Key[window][r.now]] =
               [count |-> @.count + 1,
                start |-> IF @.count = 0 THEN Start[window][r.now] ELSE @.start]]
        /\ Moves(w, "count", [r EXCEPT !.at = "mark"])
        /\ UNCHANGED <<day, orders, sites, counted>>

Mark(w) ==
    LET r == req[w]
        window == Windows[r.i]
    IN  /\ r.at = "mark"
        /\ counted' = counted \cup {<<r.ref, window, Key[window][r.now]>>}
        /\ Moves(w, "mark", NextWindow(r))
        /\ UNCHANGED <<day, orders, sites, usage>>

-----------------------------------------------------------------------------
(* SiteService.create. *)

CreateSite(w) ==
    /\ Cardinality(sites) + 1 <= SiteLimit
    /\ Moves(w, "idle", [Idle EXCEPT !.at = "code"])
    /\ UNCHANGED <<day, tables>>

NextSiteCode(w) ==
    /\ req[w].at = "code"
    /\ Max(sites) + 1 <= MaxSiteCode
    /\ Moves(w, "code", [req[w] EXCEPT !.at = "site", !.number = Max(sites) + 1])
    /\ UNCHANGED <<day, tables>>

\* The insert commits unless the tenant has a site of that code.
InsertSite(w) ==
    /\ req[w].at = "site"
    /\ req[w].number \notin sites
    /\ sites' = sites \cup {req[w].number}
    /\ Moves(w, "site", Idle)
    /\ UNCHANGED <<day, orders, usage, counted>>

-----------------------------------------------------------------------------
\* The request is refused, fails or dies with the process.
Abort(w) ==
    /\ req[w].at # "idle"
    /\ req' = [req EXCEPT ![w] = Idle]
    /\ UNCHANGED <<day, tables>>

\* A request is over within a day: a longer leap of the clock finds none in flight.
NextDay ==
    /\ \E d \in Days :
           /\ d > day
           /\ d = day + 1 \/ \A w \in Workers : req[w].at = "idle"
           /\ day' = d
    /\ UNCHANGED <<tables, req>>

Step(w) ==
    \/ \E site \in sites : CreateOrder(w, site)
    \/ ReadWindow(w)
    \/ CountOrders(w)
    \/ InsertOrder(w)
    \/ FindMarker(w)
    \/ Count(w)
    \/ Mark(w)
    \/ CreateSite(w)
    \/ NextSiteCode(w)
    \/ InsertSite(w)
    \/ Abort(w)

Next == NextDay \/ \E w \in Workers : Step(w)

Spec == Init /\ [][Next]_vars

-----------------------------------------------------------------------------
(* Properties. *)

TypeOK ==
    /\ day \in Days
    /\ \A o \in orders : o.day \in Days /\ o.ref[1] \in sites /\ o.ref[3] \in Nat \ {0}
    /\ sites \subseteq 1 .. MaxSiteCode
    /\ \A window \in WindowSet : \A key \in Keys[window] :
           usage[window][key].count \in Nat
    /\ \A w \in Workers : req[w].at \in Steps

\* The periods counted under one key: two for the week numbers that the first
\* and the last days of one year may share.
PeriodsOf(window, key) ==
    IF window = "weekly" /\ key[2] \in {1, 52, 53} THEN 2 ELSE 1

\* A quota is read, then acted on: in every period the requests in flight may carry
\* a counter, or the number of sites, over its limit, but by no more than they are,
\* whatever midnight falls between the check and the count.
OverrunBounded ==
    /\ TypeOK
    /\ \A window \in WindowSet : \A key \in Keys[window] :
           usage[window][key].count
               <= Limit[window] + PeriodsOf(window, key) * Cardinality(Workers) - 1
    /\ Cardinality(sites) <= SiteLimit + Cardinality(Workers) - 1

\* No order is charged twice and none that does not exist is charged: in every
\* kind of window the counters add up to at most the orders there are.
NeverOvercharged ==
    \A window \in WindowSet :
        MapThenSumSet(LAMBDA key : usage[window][key].count, Keys[window])
            <= Cardinality(orders)

\* The references of a site in a month are 1, 2, 3, ... without gap or duplicate,
\* though the number is counted from rows other creations are about to add.
ReferencesGapless ==
    \A site \in sites, month \in Months :
        LET mine == {o \in orders : o.ref[1] = site /\ o.ref[2] = month}
        IN  {o.ref[3] : o \in mine} = 1 .. Cardinality(mine)

\* The counter a date is charged to was started in the period of that date, so a
\* limit that was used up is available again in the next period.
CounterIsOf(window) ==
    LET row == usage[window][Key[window][day]]
    IN  row.count > 0 => row.start = Start[window][day]

\* Every counter starts afresh with its period, but for the weekly ones around New
\* Year: their key joins the calendar year with the week number of ISO 8601, and
\* the first and the last days of one year may share it.
CountersStartAfresh ==
    \A window \in WindowSet :
        CounterIsOf(window) \/ (window = "weekly" /\ ISOWeek(day) \in {1, 52, 53})

=============================================================================

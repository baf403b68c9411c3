------------------------------ MODULE Reports ------------------------------
(***************************************************************************)
(* The figures of the dashboards, the report page and the expense page.    *)
(* Every figure is a query of its own over the same rows, and the pages    *)
(* put them side by side: a tile, a curve, a table by agency and one by    *)
(* service.  Each query is an operator here, with its own way of choosing  *)
(* the period, joining the items and naming the day of a row; the orders   *)
(* table fills and the orders advance while the clock runs.  The export    *)
(* of the expenses reads its pages one request at a time, each a count and *)
(* then the rows, while the table changes.                                 *)
(*                                                                         *)
(* Time is counted in hours of a day of DayLength hours.  Node and the     *)
(* database run in UTC; the tenant's clock is zone hours ahead.  Every     *)
(* item costs 1, and an express order twice its items.                     *)
(***************************************************************************)
EXTENDS DeskRules, Integers, Sequences, FiniteSets, FiniteSetsExt, Functions

CONSTANTS
    Orders,      \* orders that may be created
    Sites,       \* agencies of the tenant
    Services,    \* service definitions
    Types,       \* expense types
    Baskets,     \* carts: [site, express, due: hours until due, lines: services]
    Zones,       \* offsets of the tenant's clock, in hours
    DayLength,   \* hours in a day
    Week,        \* days of the weekly chart (7 in the code)
    PageSize,    \* rows the export asks for at a time (100 in the code)
    Horizon,     \* bound: the last hour of the clock
    MaxExpenses, \* bound: expenses ever inserted
    Unset        \* no row, or no filter

ASSUME ReportsAssumption ==
    /\ DayLength \in Nat \ {0} /\ Week \in Nat \ {0} /\ PageSize \in Nat \ {0}
    /\ Horizon \in Nat /\ MaxExpenses \in Nat
    /\ Zones \subseteq (1 - DayLength)..(DayLength - 1)
    /\ IsFiniteSet(Sites) /\ IsFiniteSet(Services) /\ IsFiniteSet(Types)
    /\ \A b \in Baskets : /\ b.site \in Sites /\ b.express \in BOOLEAN /\ b.due \in Nat
                          /\ b.lines \in Seq(Services) /\ Len(b.lines) > 0
    /\ Unset \notin Sites \cup Services \cup Types

VARIABLES
    now,       \* the hour, in UTC
    zone,      \* offset of the tenant's clock
    orders,    \* orders: the basket, created_at and the status of each row
    expenses,  \* expenses: [made: order of insertion, on: expense_date, type]
    inserted,  \* how many expenses have been inserted
    reader     \* the export a user has started, see NoExport

reportVars == <<now, zone, orders, expenses, inserted, reader>>

\* state: idle; counting or listing, by the query that comes next; done.  page is
\* the page that is asked for, pages what the last count made of the table, got the
\* rows read so far and written the lines of the file; kept, added, late and dropped
\* are history: the rows present since the start, how many were inserted since and
\* since the last count, and how many were deleted.
NoExport == [state |-> "idle", page |-> 1, pages |-> 1, got |-> {}, written |-> 0,
             kept |-> {}, added |-> 0, late |-> 0, dropped |-> 0]

Exporting == reader.state \in {"counting", "listing"}

Days == 0..(Horizon \div DayLength)

ReportsInit ==
    /\ now = 0
    /\ zone \in Zones
    /\ orders = [o \in Orders |-> Unset]
    /\ expenses = {}
    /\ inserted = 0
    /\ reader = NoExport

-----------------------------------------------------------------------------
(* Rows. *)

Placed   == {o \in Orders : orders[o] # Unset}
Total(o) == Len(orders[o].basket.lines) * (IF orders[o].basket.express THEN 2 ELSE 1)
Due(o)   == orders[o].at + orders[o].basket.due

Waiting == {"CREATED", "IN_PROGRESS", "READY"}     \* pending, activeOrders
Open    == Waiting \cup {"STORED"}                 \* delayed, active list

\* The rows of an order in a query joined with the items of a service.
Joined(o, service) ==
    IF service = Unset THEN 1
    ELSE Cardinality({i \in DOMAIN orders[o].basket.lines :
                          orders[o].basket.lines[i] = service})

-----------------------------------------------------------------------------
(* Periods.  A day is a number; its instant, new Date("YYYY-MM-DD"), is    *)
(* midnight in UTC.                                                        *)

DayOf(t) == t \div DayLength

\* startOfDay and endOfDay on the tenant's clock around two instants.
Around(t, u) == [start |-> DayOf(t + zone) * DayLength - zone,
                 end   |-> (DayOf(u + zone) + 1) * DayLength - zone - 1]

\* resolvePeriod for a start and an end date.
Period(d, e) == Around(d * DayLength, e * DayLength)

\* The orders a query selects: created in the period, of the site, with an
\* item of the service.
Selected(p, site, service) ==
    {o \in Placed : /\ orders[o].at \in p.start..p.end
                    /\ site \in {Unset, orders[o].basket.site}
                    /\ Joined(o, service) > 0}

-----------------------------------------------------------------------------
(* Orders: one operator per query of OrdersService. *)

Dashboard(p, site, service) ==
    LET S == Selected(p, site, service)
    IN  [orders  |-> Cardinality(S),
         revenue |-> SumFunction([o \in S |-> Total(o)]),
         pending |-> Cardinality({o \in S : orders[o].status \in Waiting})]

\* A row belongs to the day of created_at AT TIME ZONE tz: the column has no
\* zone, so the conversion goes from the tenant's clock to UTC.
StampedDay(o)  == DayOf(orders[o].at - zone)
StampedHour(o) == (orders[o].at - zone) % DayLength

\* Mutated form: every joined row is counted.
MutantSeries(d, e, site, service) ==
    [day \in d..e |->
        LET S == {o \in Selected(Period(d, e), site, service) : StampedDay(o) = day}
        IN  [orders  |-> SumFunction([o \in S |-> Joined(o, service)]),
             revenue |-> SumFunction([o \in S |-> Total(o) * Joined(o, service)])]]

\* COUNT(DISTINCT order.id), but the price is summed over the joined rows.
Series(d, e, site, service) ==
    [day \in d..e |->
        LET S == {o \in Selected(Period(d, e), site, service) : StampedDay(o) = day}
        IN  [orders  |-> Cardinality(S),
             revenue |-> SumFunction([o \in S |-> Total(o) * Joined(o, service)])]]

\* activeOrders is not limited to the period.
BySite(p) ==
    [s \in Sites |->
        LET S == Selected(p, s, Unset)
        IN  [orders  |-> Cardinality(S),
             revenue |-> SumFunction([o \in S |-> Total(o)]),
             active  |-> Cardinality({o \in Placed : /\ orders[o].basket.site = s
                                                     /\ orders[o].status \in Waiting})]]

\* The price of a line does not know about the express surcharge.
ByService(p, site) ==
    [v \in Services |->
        LET S == Selected(p, site, v)
        IN  [orders |-> Cardinality(S), revenue |-> SumFunction([o \in S |-> Joined(o, v)])]]

Hourly(d, site) ==
    [h \in 0..(DayLength - 1) |->
        Cardinality({o \in Selected(Period(d, d), site, Unset) : StampedHour(o) = h})]

\* The last days from this time of the day on, by days of UTC.
Weekly(site) ==
    [day \in (DayOf(now) - Week + 1)..DayOf(now) |->
        LET S == {o \in Placed : /\ orders[o].at >= now - (Week - 1) * DayLength
                                 /\ site \in {Unset, orders[o].basket.site}
                                 /\ DayOf(orders[o].at) = day}
        IN  [orders |-> Cardinality(S), revenue |-> SumFunction([o \in S |-> Total(o)])]]

Delayed(site) ==
    Cardinality({o \in Placed : /\ orders[o].status \in Open
                                /\ Due(o) < now
                                /\ site \in {Unset, orders[o].basket.site}})

Throughput(p, site, service) ==
    LET S == Selected(p, site, service)
    IN  [created   |-> Cardinality(S),
         completed |-> Cardinality({o \in S : orders[o].status = "DELIVERED"}),
         delayed   |-> Delayed(site)]

\* is_late of a listed order.
IsLate(o) == Due(o) < now /\ orders[o].status \notin Closed

\* applyStatusFilter, also the four counts over the list.
Chip(f) ==
    {o \in Placed : CASE f = "all"        -> TRUE
                      [] f = "ready"      -> orders[o].status \in {"READY", "STORED"}
                      [] f = "processing" -> orders[o].status \in {"CREATED", "IN_PROGRESS"}
                      [] f = "late"       -> Due(o) < now /\ orders[o].status \notin Closed}

\* The default list: active orders, whatever the chip counts say.
ActiveList == {o \in Placed : orders[o].status \in Open}

-----------------------------------------------------------------------------
(* Expenses: one operator per query of ExpensesService; each costs 1.  The *)
(* date of an expense is a date, and no time zone is involved.             *)

SpentOn(d, e) == {x \in expenses : x.on \in d..e}

ExpenseStats(d, e)  == [t \in Types |-> Cardinality({x \in SpentOn(d, e) : x.type = t})]
ExpenseSeries(d, e) == [day \in d..e |-> Cardinality({x \in SpentOn(d, e) : x.on = day})]

\* The list is sorted, expense_date DESC, created_at DESC; a row has its place in it.
Before(x, y) == x.on > y.on \/ (x.on = y.on /\ x.made > y.made)
Place(x) == Cardinality({y \in expenses : y = x \/ Before(y, x)})
TotalPages == Max({1, (Cardinality(expenses) + PageSize - 1) \div PageSize})
ListPage(k) == {x \in expenses : Place(x) \in (k - 1) * PageSize + 1 .. k * PageSize}

-----------------------------------------------------------------------------
(* Steps. *)

\* Bound: no query reads both tables, so a behaviour fills one of them, the
\* orders while the clock runs or the expenses while they are exported.
OrdersOnly   == inserted = 0 /\ reader = NoExport
ExpensesOnly == now = 0 /\ Placed = {}

Tick ==
    /\ OrdersOnly /\ now < Horizon
    /\ now' = now + 1
    /\ UNCHANGED <<zone, orders, expenses, inserted, reader>>

\* OrdersService.create, the columns the reports read.
CreateOrder(o, b) ==
    /\ orders[o] = Unset
    /\ OrdersOnly
    /\ orders' = [orders EXCEPT ![o] = [basket |-> b, at |-> now, status |-> "CREATED"]]
    /\ UNCHANGED <<now, zone, expenses, inserted, reader>>

\* OrdersService.updateStatus, and the two moves of StorageService.
UpdateStatus(o, next) ==
    /\ orders[o] # Unset
    /\ <<orders[o].status, next>> \in AllowedTransitions
           \cup {<<"READY", "STORED">>, <<"STORED", "DELIVERED">>}
    /\ orders' = [orders EXCEPT ![o].status = next]
    /\ UNCHANGED <<now, zone, expenses, inserted, reader>>

\* ExpensesService.createExpense; the date is the user's.
CreateExpense(day, type) ==
    /\ ExpensesOnly /\ inserted < MaxExpenses
    /\ inserted' = inserted + 1
    /\ expenses' = expenses \cup {[made |-> inserted', on |-> day, type |-> type]}
    /\ reader' = IF Exporting THEN [reader EXCEPT !.added = @ + 1, !.late = @ + 1] ELSE reader
    /\ UNCHANGED <<now, zone, orders>>

\* ExpensesService.deleteExpense.
DeleteExpense(x) ==
    /\ expenses' = expenses \ {x}
    /\ reader' = IF Exporting
                 THEN [reader EXCEPT !.dropped = @ + 1, !.kept = @ \ {x}] ELSE reader
    /\ UNCHANGED <<now, zone, orders, inserted>>

\* handleExportCsv: the first page is 1.
StartExport ==
    /\ ExpensesOnly /\ ~Exporting
    /\ reader' = [NoExport EXCEPT !.state = "counting", !.kept = expenses]
    /\ UNCHANGED <<now, zone, orders, expenses, inserted>>

\* One turn of its loop is a request, and listExpenses counts before it reads.
CountRows ==
    /\ reader.state = "counting"
    /\ reader' = [reader EXCEPT !.state = "listing", !.pages = TotalPages, !.late = 0]
    /\ UNCHANGED <<now, zone, orders, expenses, inserted>>

\* Mutated form: the last page is not asked for.
MutantReadPage ==
    /\ reader.state = "listing"
    /\ reader' = [reader EXCEPT !.got     = @ \cup ListPage(reader.page),
                                !.written = @ + Cardinality(ListPage(reader.page)),
                                !.page    = @ + 1,
                                !.state   = IF reader.page + 1 < reader.pages
                                          THEN "counting" ELSE "done"]
    /\ UNCHANGED <<now, zone, orders, expenses, inserted>>

\* The rows; there is another turn if the count of this one spoke of more pages.
ReadPage ==
    /\ reader.state = "listing"
    /\ reader' = [reader EXCEPT !.got     = @ \cup ListPage(reader.page),
                                !.written = @ + Cardinality(ListPage(reader.page)),
                                !.page    = @ + 1,
                                !.state   = IF reader.page + 1 <= reader.pages
                                          THEN "counting" ELSE "done"]
    /\ UNCHANGED <<now, zone, orders, expenses, inserted>>

ReportsNext ==
    \/ Tick
    \/ \E o \in Orders :
           \/ \E b \in Baskets : CreateOrder(o, b)
           \/ \E next \in OrderStatus : UpdateStatus(o, next)
    \/ \E day \in Days, type \in Types : CreateExpense(day, type)
    \/ \E x \in expenses : DeleteExpense(x)
    \/ StartExport
    \/ CountRows
    \/ ReadPage

ReportsSpec == ReportsInit /\ [][ReportsNext]_reportVars

-----------------------------------------------------------------------------
(* Properties. *)

ReportTypes ==
    /\ now \in 0..Horizon
    /\ zone \in Zones
    /\ \A o \in Placed : orders[o] \in [basket: Baskets, at: 0..now, status: OrderStatus]
    /\ expenses \subseteq [made: 1..inserted, on: Days, type: Types]
    /\ Exporting => reader.kept \subseteq expenses

OrdersOf(table)  == SumFunction([i \in DOMAIN table |-> table[i].orders])
RevenueOf(table) == SumFunction([i \in DOMAIN table |-> table[i].revenue])

Ranges == {r \in Days \X Days : r[1] <= r[2]}

\* What the period is meant to be: the tenant's days d to e.  It is, except that
\* on a clock behind UTC every period is a day early.
PeriodIsLocal ==
    \A r \in Ranges :
        LET early == IF zone < 0 THEN 1 ELSE 0
        IN  /\ Period(r[1], r[2]).start + zone = (r[1] - early) * DayLength
            /\ Period(r[1], r[2]).end + zone = (r[2] - early + 1) * DayLength - 1
            /\ now \in Around(now, now).start..Around(now, now).end

\* The curve of a period under its tile: no order twice, none that the tile does
\* not count, and none missing while the tenant's clock is UTC (in another zone
\* orders fall on days outside the curve).  Its revenue is the tile's, except
\* that an order with two lines of the filtered service is counted twice.
SeriesFitsTile(d, e, site, service) ==
    LET tile   == Dashboard(Period(d, e), site, service)
        series == Series(d, e, site, service)
        count  == OrdersOf(series)
        money  == RevenueOf(series)
        twice  == \E o \in Selected(Period(d, e), site, service) : Joined(o, service) > 1
    IN  /\ count <= tile.orders
        /\ zone = 0 => count = tile.orders /\ money >= tile.revenue
        /\ zone = 0 => (money = tile.revenue <=> ~twice)

\* The table of agencies adds up to the tile.
SitesFitTile(p) ==
    LET tile  == Dashboard(p, Unset, Unset)
        table == BySite(p)
    IN  /\ OrdersOf(table) = tile.orders
        /\ RevenueOf(table) = tile.revenue
        /\ SumFunction([s \in Sites |-> table[s].active]) >= tile.pending

\* The table of services: its orders are those of the tile filtered by the
\* service; its money is the tile's without the express surcharge.
ServicesFitTile(p, site) ==
    LET money   == RevenueOf(ByService(p, site))
        express == \E o \in Selected(p, site, Unset) : orders[o].basket.express
    IN  /\ \A v \in Services :
               ByService(p, site)[v].orders = Dashboard(p, site, v).orders
        /\ money <= Dashboard(p, site, Unset).revenue
        /\ money = Dashboard(p, site, Unset).revenue <=> ~express

\* Completed and pending orders are disjoint parts of those created; every late
\* order is counted once in the delay figure, the chip and the flags of the
\* list; the two chips make up the active list; the 24 hours of a day and the
\* last days hold no order the tile of the same days lacks.
CountsAgree(site) ==
    /\ \A r \in Ranges, v \in Services \cup {Unset} :
           LET p    == Period(r[1], r[2])
               done == Throughput(p, site, v)
               tile == Dashboard(p, site, v)
           IN  done.created = tile.orders /\ done.completed + tile.pending <= done.created
    /\ \A d \in Days :
           SumFunction(Hourly(d, site)) = Dashboard(Period(d, d), site, Unset).orders
    /\ zone = 0 =>
           LET today == DayOf(now)
           IN  OrdersOf(Weekly(site))
                   <= Dashboard(Period(today - Week + 1, today), site, Unset).orders
    /\ site = Unset => /\ Delayed(site) = Cardinality(Chip("late"))
                      /\ Chip("late") = {o \in Chip("all") : IsLate(o)}
                      /\ Chip("ready") \cup Chip("processing") = ActiveList
                      /\ Chip("ready") \cap Chip("processing") = {}

\* The tile, the curve and the table of the expenses are one sum, that of the
\* rows the list of the same days counts.
ExpensesAddUp ==
    \A r \in Ranges :
        /\ SumFunction(ExpenseStats(r[1], r[2])) = Cardinality(SpentOn(r[1], r[2]))
        /\ SumFunction(ExpenseSeries(r[1], r[2])) = Cardinality(SpentOn(r[1], r[2]))

\* Figures that stand side by side agree, with exactly the exceptions above:
\* each is a query of its own, and no test compares two of them.
ReportsAddUp ==
    /\ ReportTypes
    /\ PeriodIsLocal
    /\ \A r \in Ranges :
           /\ SitesFitTile(Period(r[1], r[2]))
           /\ \A site \in Sites \cup {Unset} :
                  /\ ServicesFitTile(Period(r[1], r[2]), site)
                  /\ \A v \in Services \cup {Unset} : SeriesFitsTile(r[1], r[2], site, v)
    /\ \A site \in Sites \cup {Unset} : CountsAgree(site)
    /\ ExpensesAddUp

\* An export that others write under misses at most as many of the rows that
\* were there all along as were deleted meanwhile, or inserted between the count
\* and the rows of its last page, and repeats at most as many as were inserted:
\* the pages are offsets into a list that shifts (listExpenses, handleExportCsv).
ExportIsComplete ==
    reader.state = "done" =>
        /\ Cardinality(reader.kept \ reader.got) <= reader.dropped + reader.late
        /\ reader.written - Cardinality(reader.got) <= reader.added

=============================================================================

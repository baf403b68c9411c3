# CleanTrack Pro in TLA+

CleanTrack Pro runs the counters of laundries: many organisations (tenants), each with sites,
operators, a cash register, shelves and customers. This directory holds TLA+ models of the
back end (`backend/src`, NestJS over PostgreSQL), of the web application (`frontend/src`, Next.js)
and of the scripts that deploy both and set up Keycloak (`deploy`, `scripts`), TLC configurations
that check them on small instances, and proofs checked by TLAPS. Paths below are relative to
`src/backend/src`; those of the web application begin with `frontend/`, of the scripts with `deploy/`
or `scripts/`.

## 1. The system

The backend is a set of HTTP services over one PostgreSQL database. Every request is served by
an asynchronous handler; any number are in flight, in any number of processes. Transactions run
READ COMMITTED. No service takes a row lock, no entity has a version column: a handler reads
rows, decides on what it read, and saves them. TypeORM's `save(entity)` loads the row again and
updates the columns in which the entity differs from it, so an entity read early carries old
values into a late save. That is where most of what is hard in this code comes from.

| Component | State | Operations that change it | Depends on |
|---|---|---|---|
| Orders (`orders/`) | `orders`: status, total, amount_paid, payment_status, reference | `create` (optionally with a first payment), `updateStatus`, `updateDelivery` | quota, storage, cash register |
| Storage (`storage/`) | `storage_slots.status`, `order_storage` (order, slot) | `create`, `assignOrderToSlot`, `releaseOrder`, `processDelivery` | orders |
| Payments (`payments/`) | `payments` | `create` | orders, cash register |
| Cash register (`cash-register/`) | `cash_register_sessions`: status, expected_cash | `openSession`, `closeSession` | payments |
| Remittances (`remittances/`) | `cash_remittances`, `site_remittances` | create, acknowledge and dispute of each | cash register |
| Quota and usage (`subscription/`) | `tenant_usage_periods`: counters and idempotency rows | `assertWithinQuota` (reads), `recordUsage` | plans, orders, sites |
| Plans and subscriptions (`subscription/`) | `subscription_plans`, `tenant_subscriptions` | plan edits, `assignPlan` | tenants |
| Sites (`sites/`) | `sites`: code | `create`, `createForTenantBootstrap`, `update` | quota |
| Signup (`signup/`) | `tenant_signup_requests` | `submit`, `completePayment`, `approve`, `reject` | tenants, Stripe |
| Tenants (`tenant/`) | `tenants` | `create`, `update`, `updateConfig`, `remove` | sites, users, plans, Keycloak |
| Users, Keycloak (`user/`, `shared/keycloak/`) | users, roles and sessions at Keycloak (external) | invite, update, delete, switch all users of a tenant | tenants |
| Sign-in (`frontend/lib/auth-options.ts`, session handlers) | the token in the browser | sign-in, refresh, error handling, logout | Keycloak, tenants |
| Clients (`clients/`) | `clients`, a search cache | `create`, `update`, cached search | |
| Notifications (`notifications/`) | platform settings, channels, log | settings, channels, announcement of a READY order | orders |
| Registers: catalog, prices, expenses (`catalog/`, `expenses/`) | named rows that others refer to | create, rename, deactivate, delete, seed | |
| Reports (`orders/orders.service.ts`, `expenses/`) | none: queries | tiles, curves, tables, paged export | orders, expenses |
| Order page (`frontend/`, `context/order-draft.context.tsx`) | the draft, in memory and local storage | edit, pay, send, shelve, reload | orders, prices |
| Pages, forms, desks (`frontend/app/(dashboard)`) | rows shown, drafts, flags | load, save, chains of requests | the whole API |
| Permissions and navigation (`frontend/lib`, `frontend/middleware.ts`, controllers) | the page on screen | menu, link, address, call | the whole API |
| Deployment (`deploy/`) | `.env`, release files, pointer, containers | `deploy.sh`, `rollback.sh`, `build-and-deploy-prod.sh` | |
| Realm set-up (`scripts/setup-keycloak.ts` and the back end's own) | realm, client, roles, users | one run of either | Keycloak |
| Localities, exchange rates, deliveries, migrations | reference data, schema | record keeping; `confirmDelivery` calls `processDelivery` | orders |

Shared state and calls. Payments, order creation, status changes, storage and deliveries all save
the same `orders` row; payments, order creation and session closing save the same session row;
assignment, release, the start of work and delivery write the same slots. Order creation calls
the quota before its transaction and the usage counters after it. A start of work calls
`releaseOrder`, which is a transaction of its own, before its own save. The acknowledgement of a
remittance saves a session.

What makes each component correct, and what is hard about it:

- **Orders and storage**: an order is on at most one shelf, one its status calls for; a slot holds
  one order and its status says so; goods leave only when stored and paid; closed orders stay
  closed. Hard: four handlers rewrite three tables, with rows read earlier.
- **Payments and cash register**: the payments table, `amount_paid` and `expected_cash` are three
  books of one fact. Hard: lost updates; a payment that races the closing of its session; the
  tolerance of 0.01.
- **Remittances**: an acknowledged remittance releases its session; a site remittance is worth
  what is linked to it. Hard: no transactions; several saves per request.
- **Quota**: a limit is exceeded by no more than the requests in flight in each period; nobody is charged
  twice; a new period starts a new counter. Hard: check and count are apart, the calendar moves between,
  and two weeks around New Year share a key.
- **References and codes**: unique and without gaps although they are counted from the table.
- **Signup**: a completed request has a working tenant, only one, and only if somebody approved
  or paid. Hard: repeated confirmations, crashes between steps, external calls.
- **Tenants, users, sign-in**: the row, Keycloak and the browsers say the same of who may work. Hard:
  no transaction spans the three, and requests to Keycloak fail one by one.
- **Clients, notifications, registers**: a cached answer is not older than a write; what is announced is
  announced once; a change touches nothing else. Hard: find and save without locks; work nobody waits for.
- **Reports**: figures side by side agree. Hard: each is a query of its own, in its own idea of a day.
- **Web application**: one draft makes one order; what is shown is what was asked for, what is saved is what
  was meant; a page comes to rest. Hard: answers late, lost and out of order, and a user who does not wait.
- **Permissions**: what is offered is served. Hard: five tables kept by hand.
- **Deployment and set-up**: secrets survive; files and containers agree; a run completes what an earlier one
  left. Hard: scripts stop anywhere and nothing keeps two apart.

The complete list of hazards, with lines, is in `PROJECT.json`.

## 2. Modules

| Module | Models |
|---|---|
| `DeskRules` | constants and pure rules shared by the two order desk modules: transitions, pairing of status and shelf, payment arithmetic |
| `OrderDesk` | the abstract counter: orders, shelves, payments and sessions, **one action per whole request** |
| `DeskOffice_proofs` | theorems about `OrderDesk` and `BackOffice` |
| `OrderDeskTxn` | the same counter **statement by statement**: requests in flight, reads, saves, commits, crashes |
| `OrderDeskSerial` | the refinement mapping from `OrderDeskTxn` to `OrderDesk` |
| `OrderDeskTxn_proofs` | theorems about `OrderDeskTxn`, and the refinement |
| `Remittances` | cash and site remittances, save by save |
| `Remittances_proofs` | theorems about `Remittances` |
| `UsagePeriods` | `PeriodResolverService`: keys and starts of periods over a Gregorian calendar |
| `PlanQuota` | quota check, order reference, usage counters, site codes, and the clock |
| `QuotaTab_proofs` | theorems about `PlanQuota`, the calendar, and `BrowserTab` |
| `Sums` | lemmas about sums and sizes of finite sets, used by the proofs |
| `Signup` | signup requests, Stripe payment, review, provisioning, creation by a Superadmin |
| `SignupServer_proofs` | theorems about `Signup` and `ServerOps` |
| `TenantAccess` | tenant row, users at Keycloak, browser sessions: the calls and callbacks that keep them in step |
| `AccessReports_proofs` | theorems about `TenantAccess` and `Reports` |
| `OfficeCalls` | a worker running a call of awaited statements, restarts; base of the next three |
| `ClientBook`, `Notifications`, `Registers` | clients and their cached search; settings, channels and announcements; the named records |
| `BackOffice` | the three served by one process (composition) |
| `CounterScreen` | the order page: draft, payment form, request, receipt, storage step |
| `CounterScreen_proofs` | theorems about `CounterScreen` |
| `Reports` | every figure of dashboards and reports as an operator over the same rows, and the paged export |
| `WorkPages`, `WorkForms`, `CounterDesks` | what pages of rows, forms and order desks of the web application do while requests are out |
| `Permissions` | the roles each handler of the API asks for, and the handler each method of a web service calls |
| `Navigation` | pages with their calls and links, menu, access rules and middleware |
| `BrowserTab` | one tab over pages, forms, desks and navigation (composition) |
| `Rollouts` | deployment, rollback and build, command by command |
| `RealmSetup` | the two scripts that set up the realm, request by request |
| `ServerOps` | what an operator runs on a server (composition) |
| `MC...` | instances for TLC |

A proof module holds the theorems of one or two components; the two parts of a module share lemmas, not variables.

### How state and actions correspond to the code

*OrderDesk and OrderDeskTxn.* `order[o]`, `slot[s]`, `stored`, `session[k]` are the tables. The
`payments` table is kept as the sums the code asks of it: `collected[o]` per order and
`drawer[k]`, the CASH payments per session. Amounts are integers in cents; `Cent` is the tolerance
0.01. Prices come from the set `Prices` (items, services and express multiplier only produce a
number). In `OrderDesk` a request that throws is no step, because its transaction rolls back.

In `OrderDeskTxn` each worker runs a request record: the step it is at, the row images it holds
and the writes it will make. The steps are: each read of the handler with the guards that follow
it; `Save`, the loads and column comparisons of the transaction's saves; `Commit`, its writes.
`Abort` may happen at every step: exceptions, broken connections, deadlock victims, crashes.
Three approximations, all over-approximations of what the database allows or neutral to it:

- the loads of all saves of one transaction are taken at one point, and its writes become visible
  at one point, the commit; a row lock that one of them takes only delays others;
- the driver returns decimals as strings, so a computed number may count as different from an
  equal column: `Save` leaves both outcomes open;
- two transactions that update one row are serialised by PostgreSQL in either order.

`updateStatus` to IN_PROGRESS is a read, `getOrderStorageInfo`, the transaction of `releaseOrder`
and a separate save, in this order (`UpdateStatus`, `StorageInfo`, `ReleaseForWork`, `Save`,
`Commit`, then `Save` and `Commit` again); `left` remembers what the first transaction gave up.
`reached` is a history variable, used by one property only. `updateDelivery` (`UpdateDelivery`)
changes only columns that are not modelled; what matters is that it saves the whole image.
A slot that has not been created yet is one that no request names, so slots exist from the start;
a remittance's effect on a session (`RemitSession`) is in `OrderDesk` and, in detail, in
`Remittances`.

*Remittances.* Sessions start CLOSED, when remittances begin. Each find is a step; each save is two,
the load that computes the dirty columns (`LoadCash`, ...) and the update (`WriteCash`, ...). The period
of a site remittance selects an arbitrary subset of the remittances. `Aggregate` takes linked
remittances too: the `site_remittance_id: null` of the query is dropped by TypeORM.

*PlanQuota.* A date is a day number; `day` is the clock, for the tenant's time zone and the server
alike. The windows are read one by one on the date taken at the start; the code reads all of them
and then looks for the first full one, so reads after a full window are left out. The reference
is counted inside the creating transaction and the unique index refuses a duplicate at the insert.
Usage is counted window by window after the commit, on a date taken then. `NextDay` moves by one day
while requests are in flight and by any number of days otherwise.

*Signup.* Every find and save is a step. `checkout` is Stripe: the session of a request is open and
then paid. `granted` is history: approved, paid, or free with automatic approval. `TenantService.create`
inserts the tenant (unique subdomain), creates the agency (its failure ends the call: `Abort`), and goes
on when the invitation or the plan fails, which leaves no trace in the modelled state.

*TenantAccess.* `row` is the tenant's row; `kc` what Keycloak holds of each user: profile role, mapped
roles, enabled, signed on; `web` the token of each browser. A call is a list of statements and requests
to Keycloak (`update` reads, saves the whole row, lists the users and switches those the list shows otherwise, one after
another); each is a step and each request may fail. `Crash` ends every call in flight and keeps what it wrote, a user disabled and not yet signed
out included. `gap` and `torn` are history: they name whom a failed, interrupted or overlapping call may have missed; a toggle
that runs alone under the row it wrote closes the gap. `Super_Admin` is left out of the roles, because no script creates it.
A browser has one tab and one callback of NextAuth at a time. The cookie (`roles`, `error`) is renewed by every session request; what the page
shows of it (`seen`) changes only when the page is loaded or returned to (`Return`): `SessionProvider` sets no `refetchInterval`, and the
`getSession()` of the services is a `Refresh(u, FALSE)` that tells the page nothing. `assertTenantActive` takes an error status (404, 429, 5xx) for a refusal, so
`SignInChecked` and `RefreshChecked` may end the session of an active tenant's user; that is counted as a failed request, like the network error that
leaves the session open.

*OfficeCalls, ClientBook, Notifications, Registers, BackOffice.* `call[w]` is a handler in progress: its kind,
next statement, row, argument and what it read. A restart ends all of them; the cache may survive it (Redis)
or not. The announcement of a READY order runs on after its request has been answered. `Contacts` says by which channels a client can be reached: e-mail
addresses are nullable and a client may be gone, and a channel without a recipient is neither used nor owed. A read that fails ends the
announcement without an entry (`ReadFails`); such an order is in `missed`. `decided`, `wanted`,
`owed`, `twins`, `late` and the like are history variables, which say what undisturbed calls would have done.

*CounterScreen.* `draft` is what the provider keeps and stores, `page` the rest of the page, `request[i]` the
request with the draft of the moment it was sent and the order made of it. The answer may be lost on either
way; the page may be reloaded. The back end prices the order again from `list` and with its own `multiplier`, which an administrator may change
(`SetMultiplier`) while the page keeps the one it fetched (`page.multiplier`, 1 when it has none); `shown` and `charged` keep both with the request. `create` reads the tenant and
then the prices one by one; they are modelled as one read. A list mixed of the prices of two moments, which two changes during one request can give, is therefore missing;
`MoneyAgrees` does not depend on it, because its proof takes whatever list and multiplier were charged.

*Reports.* Each query is an operator with its own period, join and day of a row: `Dashboard` (tiles), `Series`
(curve), `BySite`, `ByService`, `Throughput`, `Hourly`, `Weekly`, `Chip` and so on. Hours are counted in days of
`DayLength` hours, the tenant's clock is `zone` ahead of UTC. The list of expenses is the order `Before`: a row has a `Place`, a page
is the set of rows whose places it shows, and the export counts the lines it has written beside the rows it has got. One turn of its loop is
two queries, the count (`CountRows`) and the rows (`ReadPage`), with insertions and deletions between them; `late` counts the rows inserted since the last count.

*WorkPages, WorkForms, CounterDesks, BrowserTab.* A page, a form or a desk is the set of its habits (whether a
load can be overtaken, whether the page number is taken from the answer, whether a failed save closes the
dialog, ...), read off its source; 36 pages, 22 forms and 3 desks are listed with their habits, in comments that name the files.
Behaviour is given once, with the habits as guards. A request is asked, served and answered in separate
steps; no request is aborted. The tab begins at rest: a form or a desk is opened from a page whose load has been answered.
Writes of a page overlap (`saving[w]`), each followed by its own load or patch, because the buttons of its rows have no common busy flag
(`finance/page.tsx:73`); the two pages that have one are `single`. A patch starts from the rows at hand, or, where a page `rebuilds`, from those its handler was
rendered with (`catalogue/page.tsx:347`), which undoes what other answers have brought. `ExpenseForm` empties its inputs when it is left, but `resetForm`
does not touch the category (`expenses/page.tsx:203`): it `lingers`, and `choice` follows it. The reload button of the plans mounts the cards anew and
takes the text in them (`admin/plans/page.tsx:227`, `:292`): a `Rerender` of `PlanIdentity`.

*Permissions and Navigation.* A rule is the set of roles of a handler and whether it asks for a tenant. `Calls(u, page)`
collects what the page asks of the API for a user, by itself or by its buttons, under the header all
pages share. `going` is the address asked for: `Middleware` lets it pass or redirects it to the dashboard.

*Rollouts and RealmSetup.* A script is a record: the command it is at, its exported variables, its images.
`set_env_var` is three steps: the changed copy, the emptied file, the copy written back. Front end and
back end images are always written together, so they are one part, `app`; `secrets` stands for the lines
no script can write again. A script that a failing command ends and one that is killed are the same step, `Stop`. The release
files are written in two steps and `rollback.sh` refuses a half one. The realm is a set of things that are there; a
request puts one, and the record of the request says what it needs and what its catch block passes over.
`users.find({ username })` (`scripts/setup-keycloak.ts:360` of the back end, `:449` of the root directory) is a search for a part of a name, taken for an exact one. No name of the scripts
contains another, so the model has it exact; in a realm where somebody has created a user named, say, `superadmin2`, the script may take that one for its own.
`deploy.sh` calls the set-up in the container of the back end, whose image holds neither the script
nor `ts-node` (`backend/Dockerfile`, `backend/package.json:79`), and goes on when it fails (`deploy.sh:256`): that call changes nothing. Migrations
need nothing of it: the back end runs them when it starts (`app.module.ts:51`).

## 3. Runs

| Run | Bounds | Result |
|---|---|---|
| `desk` | 2 orders, 2+1 slots, 2 sessions of 1 operator, prices 0 and 3, amounts 1 and 2, cash and card | nine properties hold |
| `serial` | the same with 1 worker, price 3, amount 2, all endpoints | `ImplementsDesk` holds: the detailed counter implements the abstract one |
| `goods` | 1 order, 2 slots, 2 workers, 7 endpoints, one price and amount, receipts up to 4 | `GoodsLeavePaid`, `NoStageSkipped`, `BooksNeverExceedReceipts`, `OnlyStaleSavesReopen` hold under all interleavings |
| `remittances` | 2 sessions, 2+2 remittances, 2 workers | `AcknowledgedIsRemitted`, `SiteTotalCoversLinks` hold |
| `quota` | 2 workers, weekly and monthly limit 1, 3 dates, 2 orders begun one after the other (3 with overlap), 2 sites | four properties hold |
| `signup` | 2 requests for 1 subdomain, 1 suffix, 1 address, 3 kinds of plan, 2 workers | three properties hold |
| `access` | 1 user, 2 workers, 3 calls, 1 failing request or crash | `AccountsFollowRow`; liveness: `SessionsFollowAccount` |
| `screen` | 1 client, 2 offers at 2 prices, 2 pieces in the first draft and 1 in later ones, 2 sends, 1 clearing, multipliers 1, 2 and 3, 1 change of a price or the multiplier, 1 lost answer or reload | `DraftsBecomeOrders`, `MoneyAgrees` |
| `office` | 2 workers, 3 calls, 1 restart or failed statement (a failed read included); 2 clients, 2 codes, 1 order, 3 register rows | `OnlyOverlapsHarm`; liveness: `BackgroundWorkEnds` |
| `reports` | 2 orders at 2 sites with 2 services, zones -1, 0 and 1, days of 3 hours, pages of 1 row, 3 expenses | `ReportsAddUp`, `ExportIsComplete` |
| `tab` | every kind of page, form and desk of the application, each with 2 requests of a kind in flight, 3 acts and 2 writes per page, 3 openings and 2 texts or choices per form; every address for 6 users | `ShownIsAsked`, `SavedAsMeant`, `CardOffersNextStep`, `OfferedIsServed`, `WorkIsKept`; liveness: `PagesSettle` |
| `server` | 2 shells, 4 scripts, 1 overlap, 1 stop; 3 set-up runs, 2 mishaps | `ServerAgrees`, `RollbackGoesBack`, `SetupConverges` |

The bounds. Two workers are enough for every conflict between a pair of requests, and each handler
holds rows only of its own request; three would add chains of stale saves of the same kinds. Two
orders over three slots contain every move between shelves and every contention for one; two
sessions of one operator contain the case of a session that is closed and not yet remitted. The
price 3 is settled by two payments of 2 and 1, or by 2 within the tolerance of 1; the price 0 is the
free order. `MaxReceipts` stops the lost updates of `amount_paid` from admitting payments for ever;
4 lets a price of 3 be overpaid. In `quota`, the three dates are 5 January, 29 and 30 December 2024: a midnight between two
weeks of one month, and a week of December that has the key of the first week of January. In `signup` a second request for the name and the Superadmin's tenant both force the suffix.
In `access` a third call repairs, or fails to repair, what two overlapping ones left; users do not touch each other,
so one is enough for the accounts, and the gap of a user created late is the gap of that one. The preferences call does to the row what the renaming does, so its cfg leaves it out of
`Calls`; the theorem has every subset. In `screen` the multiplier starts at 2, so that one change may raise or lower it, and the second
draft is the one that a late answer of the first may clear. In `office` three calls give two that overlap and one that reads
the result. In `reports` a day of three hours has a first, an inner and a last hour, which is what the cuts of
periods tell apart. In `tab` two loads, saves, lookups or chains overtake each other; three add no order of arrival that a pair does not show; two writes are enough for one to
be answered before the other, or to be somebody else's. In
`server` three deployments and a rollback are the least for a rollback that skips a release; shells are symmetric.

What the runs exclude. Most properties of the code hold with exceptions, and the exceptions are part of the
property: they name the overlap, failure or habit at fault, and each is needed (without it TLC
finds the counterexample). `desk` and `serial` say what the counter does when requests do not overlap, `goods`
what survives when they do. The runs switch deadlock checking off: a counter where every order is delivered, every
session remitted and every identifier used has legitimately nothing left to do, and with bounded
identifiers every model reaches such states.

Fairness and liveness. Users, operators and failures owe nobody a step; no fairness is assumed of them.
Weak fairness is assumed of what the machines do by themselves:

- `access`: an access token expires; a callback of NextAuth that has begun is answered; the handler of a session
  error runs once the page has seen the error. No timer asks for the session and nobody is bound to come back to an idle tab, so
  no fairness of `Refresh` or `Return` is in the specification: `SessionsFollowAccount` says of each user *if* the user keeps coming back to the tab (`WF_vars(Return(u))` is
  a hypothesis of the formula), then the session follows the account in the end, however many calls failed. The session of a tab that nobody looks at stays open, with the
  roles it had, until the API refuses its token.
- `office`: a cached entry reaches its TTL of five minutes (`clients/client.service.ts:53`), and the event loop carries on a
  promise nobody awaits (`orders/orders.service.ts:302`).
- `tab`: while loads or writes of the page are out, one of them is served, answered or failed. That every one of them is follows, because each has at most two
  steps; only the list that loads for ever can keep one waiting.

The counter, remittances, quota and signup have no such step: after a request has begun its next statement may never be
reached (a crash), nothing in the code takes it up again, and no liveness is claimed.

## 4. Findings

Disagreements between the code and what a document, a comment or the code itself says of it. Each is an exception that a
passing property names; removing the exception makes TLC show the behaviour.

1. **A closed order can be reopened** (`goods`, `OnlyStaleSavesReopen`). A handler that read the order before it was
   cancelled or delivered writes the old status back (`payments/payments.service.ts:80`).
2. **Remittances counted twice** (`remittances`). The null condition does not reach the query
   (`remittances/remittances.service.ts:155`); no concurrency is needed.
3. **Weekly counters shared or split around New Year** (`quota`). The key joins calendar year and ISO week
   (`subscription/services/period-resolver.service.ts:40`). A limit may be passed once in each of the weeks that share a key:
   `PeriodsOf` in `OverrunBounded`.
4. **A list that loads for ever** (`tab`, `PagesSettle`; `frontend/app/(dashboard)/orders/active/page.tsx:97`).
5. **Periods a day early behind UTC**, and **an order with two lines of a service counted twice in the curve** (`reports`;
   `orders/orders.service.ts:568`, `:939`).
6. **Printed client codes are not unique** (`office`; `clients/entities/client.entity.ts:31`).
7. **A late upload lands in another record's form; failed saves taken for successes; a handover that blocks after its payment**
   (`tab`; `AddAgencyModal.tsx:72`, `PlanLimitsEditor.tsx:54`, `storage/delivery/page.tsx:272`). Of the same kind, and exceptions of the same properties: the category
   chosen for an expense that was given up is sent with the next one, and two acknowledgements that overlap may leave a page with rows older than the second.
8. **Drivers are redirected from the dashboard to the dashboard**, superadmins are offered pages of a tenant they do not have,
   `/deliveries` is not protected (`tab`, `OfferedIsServed`; `frontend/lib/route-access-rules.ts:10`).
9. **The build restarts the old images** (`server`; `deploy/build-and-deploy-prod.sh:6`).
10. **A rollback may go to a release that never ran, or one too far** (`server`; `deploy/rollback.sh:86`).
11. **The back end's set-up creates no roles; the other one ignores `MAIL_*`** (`server`, `SetupConverges`;
    `scripts/setup-keycloak.ts:329` of the back end, `scripts/setup-keycloak.ts:132` of the root directory).

Known departures that no run lists as a finding, because no property could say more than the missing lock or key: two
orders assigned to one slot at once (`storage/storage.service.ts:224`; docs/implementation-artifacts/6-2 promises one),
a cash payment that found the session open and commits after it was counted (`cash-register/cash-register.service.ts:72`), two
sessions opened at once by one operator, two remittances created at once for one session (`remittances/remittances.service.ts:45`).
`desk` shows that none of them happens to requests that run alone. Nor is the tenant check of a session (`frontend/lib/auth-options.ts:81`): its catch
block says "Do not lock users out on transient network errors during auth bootstrap", but an answer with status 429 or 5xx signs the user of an active tenant out. The model has
that outcome; the properties of sessions are about tenants and users that are shut out, and no property promises that a session lasts.

On the other side, the runs show what the same races cannot do: no order leaves unpaid or marked PAID
without money, because a lost update only lowers `amount_paid`; expected cash never exceeds what was
taken; no stage of the work is skipped; references never collide; no tenant comes from an
unapproved request; sessions of a deactivated tenant end, when their users come back to them, even where Keycloak was missed; the secrets survive every
script that is not stopped, or joined by another, within one command.

## 5. Proofs

`DeskOffice_proofs` proves, for every set of orders, slots, operators and sessions, all prices, positive amounts
and tolerances, the nine properties of run `desk`. The assumptions are those of the modules:
`CentAssumption`, `ShelfAssumption`, `SessionAssumption`, `MoneyAssumption` (types of the constants). No
finiteness is assumed.

- `TypeCorrect`: by induction over the requests.
- `ShelvesConsistent`: `ShelfConsistent` is inductive with the types. `ShelfMoves` covers the requests that
  only remove records; the interesting step is the assignment, which frees, removes and occupies at once
  and needs both halves of the invariant: the new slot is FREE, hence unrecorded.
- `ShelfFitsStatusAlways`: `ShelfFitsStatus` is inductive with the types alone; `OtherOrders` says a request
  leaves the orders it is not about alone, so each step looks at one order.
- `BooksAlwaysBalance`: `BooksBalance` alone is not inductive, because the creation of an order sets
  `amount_paid` and adds to what the payments table holds: `BooksInv` adds that identifiers without a row
  have no payments.
- `DrawerAlwaysBalances`: `DrawerInv` adds that a session that was never opened holds no cash, which its opening
  needs (it sets `expected_cash` to 0).
- `OneSessionAlways`: inductive with the types; opening is refused while the operator has another one pending.
- `DeliveredAlwaysSettled` uses `BooksAlwaysBalance` and `ShelfFitsStatusAlways`: delivery looks at
  `payment_status`, the theorem is about the payments, and about the shelf the order has left.
- `ClosedStaysClosed`, `ClosedDrawerStaysFrozen`: step by step, with the types; `SessionsOfOrders` says what
  requests about orders may do to sessions.

`OrderDeskTxn_proofs` proves the four properties of run `goods` for any number of requests in flight, orders, shelves,
sessions, all prices, positive amounts, tolerances, and every subset of the endpoints (`CentAssumption`, `DeskAssumption`: types
of the constants, and at least one order and session). The properties are far from inductive: what a save
writes was read many steps before. The invariant `IInv` rests on what only grows (`Grows`): an order that is there stays there
with its total, receipts and the statuses an order has had are never taken back. Hence a promise of an image, once true, stays
true (`FitsStays`): `ImageOK`, its row is there and has its total; `MoneyOK`, the money it shows has been received, or
comes with the request; `StageOK`, the status it writes is the next one, or one the order has had, and an image read of a closed order
carries that status. `CreationOK` says a creation is alone with its identifier. One lemma per action shows that it keeps
`IInv`, through `ReadKeeps` where it only reads; `CommitKeeps` is the one where images become rows.

- `GoodsAlwaysPaid`, `BooksNeverExceed`, `NoStageEverSkipped`, `TypeCorrect` follow from `IInv`.
- `ReopenedOnlyByStaleSaves`: only a commit changes an order (`OnlyCommitsWrite`), and by `StageOK` the request that
  changes a closed order's status did not read that status.

The same module proves the refinement. `OneWorkerImplements`: if `Workers` is one worker, `Spec => ImplementsDesk`, for any
number of orders, shelves and sessions. The hypothesis is what the code is like when requests do not overlap; with two workers
the implication is false, as `goods` shows. The invariant `Serial` says what overlapping requests would break: the tables are
consistent but for the shelf a start of work in flight has given up (`TablesOK`), the images are the rows (`ReadIsTrue`), and the writes
are those the request of `OrderDesk` would make from these rows (`Prepared`). Reads, saves and deaths map to stutters, each
commit to one action of `Desk`, through `ShownStored` and `ShownSlot`: until its second transaction a start of work
still shows its shelf, and a worker that dies between the two shows, at its death, the release of `OrderDesk`.

`Remittances_proofs` proves `AcknowledgedAlwaysRemitted` for any number of workers, remittances and sessions. A row that says
ACKNOWLEDGED does not say who wrote it, so the invariant follows the images: one that carries
ACKNOWLEDGED to its save, or is about to be linked to a site remittance, is of a row that is there and whose session is REMITTED
already; rows keep their session, and nothing takes REMITTED back. `RemittanceAssumption` says `None` is no identifier, or status, of anything.

`SiteTotalAlwaysCovers` is about a total against a sum over a set that changes while the links are written. The total is compared with
more than what is linked: with the rows that are linked or that any request in flight may still link, from the rows it gathered or from
an image read before another one took the row over (`Covered`). From the insert of the site remittance on, that set only shrinks and its rows keep their
amounts. At any time finitely many rows are there (`Present`), so no finiteness is assumed.

`Sums` has what these proofs need of sums: a sum over a finite set is that of the rest and one element, whichever, grows with its terms, and stays when one term passes to another.
The folds of the community modules choose an element and recur; a recursive function over the subsets of a set is unrolled by
an induction that takes a set in the place of a predicate (`SubsetsIn`), which the provers can instantiate.

`QuotaTab_proofs` proves the four properties of run `quota` for every plan, set of dates from 2024 to 2040, number of orders and
finite set of workers (`PlanAssumption`: the types of a plan; the windows are distinct, the limits positive).

- `OverrunAlwaysBounded`: a request that is past the check of a window, or was checked for another date, is due to the
  counter it may still charge. The count with what is due stays below the limit plus the number of workers for every period
  of the key that has begun. A check keeps the bound, because it finds the counter below its limit; a midnight may make every request due
  to a new key, but then begins a period of it. That a key has at most `PeriodsOf` periods is a fact of the Gregorian calendar,
  proved with the calendar unrolled year by year. The sites are a second, simpler bound of the same kind.
- `NeverOverchargedAtAll`: the sum of the counts and of the charges under way is at most the number of orders inserted;
  a marker is found or written by the worker that charges.
- `ReferencesAlwaysGapless`: the numbers of a site in a month are `1 .. n` for some `n` (an order is inserted with the next number or
  refused by the unique index), and `n` is their cardinality.
- `CountersAlwaysStartAfresh`: a counter's start is the first day of a period with its key, and two dates with one key have one
  start, but for the weeks 1, 52 and 53.

`AccessReports_proofs` proves `AccountsAlwaysFollowRow` for any number of users, roles, calls in flight and failing
requests and crashes (`AccessAssumption`: types; `None` is no identifier). `AccountsFollowRow` speaks of the moments when no call is under way; the invariant `Inv` says what a call
knows and owes at each step. `Alone`: of two toggles, or two calls about one user, that overlap, both know it. `Enabling`: a user agrees with
the row (`Following`: shut out of an inactive tenant, let into an active one), or is still to be switched by a toggle in flight, or in the gap; and a user whom an undisturbed toggle has
listed is still as the list says (`AllListed`), because the toggle skips those who look right. `Appointed`: the roles of a user are
those of the profile, or a call is about the user, or the user is torn, and an undisturbed call knows at each step what is left of the old roles.
The steps of calls about users touch one user (`OwnOnly`), those of toggles and browsers only switches (`Switches`). A crash ends
the calls, and puts into the gap, or among the torn, exactly those for whom one of them was the excuse.

`SignupServer_proofs` proves `CompletedAlwaysUsable`, `OneTenantAlways`, `TenantAlwaysGranted` and the types, for any number of
requests, names and calls in flight. The tenant a request makes has the subdomain of its row, which nothing changes, so one
insertion succeeds and `OneTenantPerRequest` needs no lock. The call that made the tenant is the only one to save
COMPLETED, and no tenant is on the row when it loads it, so status and tenant are written together. The saves of other calls may
carry older images and undo the status; `Undone` says that such a request is never completed again, which is what keeps
half a completion from being written over the other half. `SignupAssumption` keeps `None` and "superadmin" apart from
the identifiers. These constants' assumptions are evaluated in the runs.

`CounterScreen_proofs` proves `DraftsAlwaysBecomeOrders` and `MoneyAlwaysAgrees`, for any finite catalogue, any clients, positive prices
and multipliers, and any bounds on pieces, requests, edits, reloads and lost answers. A draft is ordered once because of what the page still
waits for: a request nobody waits for is undecided and its draft excused (`LeftAlone`), the awaited one has a draft not ordered before, and
a draft that was ordered and is still on the page is excused or belongs to the order that is about to be shelved (`Once`), so the
form cannot be confirmed for it. The draft stays that of the request unless `touched` says otherwise (`Kept`). For the money, a row
keeps the amount, prices and multiplier of the page beside the list, multiplier and total of the back end (`PaidOK`); that one total is at most the other
follows offer by offer (`BaseGrows`), and then from the two multipliers (`TotalsCompare`). That a line merged into another
stays within the bound of pieces is a fact about sums too (`PiecesMoved`). `ScreenAssumption` says that the catalogue is finite and `None` no request.

`DeskOffice_proofs` also proves `OverlapsOnly`: `OnlyOverlapsHarm` for any number of workers, calls, clients, codes, orders, rows, restarts and failed
statements. The assumptions are the modules': `None` is no row, entry or kind of call, and queries are names. `OfficeInv` has a
part for each of the three services, which says what a call has in hand at each statement, and one for the types of the calls (`CallsOK`). `BookInv`: a
search that no write overtook has read the clients as they are, and no insertion came since a code was found unused, unless the calls
overlapped. `NoticeInv`: an order that no two calls found IN_PROGRESS is announced by one call at most, and
a channel still to be told has not been told (`AnnouncedOnce`), whichever channels reach the client and whichever read fails. `RegInv`: the image a call will save is the row with its one
change, unless another change of that row overlapped.

`SignupServer_proofs` also proves the three properties of run `server`, for any number of shells, scripts, releases, overlaps, stops, set-up runs and mishaps.

- `ServerAlwaysAgrees`: `LoneOK` says what a script that runs alone has brought about at each command, `RestOK` what is
  left when none runs. `StageOK` says what each script knows of itself, overlaps or not: a copy from which the secrets are missing
  is held only after one of the harms that `SecretsSurvive` names. The one assumption is `MaxScripts \in Nat`.
- `RollbackAlwaysGoesBack`: by `RestOK` a rollback that ran alone ends with the pointer one file before where it began. If every file ran, and the
  files ran in the order of their numbers (the departures say when they did not), then nothing but the latest release ran after
  that one (`InOrder`, `GoesBack`).
- `SetupAlwaysConverges`: what a run has passed is there, was given up, or is one of the departures (`Covered`); nothing is given up that a
  later request needs (`GivenUp`, `NeedsMet`); a user whom a run creates gets the password next (`PasswordsCome`). The rest are facts about the order of a list of requests
  (`RootPart`, `BackendPart`); they are kept when lists follow one another (`RootFollow`, `BackendFollow`), so they are proved
  for the parts of a script, of at most five requests each, and put together. Nothing is assumed of the constants.

`QuotaTab_proofs` also proves four properties of run `tab`, for each of the pages, forms and desks listed, and
any number of requests in flight, filters, records, orders, acts and writes. What the proofs need of the lists are a few implications between habits,
found by going through them (`PageHabits`, `FormHabits`). The assumptions (`PagesAssumption`, `FormsAssumption`, `DesksAssumption` and those about
`None`, `Blank` and `Nothing`) are the types of the bounds, that there are a filter and a slot for a load, and that the three are no records.

- `PagesShowWhatIsAsked`: the load begun last asks for what the filters and the page number say now, unless a write asked for the rows of an old filter
  (`NewestAsks`); once it has been answered, what is shown is its answer, or one of the exceptions applies (`Excused`). On a page that discards
  late answers, or has one request out at a time (`OneAtATime`: it waits for its loads and makes no writes, or one at a time), only that load is listened to (`CallsOfPage`); on the others (`Overlaps`) an answer may come too late. The
  writes carry the version they made and the habit they were sent with (`WriteOK`).
- `SavesAreMeant`, `UnsavedWorkIsKept`: the draft of an open form is of its record and was typed in its opening, but for the forms with a named
  habit, the lingering category of an expense among them (`DraftMeant`), and a save keeps the draft of the moment it was sent (`SaveMeant`). The second is an action property, by cases of the step.
- `DesksOfferNextStep`: a card that does not know the order's last step has a chain ahead of it, which will take it away, or one of the excuses (`CardExplained`).

`AccessReports_proofs` also proves the two properties of run `reports`, for any finite sets of agencies, services and types, any orders
and carts, clocks less than a day from UTC, any length of day, week and page, and any horizon (`ReportsAssumption`).

- `ReportsAlwaysAddUp`: only the types of the rows are inductive (`Rows`); the rest is a theorem about the queries. The figures are sums over the
  same rows grouped by different keys, and `SumSwap`, `SumByKey` and `CountByKey` say when the grouping does not matter. What a
  period contains (`PeriodBounds`) follows from the characterisation of the integer quotient, clocks behind UTC included.
- `ExportAlwaysComplete`: at each page, `ReadOK` bounds the rows that have been passed over unread by the deletions (`Missed`) and the rows
  read that will come again by the insertions (`Again`); between the count and the rows of a page that the count calls the last, the rows
  behind it are bounded by the insertions since (`Counted`). An insertion or a deletion moves every place by at most one, and
  places are distinct, so it carries at most one row over the edge of a page. `PagesReachTheEnd`: when the rows are counted, behind the last page there is none.

Only model-checked: `OfferedIsServed`, and all liveness (`SessionsFollowAccount`, `BackgroundWorkEnds`, `PagesSettle`), because
fairness and ENABLED are beyond the prover. `Navigation` has no constants and relates finitely many operators over tables
written out in full: the run is exhaustive and says as much as a proof by cases would. The calendar of `UsagePeriods` is bounded by 2040, in the model and
in the proofs.

## 6. Not modelled

- Subscription plan records: edited by a Superadmin, read by the quota, constant in `PlanQuota`. No code changes
  the status of a subscription after its creation.
- Localities and exchange rates: records without dependants, and a display of figures fetched elsewhere. Their forms, pages
  and access rules are in `WorkForms`, `WorkPages` and `Permissions`.
- Slot creation and generation, the shelf map, listings: slots exist from the start, a slot not yet created is one that no
  request names; the rest reads.
- Filtering by tenant and site, row level security: each model is about one tenant and, at the counter, one site. The
  removal of tenants is in `TenantAccess`; `CompletedIsUsable` is about tenants nobody removed.
- `deploy/update-deploy.sh`, which replaces the scripts, the first set-up of a server (the initial state of `Rollouts`),
  the pipelines, and migrations other than the unique indexes.
- Layout, texts, charts, printing; landing and public signup pages; the end-to-end tests.

## 7. Plan

Done, in this order: the counter (`DeskRules`, `OrderDesk` and its proofs, `OrderDeskTxn`, `OrderDeskSerial`), because
everything the customers see passes through it; `Remittances`, `UsagePeriods`, `PlanQuota`, `Signup`; then access, the back
office, the order page, reports, the web application, permissions, deployment and set-up. Then the proofs about `OrderDeskTxn`
with its refinement, `Remittances`, `Signup`, `PlanQuota`, `TenantAccess` and `CounterScreen`; and those about `BackOffice`, `Rollouts`,
`RealmSetup`, `BrowserTab` and `Reports`. Every safety and action property of the runs but `OfferedIsServed` is stated by a theorem.

Next, modelling: `update-deploy.sh` against a script that is running, and the creation of slots; each with its theorem.

----------------------------- MODULE Navigation -----------------------------
(***************************************************************************)
(* Moving about the web application: the pages, with the services each     *)
(* calls and the links it shows to a user of given roles, the menu, and    *)
(* the middleware that lets a request for a page pass or sends it to the   *)
(* dashboard. An address is the sequence of its segments; "id" stands for  *)
(* the key of some record.                                                 *)
(***************************************************************************)
EXTENDS Permissions, SequencesExt

VARIABLES
    who,     \* the user of the session
    at,      \* the page on the screen, Nowhere before the first
    going,   \* the page asked for, Nowhere once it is shown
    offered, \* history: the page asked for was offered by sign-in, menu or link
    denied   \* history: the last offer that was not honoured

navVars == <<who, at, going, offered, denied>>

\* Nobody is given Super_Admin: no script creates that role. realm: roles in
\* the token; profile: the role attribute on it.
User(realm, profile, tenant, site) ==
    [realm |-> realm, profile |-> profile, tenant |-> tenant, site |-> site]
Superadmin == User({SA}, {}, FALSE, FALSE)
Manager == User({AT}, {AT}, TRUE, FALSE)
Driver == User({Livreur}, {Livreur}, TRUE, TRUE)
Users == {Superadmin, Manager, Driver, User({AS, US}, {AS}, TRUE, TRUE),
          User({AS}, {AS}, TRUE, TRUE), User({US}, {US}, TRUE, TRUE)}

\* The roles of the session: those of the token and its profile; the manager of
\* an agency is one of its operators too.
SessionRoles(u) ==
    LET own == u.realm \cup u.profile IN own \cup {r \in {US} : AS \in own}
HasAny(u, roles) == SessionRoles(u) \cap roles # {}
If(cond, set) == IF cond THEN set ELSE {}

Nowhere == <<>>
Dashboard == <<"dashboard">>

-----------------------------------------------------------------------------
\* The menu, and what the middleware knows of the roles of a page.

AllRoles == Staff \cup Platform
NAV_ITEMS ==
    {<<Dashboard, AllRoles \cup {Livreur}>>, <<<<"admin", "tenants">>, Platform>>,
     <<<<"admin", "plans">>, Platform>>, <<<<"admin", "signup-requests">>, Platform>>,
     <<<<"admin", "notifications">>, Platform>>, <<<<"orders">>, Counter>>,
     <<<<"orders", "active">>, Counter>>, <<<<"workflow">>, Counter>>, <<<<"storage">>, Counter>>,
     <<<<"storage", "scan">>, Counter>>, <<<<"storage", "delivery">>, Counter>>,
     <<<<"deliveries">>, Counter \cup {Livreur}>>, <<<<"clients">>, Staff>>,
     <<<<"agencies">>, {AT}>>, <<<<"catalogue">>, {AT}>>, <<<<"users">>, {AT} \cup Platform>>,
     <<<<"cash-register">>, Counter>>, <<<<"expenses">>, Staff>>, <<<<"finance">>, {AS, AT}>>,
     <<<<"reports">>, {AT, AS}>>, <<<<"settings">>, {AT} \cup Platform>>,
     <<<<"settings", "notifications">>, {AT}>>}
getVisibleNavItems(u) == {item[1] : item \in {i \in NAV_ITEMS : HasAny(u, i[2])}}

ROUTE_ACCESS_RULES ==
    {<<Dashboard, AllRoles>>, <<<<"admin", "tenants">>, Platform>>,
     <<<<"admin", "plans">>, Platform>>, <<<<"admin", "signup-requests">>, Platform>>,
     <<<<"orders">>, Counter>>, <<<<"orders", "active">>, Counter>>, <<<<"workflow">>, Counter>>,
     <<<<"storage">>, Counter>>, <<<<"storage", "scan">>, Counter>>,
     <<<<"storage", "delivery">>, Counter>>, <<<<"clients">>, Staff>>, <<<<"agencies">>, {AT}>>,
     <<<<"catalogue">>, {AT}>>, <<<<"users">>, {AT} \cup Platform>>,
     <<<<"cash-register">>, Counter>>, <<<<"expenses", "types">>, {AT, AS}>>,
     <<<<"expenses">>, Staff>>, <<<<"finance">>, {AS, AT}>>, <<<<"reports">>, {AT, AS}>>,
     <<<<"settings">>, {AT} \cup Platform>>}

\* The longest rule that the address begins with decides.
getAllowedRolesForPath(p) ==
    LET matches == {r \in ROUTE_ACCESS_RULES : IsPrefix(r[1], p)}
    IN  IF matches # {}
        THEN (CHOOSE r \in matches : \A o \in matches : Len(o[1]) <= Len(r[1]))[2]
        ELSE IF p[1] = "admin" THEN Platform ELSE AllRoles

PROTECTED_PREFIXES ==
    {"dashboard", "agencies", "catalogue", "users", "orders", "workflow", "storage", "clients",
     "cash-register", "expenses", "finance", "reports", "settings", "admin"}
Passes(u, p) == p[1] \in PROTECTED_PREFIXES => HasAny(u, getAllowedRolesForPath(p))

-----------------------------------------------------------------------------
\* The pages: the calls they make or have a button for, and their links.

Page(calls, links) == [calls |-> calls, links |-> links]

\* The header of every page loads the tenant and, for the people of an agency,
\* the agency.
Header(u) ==
    {TenantService.getCurrentTenant} \cup
    If(HasAny(u, Counter \cup {Livreur}) /\ ~HasAny(u, {AT} \cup Platform) /\ u.site,
       {SiteService.getById})

TenantNetworkDashboard ==
    Page({OrdersService.getDashboardStats, OrdersService.getStatsBySite,
          OrdersService.getDelayedStats, StorageService.getOccupancyBySite,
          ExpenseService.getTotal},
         {<<"agencies">>, <<"agencies", "id">>})
AdminSiteDashboard ==
    Page({SiteService.getById, OrdersService.getDashboardStats, OrdersService.getHourlyStats,
          OrdersService.getDelayedStats, StorageService.getAll, OrdersService.findAll},
         {<<"orders">>, <<"orders", "active">>, <<"orders", "id">>, <<"workflow">>,
          <<"storage", "scan">>, <<"storage", "delivery">>})
UserSiteOpsHome(u) ==
    Page(If(u.site, {StorageService.getAll, OrdersService.findAll}),
         If(u.site, {<<"orders">>, <<"workflow">>, <<"storage", "scan">>,
                     <<"storage", "delivery">>, <<"cash-register">>, <<"storage">>,
                     <<"orders", "active">>, <<"orders", "id">>}))
DashboardScreen(u) ==
    IF HasAny(u, {AT} \cup Platform) THEN TenantNetworkDashboard
    ELSE IF HasAny(u, {AS}) THEN AdminSiteDashboard ELSE UserSiteOpsHome(u)

AgencyFormModal == {StorageService.uploadFile, SiteService.create, SiteService.update}
AgenciesScreen == Page({SiteService.getAll} \cup AgencyFormModal, {<<"agencies", "id">>})
AgencyDetailsScreen ==
    Page({SiteService.getById, UserService.getUsers, OrdersService.getDashboardStats,
          OrdersService.getWeeklyStats, StorageService.getAll, LocalityService.list,
          LocalityService.create, LocalityService.deactivate} \cup AgencyFormModal,
         {<<"agencies">>, <<"users">>})

ClientsScreen ==
    Page({ClientService.list},
         {<<"clients", "new">>, <<"clients", "id">>, <<"clients", "id", "edit">>})
ClientDetailScreen ==
    Page({ClientService.getById, OrdersService.findAll},
         {<<"clients">>, <<"clients", "id", "edit">>, <<"orders">>, <<"orders", "id">>})
ClientFormScreen ==
    Page({ClientService.getById, ClientService.create, ClientService.update},
         {<<"clients">>, <<"clients", "id">>})

PaymentForm == Page({CashRegisterService.getCurrent}, {<<"cash-register">>})
StorageSlotPicker == {StorageService.getAll, StorageService.assignOrder}
NewOrderScreen ==
    Page({ClientService.getById, ClientService.search, ClientService.create,
          articleTypeService.findAll, pricingService.findAll, LocalityService.list,
          SiteService.getById, OrdersService.create} \cup PaymentForm.calls \cup StorageSlotPicker,
         PaymentForm.links)
ActiveOrdersScreen == Page({OrdersService.findAll}, {<<"orders">>, <<"orders", "id">>})
OrderDetailScreen ==
    Page({OrdersService.getById, OrdersService.updateStatus},
         {<<"orders", "active">>, <<"workflow">>, <<"clients", "id">>, <<"storage", "scan">>})
WorkflowScreen ==
    Page({OrdersService.findAll, OrdersService.updateStatus, OrdersService.getById}
            \cup StorageSlotPicker,
         {<<"orders">>, <<"orders", "id">>})
StorageScreen(u) ==
    Page({StorageService.getAll, StorageService.getSlotContents} \cup
            If(HasAny(u, {AS, AT} \cup Platform), {StorageService.create}),
         {<<"storage", "delivery">>, <<"storage", "scan">>})
StorageScanScreen ==
    Page({OrdersService.findAll, OrdersService.lookup, OrdersService.getById}
            \cup StorageSlotPicker, {})
DeliveryScreen ==
    Page({OrdersService.findAll, StorageService.lookupOrder, StorageService.lookupOrders,
          StorageService.deliverOrder, PaymentService.create} \cup PaymentForm.calls,
         PaymentForm.links)
DeliveriesScreen(u) ==
    Page({DeliveriesService.listReady, DeliveriesService.confirm} \cup
            If(u.site, {LocalityService.list}), {})

CashRegisterScreen(u) ==
    Page({CashRegisterService.getCurrent, CashRegisterService.getSessionSummary,
          CashRegisterService.open, CashRegisterService.close,
          RemittanceService.createCashRemittance} \cup
            If(HasAny(u, {AS}), {CashRegisterService.getSessions} \cup
                If(u.site, {UserService.getUsers})), {})
\* A bug: the buttons are shown for the roles the lists are loaded for.
MutantFinanceScreen(u) ==
    Page(If(HasAny(u, {AS, AT}),
            {RemittanceService.acknowledgeCashRemittance,
             RemittanceService.acknowledgeSiteRemittance}), {})
FinanceScreen(u) ==
    Page(If(HasAny(u, {AS, AT}),
            {SiteService.getAll, RemittanceService.getCashRemittances,
             RemittanceService.getSiteRemittances}) \cup
         If(HasAny(u, {AS}),
            {RemittanceService.acknowledgeCashRemittance, RemittanceService.disputeCashRemittance,
             RemittanceService.createSiteRemittance} \cup If(u.site, {UserService.getUsers})) \cup
         If(HasAny(u, {AT}),
            {RemittanceService.acknowledgeSiteRemittance, RemittanceService.disputeSiteRemittance}),
         {})
ExpensesScreen(u) ==
    Page({ExpenseService.list, ExpenseService.getTotal, ExpenseService.listTypes} \cup
         If(HasAny(u, {AT} \cup Platform), {SiteService.getAll}) \cup
         If(HasAny(u, Counter), {ExpenseService.create, StorageService.uploadFile}) \cup
         If(HasAny(u, {AS, AT}), {ExpenseService.remove}),
         If(HasAny(u, {AT, AS}), {<<"expenses", "types">>}))
ExpenseTypesScreen(u) ==
    Page(If(HasAny(u, {AT, AS}),
            {ExpenseService.listTypes, ExpenseService.createType, ExpenseService.updateType,
             ExpenseService.deactivateType}),
         {<<"expenses">>})
ReportsScreen(u) ==
    Page({serviceDefinitionService.findAll, OrdersService.getDashboardStats,
          ExpenseService.getTotal, OrdersService.getTimeseriesStats, ExpenseService.getTimeseries,
          OrdersService.getThroughputStats, OrdersService.getStatsByService,
          StorageService.getOccupancyBySite} \cup
            If(HasAny(u, {AT} \cup Platform), {OrdersService.getStatsBySite, SiteService.getAll}),
         If(HasAny(u, {AT} \cup Platform), {Dashboard}))

UsersScreen(u) ==
    Page({UserService.getUsers, UserService.deleteUser, UserService.resendInvitation,
          UserService.inviteUser} \cup
            (IF HasAny(u, Platform) THEN {TenantService.getAll}
             ELSE {SiteService.getAll, UserService.updateUser}), {})
CatalogueScreen ==
    Page({articleTypeService.findAll, articleTypeService.create, articleTypeService.update,
          articleTypeService.delete, laundryServiceService.findAll, laundryServiceService.create,
          laundryServiceService.update, laundryServiceService.delete, pricingService.findAll,
          pricingService.upsert, pricingService.delete, TenantService.getCurrentTenant,
          TenantService.updateConfig}, {})
SettingsScreen ==
    Page({StorageService.uploadFile, TenantService.getCurrentTenant, TenantService.updateConfig,
          TenantService.updateBranding}, {})
NotificationSettingsScreen ==
    Page({NotificationService.getTenantConfig, NotificationService.updateTenantConfig,
          FxClient.rates}, {})
CatalogConfigScreen ==
    Page({serviceDefinitionService.findAll, serviceDefinitionService.create,
          serviceDefinitionService.update, articleTypeService.findAll, articleTypeService.create,
          articleTypeService.update, pricingService.findAll, pricingService.upsert}, {})
AgencySettingsScreen ==
    Page({TenantService.getCurrentTenant, TenantService.updateBranding, UserService.getUsers,
          UserService.inviteUser, SiteService.getAll}, {})

AdminTenantsScreen ==
    Page({TenantService.getAll, TenantService.create, TenantService.update, TenantService.delete,
          TenantService.setActive}, {})
CreateTenantScreen == Page({TenantService.create}, {<<"admin", "tenants">>})
AdminPlansScreen ==
    Page({SubscriptionService.listPlans, SubscriptionService.createPlan,
          SubscriptionService.updatePlan}, {})
SignupRequestsScreen ==
    Page({SignupService.listRequests, SignupService.approve, SignupService.reject}, {})
PlatformNotificationsScreen ==
    Page({NotificationService.getPlatformSettings, NotificationService.updatePlatformSettings}, {})

Screens(u) ==
    {<<Dashboard, DashboardScreen(u)>>, <<<<"agencies">>, AgenciesScreen>>,
     <<<<"agencies", "id">>, AgencyDetailsScreen>>, <<<<"clients">>, ClientsScreen>>,
     <<<<"clients", "id">>, ClientDetailScreen>>, <<<<"clients", "new">>, ClientFormScreen>>,
     <<<<"clients", "id", "edit">>, ClientFormScreen>>, <<<<"orders">>, NewOrderScreen>>,
     <<<<"orders", "active">>, ActiveOrdersScreen>>, <<<<"orders", "id">>, OrderDetailScreen>>,
     <<<<"workflow">>, WorkflowScreen>>, <<<<"storage">>, StorageScreen(u)>>,
     <<<<"storage", "scan">>, StorageScanScreen>>, <<<<"storage", "delivery">>, DeliveryScreen>>,
     <<<<"deliveries">>, DeliveriesScreen(u)>>, <<<<"cash-register">>, CashRegisterScreen(u)>>,
     <<<<"finance">>, FinanceScreen(u)>>, <<<<"expenses">>, ExpensesScreen(u)>>,
     <<<<"expenses", "types">>, ExpenseTypesScreen(u)>>, <<<<"reports">>, ReportsScreen(u)>>,
     <<<<"users">>, UsersScreen(u)>>, <<<<"catalogue">>, CatalogueScreen>>,
     <<<<"settings">>, SettingsScreen>>, <<<<"settings", "notifications">>, NotificationSettingsScreen>>,
     <<<<"settings", "catalog">>, CatalogConfigScreen>>, <<<<"settings", "agency">>, AgencySettingsScreen>>,
     <<<<"admin", "tenants">>, AdminTenantsScreen>>,
     <<<<"admin", "tenants", "create">>, CreateTenantScreen>>,
     <<<<"admin", "plans">>, AdminPlansScreen>>, <<<<"admin", "signup-requests">>, SignupRequestsScreen>>,
     <<<<"admin", "notifications">>, PlatformNotificationsScreen>>}
Addresses == {s[1] : s \in Screens(Manager)}
PageAt(u, p) == (CHOOSE s \in Screens(u) : s[1] = p)[2]
Bare(p) == p = <<"settings", "agency">> \* outside the layout: no header, no menu

Calls(u, p) == PageAt(u, p).calls \cup If(~Bare(p), Header(u))
Links(u, p) == PageAt(u, p).links \cup If(~Bare(p), getVisibleNavItems(u))

-----------------------------------------------------------------------------
Kept == [by |-> "nobody", page |-> Nowhere, thing |-> Nowhere]

\* Sign-in leads to the dashboard.
NavInit ==
    /\ who \in Users
    /\ at = Nowhere /\ going = Dashboard /\ offered = TRUE
    /\ denied = Kept

FollowLink ==
    /\ at # Nowhere /\ going = Nowhere
    /\ \E p \in Links(who, at) : going' = p
    /\ offered' = TRUE
    /\ UNCHANGED <<who, at, denied>>

\* An address is typed when nothing is pending, or when the browser has given up
\* on a dashboard that redirects to itself.
TypeAddress ==
    /\ going = Nowhere \/ (going = Dashboard /\ ~Passes(who, Dashboard))
    /\ \E p \in Addresses : going' = p
    /\ offered' = FALSE
    /\ UNCHANGED <<who, at, denied>>

\* The middleware answers a request for a page the user may not open with a
\* redirect to the dashboard, which it treats as any other page.
Middleware ==
    /\ going # Nowhere
    /\ IF Passes(who, going)
       THEN at' = going /\ going' = Nowhere /\ UNCHANGED denied
       ELSE /\ going' = Dashboard
            /\ denied' = IF offered THEN [by |-> "page", page |-> at, thing |-> going] ELSE denied
            /\ UNCHANGED at
    /\ UNCHANGED <<who, offered>>

\* The page calls a service, by itself or for a click on one of its buttons.
CallService ==
    /\ at # Nowhere
    /\ \E rule \in Calls(who, at) :
          denied' = IF Grants(rule, who) THEN Kept ELSE [by |-> "api", page |-> at, thing |-> rule]
    /\ UNCHANGED <<who, at, going, offered>>

NavNext == FollowLink \/ TypeAddress \/ Middleware \/ CallService

-----------------------------------------------------------------------------
NavTypeOK ==
    /\ who \in Users
    /\ \A page \in {at, going} \ {Nowhere, Dashboard} : page \in Addresses
    /\ offered \in BOOLEAN
    /\ denied.by \in {"nobody", "page", "api"}

\* Where the tables of the web application and the guards of the API disagree:
\* the superadmin, who has no tenant, on the pages of a tenant and under their
\* header; the driver, whom the rules keep off the dashboard, and whose header
\* asks for an agency only staff may read; /deliveries, which the middleware
\* does not protect; the links to orders on a client's page, for the manager.
NotServed(u, page, call) ==
    \/ u = Superadmin /\ (page \in {Dashboard, <<"deliveries">>} \/ page[1] = "settings")
    \/ u = Superadmin /\ call \in Header(u)
    \/ u = Driver /\ call = SiteService.getById
    \/ page = <<"deliveries">> /\ page \notin getVisibleNavItems(u)
NotLetIn(u, page, link) ==
    \/ u = Driver /\ link = Dashboard
    \/ u = Superadmin /\ page = Dashboard /\ link[1] = "agencies"
    \/ u = Manager /\ page = <<"clients", "id">> /\ link[1] = "orders"

\* What the menu, a link or a button offers to a user is served to him: no page
\* he is led to is refused by the middleware (route-access.ts), and no call of a
\* page that he was let into is refused by the guards of the API, but for the
\* departures above.
OfferedIsServed ==
    /\ NavTypeOK
    /\ denied.by = "page" => NotLetIn(who, denied.page, denied.thing)
    /\ denied.by = "api" => NotServed(who, denied.page, denied.thing)

=============================================================================

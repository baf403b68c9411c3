---------------------------- MODULE Permissions -----------------------------
(***************************************************************************)
(* Who may call what: one record per controller of the API, a rule for     *)
(* each handler, and one per service of the web application, the rule of   *)
(* the handler that each of its methods calls. What a handler does once it *)
(* has let the caller in is the subject of the other modules.              *)
(***************************************************************************)

AT == "Admin_Tenant"
AS == "Admin_Site"
US == "User_Site"
SA == "Superadmin"
SU == "Super_Admin"
Livreur == "Livreur"

Counter == {US, AS}
Staff == Counter \cup {AT}
Platform == {SA, SU}

\* roles: the realm roles the guard asks for one of; a public handler asks for
\* no token at all. tenant, site: the handler throws if the token has none.
Rule == [public : BOOLEAN, roles : SUBSET (Staff \cup Platform \cup {Livreur}),
         tenant : BOOLEAN, site : BOOLEAN]
Public == [public |-> TRUE, roles |-> {}, tenant |-> FALSE, site |-> FALSE]
To(roles) == [Public EXCEPT !.public = FALSE, !.roles = roles]
InTenant(roles) == [To(roles) EXCEPT !.tenant = TRUE]
AtSite(roles) == [InTenant(roles) EXCEPT !.site = TRUE]

\* The token of user u passes the guards and the first lines of the handler.
Grants(rule, u) ==
    \/ rule.public
    \/ /\ rule.roles \cap u.realm # {}
       /\ rule.tenant => u.tenant
       /\ rule.site => u.site

-----------------------------------------------------------------------------
\* The controllers. Handlers that take the agency from the caller's token, or
\* refuse one that is not among his, are modelled for callers that name their own.

OrdersApi ==
    [create |-> InTenant(Staff), updateStatus |-> InTenant(Staff),
     updateDelivery |-> InTenant(Staff \cup {Livreur}),
     dashboard |-> InTenant({AS, AT} \cup Platform), weekly |-> InTenant(Staff \cup Platform),
     bySite |-> InTenant({AT} \cup Platform), hourly |-> InTenant(Staff \cup Platform),
     delayed |-> InTenant(Staff \cup Platform), timeseries |-> InTenant({AS, AT} \cup Platform),
     throughput |-> InTenant({AS, AT} \cup Platform), byService |-> InTenant({AS, AT} \cup Platform),
     findAll |-> InTenant(Staff), lookup |-> InTenant(Staff \cup {Livreur}),
     findOne |-> InTenant(Staff \cup {Livreur})]

PaymentsApi == [create |-> AtSite(Counter), findByOrder |-> InTenant(Staff)]

CashRegisterApi ==
    [open |-> AtSite(Counter), close |-> InTenant(Counter), current |-> InTenant(Counter),
     sessions |-> InTenant({AS, AT}), sessionSummary |-> InTenant(Staff)]

RemittancesApi ==
    [createCash |-> AtSite(Counter), acknowledgeCash |-> InTenant({AS}),
     disputeCash |-> InTenant({AS}), cash |-> InTenant({AS, AT}), createSite |-> InTenant({AS}),
     acknowledgeSite |-> InTenant({AT}), disputeSite |-> InTenant({AT}), site |-> InTenant({AS, AT})]

ExpensesApi ==
    [types |-> InTenant(Staff), writeType |-> InTenant({AT, AS}), total |-> InTenant(Staff),
     timeseries |-> InTenant({AT, AS}), list |-> InTenant(Staff), create |-> InTenant(Counter),
     delete |-> InTenant({AS, AT})]

\* Article types, services and prices.
CatalogApi == [write |-> InTenant({AT, SA}), read |-> InTenant({SA} \cup Staff)]
ServicesApi == [write |-> To({AT, SA}), read |-> To({SA} \cup Staff)]
PricesApi == [write |-> To({AT, SA}), read |-> To({SA} \cup Staff)]

LocalitiesApi == [write |-> InTenant({AT, AS}), read |-> InTenant(Staff \cup {Livreur})]
DeliveriesApi ==
    [listReady |-> InTenant(Staff \cup {Livreur}), confirm |-> InTenant(Counter \cup {Livreur})]
SitesApi == [create |-> InTenant({AT}), read |-> InTenant(Staff), update |-> InTenant({AT, AS})]
ClientsApi == [all |-> To(Staff)]

StorageApi ==
    [create |-> To({AS, SU}), findAll |-> To({SU} \cup Staff), contents |-> To({SU} \cup Staff),
     occupancy |-> To({AT, AS} \cup Platform), move |-> To({SU} \cup Counter),
     lookup |-> To({SU} \cup Counter), deliver |-> To({SU} \cup Counter),
     upload |-> To({SU} \cup Staff)]

NotificationsApi ==
    [platform |-> To({AT} \cup Platform), updatePlatform |-> To(Platform),
     tenant |-> InTenant({AT}), logs |-> InTenant({AT} \cup Platform)]
SignupApi == [anyone |-> Public, decide |-> To(Platform)]
FxApi == [anyone |-> Public]
SubscriptionsApi ==
    [plans |-> To(Platform), me |-> InTenant(Staff), usage |-> InTenant({AT, AS})]
TenantsApi ==
    [list |-> To({AT} \cup Platform), one |-> To(Platform), me |-> InTenant(Staff \cup {Livreur}),
     updateMe |-> InTenant({AT})]
\* A superadmin names the tenant in the request, the others have one.
UsersApi == [list |-> To({SA} \cup Staff), write |-> To({AT, SA})]

-----------------------------------------------------------------------------
\* The services of the web application.

OrdersService ==
    [create |-> OrdersApi.create, getById |-> OrdersApi.findOne, lookup |-> OrdersApi.lookup,
     updateStatus |-> OrdersApi.updateStatus, findAll |-> OrdersApi.findAll,
     getDashboardStats |-> OrdersApi.dashboard, getWeeklyStats |-> OrdersApi.weekly,
     getStatsBySite |-> OrdersApi.bySite, getHourlyStats |-> OrdersApi.hourly,
     getDelayedStats |-> OrdersApi.delayed, getTimeseriesStats |-> OrdersApi.timeseries,
     getThroughputStats |-> OrdersApi.throughput, getStatsByService |-> OrdersApi.byService]

PaymentService == [create |-> PaymentsApi.create, getByOrder |-> PaymentsApi.findByOrder]

CashRegisterService ==
    [open |-> CashRegisterApi.open, close |-> CashRegisterApi.close,
     getCurrent |-> CashRegisterApi.current, getSessions |-> CashRegisterApi.sessions,
     getSessionSummary |-> CashRegisterApi.sessionSummary]

RemittanceService ==
    [createCashRemittance |-> RemittancesApi.createCash,
     acknowledgeCashRemittance |-> RemittancesApi.acknowledgeCash,
     disputeCashRemittance |-> RemittancesApi.disputeCash,
     getCashRemittances |-> RemittancesApi.cash, createSiteRemittance |-> RemittancesApi.createSite,
     acknowledgeSiteRemittance |-> RemittancesApi.acknowledgeSite,
     disputeSiteRemittance |-> RemittancesApi.disputeSite, getSiteRemittances |-> RemittancesApi.site]

ExpenseService ==
    [listTypes |-> ExpensesApi.types, createType |-> ExpensesApi.writeType,
     updateType |-> ExpensesApi.writeType, deactivateType |-> ExpensesApi.writeType,
     list |-> ExpensesApi.list, getTotal |-> ExpensesApi.total,
     getTimeseries |-> ExpensesApi.timeseries, create |-> ExpensesApi.create,
     remove |-> ExpensesApi.delete]

articleTypeService ==
    [findAll |-> CatalogApi.read, create |-> CatalogApi.write, update |-> CatalogApi.write,
     delete |-> CatalogApi.write]
laundryServiceService ==
    [findAll |-> ServicesApi.read, create |-> ServicesApi.write, update |-> ServicesApi.write,
     delete |-> ServicesApi.write]
serviceDefinitionService ==
    [findAll |-> ServicesApi.read, create |-> ServicesApi.write, update |-> ServicesApi.write]
pricingService ==
    [findAll |-> PricesApi.read, upsert |-> PricesApi.write, delete |-> PricesApi.write]

LocalityService ==
    [list |-> LocalitiesApi.read, create |-> LocalitiesApi.write, update |-> LocalitiesApi.write,
     deactivate |-> LocalitiesApi.write]
DeliveriesService == [listReady |-> DeliveriesApi.listReady, confirm |-> DeliveriesApi.confirm]
SiteService ==
    [getAll |-> SitesApi.read, getById |-> SitesApi.read, create |-> SitesApi.create,
     update |-> SitesApi.update]
ClientService ==
    [create |-> ClientsApi.all, update |-> ClientsApi.all, getById |-> ClientsApi.all,
     list |-> ClientsApi.all, search |-> ClientsApi.all]

StorageService ==
    [getAll |-> StorageApi.findAll, getOccupancyBySite |-> StorageApi.occupancy,
     getSlotContents |-> StorageApi.contents, create |-> StorageApi.create,
     assignOrder |-> StorageApi.move, releaseOrder |-> StorageApi.move,
     lookupOrder |-> StorageApi.lookup, lookupOrders |-> StorageApi.lookup,
     deliverOrder |-> StorageApi.deliver, uploadFile |-> StorageApi.upload]

NotificationService ==
    [getPlatformSettings |-> NotificationsApi.platform,
     updatePlatformSettings |-> NotificationsApi.updatePlatform,
     getTenantConfig |-> NotificationsApi.tenant, updateTenantConfig |-> NotificationsApi.tenant]
SignupService ==
    [listPublicPlans |-> SignupApi.anyone, submit |-> SignupApi.anyone,
     completeCheckout |-> SignupApi.anyone, listRequests |-> SignupApi.decide,
     approve |-> SignupApi.decide, reject |-> SignupApi.decide]
FxClient == [rates |-> FxApi.anyone, suggestCurrency |-> FxApi.anyone]
SubscriptionService ==
    [listPlans |-> SubscriptionsApi.plans, createPlan |-> SubscriptionsApi.plans,
     updatePlan |-> SubscriptionsApi.plans]
TenantService ==
    [create |-> TenantsApi.one, getAll |-> TenantsApi.list, getById |-> TenantsApi.one,
     update |-> TenantsApi.one, delete |-> TenantsApi.one, setActive |-> TenantsApi.one,
     updateBranding |-> TenantsApi.updateMe, updateConfig |-> TenantsApi.updateMe,
     getCurrentTenant |-> TenantsApi.me]
UserService ==
    [getUsers |-> UsersApi.list, inviteUser |-> UsersApi.write,
     resendInvitation |-> UsersApi.write, updateUser |-> UsersApi.write,
     deleteUser |-> UsersApi.write]

=============================================================================

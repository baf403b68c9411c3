------------------------------- MODULE Signup -------------------------------
(***************************************************************************)
(* How an organisation becomes a tenant: a signup request is submitted,    *)
(* approved, rejected or paid, and provisioned (SignupService); or the     *)
(* tenant is created by a Superadmin (TenantService.create).               *)
(*                                                                         *)
(* Neither service opens a transaction around its steps: every read and    *)
(* write below is a statement of its own, a save loads the row             *)
(* (LoadRequest) before it updates the columns that differ (WriteRequest), *)
(* and a request may die between any two (Abort).  Provisioning goes on    *)
(* when the invitation or the plan fails, and stops when the agency fails. *)
(***************************************************************************)
EXTENDS Naturals

CONSTANTS
    Requests,   \* signup requests
    Bases,      \* the subdomains organisations ask for
    MaxSuffix,  \* bound: the suffixes -1, -2, ... a taken subdomain may get
    Emails,     \* administrators' addresses
    Kinds,      \* the plans on offer, a subset of PlanKind
    Workers,    \* calls in flight at the same time
    None

PlanKind == {"reviewed", "automatic", "paid"}   \* free, free with auto_approve, paid

Subdomains == Bases \X (0 .. MaxSuffix)
SignupRequestStatus == {"PENDING", "PAYMENT_PENDING", "COMPLETED", "REJECTED"}

ASSUME SignupAssumption ==
    /\ MaxSuffix \in Nat
    /\ Kinds \subseteq PlanKind
    /\ None \notin Requests \cup Emails \cup Subdomains \cup SignupRequestStatus
    /\ "superadmin" \notin Requests \cup {None}

VARIABLES
    request,   \* tenant_signup_requests
    tenant,    \* tenants by subdomain, with what provisioning gave them
    checkout,  \* external: the Stripe session of each request: none, open, paid
    granted,   \* history: requests that were approved, paid or need neither
    call       \* the call each worker runs

tables == <<request, tenant, checkout, granted>>
vars == <<tables, call>>

RequestRow == [status : SignupRequestStatus \cup {None}, subdomain : Subdomains \cup {None},
               email : Emails \cup {None}, kind : PlanKind \cup {None},
               paid : BOOLEAN, tenant : Subdomains \cup {None}]
\* by: the request it was created for, "superadmin", or None while not created.
TenantRow == [by : Requests \cup {"superadmin", None}, agency : BOOLEAN]

NoRequest == [status |-> None, subdomain |-> None, email |-> None, kind |-> None,
              paid |-> FALSE, tenant |-> None]
NoTenant == [by |-> None, agency |-> FALSE]

\* Step, request and subdomain a call works on, whom the tenant is created for,
\* the row image it saves, the columns the save will update, the step after it.
Idle == [at |-> "idle", q |-> None, sub |-> None, by |-> None, image |-> NoRequest,
         dirty |-> {}, then |-> "idle"]

Steps == {"idle", "tenants", "requests", "email", "insert", "stripe", "load", "write",
          "provision", "tenant", "agency", "plan"}

Init ==
    /\ request = [q \in Requests |-> NoRequest]
    /\ tenant = [s \in Subdomains |-> NoTenant]
    /\ checkout = [q \in Requests |-> "none"]
    /\ granted = {}
    /\ call = [w \in Workers |-> Idle]

\* Worker w goes from step `at` to call record c.
Moves(w, at, c) == call[w].at = at /\ call' = [call EXCEPT ![w] = c]

\* A call record that saves image, then goes on at step next.
Saving(c, image, next) == [c EXCEPT !.at = "load", !.image = image, !.then = next]

-----------------------------------------------------------------------------
(* submit. *)

\* An identifier no row and no submission in flight has.
Fresh(q) == request[q].status = None /\ \A w \in Workers : call[w].q # q

Submit(w, q, base, email, kind) ==
    /\ Fresh(q)
    /\ Moves(w, "idle", [Idle EXCEPT !.at = "tenants", !.q = q, !.sub = <<base, 0>>,
                             !.image = [NoRequest EXCEPT !.email = email, !.kind = kind]])
    /\ UNCHANGED tables

\* resolveUniqueSubdomain: the next suffix,
NextSuffix(c) == [c EXCEPT !.at = "tenants", !.sub = <<c.sub[1], c.sub[2] + 1>>]

\* past the subdomains of tenants
FindTenant(w) ==
    LET c == call[w]
    IN  /\ c.at = "tenants" /\ c.sub[2] <= MaxSuffix
        /\ Moves(w, "tenants", IF tenant[c.sub].by = None THEN [c EXCEPT !.at = "requests"]
                                                          ELSE NextSuffix(c))
        /\ UNCHANGED tables

\* and of requests that wait for review or payment.
FindPending(w) ==
    LET c == call[w]
        taken == \E q \in Requests : /\ request[q].subdomain = c.sub
                                     /\ request[q].status \in {"PENDING", "PAYMENT_PENDING"}
    IN  /\ c.at = "requests"
        /\ Moves(w, "requests", IF taken THEN NextSuffix(c) ELSE [c EXCEPT !.at = "email"])
        /\ UNCHANGED tables

FindEmail(w) ==
    LET c == call[w]
    IN  /\ c.at = "email"
        /\ \A q \in Requests : ~(/\ request[q].email = c.image.email
                                 /\ request[q].status = "PENDING")
        /\ Moves(w, "email", [c EXCEPT !.at = "insert",
                                       !.image.subdomain = c.sub,
                                       !.image.status = "PENDING"])
        /\ UNCHANGED tables

\* The row is inserted; a paid plan goes to Stripe, an automatic one is provisioned.
InsertRequest(w) ==
    LET c == call[w]
        kind == c.image.kind
    IN  /\ c.at = "insert"
        /\ request' = [request EXCEPT ![c.q] = c.image]
        /\ granted' = IF kind = "automatic" THEN granted \cup {c.q} ELSE granted
        /\ Moves(w, "insert", CASE kind = "paid"      -> [c EXCEPT !.at = "stripe", !.sub = None]
                                [] kind = "automatic" -> [Idle EXCEPT !.at = "provision",
                                                                      !.q = c.q]
                                [] kind = "reviewed"  -> Idle)
        /\ UNCHANGED <<tenant, checkout>>

\* createCheckoutSession; then the inserted image is saved as PAYMENT_PENDING.
CreateCheckout(w) ==
    LET c == call[w]
    IN  /\ c.at = "stripe"
        /\ checkout' = [checkout EXCEPT ![c.q] = "open"]
        /\ Moves(w, "stripe",
                 Saving(c, [c.image EXCEPT !.status = "PAYMENT_PENDING"], "idle"))
        /\ UNCHANGED <<request, tenant, granted>>

-----------------------------------------------------------------------------
(* save of a signup request. *)

LoadRequest(w) ==
    LET c == call[w]
        row == request[c.q]
    IN  /\ c.at = "load"
        /\ Moves(w, "load",
                 [c EXCEPT !.at = "write",
                           !.dirty = {col \in {"status", "paid", "tenant"} :
                                         c.image[col] # row[col]}])
        /\ UNCHANGED tables

WriteRequest(w) ==
    LET c == call[w]
    IN  /\ Moves(w, "write", IF c.then = "idle" THEN Idle
                             ELSE [Idle EXCEPT !.at = c.then, !.q = c.q])
        /\ request' = [request EXCEPT ![c.q] =
               [col \in DOMAIN @ |-> IF col \in c.dirty THEN c.image[col] ELSE @[col]]]
        /\ UNCHANGED <<tenant, checkout, granted>>

-----------------------------------------------------------------------------
(* The end of a request. *)

\* The customer pays at Stripe.
StripePaid(q) ==
    /\ checkout[q] = "open"
    /\ checkout' = [checkout EXCEPT ![q] = "paid"]
    /\ granted' = granted \cup {q}
    /\ UNCHANGED <<request, tenant, call>>

\* Mutated form: the checkout session only has to exist.
MutantCompletePayment(w, q) ==
    LET row == request[q]
    IN  /\ checkout[q] # "none"
        /\ row.status # "COMPLETED"
        /\ Moves(w, "idle", Saving([Idle EXCEPT !.q = q], [row EXCEPT !.paid = TRUE],
                                   "provision"))
        /\ UNCHANGED tables

\* completePayment, as often as the success page is opened; a rejected request is
\* completed too.
CompletePayment(w, q) ==
    LET row == request[q]
    IN  /\ checkout[q] = "paid"
        /\ row.status # "COMPLETED"
        /\ Moves(w, "idle", Saving([Idle EXCEPT !.q = q], [row EXCEPT !.paid = TRUE],
                                   "provision"))
        /\ UNCHANGED tables

Approve(w, q) ==
    /\ request[q].status = "PENDING"
    /\ Moves(w, "idle", [Idle EXCEPT !.at = "provision", !.q = q])
    /\ granted' = granted \cup {q}
    /\ UNCHANGED <<request, tenant, checkout>>

Reject(w, q) ==
    /\ request[q].status = "PENDING"
    /\ Moves(w, "idle", Saving([Idle EXCEPT !.q = q],
                               [request[q] EXCEPT !.status = "REJECTED"], "idle"))
    /\ UNCHANGED tables

-----------------------------------------------------------------------------
(* provisionTenant and TenantService.create. *)

Provision(w) ==
    LET c == call[w]
        row == request[c.q]
    IN  /\ c.at = "provision"
        /\ ~(row.status = "COMPLETED" /\ row.tenant # None)
        /\ Moves(w, "provision", [c EXCEPT !.at = "tenant", !.sub = row.subdomain,
                                           !.by = c.q, !.image = row])
        /\ UNCHANGED tables

\* POST /tenants.
CreateTenant(w, base) ==
    /\ Moves(w, "idle", [Idle EXCEPT !.at = "tenant", !.sub = <<base, 0>>,
                                     !.by = "superadmin"])
    /\ UNCHANGED tables

\* Mutated form: a subdomain that is taken gets the next suffix.
MutantInsertTenant(w) ==
    LET c == call[w]
        free == {s \in Subdomains : s[1] = c.sub[1] /\ tenant[s].by = None}
    IN  /\ c.at = "tenant"
        /\ \E s \in free : /\ tenant' = [tenant EXCEPT ![s].by = c.by]
                           /\ Moves(w, "tenant", [c EXCEPT !.at = "agency", !.sub = s])
        /\ UNCHANGED <<request, checkout, granted>>

\* The insert fails when a tenant has the subdomain.
InsertTenant(w) ==
    LET c == call[w]
    IN  /\ c.at = "tenant"
        /\ tenant[c.sub].by = None
        /\ tenant' = [tenant EXCEPT ![c.sub].by = c.by]
        /\ Moves(w, "tenant", [c EXCEPT !.at = "agency"])
        /\ UNCHANGED <<request, checkout, granted>>

\* Mutated form: an agency that fails is logged like the other steps.
MutantCreateAgency(w) ==
    LET c == call[w]
    IN  /\ c.at = "agency"
        /\ \E done \in BOOLEAN : tenant' = [tenant EXCEPT ![c.sub].agency = done]
        /\ Moves(w, "agency", [c EXCEPT !.at = "plan"])
        /\ UNCHANGED <<request, checkout, granted>>

\* createForTenantBootstrap; when it fails, so does the call.
CreateAgency(w) ==
    LET c == call[w]
    IN  /\ Moves(w, "agency", [c EXCEPT !.at = "plan"])
        /\ tenant' = [tenant EXCEPT ![c.sub].agency = TRUE]
        /\ UNCHANGED <<request, checkout, granted>>

\* What provisioning leaves to save: nothing for a Superadmin's tenant.
Completion(c) ==
    IF c.by = "superadmin" THEN Idle
    ELSE Saving(c, [c.image EXCEPT !.status = "COMPLETED", !.tenant = c.sub], "idle")

\* inviteUser and assignPlan or assignDefaultPlan: whether they fail is logged and
\* leaves no trace in the state kept here.
AssignPlan(w) ==
    LET c == call[w]
    IN  /\ c.at = "plan"
        /\ Moves(w, "plan", Completion(c))
        /\ UNCHANGED tables

-----------------------------------------------------------------------------
\* The call is refused, fails or dies with the process.
Abort(w) ==
    /\ call[w].at # "idle"
    /\ call' = [call EXCEPT ![w] = Idle]
    /\ UNCHANGED tables

NewCall(w) ==
    \/ \E q \in Requests, base \in Bases, email \in Emails, kind \in Kinds :
           Submit(w, q, base, email, kind)
    \/ \E q \in Requests : CompletePayment(w, q) \/ Approve(w, q) \/ Reject(w, q)
    \/ \E base \in Bases : CreateTenant(w, base)

NextStatement(w) ==
    \/ FindTenant(w)
    \/ FindPending(w)
    \/ FindEmail(w)
    \/ InsertRequest(w)
    \/ CreateCheckout(w)
    \/ LoadRequest(w)
    \/ WriteRequest(w)
    \/ Provision(w)
    \/ InsertTenant(w)
    \/ CreateAgency(w)
    \/ AssignPlan(w)

Next ==
    \/ \E w \in Workers : NewCall(w) \/ NextStatement(w) \/ Abort(w)
    \/ \E q \in Requests : StripePaid(q)

Spec == Init /\ [][Next]_vars

-----------------------------------------------------------------------------
(* Properties. *)

TypeOK ==
    /\ request \in [Requests -> RequestRow]
    /\ tenant \in [Subdomains -> TenantRow]
    /\ checkout \in [Requests -> {"none", "open", "paid"}]
    /\ granted \subseteq Requests
    /\ \A w \in Workers : call[w].at \in Steps

\* Who is told that the account is active has one: a COMPLETED request points to
\* a tenant created for it that has its agency.  Status and tenant_id are saved
\* by rows read much earlier, and a stale save may undo a completion, but never
\* half of it.
CompletedIsUsable ==
    \A q \in Requests : request[q].status = "COMPLETED" =>
        /\ request[q].tenant # None
        /\ tenant[request[q].tenant].by = q
        /\ tenant[request[q].tenant].agency

\* A request creates at most one tenant, however often it is paid, approved,
\* retried after a crash or completed while another completion is under way.
OneTenantPerRequest ==
    /\ TypeOK
    /\ \A s, t \in Subdomains :
           (tenant[s].by \in Requests /\ tenant[s].by = tenant[t].by) => s = t

\* No tenant comes from a request nobody approved or paid for, in whatever order
\* payment, review and rejection arrive.
TenantIsGranted ==
    \A s \in Subdomains : tenant[s].by \in Requests => tenant[s].by \in granted

=============================================================================

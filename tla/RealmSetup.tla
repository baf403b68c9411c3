----------------------------- MODULE RealmSetup -----------------------------
(***************************************************************************)
(* The two scripts that set up the realm at Keycloak: that of the root     *)
(* directory, which "npm run keycloak:setup" runs, and an older one of the *)
(* back end. Each is a list of requests, sent one after the other; what    *)
(* they find from earlier runs, finished or not, decides what they do. A   *)
(* run may be stopped between any two requests, and any request may fail.  *)
(***************************************************************************)
EXTENDS Integers, Sequences

CONSTANTS
    MaxRuns,    \* bound: runs of a script
    MaxMishaps  \* bound: requests that fail and runs that are stopped

RoleOf == [superadmin |-> "Superadmin", admin_tenant |-> "Admin_Tenant",
           admin_site |-> "Admin_Site", user_site |-> "User_Site"]

VARIABLES
    mail,   \* the mail variables that the environment sets
    realm,  \* what is there at Keycloak
    setup,  \* the run in progress: script and next request
    made,   \* users that this run has created
    missed, \* what this run gave up and went on
    ended,  \* history: the last run, if it reported "complete"
    orphans, \* history: users left by a run that was stopped before their password
    runs, mishaps

setupVars == <<mail, realm, setup, made, missed, ended, orphans, runs, mishaps>>

\* A request: what it brings about; what must be there, or it is left out; the
\* user who must be new; how many requests its catch block passes over, 0 for
\* none; and whether it only looks and creates if the look fails.
Ensure(thing) == [thing |-> thing, needs |-> {}, new |-> {}, skips |-> 0, looks |-> FALSE]
Try(thing, skips) == [Ensure(thing) EXCEPT !.skips = skips]
If(cond, request) == IF cond THEN <<request>> ELSE <<>>

Role(r) == <<"role", r>>
ClientRole(r) == <<"role of the client", r>>
User(u) == <<"user", u>>
Password(u) == <<"password", u>>
Granted(u) == <<"granted", u>>
GrantedClient(u) == <<"granted at the client", u>>

\* The user, found or created and then updated, with his attributes.
RootUser(u) ==
    <<Ensure(User(u)), Ensure(Password(u)),
      [Try(Granted(u), 3) EXCEPT !.needs = {Role(RoleOf[u])}],
      Try(ClientRole(RoleOf[u]), 2),
      [Try(GrantedClient(u), 1) EXCEPT !.needs = {ClientRole(RoleOf[u])}]>>

\* The client is created or updated with its addresses in one request.
RootRealm(m) ==
    <<Ensure(<<"realm">>), Ensure(<<"theme">>), Try(<<"profiles unverified">>, 1)>>
    \o If(m = "KEYCLOAK_SMTP", Ensure(<<"mail">>))
RootClient ==
    <<Ensure(<<"client">>), Try(<<"attributes">>, 1), Ensure(<<"mappers">>),
      Try(<<"permissions">>, 1), Ensure(<<"secret">>)>>
RootRoles ==
    <<Ensure(Role("Superadmin")), Ensure(Role("Admin_Tenant")), Ensure(Role("Admin_Site")),
      Ensure(Role("User_Site"))>>
RootScript(m) ==
    RootRealm(m) \o RootClient \o RootRoles \o RootUser("superadmin")
    \o RootUser("admin_tenant") \o RootUser("admin_site") \o RootUser("user_site")

\* roles.findOneByName answers null for a role that is not there, and does not throw.
Look(r) == [Ensure(Role(r)) EXCEPT !.looks = TRUE]

\* A bug: the role is granted to new users only.
MutantBackendUser(u) ==
    <<Ensure(User(u)), [Ensure(Password(u)) EXCEPT !.new = {u}],
      [Ensure(Granted(u)) EXCEPT !.needs = {Role(RoleOf[u])}, !.new = {u}]>>

\* The user is looked up by users.find({username}), which takes any name that contains
\* this one; the names of the scripts do not contain one another.
BackendUser(u) ==
    <<Ensure(User(u)), [Ensure(Password(u)) EXCEPT !.new = {u}],
      [Ensure(Granted(u)) EXCEPT !.needs = {Role(RoleOf[u])}]>>

BackendRealm(m) ==
    <<Ensure(<<"realm">>), Ensure(<<"theme">>)>> \o If(m # "none", Ensure(<<"mail">>))
BackendClient == <<Ensure(<<"client">>), Ensure(<<"addresses">>), Ensure(<<"mappers">>)>>
BackendRoles ==
    <<Look("Superadmin"), Look("Admin_Tenant"), Look("Admin_Site"), Look("User_Site"),
      Look("Livreur")>>
BackendScript(m) ==
    BackendRealm(m) \o BackendClient \o BackendRoles
    \o BackendUser("superadmin") \o BackendUser("admin_tenant")

RequestsOf(script) == IF script = "root" THEN RootScript(mail) ELSE BackendScript(mail)

-----------------------------------------------------------------------------
Resting == [script |-> "none", at |-> 1]

Unfinished == [script |-> "none", missed |-> {}]

SetupInit ==
    /\ mail \in {"none", "MAIL", "KEYCLOAK_SMTP"}
    /\ realm = {} /\ made = {} /\ missed = {}
    /\ setup = Resting
    /\ ended = Unfinished
    /\ orphans = {} /\ runs = 0 /\ mishaps = 0

Begin ==
    /\ setup = Resting /\ runs < MaxRuns
    /\ \E script \in {"root", "backend"} : setup' = [script |-> script, at |-> 1]
    /\ runs' = runs + 1
    /\ made' = {} /\ missed' = {} /\ ended' = Unfinished
    /\ UNCHANGED <<mail, realm, orphans, mishaps>>

Sending == setup # Resting /\ setup.at <= Len(RequestsOf(setup.script))
Request == RequestsOf(setup.script)[setup.at]
Goes(n) == setup' = [setup EXCEPT !.at = @ + n]

Send ==
    /\ Sending
    /\ LET r == Request
           sent == r.needs \subseteq realm /\ r.new \subseteq made /\ ~r.looks
       IN  /\ realm' = IF sent THEN realm \cup {r.thing} ELSE realm
           /\ made' = IF r.thing[1] = "user" /\ r.thing \notin realm
                      THEN made \cup {r.thing[2]} ELSE made
    /\ Goes(1)
    /\ UNCHANGED <<mail, missed, ended, orphans, runs, mishaps>>

\* The look at a role fails, and the role is created, if it is not there already.
LookFails ==
    /\ Sending /\ mishaps < MaxMishaps
    /\ mishaps' = mishaps + 1
    /\ Request.looks
    /\ IF Request.thing \in realm THEN setup' = Resting ELSE Goes(1)
    /\ realm' = realm \cup {Request.thing}
    /\ UNCHANGED <<mail, made, missed, ended, orphans, runs>>

\* A request fails in a catch block of its own, which goes on after the block.
Caught ==
    /\ Sending /\ mishaps < MaxMishaps
    /\ mishaps' = mishaps + 1
    /\ Request.skips > 0
    /\ missed' = missed \cup
          {RequestsOf(setup.script)[i].thing : i \in setup.at .. setup.at + Request.skips - 1}
    /\ Goes(Request.skips)
    /\ UNCHANGED <<mail, realm, made, ended, orphans, runs>>

\* The run is stopped, or a request fails that no block catches.
Abandon ==
    /\ Sending /\ mishaps < MaxMishaps
    /\ mishaps' = mishaps + 1
    /\ setup' = Resting
    /\ orphans' = orphans \cup {u \in made : Password(u) \notin realm}
    /\ UNCHANGED <<mail, realm, made, missed, ended, runs>>

Complete ==
    /\ setup # Resting /\ ~Sending
    /\ ended' = [script |-> setup.script, missed |-> missed]
    /\ setup' = Resting
    /\ UNCHANGED <<mail, realm, made, missed, orphans, runs, mishaps>>

SetupNext == Begin \/ Send \/ LookFails \/ Caught \/ Abandon \/ Complete

-----------------------------------------------------------------------------
Wanted(script) ==
    LET all == RequestsOf(script)
    IN  {all[i].thing : i \in DOMAIN all} \cup (IF mail # "none" THEN {<<"mail">>} ELSE {})

\* The script of the root directory reads the KEYCLOAK_SMTP variables only; that
\* of the back end creates no role, and leaves a user without a password whom an
\* earlier run had created before it was stopped.
Departs(script, thing) ==
    \/ script = "root" /\ thing = <<"mail">> /\ mail = "MAIL"
    \/ script = "backend" /\ thing[1] = "role"
    \/ script = "backend" /\ thing[1] = "granted" /\ Role(RoleOf[thing[2]]) \notin realm
    \/ script = "backend" /\ thing[1] = "password" /\ thing[2] \in orphans

\* A run that reports "complete" has completed the realm, whatever earlier runs
\* of either script left undone, but for what it gave up itself and the
\* departures above.
SetupConverges ==
    ended.script # "none" =>
        \A thing \in Wanted(ended.script) \ ended.missed :
            thing \in realm \/ Departs(ended.script, thing)

=============================================================================

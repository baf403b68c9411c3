---------------------------- MODULE TenantAccess ----------------------------
(***************************************************************************)
(* Who may work for an organisation: the tenant row (TenantService), the   *)
(* users of the identity provider (UserService, KeycloakService) and the   *)
(* sessions of their browsers (the NextAuth callbacks and their handlers). *)
(*                                                                         *)
(* A back-end call is a sequence of statements and of requests to          *)
(* Keycloak; no transaction spans them, other calls run in between, and a  *)
(* request to Keycloak may fail.  The row is saved whole (name and         *)
(* preferences with it), so a call writes back the active flag it read.    *)
(* A browser holds an access token that expires, and refreshes it.         *)
(***************************************************************************)
EXTENDS Naturals

CONSTANTS
    Users,      \* identifiers of Keycloak users, never used twice
    Roles,      \* the realm roles a user may be given
    Inherited,  \* the roles that come with each role
    Workers,    \* calls in flight at the same time
    Calls,      \* the operations that are called
    MaxCalls,   \* bound: calls ever made
    MaxFaults,  \* bound: requests to Keycloak or to the API that fail, and crashes
    None

Toggles   == {"activate", "deactivate"}
RowCalls  == Toggles \cup {"rename", "prefs", "remove"}
UserCalls == {"invite", "role", "site", "delete"}

ASSUME AccessAssumption ==
    /\ Inherited \in [Roles -> SUBSET Roles]
    /\ Calls \subseteq RowCalls \cup UserCalls
    /\ MaxCalls \in Nat /\ MaxFaults \in Nat
    /\ None \notin Users \cup Roles \cup RowCalls \cup UserCalls

VARIABLES
    row,     \* the tenant's row: active, inactive, or removed
    kc,      \* external: the users as Keycloak has them
    web,     \* the browser session of each user
    call,    \* the call each worker runs
    calls,   \* calls begun so far
    faults,  \* requests that failed so far, and crashes
    gap,     \* history: users the last toggle may have missed
    torn     \* history: users whose roles and profile may differ

vars == <<row, kc, web, call, calls, faults, gap, torn>>
budget == <<calls, faults>>

TenantStatus == {"active", "inactive", "removed"}
NoAccount == [known |-> "unborn", enabled |-> FALSE, role |-> None, mapped |-> {}, sso |-> FALSE]
Deleted == [NoAccount EXCEPT !.known = "deleted"]
\* role: the attribute on the profile; mapped: the realm roles; sso: signed in.
Account == {NoAccount, Deleted} \cup
           [known : {"yes"}, enabled : BOOLEAN, role : Roles, mapped : SUBSET Roles, sso : BOOLEAN]

SessionError == {"none", "RefreshAccessTokenError", "TenantDeactivated"}

\* at: out, signin (callback running), in, refresh (callback running).  roles and
\* error are those of the cookie, or of the token a callback is checking; the tab
\* shows the error seen when it last looked, and will see the result if it looks.
Browser == [at : {"out", "signin", "in", "refresh"}, fresh : BOOLEAN, roles : SUBSET Roles,
            error : SessionError, seen : SessionError, looks : BOOLEAN]
SignedOut == [at |-> "out", fresh |-> FALSE, roles |-> {}, error |-> "none",
              seen |-> "none", looks |-> FALSE]

\* getEffectiveRealmRoles.
Effective(r) == {r} \cup Inherited[r]

Steps == {"idle", "find", "save", "list", "sync", "create", "put", "roles", "drop", "assign", "del"}

\* What a worker runs: the user and role it is about, the row image it read, the
\* users left to switch, those it saw enabled, the roles it saw, and whether no
\* call of the same sort (toggles; calls about one user) overlapped it.
Idle == [kind |-> None, at |-> "idle", user |-> None, role |-> None, image |-> "active",
         left |-> {}, on |-> {}, saw |-> {}, solo |-> TRUE]

Init ==
    /\ row = "active"
    /\ kc \in [Users -> {NoAccount} \cup
                  {[known |-> "yes", enabled |-> TRUE, role |-> r, mapped |-> Effective(r),
                    sso |-> FALSE] : r \in Roles}]
    /\ web = [u \in Users |-> SignedOut]
    /\ call = [w \in Workers |-> Idle]
    /\ calls = 0 /\ faults = 0
    /\ gap = {} /\ torn = {}

Exists(u) == kc[u].known = "yes"
InFlight(kinds) == {w \in Workers : call[w].kind \in kinds}
About(u) == {w \in InFlight(UserCalls) : call[w].user = u}

\* Worker w is at step `at` and goes on with call record c.
Moves(w, at, c) == call[w].at = at /\ call' = [call EXCEPT ![w] = c]
Goes(w, at, next) == Moves(w, at, [call[w] EXCEPT !.at = next])
Ends(w, at) == Moves(w, at, Idle)

\* A request to Keycloak or to the API fails.
Fault == faults < MaxFaults /\ faults' = faults + 1 /\ UNCHANGED calls

-----------------------------------------------------------------------------
(* A call begins.  TenantActiveGuard stands before the endpoints only an   *)
(* administrator of the organisation may call; the Superadmin passes it.   *)

ByTenantAdmin(kind, r) == kind = "prefs" \/ (kind \in {"invite", "role"} /\ r # "Admin_Tenant")

Rivals(kind, u) == IF kind \in Toggles THEN InFlight(Toggles)
                   ELSE IF kind \in UserCalls THEN About(u) ELSE {}

Begin(w, kind, u, r) ==
    /\ calls < MaxCalls
    /\ call[w].at = "idle"
    /\ ByTenantAdmin(kind, r) => row = "active"
    /\ calls' = calls + 1
    /\ call' = [v \in Workers |->
                   IF v = w
                   THEN [Idle EXCEPT !.kind = kind, !.at = "find", !.user = u, !.role = r,
                                     !.solo = (Rivals(kind, u) = {})]
                   ELSE [call[v] EXCEPT !.solo = @ /\ v \notin Rivals(kind, u)]]
    /\ UNCHANGED <<row, kc, web, faults, gap, torn>>

-----------------------------------------------------------------------------
(* TenantService: update, updateNotificationPrefs, remove.                 *)

\* findOne; a row that is not there is a 404.
FindTenant(w) ==
    /\ call[w].kind \in RowCalls
    /\ IF row = "removed" THEN Ends(w, "find")
       ELSE Moves(w, "find", [call[w] EXCEPT !.at = "save",
                                             !.image = IF call[w].kind \in {"rename", "prefs"} THEN row ELSE @])
    /\ UNCHANGED <<row, kc, web, budget, gap, torn>>

\* save writes the image that was read, and inserts it when the row is gone.
Written(c) == CASE c.kind = "activate" -> "active"
                [] c.kind = "deactivate" -> "inactive"
                [] c.kind = "remove" -> "removed"
                [] OTHER -> c.image

SaveTenant(w) ==
    /\ row' = Written(call[w])
    /\ IF call[w].kind \in Toggles THEN Goes(w, "save", "list") ELSE Ends(w, "save")
    /\ gap' = IF call[w].kind \in {"rename", "prefs"} /\ row' # row THEN Users ELSE gap
    /\ UNCHANGED <<kc, web, budget, torn>>

-----------------------------------------------------------------------------
(* KeycloakService.setTenantUsersEnabled: the users are listed once, then  *)
(* each that the list shows otherwise is switched; a deactivation also     *)
(* signs every one of them out.                                            *)

ListUsers(w) ==
    LET found == {u \in Users : Exists(u)}
        c == [call[w] EXCEPT !.at = "sync", !.left = found, !.on = {u \in found : kc[u].enabled}]
    IN /\ \/ Moves(w, "list", IF found = {} THEN Idle ELSE c) /\ UNCHANGED <<budget, gap>>
          \/ Ends(w, "list") /\ Fault /\ gap' = Users    \* logged only
       /\ UNCHANGED <<row, kc, web, torn>>

\* A bug: an activation, too, skips the users the list shows as disabled.
MutantSwitched(account, listedOn, on) ==
    [account EXCEPT !.enabled = IF listedOn THEN on ELSE @, !.sso = on /\ @]

Switched(account, listedOn, on) ==
    IF on THEN [account EXCEPT !.enabled = IF listedOn THEN @ ELSE TRUE]
    ELSE [account EXCEPT !.enabled = IF listedOn THEN FALSE ELSE @, !.sso = FALSE]

SyncUser(w, u) ==
    LET c == call[w]
        on == c.kind = "activate"
        rest == [c EXCEPT !.left = @ \ {u}]
    IN /\ u \in c.left
       /\ Moves(w, "sync", IF rest.left = {} THEN Idle ELSE rest)
       /\ \/ /\ kc' = IF Exists(u) THEN [kc EXCEPT ![u] = Switched(@, u \in c.on, on)] ELSE kc
             /\ gap' = IF c.solo /\ row = Written(c) THEN gap \ {u} ELSE gap \cup {u}
             /\ UNCHANGED budget
          \/ /\ Fault                            \* of the update, or of the logout after it
             /\ \/ kc' = kc
                \/ Exists(u) /\ kc' = [kc EXCEPT ![u].enabled = IF (u \in c.on) = on THEN @ ELSE on]
             /\ gap' = gap \cup {u}
       /\ UNCHANGED <<row, web, torn>>

-----------------------------------------------------------------------------
(* UserService: inviteUser, updateUser, deleteUser.                        *)

Ending(w, ok) ==
    torn' = IF ok /\ call[w].solo THEN torn \ {call[w].user} ELSE torn \cup {call[w].user}

\* A call that leaves the roles alone, or failed before it changed anything.
EndingUntouched(w) == torn' = IF call[w].solo THEN torn ELSE torn \cup {call[w].user}

CheckTenant(w) ==
    /\ call[w].kind = "invite"
    /\ IF row = "active" THEN Goes(w, "find", "create") /\ UNCHANGED torn
       ELSE Ends(w, "find") /\ EndingUntouched(w)
    /\ UNCHANGED <<row, kc, web, budget, gap>>

CreateUser(w) ==
    LET u == call[w].user
        Created == [known |-> "yes", enabled |-> TRUE, role |-> call[w].role, mapped |-> {},
                    sso |-> FALSE]
    IN /\ \/ /\ kc[u].known = "unborn"
             /\ kc' = [kc EXCEPT ![u] = Created]
             /\ gap' = IF row # "active" THEN gap \cup {u} ELSE gap
             /\ Goes(w, "create", "assign")
             /\ UNCHANGED <<budget, torn>>
          \/ /\ kc[u].known # "unborn"           \* 409: the address is taken
             /\ Ends(w, "create") /\ EndingUntouched(w)
             /\ UNCHANGED <<kc, budget, gap>>
          \/ /\ Fault
             /\ Ends(w, "create") /\ EndingUntouched(w)
             /\ UNCHANGED <<kc, gap>>
       /\ UNCHANGED <<row, web>>

\* findTenantUser; without a new role the one on the profile is kept.
FindUser(w) ==
    LET u == call[w].user
        c == [call[w] EXCEPT !.at = IF call[w].kind = "delete" THEN "del" ELSE "put",
                             !.role = IF call[w].kind = "role" THEN @ ELSE kc[u].role]
    IN /\ call[w].kind \in {"role", "site", "delete"}
       /\ IF Exists(u) THEN Moves(w, "find", c) /\ UNCHANGED torn
          ELSE Ends(w, "find") /\ EndingUntouched(w)
       /\ UNCHANGED <<row, kc, web, budget, gap>>

PutProfile(w) ==
    LET u == call[w].user
    IN /\ \/ /\ Exists(u)
             /\ kc' = [kc EXCEPT ![u].role = call[w].role]
             /\ IF call[w].kind = "role" THEN Goes(w, "put", "roles") /\ UNCHANGED torn
                ELSE Ends(w, "put") /\ EndingUntouched(w)
             /\ UNCHANGED budget
          \/ /\ \/ ~Exists(u) /\ UNCHANGED budget
                \/ Fault
             /\ Ends(w, "put") /\ EndingUntouched(w)
             /\ UNCHANGED kc
       /\ UNCHANGED <<row, web, gap>>

\* A step of updateUserRealmRole fails: the user is gone, or the request failed.
RolesFail(w, at) ==
    /\ \/ ~Exists(call[w].user) /\ UNCHANGED budget
       \/ Fault
    /\ Ends(w, at) /\ Ending(w, FALSE)
    /\ UNCHANGED <<row, kc, web, gap>>

ListRoles(w) ==
    \/ LET saw == kc[call[w].user].mapped
       IN /\ Exists(call[w].user)
          /\ Moves(w, "roles", [call[w] EXCEPT !.at = IF saw = {} THEN "assign" ELSE "drop",
                                               !.saw = saw])
          /\ UNCHANGED <<row, kc, web, budget, gap, torn>>
    \/ RolesFail(w, "roles")

DropRoles(w) ==
    \/ /\ Exists(call[w].user)
       /\ kc' = [kc EXCEPT ![call[w].user].mapped = @ \ call[w].saw]
       /\ Goes(w, "drop", "assign")
       /\ UNCHANGED <<row, web, budget, gap, torn>>
    \/ RolesFail(w, "drop")

AssignRoles(w) ==
    \/ /\ Exists(call[w].user)
       /\ Ends(w, "assign") /\ Ending(w, TRUE)
       /\ kc' = [kc EXCEPT ![call[w].user].mapped = @ \cup Effective(call[w].role)]
       /\ UNCHANGED <<row, web, budget, gap>>
    \/ RolesFail(w, "assign")

DeleteUser(w) ==
    LET u == call[w].user
    IN /\ \/ /\ kc' = [kc EXCEPT ![u] = Deleted]
             /\ UNCHANGED budget
          \/ Fault /\ UNCHANGED kc
       /\ Ends(w, "del") /\ EndingUntouched(w)
       /\ UNCHANGED <<row, web, gap>>

-----------------------------------------------------------------------------
(* The back end stops between two statements, and starts again: the calls  *)
(* in flight are gone, what they wrote stays.                              *)

\* The users whose switch is lost with the call of worker w.
Unswitched(w) == CASE call[w].at = "list" -> Users
                   [] call[w].at = "sync" -> call[w].left
                   [] OTHER -> {}

\* The user a deactivation has disabled and not yet signed out, if there is one.
HalfSwitched(w) ==
    {None} \cup {u \in Unswitched(w) :
                    call[w].kind = "deactivate" /\ u \in call[w].on /\ Exists(u)}

HalfChanged(w) == call[w].at \in {"roles", "drop", "assign"} \/ ~call[w].solo

Crash ==
    /\ \E w \in Workers : call[w].at # "idle"
    /\ Fault
    /\ call' = [w \in Workers |-> Idle]
    /\ \E half \in [Workers -> Users \cup {None}] :
          /\ \A w \in Workers : half[w] \in HalfSwitched(w)
          /\ kc' = [u \in Users |-> IF \E w \in Workers : half[w] = u
                                    THEN [kc[u] EXCEPT !.enabled = FALSE] ELSE kc[u]]
    /\ gap' = gap \cup UNION {Unswitched(w) : w \in Workers}
    /\ torn' = torn \cup {call[w].user : w \in {v \in InFlight(UserCalls) : HalfChanged(v)}}
    /\ UNCHANGED <<row, web>>

-----------------------------------------------------------------------------
(* The browser: sign-in, the jwt callback that every session request runs, *)
(* and the handler that signs out on an error.  A call to the API makes a  *)
(* session request of its own, which renews the cookie and tells the page  *)
(* nothing; the page sees the session when it is loaded or returned to.    *)

Sets(u, b) == web' = [web EXCEPT ![u] = b]

CanLogIn(u) == Exists(u) /\ kc[u].enabled

SignIn(u) ==
    /\ web[u].at = "out"
    /\ CanLogIn(u)
    /\ kc' = [kc EXCEPT ![u].sso = TRUE]
    /\ Sets(u, [SignedOut EXCEPT !.at = "signin", !.roles = kc[u].mapped])
    /\ UNCHANGED <<row, call, budget, gap, torn>>

\* A bug: a tenant without a row counts as active.
MutantSaysActive == row # "inactive" /\ UNCHANGED budget

\* assertTenantActive: a refusal that names the tenant ends the session, and so
\* does an error status; an answer that does not come leaves it open.
SaysActive == row = "active" /\ UNCHANGED budget

SaysDeactivated == row # "active" /\ UNCHANGED budget

Opened(u) == [SignedOut EXCEPT !.at = "in", !.fresh = TRUE, !.roles = web[u].roles]

SignInChecked(u) ==
    /\ web[u].at = "signin"
    /\ \/ (SaysActive \/ Fault) /\ Sets(u, Opened(u))
       \/ (SaysDeactivated \/ Fault) /\ Sets(u, SignedOut)
    /\ UNCHANGED <<row, kc, call, gap, torn>>

Expire(u) ==
    /\ web[u].at = "in" /\ web[u].fresh
    /\ Sets(u, [web[u] EXCEPT !.fresh = FALSE])
    /\ UNCHANGED <<row, kc, call, budget, gap, torn>>

\* The jwt callback with an expired access token asks Keycloak for another.
Refresh(u, looks) ==
    /\ web[u].at = "in" /\ ~web[u].fresh
    /\ web[u].error # "TenantDeactivated"
    /\ \/ /\ CanLogIn(u) /\ kc[u].sso
          /\ Sets(u, [web[u] EXCEPT !.at = "refresh", !.roles = kc[u].mapped, !.error = "none",
                                    !.looks = looks])
          /\ UNCHANGED budget
       \/ /\ \/ ~(CanLogIn(u) /\ kc[u].sso) /\ UNCHANGED budget
             \/ Fault
          /\ Sets(u, [web[u] EXCEPT !.error = "RefreshAccessTokenError",
                                    !.seen = IF looks THEN "RefreshAccessTokenError" ELSE @])
    /\ UNCHANGED <<row, kc, call, gap, torn>>

RefreshChecked(u) ==
    /\ web[u].at = "refresh"
    /\ \/ (SaysActive \/ Fault)
          /\ Sets(u, [Opened(u) EXCEPT !.seen = IF web[u].looks THEN "none" ELSE web[u].seen])
       \/ /\ SaysDeactivated \/ Fault
          /\ Sets(u, [web[u] EXCEPT !.at = "in", !.error = "TenantDeactivated", !.looks = FALSE,
                                    !.seen = IF web[u].looks THEN "TenantDeactivated" ELSE @])
    /\ UNCHANGED <<row, kc, call, gap, torn>>

\* The callback returns the session it has: a token that is fresh, or the error.
LookAgain(u) ==
    /\ web[u].at = "in"
    /\ web[u].fresh \/ web[u].error = "TenantDeactivated"
    /\ Sets(u, [web[u] EXCEPT !.seen = web[u].error])
    /\ UNCHANGED <<row, kc, call, budget, gap, torn>>

\* A page is loaded, or the user comes back to the tab.
Return(u) == LookAgain(u) \/ Refresh(u, TRUE)

\* The user, the loader of the tenant's settings, or SessionExpiryHandler goes to
\* the federated logout.
Logout(u) ==
    /\ web[u].at = "in"
    /\ Sets(u, SignedOut)
    /\ kc' = [kc EXCEPT ![u].sso = FALSE]
    /\ UNCHANGED <<row, call, budget, gap, torn>>

\* SessionExpiryHandler.
HandleError(u) == web[u].seen # "none" /\ Logout(u)

-----------------------------------------------------------------------------
Request ==
    \E w \in Workers, kind \in Calls :
        \/ kind \in RowCalls /\ Begin(w, kind, None, None)
        \/ kind \in {"site", "delete"} /\ \E u \in Users : Begin(w, kind, u, None)
        \/ kind \in {"invite", "role"} /\ \E u \in Users, r \in Roles : Begin(w, kind, u, r)

TenantStep(w) == FindTenant(w) \/ SaveTenant(w) \/ ListUsers(w) \/ \E u \in Users : SyncUser(w, u)

UserStep(w) ==
    /\ call[w].user # None
    /\ \/ CheckTenant(w) \/ CreateUser(w) \/ FindUser(w) \/ PutProfile(w)
       \/ ListRoles(w) \/ DropRoles(w) \/ AssignRoles(w) \/ DeleteUser(w)

Surf(u) ==
    \/ SignIn(u) \/ SignInChecked(u)
    \/ Expire(u) \/ Refresh(u, FALSE) \/ Return(u) \/ RefreshChecked(u)
    \/ Logout(u)

Next ==
    \/ Request
    \/ \E w \in Workers : TenantStep(w) \/ UserStep(w)
    \/ Crash
    \/ \E u \in Users : Surf(u)

\* Time passes, callbacks that were started return, and the handler acts on the
\* error its tab shows.  Nobody is bound to sign in, to sign out, to call or to
\* come back to the tab: no timer asks for the session.
Fairness ==
    \A u \in Users :
        /\ WF_vars(Expire(u))
        /\ WF_vars(SignInChecked(u))
        /\ WF_vars(RefreshChecked(u))
        /\ WF_vars(HandleError(u))

Spec == Init /\ [][Next]_vars /\ Fairness

-----------------------------------------------------------------------------
\* The type invariant: the tenant row, the accounts (every user of the tenant has
\* a role on the profile), the browser sessions and the calls.
TypeOK ==
    /\ row \in TenantStatus
    /\ kc \in [Users -> Account]
    /\ web \in [Users -> Browser]
    /\ call \in [Workers -> [kind : RowCalls \cup UserCalls \cup {None}, at : Steps,
                             user : Users \cup {None}, role : Roles \cup {None},
                             image : TenantStatus, left : SUBSET Users, on : SUBSET Users,
                             saw : SUBSET Roles, solo : BOOLEAN]]
    /\ calls \in 0 .. MaxCalls /\ faults \in 0 .. MaxFaults
    /\ gap \subseteq Users /\ torn \subseteq Users

\* Once the last activation or deactivation is over, a user of an inactive
\* tenant is disabled and signed out at Keycloak, but for the known gaps: the
\* request for that user failed or the back end stopped before it, two toggles
\* overlapped, the user was created in a tenant that was no longer active, or a
\* stale save turned the row.  The next toggle that runs alone, under the row it
\* wrote, closes the gap (TenantService.update, setTenantUsersEnabled).
DeactivatedIsShutOut ==
    row = "inactive" /\ InFlight(Toggles) = {} =>
        \A u \in Users \ gap : Exists(u) => ~kc[u].enabled /\ ~kc[u].sso

\* The other direction: nobody of an active tenant is left disabled, but for the
\* same gaps (setTenantUsersEnabled skips the users its list shows as enabled).
ActiveIsLetIn ==
    row = "active" /\ InFlight(Toggles) = {} =>
        \A u \in Users \ gap : Exists(u) => kc[u].enabled

\* A user no call is about has exactly the realm roles of the role on the
\* profile, unless calls about that user overlapped, or one failed or was cut
\* short half way; one undisturbed change of role repairs even that
\* (UserService.updateUser, KeycloakService.updateUserRealmRole).
RolesMatchProfile ==
    \A u \in Users \ torn :
        Exists(u) /\ About(u) = {} => kc[u].mapped = Effective(kc[u].role)

\* If the tenant stays inactive or removed, the browser session of a user who
\* comes back to the tab ends and none is opened again, even for users the
\* deactivation missed at Keycloak (auth-options.ts, SessionProvider.tsx).
InactiveEndsSessions ==
    \A u \in Users :
        WF_vars(Return(u)) /\ <>[](row # "active") => <>[](web[u].at \notin {"in", "refresh"})

\* A user who stays disabled, or is deleted, and comes back to the tab ends up
\* signed out for good (refreshAccessToken, SessionExpiryHandler).
RevokedEndsSessions ==
    \A u \in Users : WF_vars(Return(u)) /\ <>[](~CanLogIn(u)) => <>[](web[u].at = "out")

\* When a user's roles no longer change, the session of one who comes back comes
\* to carry those roles and no others (the jwt callback copies them at every
\* refresh).
RolesReachSessions ==
    \A u \in Users, R \in SUBSET Roles :
        WF_vars(Return(u)) /\ <>[](kc[u].mapped = R) => <>[](web[u].at = "in" => web[u].roles = R)

\* Keycloak agrees with the tenant's row and with the profiles whenever no call is
\* under way, but for the named gaps: the row, the accounts and the role mappings
\* are written by separate requests (TenantService.update, UserService.updateUser).
AccountsFollowRow == TypeOK /\ DeactivatedIsShutOut /\ ActiveIsLetIn /\ RolesMatchProfile

\* Whatever happens to the tenant, a user or a role reaches the open browser of a
\* user who comes back to it (the jwt callback, the session error handlers).
SessionsFollowAccount ==
    InactiveEndsSessions /\ RevokedEndsSessions /\ RolesReachSessions

=============================================================================

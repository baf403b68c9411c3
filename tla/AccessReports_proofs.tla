------------------------ MODULE AccessReports_proofs ------------------------
(***************************************************************************)
(* Theorems about TenantAccess and Reports.                                *)
(*                                                                         *)
(* Keycloak follows the tenant's row and the profiles, but for the gaps    *)
(* that TenantAccess names (AccountsFollowRow).  The property speaks of    *)
(* the moments when no call is under way; the invariant says what a call   *)
(* knows and owes at each of its steps.                                    *)
(*   Alone      two toggles, or two calls about one user, that overlap     *)
(*              both know that they are not alone;                         *)
(*   Enabling   a user is as the row says, or waits for a toggle that is   *)
(*              still to come, or is in the gap; and a toggle that is      *)
(*              alone knows who of its list is enabled;                    *)
(*   Appointed  a user's roles are those of the profile, or a call is      *)
(*              about that user, or the user is torn; and a call that is   *)
(*              alone knows at each step what is left of the old roles.    *)
(* Every step of a call touches one user or one switch of the accounts:    *)
(* OwnOnly and Switches say so, and most of the invariant rests on them.   *)
(*                                                                         *)
(* The figures of the reports agree, with the exceptions that ReportsAddUp *)
(* names, and an export is complete but for what happens while it is read. *)
(* The figures are sums over one table grouped by different keys: SumSwap  *)
(* and SumByKey say that a sum does not depend on the grouping.  For the   *)
(* export, ReadOK counts the rows that have been passed over and those     *)
(* that will come again, at each page.                                     *)
(***************************************************************************)
EXTENDS TenantAccess, Reports, Sums, TLAPS

USE AccessAssumption

\* The records of the calls, as TypeOK has them.
CallType == [kind : RowCalls \cup UserCalls \cup {None}, at : Steps,
             user : Users \cup {None}, role : Roles \cup {None},
             image : TenantStatus, left : SUBSET Users, on : SUBSET Users,
             saw : SUBSET Roles, solo : BOOLEAN]

\* The steps of each sort of call, and what it is about.
Stage(c) ==
    /\ c.kind = None <=> c.at = "idle"
    /\ c.kind \in RowCalls => c.at \in {"find", "save", "list", "sync"}
    /\ c.at \in {"list", "sync"} => c.kind \in Toggles
    /\ c.at = "save" => c.kind \in RowCalls
    /\ c.kind \in UserCalls =>
           /\ c.user \in Users
           /\ c.kind \in {"invite", "role"} => c.role \in Roles
           /\ c.at \in {"find", "create", "put", "roles", "drop", "assign", "del"}
    /\ c.at = "create" => c.kind = "invite"
    /\ c.at = "put" => c.kind \in {"role", "site"} /\ c.role \in Roles
    /\ c.at \in {"roles", "drop"} => c.kind = "role"
    /\ c.at = "assign" => c.kind \in {"invite", "role"}
    /\ c.at = "del" => c.kind = "delete"

Typed == TypeOK /\ \A w \in Workers : Stage(call[w])

\* Worker w goes on with c, or is done.
Works(w, c) ==
    /\ call' = [call EXCEPT ![w] = c]
    /\ c \in CallType /\ Stage(c)
    /\ \/ c = Idle
       \/ c.kind = call[w].kind /\ c.user = call[w].user /\ c.solo = call[w].solo

-----------------------------------------------------------------------------
(* Every step of a call leads to a call record of the right sort.          *)

LEMMA IdleType == Idle \in CallType /\ Stage(Idle) /\ Idle.kind = None
  BY DEF Idle, CallType, Stage, Steps, TenantStatus, RowCalls, Toggles, UserCalls

LEMMA CallFacts ==
    ASSUME Typed
    PROVE  /\ call \in [Workers -> CallType] /\ \A w \in Workers : Stage(call[w])
           /\ row \in TenantStatus /\ kc \in [Users -> Account] /\ web \in [Users -> Browser]
           /\ gap \subseteq Users /\ torn \subseteq Users
           /\ calls \in 0 .. MaxCalls /\ faults \in 0 .. MaxFaults
  BY DEF Typed, TypeOK, CallType

LEMMA RoleFacts == \A r \in Roles : Effective(r) \subseteq Roles
  BY DEF Effective

\* The accounts that are there.
LEMMA AccountFacts ==
    \A a \in Account :
        a.known = "yes" =>
            /\ a.enabled \in BOOLEAN /\ a.role \in Roles /\ a.mapped \subseteq Roles
            /\ a.sso \in BOOLEAN
            /\ a = [known |-> "yes", enabled |-> a.enabled, role |-> a.role,
                    mapped |-> a.mapped, sso |-> a.sso]
  BY DEF Account, NoAccount, Deleted

LEMMA AccountMade ==
    \A e, s \in BOOLEAN : \A r \in Roles : \A m \in SUBSET Roles :
        [known |-> "yes", enabled |-> e, role |-> r, mapped |-> m, sso |-> s] \in Account
  BY DEF Account

LEMMA WorksTyped ==
    ASSUME Typed, NEW w \in Workers, NEW c, Works(w, c)
    PROVE  call' \in [Workers -> CallType] /\ \A v \in Workers : Stage(call'[v])
  BY CallFacts DEF Works

\* How the steps of a call go on.
LEMMA MovesWorks ==
    ASSUME Typed, NEW w \in Workers, NEW at, NEW c, Moves(w, at, c), c \in CallType, Stage(c),
           c.kind = call[w].kind, c.user = call[w].user, c.solo = call[w].solo
    PROVE  Works(w, c)
  BY DEF Moves, Works

LEMMA EndsWorks ==
    ASSUME Typed, NEW w \in Workers, NEW at, Ends(w, at)
    PROVE  Works(w, Idle)
  BY IdleType DEF Ends, Moves, Works

LEMMA FindTenantWorks ==
    ASSUME Typed, NEW w \in Workers, FindTenant(w)
    PROVE  \E c : Works(w, c)
<1>1. CASE row = "removed"
  BY <1>1, EndsWorks DEF FindTenant
<1>2. CASE row # "removed"
  <2>1. PICK d \in CallType : d = call[w]
    BY CallFacts
  <2>7. PICK i : i = IF d.kind \in {"rename", "prefs"} THEN row ELSE d.image
    OBVIOUS
  <2>8. i \in TenantStatus
    BY <2>7, CallFacts DEF CallType
  <2>2. PICK c : c = [d EXCEPT !.at = "save", !.image = i]
    OBVIOUS
  <2>3. c \in CallType
    BY <2>2, <2>8 DEF CallType, Steps
  <2>4. /\ c.kind = d.kind /\ c.user = d.user /\ c.solo = d.solo /\ c.at = "save"
        /\ c.role = d.role
    BY <2>2 DEF CallType
  <2>5. Moves(w, "find", c) /\ d.kind \in RowCalls
    BY <1>2, <2>1, <2>2, <2>7 DEF FindTenant
  <2>6. Stage(c)
    BY <2>4, <2>5 DEF Stage, RowCalls, Toggles, UserCalls
  <2> QED
    BY <2>1, <2>3, <2>4, <2>5, <2>6, MovesWorks
<1> QED
  BY <1>1, <1>2

LEMMA GoesWorks ==
    ASSUME Typed, NEW w \in Workers, NEW at \in Steps, NEW next \in Steps, Goes(w, at, next),
           \A c \in CallType :
               /\ c.kind = call[w].kind /\ c.user = call[w].user /\ c.role = call[w].role
               /\ c.at = next
               => Stage(c)
    PROVE  Works(w, [call[w] EXCEPT !.at = next])
<1>1. PICK d \in CallType : d = call[w]
  BY CallFacts
<1>2. PICK c : c = [d EXCEPT !.at = next]
  OBVIOUS
<1>3. c \in CallType
  BY <1>2 DEF CallType
<1>4. /\ c.kind = d.kind /\ c.user = d.user /\ c.solo = d.solo /\ c.at = next
      /\ c.role = d.role
  BY <1>2 DEF CallType
<1>5. Moves(w, at, c)
  BY <1>1, <1>2 DEF Goes
<1> QED
  BY <1>1, <1>2, <1>3, <1>4, <1>5, MovesWorks

\* What a step of a call may follow.
LEMMA AtStage ==
    ASSUME NEW c, Stage(c)
    PROVE  /\ c.at = "save" => c.kind \in RowCalls /\ c.kind \notin UserCalls /\ c.kind # None
           /\ c.at \in {"list", "sync"} =>
                  c.kind \in Toggles /\ c.kind \in RowCalls /\ c.kind \notin UserCalls
                  /\ c.kind # None
           /\ c.at \in {"create", "put", "roles", "drop", "assign", "del"} =>
                  c.kind \in UserCalls /\ c.kind \notin RowCalls /\ c.kind # None
                  /\ c.user \in Users
           /\ c.kind \in UserCalls => c.kind \notin RowCalls /\ c.kind # None
  BY DEF Stage, RowCalls, Toggles, UserCalls

LEMMA SaveTenantWorks ==
    ASSUME Typed, NEW w \in Workers, SaveTenant(w)
    PROVE  \E c : Works(w, c)
<1>1. CASE call[w].kind \in Toggles
  <2>1. Goes(w, "save", "list")
    BY <1>1 DEF SaveTenant
  <2>2. \A c : /\ c.kind = call[w].kind /\ c.user = call[w].user /\ c.role = call[w].role
               /\ c.at = "list"
               => Stage(c)
    BY <1>1 DEF Stage, RowCalls, Toggles, UserCalls
  <2> QED
    BY <2>1, <2>2, GoesWorks DEF Steps
<1>2. CASE call[w].kind \notin Toggles
  BY <1>2, EndsWorks DEF SaveTenant
<1> QED
  BY <1>1, <1>2

LEMMA ListUsersWorks ==
    ASSUME Typed, NEW w \in Workers, ListUsers(w)
    PROVE  \E c : Works(w, c)
<1>1. PICK d \in CallType : d = call[w] /\ Stage(d)
  BY CallFacts
<1>2. PICK found : found = {u \in Users : Exists(u)}
  OBVIOUS
<1>3. PICK on : on = {u \in found : kc[u].enabled}
  OBVIOUS
<1>4. PICK c : c = [d EXCEPT !.at = "sync", !.left = found, !.on = on]
  OBVIOUS
<1>5. c \in CallType
  BY <1>2, <1>3, <1>4 DEF CallType, Steps
<1>6. /\ c.kind = d.kind /\ c.user = d.user /\ c.solo = d.solo /\ c.at = "sync"
      /\ c.role = d.role
  BY <1>4 DEF CallType
<1>7. Moves(w, "list", IF found = {} THEN Idle ELSE c) \/ Ends(w, "list")
  BY <1>1, <1>2, <1>3, <1>4 DEF ListUsers
<1>8. CASE Moves(w, "list", c)
  <2>1. d.at = "list"
    BY <1>1, <1>8 DEF Moves
  <2>2. Stage(c)
    BY <1>1, <1>6, <2>1 DEF Stage, RowCalls, Toggles, UserCalls
  <2> QED
    BY <1>1, <1>5, <1>6, <1>8, <2>2, MovesWorks
<1>9. CASE Ends(w, "list")
  BY <1>9, EndsWorks
<1> QED
  BY <1>7, <1>8, <1>9 DEF Ends

LEMMA SyncUserWorks ==
    ASSUME Typed, NEW w \in Workers, NEW u \in Users, SyncUser(w, u)
    PROVE  \E c : Works(w, c)
<1>1. PICK d \in CallType : d = call[w] /\ Stage(d)
  BY CallFacts
<1>2. PICK left : left = d.left \ {u}
  OBVIOUS
<1>3. PICK c : c = [d EXCEPT !.left = left]
  OBVIOUS
<1>4. c \in CallType
  BY <1>2, <1>3 DEF CallType
<1>5. /\ c.kind = d.kind /\ c.user = d.user /\ c.solo = d.solo /\ c.at = d.at
      /\ c.role = d.role
  BY <1>3 DEF CallType
<1>6. Moves(w, "sync", c) \/ Ends(w, "sync")
  BY <1>1, <1>2, <1>3 DEF SyncUser, Ends
<1>7. Stage(c)
  BY <1>1, <1>5 DEF Stage
<1> QED
  BY <1>1, <1>4, <1>5, <1>6, <1>7, MovesWorks, EndsWorks

LEMMA UserStepsWork ==
    ASSUME Typed, NEW w \in Workers, call[w].user # None,
           CheckTenant(w) \/ CreateUser(w) \/ PutProfile(w) \/ DropRoles(w) \/ AssignRoles(w)
           \/ DeleteUser(w)
    PROVE  \E c : Works(w, c)
<1>0. Stage(call[w])
  BY CallFacts
<1>1. CASE \E at : Ends(w, at)
  BY <1>1, EndsWorks
<1>2. CASE Goes(w, "find", "create") /\ call[w].kind = "invite"
  <2>1. \A c : /\ c.kind = call[w].kind /\ c.user = call[w].user /\ c.role = call[w].role
               /\ c.at = "create"
               => Stage(c)
    BY <1>0, <1>2 DEF Stage, RowCalls, Toggles, UserCalls
  <2> QED
    BY <1>2, <2>1, GoesWorks DEF Steps
<1>3. CASE Goes(w, "create", "assign")
  <2>1. \A c : /\ c.kind = call[w].kind /\ c.user = call[w].user /\ c.role = call[w].role
               /\ c.at = "assign"
               => Stage(c)
    BY <1>0, <1>3 DEF Stage, RowCalls, Toggles, UserCalls, Goes, Moves
  <2> QED
    BY <1>3, <2>1, GoesWorks DEF Steps
<1>4. CASE Goes(w, "put", "roles") /\ call[w].kind = "role"
  <2>1. \A c : /\ c.kind = call[w].kind /\ c.user = call[w].user /\ c.role = call[w].role
               /\ c.at = "roles"
               => Stage(c)
    BY <1>0, <1>4 DEF Stage, RowCalls, Toggles, UserCalls
  <2> QED
    BY <1>4, <2>1, GoesWorks DEF Steps
<1>5. CASE Goes(w, "drop", "assign")
  <2>1. \A c : /\ c.kind = call[w].kind /\ c.user = call[w].user /\ c.role = call[w].role
               /\ c.at = "assign"
               => Stage(c)
    BY <1>0, <1>5 DEF Stage, RowCalls, Toggles, UserCalls, Goes, Moves
  <2> QED
    BY <1>5, <2>1, GoesWorks DEF Steps
<1> QED
  BY <1>1, <1>2, <1>3, <1>4, <1>5 DEF CheckTenant, CreateUser, PutProfile, DropRoles,
     AssignRoles, DeleteUser, RolesFail

LEMMA FindUserWorks ==
    ASSUME Typed, NEW w \in Workers, call[w].user # None, FindUser(w)
    PROVE  \E c : Works(w, c)
<1>1. PICK d \in CallType : d = call[w] /\ Stage(d)
  BY CallFacts
<1>2. PICK u \in Users : u = d.user
  BY <1>1 DEF CallType
<1>3. CASE Exists(u)
  <2>1. kc[u].role \in Roles
    BY <1>3, CallFacts, AccountFacts DEF Exists
  <2>2. PICK role : role = IF d.kind = "role" THEN d.role ELSE kc[u].role
    OBVIOUS
  <2>3. PICK at : at = IF d.kind = "delete" THEN "del" ELSE "put"
    OBVIOUS
  <2>4. PICK c : c = [d EXCEPT !.at = at, !.role = role]
    OBVIOUS
  <2>5. Moves(w, "find", c) /\ d.kind \in {"role", "site", "delete"}
    BY <1>1, <1>2, <1>3, <2>2, <2>3, <2>4 DEF FindUser
  <2>6. role \in Roles
    <3>1. d.kind = "role" => d.role \in Roles
      BY <1>1 DEF Stage, UserCalls
    <3> QED
      BY <2>1, <2>2, <3>1
  <2>7. c \in CallType
    <3>1. at \in Steps
      BY <2>3 DEF Steps
    <3> QED
      BY <2>4, <2>6, <3>1 DEF CallType
  <2>8. /\ c.kind = d.kind /\ c.user = d.user /\ c.solo = d.solo /\ c.at = at
        /\ c.role = role
    BY <2>4 DEF CallType
  <2>9. Stage(c)
    BY <1>2, <2>3, <2>5, <2>6, <2>8 DEF Stage, RowCalls, Toggles, UserCalls
  <2> QED
    BY <1>1, <2>5, <2>7, <2>8, <2>9, MovesWorks
<1>4. CASE ~ Exists(u)
  BY <1>1, <1>2, <1>4, EndsWorks DEF FindUser
<1> QED
  BY <1>3, <1>4

LEMMA ListRolesWorks ==
    ASSUME Typed, NEW w \in Workers, call[w].user # None, ListRoles(w)
    PROVE  \E c : Works(w, c)
<1>1. PICK d \in CallType : d = call[w] /\ Stage(d)
  BY CallFacts
<1>2. PICK u \in Users : u = d.user
  BY <1>1 DEF CallType
<1>3. PICK saw : saw = kc[u].mapped
  OBVIOUS
<1>4. PICK at : at = IF saw = {} THEN "assign" ELSE "drop"
  OBVIOUS
<1>5. CASE Exists(u) /\ Moves(w, "roles", [d EXCEPT !.at = at, !.saw = saw])
  <2>1. PICK c : c = [d EXCEPT !.at = at, !.saw = saw]
    OBVIOUS
  <2>2. saw \subseteq Roles
    BY <1>3, <1>5, CallFacts, AccountFacts DEF Exists
  <2>3. c \in CallType
    BY <1>4, <2>1, <2>2 DEF CallType, Steps
  <2>4. /\ c.kind = d.kind /\ c.user = d.user /\ c.solo = d.solo /\ c.at = at
        /\ c.role = d.role
    BY <2>1 DEF CallType
  <2>5. d.at = "roles"
    BY <1>1, <1>5 DEF Moves
  <2>6. Stage(c)
    BY <1>1, <1>4, <2>4, <2>5 DEF Stage, RowCalls, Toggles, UserCalls
  <2> QED
    BY <1>1, <1>5, <2>1, <2>3, <2>4, <2>6, MovesWorks
<1>6. CASE \E t : Ends(w, t)
  BY <1>6, EndsWorks
<1> QED
  BY <1>1, <1>2, <1>3, <1>4, <1>5, <1>6 DEF ListRoles, RolesFail

LEMMA CallSteps ==
    ASSUME Typed, NEW w \in Workers, TenantStep(w) \/ UserStep(w)
    PROVE  \E c : Works(w, c)
<1>1. CASE TenantStep(w)
  BY <1>1, FindTenantWorks, SaveTenantWorks, ListUsersWorks, SyncUserWorks DEF TenantStep
<1>2. CASE UserStep(w)
  BY <1>2, UserStepsWork, FindUserWorks, ListRolesWorks DEF UserStep
<1> QED
  BY <1>1, <1>2

-----------------------------------------------------------------------------
(* What a step does to the accounts.                                       *)

\* An account is switched off and signed out
LEMMA SwitchAccount ==
    \A a \in Account : \A e \in BOOLEAN :
        a.known = "yes" =>
            \E b \in Account :
                /\ b = [a EXCEPT !.enabled = e, !.sso = FALSE]
                /\ b.known = "yes" /\ b.enabled = e /\ b.role = a.role
                /\ b.mapped = a.mapped /\ b.sso = FALSE
<1> SUFFICES ASSUME NEW a \in Account, NEW e \in BOOLEAN, a.known = "yes"
             PROVE  \E b \in Account :
                        /\ b = [a EXCEPT !.enabled = e, !.sso = FALSE]
                        /\ b.known = "yes" /\ b.enabled = e /\ b.role = a.role
                        /\ b.mapped = a.mapped /\ b.sso = FALSE
  OBVIOUS
<1>1. PICK b : b = [a EXCEPT !.enabled = e, !.sso = FALSE]
  OBVIOUS
<1>2. /\ a.enabled \in BOOLEAN /\ a.role \in Roles /\ a.mapped \in SUBSET Roles
      /\ a.sso \in BOOLEAN
      /\ a = [known |-> "yes", enabled |-> a.enabled, role |-> a.role, mapped |-> a.mapped,
              sso |-> a.sso]
  BY AccountFacts
<1>3. b = [known |-> "yes", enabled |-> e, role |-> a.role, mapped |-> a.mapped, sso |-> FALSE]
  BY <1>1, <1>2
<1>4. b \in Account
  BY <1>2, <1>3, AccountMade
<1> QED
  BY <1>1, <1>3, <1>4

\* switched
LEMMA EnableAccount ==
    \A a \in Account : \A e \in BOOLEAN :
        a.known = "yes" =>
            \E b \in Account :
                /\ b = [a EXCEPT !.enabled = e]
                /\ b.known = "yes" /\ b.enabled = e /\ b.role = a.role
                /\ b.mapped = a.mapped /\ b.sso = a.sso
<1> SUFFICES ASSUME NEW a \in Account, NEW e \in BOOLEAN, a.known = "yes"
             PROVE  \E b \in Account :
                        /\ b = [a EXCEPT !.enabled = e]
                        /\ b.known = "yes" /\ b.enabled = e /\ b.role = a.role
                        /\ b.mapped = a.mapped /\ b.sso = a.sso
  OBVIOUS
<1>1. PICK b : b = [a EXCEPT !.enabled = e]
  OBVIOUS
<1>2. /\ a.enabled \in BOOLEAN /\ a.role \in Roles /\ a.mapped \in SUBSET Roles
      /\ a.sso \in BOOLEAN
      /\ a = [known |-> "yes", enabled |-> a.enabled, role |-> a.role, mapped |-> a.mapped,
              sso |-> a.sso]
  BY AccountFacts
<1>3. b = [known |-> "yes", enabled |-> e, role |-> a.role, mapped |-> a.mapped, sso |-> a.sso]
  BY <1>1, <1>2
<1>4. b \in Account
  BY <1>2, <1>3, AccountMade
<1> QED
  BY <1>1, <1>3, <1>4

\* signed in or out
LEMMA SignAccount ==
    \A a \in Account : \A e \in BOOLEAN :
        a.known = "yes" =>
            \E b \in Account :
                /\ b = [a EXCEPT !.sso = e]
                /\ b.known = "yes" /\ b.enabled = a.enabled /\ b.role = a.role
                /\ b.mapped = a.mapped /\ b.sso = e
<1> SUFFICES ASSUME NEW a \in Account, NEW e \in BOOLEAN, a.known = "yes"
             PROVE  \E b \in Account :
                        /\ b = [a EXCEPT !.sso = e]
                        /\ b.known = "yes" /\ b.enabled = a.enabled /\ b.role = a.role
                        /\ b.mapped = a.mapped /\ b.sso = e
  OBVIOUS
<1>1. PICK b : b = [a EXCEPT !.sso = e]
  OBVIOUS
<1>2. /\ a.enabled \in BOOLEAN /\ a.role \in Roles /\ a.mapped \in SUBSET Roles
      /\ a.sso \in BOOLEAN
      /\ a = [known |-> "yes", enabled |-> a.enabled, role |-> a.role, mapped |-> a.mapped,
              sso |-> a.sso]
  BY AccountFacts
<1>3. b = [known |-> "yes", enabled |-> a.enabled, role |-> a.role, mapped |-> a.mapped, sso |-> e]
  BY <1>1, <1>2
<1>4. b \in Account
  BY <1>2, <1>3, AccountMade
<1> QED
  BY <1>1, <1>3, <1>4

\* given a role on its profile
LEMMA AppointAccount ==
    \A a \in Account : \A r \in Roles :
        a.known = "yes" =>
            \E b \in Account :
                /\ b = [a EXCEPT !.role = r]
                /\ b.known = "yes" /\ b.enabled = a.enabled /\ b.role = r
                /\ b.mapped = a.mapped /\ b.sso = a.sso
<1> SUFFICES ASSUME NEW a \in Account, NEW r \in Roles, a.known = "yes"
             PROVE  \E b \in Account :
                        /\ b = [a EXCEPT !.role = r]
                        /\ b.known = "yes" /\ b.enabled = a.enabled /\ b.role = r
                        /\ b.mapped = a.mapped /\ b.sso = a.sso
  OBVIOUS
<1>1. PICK b : b = [a EXCEPT !.role = r]
  OBVIOUS
<1>2. /\ a.enabled \in BOOLEAN /\ a.role \in Roles /\ a.mapped \in SUBSET Roles
      /\ a.sso \in BOOLEAN
      /\ a = [known |-> "yes", enabled |-> a.enabled, role |-> a.role, mapped |-> a.mapped,
              sso |-> a.sso]
  BY AccountFacts
<1>3. b = [known |-> "yes", enabled |-> a.enabled, role |-> r, mapped |-> a.mapped, sso |-> a.sso]
  BY <1>1, <1>2
<1>4. b \in Account
  BY <1>2, <1>3, AccountMade
<1> QED
  BY <1>1, <1>3, <1>4

\* or given realm roles.
LEMMA MapAccount ==
    \A a \in Account : \A m \in SUBSET Roles :
        a.known = "yes" =>
            \E b \in Account :
                /\ b = [a EXCEPT !.mapped = m]
                /\ b.known = "yes" /\ b.enabled = a.enabled /\ b.role = a.role
                /\ b.mapped = m /\ b.sso = a.sso
<1> SUFFICES ASSUME NEW a \in Account, NEW m \in SUBSET Roles, a.known = "yes"
             PROVE  \E b \in Account :
                        /\ b = [a EXCEPT !.mapped = m]
                        /\ b.known = "yes" /\ b.enabled = a.enabled /\ b.role = a.role
                        /\ b.mapped = m /\ b.sso = a.sso
  OBVIOUS
<1>1. PICK b : b = [a EXCEPT !.mapped = m]
  OBVIOUS
<1>2. /\ a.enabled \in BOOLEAN /\ a.role \in Roles /\ a.mapped \in SUBSET Roles
      /\ a.sso \in BOOLEAN
      /\ a = [known |-> "yes", enabled |-> a.enabled, role |-> a.role, mapped |-> a.mapped,
              sso |-> a.sso]
  BY AccountFacts
<1>3. b = [known |-> "yes", enabled |-> a.enabled, role |-> a.role, mapped |-> m, sso |-> a.sso]
  BY <1>1, <1>2
<1>4. b \in Account
  BY <1>2, <1>3, AccountMade
<1> QED
  BY <1>1, <1>3, <1>4

\* The accounts stay typed, and only their switches move: which users there are,
\* their profiles and their roles stay.
Switches ==
    /\ kc' \in [Users -> Account]
    /\ \A x \in Users : /\ kc'[x].known = kc[x].known
                        /\ Exists(x) => /\ kc'[x].role = kc[x].role
                                        /\ kc'[x].mapped = kc[x].mapped

LEMMA SwitchedFacts ==
    \A a \in Account : \A l, o \in BOOLEAN :
        a.known = "yes" =>
            \E b \in Account :
                /\ b = Switched(a, l, o)
                /\ b.known = "yes" /\ b.role = a.role /\ b.mapped = a.mapped
                /\ l = a.enabled => b.enabled = o
                /\ ~o => ~b.sso
<1> SUFFICES ASSUME NEW a \in Account, NEW l \in BOOLEAN, NEW o \in BOOLEAN, a.known = "yes"
             PROVE  \E b \in Account :
                        /\ b = Switched(a, l, o)
                        /\ b.known = "yes" /\ b.role = a.role /\ b.mapped = a.mapped
                        /\ l = a.enabled => b.enabled = o
                        /\ ~o => ~b.sso
  OBVIOUS
<1>1. PICK e \in BOOLEAN : e = IF o THEN (IF l THEN a.enabled ELSE TRUE)
                               ELSE (IF l THEN FALSE ELSE a.enabled)
  BY AccountFacts
<1>2. CASE o
  <2>1. PICK b \in Account : /\ b = [a EXCEPT !.enabled = e]
                            /\ b.known = "yes" /\ b.enabled = e /\ b.role = a.role
                            /\ b.mapped = a.mapped
    BY EnableAccount
  <2>2. b = Switched(a, l, o)
    BY <1>1, <1>2, <2>1 DEF Switched
  <2>3. l = a.enabled => b.enabled = o
    BY <1>1, <1>2, <2>1
  <2> QED
    BY <1>2, <2>1, <2>2, <2>3
<1>3. CASE ~o
  <2>1. PICK b \in Account : /\ b = [a EXCEPT !.enabled = e, !.sso = FALSE]
                            /\ b.known = "yes" /\ b.enabled = e /\ b.role = a.role
                            /\ b.mapped = a.mapped /\ b.sso = FALSE
    <3>1. CASE e = TRUE
      BY <3>1, SwitchAccount
    <3>2. CASE e = FALSE
      BY <3>2, SwitchAccount
    <3> QED
      BY <3>1, <3>2
  <2>2. b = Switched(a, l, o)
    BY <1>1, <1>3, <2>1 DEF Switched
  <2>3. l = a.enabled => b.enabled = o
    BY <1>1, <1>3, <2>1
  <2> QED
    BY <1>3, <2>1, <2>2, <2>3
<1> QED
  BY <1>2, <1>3

\* A user is switched or the request fails, and the gap says which.
LEMMA SyncUserSwitches ==
    ASSUME Typed, NEW w \in Workers, NEW u \in Users, SyncUser(w, u)
    PROVE  /\ Switches
           /\ \A x \in Users \ {u} : kc'[x] = kc[x]
           /\ \/ gap' = gap \cup {u}
              \/ /\ call[w].solo /\ row = Written(call[w]) /\ gap' = gap \ {u}
                 /\ Exists(u) =>
                        /\ (u \in call[w].on <=> kc[u].enabled) =>
                               (kc'[u].enabled <=> call[w].kind = "activate")
                        /\ call[w].kind # "activate" => ~kc'[u].sso
<1>1. PICK d \in CallType : d = call[w]
  BY CallFacts
<1>2. PICK o \in BOOLEAN : o <=> d.kind = "activate"
  OBVIOUS
<1>3. PICK l \in BOOLEAN : l <=> u \in d.on
  OBVIOUS
<1>4. kc \in [Users -> Account] /\ gap \subseteq Users
  BY CallFacts
<1>5. PICK a \in Account : a = kc[u]
  BY <1>4
<1>6. Exists(u) <=> a.known = "yes"
  BY <1>5 DEF Exists
<1>7. PICK g : g = (IF d.solo /\ row = Written(d) THEN gap \ {u} ELSE gap \cup {u})
  OBVIOUS
<1>8. CASE kc' = kc /\ (gap' = gap \cup {u} \/ (a.known # "yes" /\ gap' = g))
  BY <1>1, <1>4, <1>6, <1>7, <1>8 DEF Switches
<1>9. CASE a.known = "yes" /\ kc' = [kc EXCEPT ![u] = Switched(a, l, o)] /\ gap' = g
  <2>1. PICK b \in Account :
            /\ b = Switched(a, l, o)
            /\ b.known = "yes" /\ b.role = a.role /\ b.mapped = a.mapped
            /\ l = a.enabled => b.enabled = o
            /\ ~o => ~b.sso
    BY <1>9, SwitchedFacts
  <2>2. kc' \in [Users -> Account] /\ kc'[u] = b /\ \A x \in Users \ {u} : kc'[x] = kc[x]
    BY <1>4, <1>9, <2>1
  <2>3. Switches
    BY <1>5, <1>9, <2>1, <2>2 DEF Switches
  <2>4. /\ (u \in d.on <=> kc[u].enabled) => (kc'[u].enabled <=> d.kind = "activate")
        /\ d.kind # "activate" => ~kc'[u].sso
    <3>1. a.enabled \in BOOLEAN /\ a.known = "yes"
      BY <1>9, AccountFacts
    <3> QED
      BY <1>2, <1>3, <1>5, <2>1, <2>2, <3>1
  <2> QED
    BY <1>1, <1>7, <1>9, <2>2, <2>3, <2>4
<1>10. CASE a.known = "yes" /\ (\E e \in BOOLEAN : kc' = [kc EXCEPT ![u] = [a EXCEPT !.enabled = e]])
            /\ gap' = gap \cup {u}
  <2>1. PICK e \in BOOLEAN : kc' = [kc EXCEPT ![u] = [a EXCEPT !.enabled = e]]
    BY <1>10
  <2>2. PICK b \in Account :
            /\ b = [a EXCEPT !.enabled = e]
            /\ b.known = "yes" /\ b.enabled = e /\ b.role = a.role /\ b.mapped = a.mapped
            /\ b.sso = a.sso
    BY <1>10, EnableAccount
  <2>3. kc' = [kc EXCEPT ![u] = b]
    BY <2>1, <2>2
  <2>4. kc' \in [Users -> Account] /\ kc'[u] = b /\ \A x \in Users \ {u} : kc'[x] = kc[x]
    BY <1>4, <2>3
  <2>5. Switches
    BY <1>5, <1>10, <2>2, <2>4 DEF Switches
  <2> QED
    BY <1>10, <2>4, <2>5
<1>11. \/ kc' = kc /\ gap' = gap \cup {u}
       \/ /\ gap' = g
          /\ kc' = IF a.known = "yes" THEN [kc EXCEPT ![u] = Switched(a, l, o)] ELSE kc
       \/ /\ a.known = "yes" /\ gap' = gap \cup {u}
          /\ kc' = [kc EXCEPT ![u] = [a EXCEPT !.enabled = IF l = o THEN a.enabled ELSE o]]
  <2>1. (u \in d.on) = l /\ (d.kind = "activate") = o
    BY <1>2, <1>3
  <2> QED
    BY <1>1, <1>5, <1>6, <1>7, <2>1 DEF SyncUser
<1>12. a.known = "yes" => (IF l = o THEN a.enabled ELSE o) \in BOOLEAN
  BY AccountFacts
<1> QED
  BY <1>8, <1>9, <1>10, <1>11, <1>12

-----------------------------------------------------------------------------
(* The browsers: a sign-in and a logout move one switch of an account.     *)

BudgetOK == calls' = calls /\ faults' \in 0 .. MaxFaults

LEMMA FaultBudget ==
    ASSUME Typed, Fault
    PROVE  BudgetOK
  BY CallFacts DEF BudgetOK, Fault

LEMMA SameBudget ==
    ASSUME Typed, UNCHANGED budget
    PROVE  BudgetOK
  BY CallFacts DEF BudgetOK, budget

LEMMA SurfBudget ==
    ASSUME Typed, NEW u \in Users, Surf(u)
    PROVE  BudgetOK
  BY FaultBudget, SameBudget DEF Surf, SignIn, SignInChecked, Expire, Refresh, RefreshChecked,
     Return, LookAgain, Logout, SaysActive, SaysDeactivated

LEMMA SignedOutBrowser == SignedOut \in Browser
  BY DEF SignedOut, Browser, SessionError

LEMMA BrowserMade ==
    ASSUME NEW b \in Browser
    PROVE  /\ b.roles \in SUBSET Roles /\ b.error \in SessionError /\ b.seen \in SessionError
           /\ [b EXCEPT !.fresh = FALSE] \in Browser
           /\ \A m \in SUBSET Roles : \A k \in BOOLEAN :
                  [b EXCEPT !.at = "refresh", !.roles = m, !.error = "none", !.looks = k] \in Browser
           /\ \A e \in SessionError :
                  /\ [b EXCEPT !.seen = e] \in Browser
                  /\ [b EXCEPT !.error = "RefreshAccessTokenError", !.seen = e] \in Browser
                  /\ [b EXCEPT !.at = "in", !.error = "TenantDeactivated", !.looks = FALSE, !.seen = e]
                         \in Browser
<1>1. b.roles \in SUBSET Roles /\ b.error \in SessionError /\ b.seen \in SessionError
  BY DEF Browser
<1>2. [b EXCEPT !.fresh = FALSE] \in Browser
  BY DEF Browser
<1>3. \A m \in SUBSET Roles : \A k \in BOOLEAN :
          [b EXCEPT !.at = "refresh", !.roles = m, !.error = "none", !.looks = k] \in Browser
  BY DEF Browser, SessionError
<1>4. \A e \in SessionError : [b EXCEPT !.seen = e] \in Browser
  BY DEF Browser
<1>5. \A e \in SessionError : [b EXCEPT !.error = "RefreshAccessTokenError", !.seen = e] \in Browser
  BY DEF Browser, SessionError
<1>6. \A e \in SessionError :
          [b EXCEPT !.at = "in", !.error = "TenantDeactivated", !.looks = FALSE, !.seen = e] \in Browser
  BY DEF Browser, SessionError
<1> QED
  BY <1>1, <1>2, <1>3, <1>4, <1>5, <1>6

LEMMA BrowserOpened ==
    ASSUME NEW m \in SUBSET Roles
    PROVE  /\ [SignedOut EXCEPT !.at = "signin", !.roles = m] \in Browser
           /\ [SignedOut EXCEPT !.at = "in", !.fresh = TRUE, !.roles = m] \in Browser
           /\ \A e \in SessionError :
                  [[SignedOut EXCEPT !.at = "in", !.fresh = TRUE, !.roles = m] EXCEPT !.seen = e] \in Browser
<1>1. [SignedOut EXCEPT !.at = "signin", !.roles = m] \in Browser
  BY DEF SignedOut, Browser, SessionError
<1>2. PICK c : c = [SignedOut EXCEPT !.at = "in", !.fresh = TRUE, !.roles = m]
  OBVIOUS
<1>3. c \in Browser
  BY <1>2 DEF SignedOut, Browser, SessionError
<1>4. \A e \in SessionError : [c EXCEPT !.seen = e] \in Browser
  BY <1>3, BrowserMade
<1> QED
  BY <1>1, <1>2, <1>3, <1>4

LEMMA SurfBrowsers ==
    ASSUME Typed, NEW u \in Users, Surf(u)
    PROVE  web' \in [Users -> Browser]
<1>1. PICK b \in Browser : b = web[u]
  BY CallFacts
<1>2. Exists(u) => kc[u].mapped \in SUBSET Roles
  BY CallFacts, AccountFacts DEF Exists
<1>3. {"none", "RefreshAccessTokenError", "TenantDeactivated"} \subseteq SessionError
      /\ b.roles \in SUBSET Roles /\ b.error \in SessionError /\ b.seen \in SessionError
  BY BrowserMade DEF SessionError
<1>4. \E c \in Browser : Sets(u, c)
  <2>1. CASE SignIn(u)
    <3>1. PICK m \in SUBSET Roles : m = kc[u].mapped
      BY <1>2, <2>1 DEF SignIn, CanLogIn
    <3>2. Sets(u, [SignedOut EXCEPT !.at = "signin", !.roles = m])
      BY <2>1, <3>1 DEF SignIn
    <3> QED
      BY <3>2, BrowserOpened
  <2>2. ASSUME NEW k \in BOOLEAN, Refresh(u, k)
        PROVE  \E c \in Browser : Sets(u, c)
    <3>1. CASE CanLogIn(u) /\ Sets(u, [b EXCEPT !.at = "refresh", !.roles = kc[u].mapped, !.error = "none",
                                                 !.looks = k])
      <4>1. PICK m \in SUBSET Roles : m = kc[u].mapped
        BY <1>2, <3>1 DEF CanLogIn
      <4> QED
        BY <3>1, <4>1, BrowserMade
    <3>2. CASE Sets(u, [b EXCEPT !.error = "RefreshAccessTokenError",
                                 !.seen = IF k THEN "RefreshAccessTokenError" ELSE b.seen])
      <4>1. PICK e \in SessionError : e = IF k THEN "RefreshAccessTokenError" ELSE b.seen
        BY <1>3
      <4> QED
        BY <3>2, <4>1, BrowserMade
    <3> QED
      BY <1>1, <2>2, <3>1, <3>2 DEF Refresh
  <2>3. CASE SignInChecked(u)
    BY <1>1, <1>3, <2>3, BrowserOpened, SignedOutBrowser DEF SignInChecked, Opened
  <2>4. CASE RefreshChecked(u)
    <3>1. CASE Sets(u, [Opened(u) EXCEPT !.seen = IF b.looks THEN "none" ELSE b.seen])
      <4>1. PICK e \in SessionError : e = IF b.looks THEN "none" ELSE b.seen
        BY <1>3
      <4>2. PICK m \in SUBSET Roles : m = b.roles
        BY <1>3
      <4>3. Sets(u, [[SignedOut EXCEPT !.at = "in", !.fresh = TRUE, !.roles = m] EXCEPT !.seen = e])
        BY <1>1, <3>1, <4>1, <4>2 DEF Opened
      <4> QED
        BY <4>3, BrowserOpened
    <3>2. CASE Sets(u, [b EXCEPT !.at = "in", !.error = "TenantDeactivated", !.looks = FALSE,
                                 !.seen = IF b.looks THEN "TenantDeactivated" ELSE b.seen])
      <4>1. PICK e \in SessionError : e = IF b.looks THEN "TenantDeactivated" ELSE b.seen
        BY <1>3
      <4> QED
        BY <3>2, <4>1, BrowserMade
    <3> QED
      BY <1>1, <2>4, <3>1, <3>2 DEF RefreshChecked
  <2>5. CASE Expire(u) \/ Logout(u) \/ LookAgain(u)
    BY <1>1, <1>3, <2>5, BrowserMade, SignedOutBrowser DEF Expire, Logout, LookAgain
  <2> QED
    BY <2>1, <2>2, <2>3, <2>4, <2>5 DEF Surf, Return
<1> QED
  BY <1>4, CallFacts DEF Sets

LEMMA SurfSwitches ==
    ASSUME Typed, NEW u \in Users, Surf(u)
    PROVE  /\ Switches
           /\ UNCHANGED <<row, call, gap, torn>>
           /\ \A x \in Users : Exists(x) =>
                  /\ kc'[x].enabled = kc[x].enabled
                  /\ kc'[x].sso => kc[x].sso \/ kc[x].enabled
<1>1. PICK a \in Account : a = kc[u]
  BY CallFacts
<1>2. kc \in [Users -> Account]
  BY CallFacts
<1>3. UNCHANGED <<row, call, gap, torn>>
  BY DEF Surf, SignIn, SignInChecked, Expire, Refresh, RefreshChecked, Return, LookAgain,
     Logout
<1>4. CASE kc' = kc
  BY <1>2, <1>3, <1>4 DEF Switches
<1>5. CASE a.known = "yes" /\ a.enabled /\ kc' = [kc EXCEPT ![u] = [a EXCEPT !.sso = TRUE]]
  <2>1. PICK b \in Account :
            /\ b = [a EXCEPT !.sso = TRUE]
            /\ b.known = "yes" /\ b.enabled = a.enabled /\ b.role = a.role
            /\ b.mapped = a.mapped /\ b.sso = TRUE
    BY <1>5, SignAccount
  <2>2. kc' \in [Users -> Account] /\ kc'[u] = b /\ \A x \in Users \ {u} : kc'[x] = kc[x]
    BY <1>2, <1>5, <2>1
  <2>3. Switches
    BY <1>1, <1>5, <2>1, <2>2 DEF Switches
  <2> QED
    BY <1>1, <1>3, <1>5, <2>1, <2>2, <2>3
<1>6. CASE a.known = "yes" /\ kc' = [kc EXCEPT ![u] = [a EXCEPT !.sso = FALSE]]
  <2>1. PICK b \in Account :
            /\ b = [a EXCEPT !.sso = FALSE]
            /\ b.known = "yes" /\ b.enabled = a.enabled /\ b.role = a.role
            /\ b.mapped = a.mapped /\ b.sso = FALSE
    BY <1>6, SignAccount
  <2>2. kc' \in [Users -> Account] /\ kc'[u] = b /\ \A x \in Users \ {u} : kc'[x] = kc[x]
    BY <1>2, <1>6, <2>1
  <2>3. Switches
    BY <1>1, <1>6, <2>1, <2>2 DEF Switches
  <2> QED
    BY <1>1, <1>3, <1>6, <2>1, <2>2, <2>3
<1>7. CASE a.known # "yes" /\ kc' = [kc EXCEPT ![u] = [a EXCEPT !.sso = FALSE]]
  <2>1. a = NoAccount \/ a = Deleted
    BY <1>7 DEF Account
  <2>2. [a EXCEPT !.sso = FALSE] = a
    BY <2>1 DEF NoAccount, Deleted
  <2> QED
    BY <1>1, <1>2, <1>4, <1>7, <2>2
<1> QED
  <2>1. \/ kc' = kc
        \/ a.known = "yes" /\ a.enabled /\ kc' = [kc EXCEPT ![u] = [a EXCEPT !.sso = TRUE]]
        \/ kc' = [kc EXCEPT ![u] = [a EXCEPT !.sso = FALSE]]
    BY <1>1 DEF Surf, SignIn, SignInChecked, Expire, Refresh, RefreshChecked, Return, LookAgain,
     Logout, CanLogIn,
       Exists
  <2> QED
    BY <2>1, <1>4, <1>5, <1>6, <1>7
-----------------------------------------------------------------------------
(* The steps of the calls about one user touch that user only.             *)

OwnOnly(u) ==
    /\ kc' \in [Users -> Account]
    /\ \A x \in Users \ {u} : kc'[x] = kc[x] /\ (x \in torn' <=> x \in torn)
    /\ torn' \subseteq Users
    /\ gap \subseteq gap' /\ gap' \subseteq Users
    /\ row' = row /\ web' = web /\ BudgetOK
    /\ kc'[u].known = "unborn" => kc[u].known = "unborn"
    /\ kc'[u].known = "yes" =>
           \/ /\ kc[u].known = "yes"
              /\ kc'[u].enabled = kc[u].enabled
              /\ kc'[u].sso => kc[u].sso
           \/ /\ kc[u].known = "unborn" /\ kc'[u].enabled
              /\ row # "active" => u \in gap'

\* The roles are those of the profile.
Fits(a) == a.known = "yes" => a.mapped = Effective(a.role)

\* What an undisturbed call knows of the account it is about.
Ready(c, a, T) ==
    c.kind \in UserCalls /\ c.solo =>
        /\ c.at \in {"find", "create", "put", "del"} => c.user \in T \/ Fits(a)
        /\ a.known = "yes" =>
               /\ c.at = "put" /\ c.kind = "site" => c.role = a.role
               /\ c.at \in {"roles", "drop", "assign"} => c.role = a.role
               /\ c.at = "drop" => c.saw = a.mapped
               /\ c.at = "assign" => a.mapped = {}

\* What it leaves behind when it is over.
Leaves(w) ==
    call'[w].kind = None =>
        \/ call[w].user \in torn'
        \/ call[w].solo /\ Fits(kc'[call[w].user])

LEMMA EndingOwn ==
    ASSUME Typed, NEW w \in Workers, NEW u \in Users, u = call[w].user,
           EndingUntouched(w) \/ (\E ok \in BOOLEAN : Ending(w, ok)) \/ UNCHANGED torn
    PROVE  /\ torn' \subseteq Users
           /\ \A x \in Users \ {u} : x \in torn' <=> x \in torn
<1>1. torn \subseteq Users
  BY CallFacts
<1> QED
  BY <1>1 DEF EndingUntouched, Ending

LEMMA EndsNone ==
    ASSUME Typed, NEW w \in Workers, NEW at, Ends(w, at)
    PROVE  call[w].at = at /\ call'[w].kind = None
  BY CallFacts, IdleType DEF Ends, Moves

\* A call that ends without touching the roles.
LEMMA EndsUntouched ==
    ASSUME Typed, NEW w \in Workers, NEW u \in Users, u = call[w].user,
           NEW at \in {"find", "create", "put", "del"}, Ends(w, at), EndingUntouched(w),
           call[w].kind \in UserCalls, Ready(call[w], kc[u], torn),
           Fits(kc[u]) => Fits(kc'[u])
    PROVE  Leaves(w) /\ Ready(call'[w], kc'[u], torn')
<1>1. call[w].at = at /\ call'[w].kind = None
  BY EndsNone
<1>2. call[w].solo => u \in torn' \/ Fits(kc'[u])
  BY <1>1 DEF Ready, EndingUntouched
<1>3. ~ call[w].solo => u \in torn'
  BY DEF EndingUntouched
<1> QED
  BY <1>1, <1>2, <1>3 DEF Leaves, Ready, UserCalls

\* A call that fails half way.
LEMMA RolesFailLeaves ==
    ASSUME Typed, NEW w \in Workers, NEW u \in Users, u = call[w].user, NEW at,
           RolesFail(w, at)
    PROVE  Leaves(w) /\ Ready(call'[w], kc'[u], torn') /\ OwnOnly(u)
<1>1. call'[w].kind = None
  BY EndsNone DEF RolesFail
<1>2. u \in torn'
  BY DEF RolesFail, Ending
<1>3. BudgetOK
  BY FaultBudget, SameBudget DEF RolesFail
<1>4. UNCHANGED <<row, kc, web, gap>>
  BY DEF RolesFail
<1>5. /\ torn' \subseteq Users
      /\ \A x \in Users \ {u} : x \in torn' <=> x \in torn
  BY EndingOwn DEF RolesFail
<1>6. OwnOnly(u)
  BY <1>3, <1>4, <1>5, CallFacts DEF OwnOnly
<1> QED
  BY <1>1, <1>2, <1>6 DEF Leaves, Ready, UserCalls

\* A call that goes on as c.
LEMMA GoesNext ==
    ASSUME Typed, NEW w \in Workers, NEW at \in Steps, NEW next \in Steps, Goes(w, at, next)
    PROVE  /\ call[w].at = at /\ call'[w].at = next
           /\ call'[w].kind = call[w].kind /\ call'[w].user = call[w].user
           /\ call'[w].solo = call[w].solo /\ call'[w].role = call[w].role
           /\ call'[w].saw = call[w].saw
<1>1. PICK d \in CallType : d = call[w]
  BY CallFacts
<1>2. PICK c : c = [d EXCEPT !.at = next]
  OBVIOUS
<1>3. /\ c.at = next /\ c.kind = d.kind /\ c.user = d.user /\ c.solo = d.solo
      /\ c.role = d.role /\ c.saw = d.saw
  BY <1>2 DEF CallType
<1>4. call'[w] = c /\ d.at = at
  BY <1>1, <1>2, CallFacts DEF Goes, Moves
<1> QED
  BY <1>1, <1>3, <1>4

LEMMA CheckTenantOwn ==
    ASSUME Typed, NEW w \in Workers, NEW u \in Users, u = call[w].user,
           Ready(call[w], kc[u], torn), CheckTenant(w)
    PROVE  OwnOnly(u) /\ Leaves(w) /\ Ready(call'[w], kc'[u], torn')
<1>1. UNCHANGED <<row, kc, web, gap>> /\ BudgetOK /\ call[w].kind = "invite"
  BY SameBudget DEF CheckTenant
<1>2. /\ torn' \subseteq Users
      /\ \A x \in Users \ {u} : x \in torn' <=> x \in torn
  BY EndingOwn DEF CheckTenant
<1>3. OwnOnly(u)
  BY <1>1, <1>2, CallFacts DEF OwnOnly
<1>4. CASE Goes(w, "find", "create") /\ UNCHANGED torn
  <2>1. /\ call[w].at = "find" /\ call'[w].at = "create"
        /\ call'[w].kind = call[w].kind /\ call'[w].user = call[w].user
        /\ call'[w].solo = call[w].solo
    BY <1>4, GoesNext DEF Steps
  <2>2. call'[w].kind # None
    BY <1>1, <2>1 DEF UserCalls
  <2>3. Ready(call'[w], kc'[u], torn')
    BY <1>1, <1>4, <2>1 DEF Ready
  <2> QED
    BY <1>3, <2>2, <2>3 DEF Leaves
<1>5. CASE Ends(w, "find") /\ EndingUntouched(w)
  BY <1>1, <1>3, <1>5, EndsUntouched DEF UserCalls
<1> QED
  BY <1>4, <1>5 DEF CheckTenant

LEMMA CreateUserOwn ==
    ASSUME Typed, NEW w \in Workers, NEW u \in Users, u = call[w].user,
           Ready(call[w], kc[u], torn), CreateUser(w)
    PROVE  OwnOnly(u) /\ Leaves(w) /\ Ready(call'[w], kc'[u], torn')
<1>0. UNCHANGED <<row, web>>
  BY DEF CreateUser
<1>1. call[w].at = "create"
  BY DEF CreateUser, Goes, Ends, Moves
<1>2. Stage(call[w])
  BY CallFacts
<1>3. call[w].kind \in UserCalls /\ call[w].role \in Roles /\ call[w].kind # None
  BY <1>1, <1>2 DEF Stage, UserCalls, RowCalls, Toggles
<1>4. CASE Ends(w, "create") /\ EndingUntouched(w) /\ UNCHANGED <<kc, gap>> /\ BudgetOK
  <2>1. /\ torn' \subseteq Users
        /\ \A x \in Users \ {u} : x \in torn' <=> x \in torn
    BY <1>4, EndingOwn
  <2>2. OwnOnly(u)
    BY <1>0, <1>4, <2>1, CallFacts DEF OwnOnly
  <2> QED
    BY <1>3, <1>4, <2>2, EndsUntouched
<1>5. ASSUME kc[u].known = "unborn", Goes(w, "create", "assign"), UNCHANGED <<budget, torn>>,
             NEW a, a = [known |-> "yes", enabled |-> TRUE, role |-> call[w].role,
                         mapped |-> {}, sso |-> FALSE],
             kc' = [kc EXCEPT ![u] = a],
             gap' = IF row # "active" THEN gap \cup {u} ELSE gap
      PROVE  OwnOnly(u) /\ Leaves(w) /\ Ready(call'[w], kc'[u], torn')
  <2>1. a \in Account
    BY <1>3, <1>5, AccountMade
  <2>2. kc' \in [Users -> Account] /\ kc'[u] = a /\ \A x \in Users \ {u} : kc'[x] = kc[x]
    BY <1>5, <2>1, CallFacts
  <2>3. torn' = torn /\ torn \subseteq Users
    BY <1>5, CallFacts
  <2>4. gap \subseteq gap' /\ gap' \subseteq Users /\ (row # "active" => u \in gap')
    BY <1>5, CallFacts
  <2>5. BudgetOK
    BY <1>5, SameBudget
  <2>6. OwnOnly(u)
    BY <1>0, <1>5, <2>2, <2>3, <2>4, <2>5 DEF OwnOnly
  <2>7. /\ call'[w].at = "assign" /\ call'[w].kind = call[w].kind
        /\ call'[w].role = call[w].role
    BY <1>5, GoesNext DEF Steps
  <2>8. Ready(call'[w], kc'[u], torn')
    BY <1>5, <2>2, <2>7 DEF Ready
  <2> QED
    BY <1>3, <2>6, <2>7, <2>8 DEF Leaves
<1> QED
  <2>1. \/ Ends(w, "create") /\ EndingUntouched(w) /\ UNCHANGED <<kc, budget, gap>>
        \/ Ends(w, "create") /\ EndingUntouched(w) /\ UNCHANGED <<kc, gap>> /\ Fault
        \/ /\ kc[u].known = "unborn"
           /\ kc' = [kc EXCEPT ![u] = [known |-> "yes", enabled |-> TRUE, role |-> call[w].role,
                                       mapped |-> {}, sso |-> FALSE]]
           /\ gap' = IF row # "active" THEN gap \cup {u} ELSE gap
           /\ Goes(w, "create", "assign") /\ UNCHANGED <<budget, torn>>
    BY DEF CreateUser
  <2> QED
    BY <2>1, <1>4, <1>5, FaultBudget, SameBudget
LEMMA FindUserOwn ==
    ASSUME Typed, NEW w \in Workers, NEW u \in Users, u = call[w].user,
           Ready(call[w], kc[u], torn), FindUser(w)
    PROVE  OwnOnly(u) /\ Leaves(w) /\ Ready(call'[w], kc'[u], torn')
<1>1. UNCHANGED <<row, kc, web, gap>> /\ BudgetOK
      /\ call[w].kind \in {"role", "site", "delete"}
  BY SameBudget DEF FindUser
<1>2. /\ torn' \subseteq Users
      /\ \A x \in Users \ {u} : x \in torn' <=> x \in torn
  BY EndingOwn DEF FindUser
<1>3. OwnOnly(u)
  BY <1>1, <1>2, CallFacts DEF OwnOnly
<1>4. CASE Exists(u)
  <2>1. PICK d \in CallType : d = call[w]
    BY CallFacts
  <2>2. PICK role : role = IF d.kind = "role" THEN d.role ELSE kc[u].role
    OBVIOUS
  <2>3. PICK at : at = IF d.kind = "delete" THEN "del" ELSE "put"
    OBVIOUS
  <2>4. PICK c : c = [d EXCEPT !.at = at, !.role = role]
    OBVIOUS
  <2>5. Moves(w, "find", c) /\ UNCHANGED torn
    BY <1>4, <2>1, <2>2, <2>3, <2>4 DEF FindUser
  <2>6. /\ c.kind = d.kind /\ c.user = d.user /\ c.solo = d.solo /\ c.at = at
        /\ c.role = role
    BY <2>4 DEF CallType
  <2>7. call'[w] = c /\ d.at = "find"
    BY <2>1, <2>5, CallFacts DEF Moves
  <2>8. c.kind # None
    BY <1>1, <2>1, <2>6 DEF UserCalls
  <2>9. Ready(c, kc[u], torn)
    BY <1>1, <2>1, <2>2, <2>3, <2>6, <2>7 DEF Ready, UserCalls
  <2> QED
    BY <1>1, <1>3, <2>5, <2>7, <2>8, <2>9 DEF Leaves
<1>5. CASE ~Exists(u)
  <2>1. Ends(w, "find") /\ EndingUntouched(w)
    BY <1>5 DEF FindUser
  <2> QED
    BY <1>1, <1>3, <2>1, EndsUntouched DEF UserCalls
<1> QED
  BY <1>4, <1>5

LEMMA PutProfileOwn ==
    ASSUME Typed, NEW w \in Workers, NEW u \in Users, u = call[w].user,
           Ready(call[w], kc[u], torn), PutProfile(w)
    PROVE  OwnOnly(u) /\ Leaves(w) /\ Ready(call'[w], kc'[u], torn')
<1>0. UNCHANGED <<row, web, gap>>
  BY DEF PutProfile
<1>1. call[w].at = "put"
  BY DEF PutProfile, Goes, Ends, Moves
<1>2. Stage(call[w])
  BY CallFacts
<1>3. call[w].kind \in {"role", "site"} /\ call[w].role \in Roles /\ call[w].kind # None
      /\ call[w].kind \in UserCalls
  BY <1>1, <1>2 DEF Stage, UserCalls, RowCalls, Toggles
<1>4. CASE Ends(w, "put") /\ EndingUntouched(w) /\ kc' = kc /\ BudgetOK
  <2>1. /\ torn' \subseteq Users
        /\ \A x \in Users \ {u} : x \in torn' <=> x \in torn
    BY <1>4, EndingOwn
  <2>2. OwnOnly(u)
    BY <1>0, <1>4, <2>1, CallFacts DEF OwnOnly
  <2> QED
    BY <1>3, <1>4, <2>2, EndsUntouched
<1>5. CASE /\ Exists(u) /\ kc' = [kc EXCEPT ![u].role = call[w].role] /\ UNCHANGED budget
           /\ IF call[w].kind = "role" THEN Goes(w, "put", "roles") /\ UNCHANGED torn
              ELSE Ends(w, "put") /\ EndingUntouched(w)
  <2>1. PICK r \in Roles : r = call[w].role
    BY <1>3
  <2>2. PICK a \in Account : a = kc[u]
    BY CallFacts
  <2>3. a.known = "yes"
    BY <1>5, <2>2 DEF Exists
  <2>4. PICK b \in Account :
            /\ b = [a EXCEPT !.role = r]
            /\ b.known = "yes" /\ b.enabled = a.enabled /\ b.role = r
            /\ b.mapped = a.mapped /\ b.sso = a.sso
    BY <2>1, <2>3, AppointAccount
  <2>5. kc' \in [Users -> Account] /\ kc'[u] = b /\ \A x \in Users \ {u} : kc'[x] = kc[x]
    BY <1>5, <2>1, <2>2, <2>4, CallFacts
  <2>6. /\ torn' \subseteq Users
        /\ \A x \in Users \ {u} : x \in torn' <=> x \in torn
    BY <1>5, EndingOwn
  <2>7. BudgetOK
    BY <1>5, SameBudget
  <2>8. OwnOnly(u)
    BY <1>0, <2>2, <2>3, <2>4, <2>5, <2>6, <2>7, CallFacts DEF OwnOnly
  <2>9. CASE call[w].kind = "role"
    <3>1. /\ call'[w].at = "roles" /\ call'[w].kind = call[w].kind
          /\ call'[w].role = call[w].role
      BY <1>5, <2>9, GoesNext DEF Steps
    <3>2. Ready(call'[w], kc'[u], torn')
      BY <2>1, <2>4, <2>5, <2>9, <3>1 DEF Ready
    <3> QED
      BY <1>3, <2>8, <3>1, <3>2 DEF Leaves
  <2>10. CASE call[w].kind = "site"
    <3>1. Ends(w, "put") /\ EndingUntouched(w)
      BY <1>5, <2>10
    <3>2. call[w].solo => r = a.role
      BY <1>1, <1>3, <2>1, <2>2, <2>3, <2>10 DEF Ready
    <3>3. call[w].solo => (Fits(a) => Fits(b))
      BY <2>4, <3>2 DEF Fits
    <3>4. CASE call[w].solo
      BY <1>3, <2>2, <2>5, <2>8, <3>1, <3>3, <3>4, EndsUntouched
    <3>5. CASE ~call[w].solo
      <4>1. u \in torn'
        BY <3>1, <3>5 DEF EndingUntouched
      <4>2. call'[w].kind = None
        BY <3>1, EndsNone
      <4> QED
        BY <2>8, <4>1, <4>2 DEF Leaves, Ready, UserCalls
    <3> QED
      BY <3>4, <3>5
  <2> QED
    BY <1>3, <2>9, <2>10
<1> QED
  BY <1>4, <1>5, FaultBudget, SameBudget DEF PutProfile

LEMMA ListRolesOwn ==
    ASSUME Typed, NEW w \in Workers, NEW u \in Users, u = call[w].user,
           Ready(call[w], kc[u], torn), ListRoles(w)
    PROVE  OwnOnly(u) /\ Leaves(w) /\ Ready(call'[w], kc'[u], torn')
<1>1. PICK d \in CallType : d = call[w]
  BY CallFacts
<1>2. PICK saw : saw = kc[u].mapped
  OBVIOUS
<1>3. PICK at : at = IF saw = {} THEN "assign" ELSE "drop"
  OBVIOUS
<1>4. CASE Moves(w, "roles", [d EXCEPT !.at = at, !.saw = saw])
           /\ UNCHANGED <<row, kc, web, budget, gap, torn>>
  <2>1. PICK c : c = [d EXCEPT !.at = at, !.saw = saw]
    OBVIOUS
  <2>2. /\ c.kind = d.kind /\ c.user = d.user /\ c.solo = d.solo /\ c.at = at
        /\ c.role = d.role /\ c.saw = saw
    BY <2>1 DEF CallType
  <2>3. call'[w] = c /\ d.at = "roles"
    BY <1>1, <1>4, <2>1, CallFacts DEF Moves
  <2>4. d.kind = "role" /\ c.kind # None
    BY <1>1, <2>2, <2>3, CallFacts DEF Stage, UserCalls, RowCalls
  <2>5. Ready(c, kc[u], torn)
    BY <1>1, <1>2, <1>3, <2>2, <2>3, <2>4 DEF Ready
  <2>6. OwnOnly(u)
    BY <1>4, SameBudget, CallFacts DEF OwnOnly
  <2> QED
    BY <1>4, <2>2, <2>3, <2>4, <2>5, <2>6 DEF Leaves
<1> QED
  BY <1>1, <1>2, <1>3, <1>4, RolesFailLeaves DEF ListRoles

LEMMA DropRolesOwn ==
    ASSUME Typed, NEW w \in Workers, NEW u \in Users, u = call[w].user,
           Ready(call[w], kc[u], torn), DropRoles(w)
    PROVE  OwnOnly(u) /\ Leaves(w) /\ Ready(call'[w], kc'[u], torn')
<1>1. PICK a \in Account : a = kc[u]
  BY CallFacts
<1>2. CASE /\ a.known = "yes" /\ Goes(w, "drop", "assign")
           /\ kc' = [kc EXCEPT ![u] = [a EXCEPT !.mapped = a.mapped \ call[w].saw]]
           /\ UNCHANGED <<row, web, budget, gap, torn>>
  <2>1. PICK m \in SUBSET Roles : m = a.mapped \ call[w].saw
    BY <1>2, AccountFacts
  <2>2. PICK b \in Account :
            /\ b = [a EXCEPT !.mapped = m]
            /\ b.known = "yes" /\ b.enabled = a.enabled /\ b.role = a.role
            /\ b.mapped = m /\ b.sso = a.sso
    BY <1>2, <2>1, MapAccount
  <2>3. kc' \in [Users -> Account] /\ kc'[u] = b /\ \A x \in Users \ {u} : kc'[x] = kc[x]
    BY <1>2, <2>1, <2>2, CallFacts
  <2>4. OwnOnly(u)
    BY <1>1, <1>2, <2>2, <2>3, SameBudget, CallFacts DEF OwnOnly
  <2>5. /\ call[w].at = "drop" /\ call'[w].at = "assign"
        /\ call'[w].kind = call[w].kind /\ call'[w].user = call[w].user
        /\ call'[w].solo = call[w].solo /\ call'[w].role = call[w].role
    BY <1>2, GoesNext DEF Steps
  <2>6. call'[w].kind # None
    <3>1. Stage(call[w])
      BY CallFacts
    <3>2. call[w].kind = "role"
      BY <2>5, <3>1 DEF Stage
    <3> QED
      BY <2>5, <3>2 DEF UserCalls
  <2>7. Ready(call'[w], kc'[u], torn')
    <3>1. call[w].kind \in UserCalls /\ call[w].solo =>
              call[w].role = a.role /\ call[w].saw = a.mapped
      BY <1>1, <1>2, <2>5 DEF Ready
    <3>2. call[w].saw = a.mapped => m = {}
      BY <2>1
    <3> QED
      BY <2>2, <2>3, <2>5, <3>1, <3>2 DEF Ready
  <2> QED
    BY <2>4, <2>6, <2>7 DEF Leaves
<1> QED
  BY <1>1, <1>2, RolesFailLeaves DEF DropRoles, Exists

LEMMA AssignRolesOwn ==
    ASSUME Typed, NEW w \in Workers, NEW u \in Users, u = call[w].user,
           Ready(call[w], kc[u], torn), AssignRoles(w)
    PROVE  OwnOnly(u) /\ Leaves(w) /\ Ready(call'[w], kc'[u], torn')
<1>1. PICK a \in Account : a = kc[u]
  BY CallFacts
<1>2. CASE /\ a.known = "yes" /\ Ends(w, "assign") /\ Ending(w, TRUE)
           /\ kc' = [kc EXCEPT ![u] = [a EXCEPT !.mapped = a.mapped \cup Effective(call[w].role)]]
           /\ UNCHANGED <<row, web, budget, gap>>
  <2>0. /\ call[w].at = "assign" /\ call'[w].kind = None
    BY <1>2, EndsNone
  <2>1. call[w].kind \in UserCalls /\ call[w].role \in Roles
    BY <2>0, CallFacts DEF Stage, UserCalls, RowCalls
  <2>2. PICK m \in SUBSET Roles : m = a.mapped \cup Effective(call[w].role)
    BY <1>2, <2>1, AccountFacts, RoleFacts
  <2>3. PICK b \in Account :
            /\ b = [a EXCEPT !.mapped = m]
            /\ b.known = "yes" /\ b.enabled = a.enabled /\ b.role = a.role
            /\ b.mapped = m /\ b.sso = a.sso
    BY <1>2, <2>2, MapAccount
  <2>4. kc' \in [Users -> Account] /\ kc'[u] = b /\ \A x \in Users \ {u} : kc'[x] = kc[x]
    BY <1>2, <2>2, <2>3, CallFacts
  <2>5. /\ torn' \subseteq Users
        /\ \A x \in Users \ {u} : x \in torn' <=> x \in torn
    BY <1>2, EndingOwn
  <2>6. OwnOnly(u)
    BY <1>1, <1>2, <2>3, <2>4, <2>5, SameBudget, CallFacts DEF OwnOnly
  <2>7. CASE call[w].solo
    <3>1. a.mapped = {} /\ call[w].role = a.role
      BY <1>1, <1>2, <2>0, <2>1, <2>7 DEF Ready
    <3>2. Fits(kc'[u])
      BY <2>2, <2>3, <2>4, <3>1 DEF Fits
    <3> QED
      BY <2>0, <2>6, <2>7, <3>2 DEF Leaves, Ready, UserCalls
  <2>8. CASE ~ call[w].solo
    <3>1. u \in torn'
      BY <1>2, <2>8 DEF Ending
    <3> QED
      BY <2>0, <2>6, <3>1 DEF Leaves, Ready, UserCalls
  <2> QED
    BY <2>7, <2>8
<1> QED
  BY <1>1, <1>2, RolesFailLeaves DEF AssignRoles, Exists

LEMMA DeleteUserOwn ==
    ASSUME Typed, NEW w \in Workers, NEW u \in Users, u = call[w].user,
           Ready(call[w], kc[u], torn), DeleteUser(w)
    PROVE  OwnOnly(u) /\ Leaves(w) /\ Ready(call'[w], kc'[u], torn')
<1>1. UNCHANGED <<row, web, gap>> /\ Ends(w, "del") /\ EndingUntouched(w) /\ BudgetOK
  BY FaultBudget, SameBudget DEF DeleteUser
<1>2. call[w].at = "del"
  BY <1>1, EndsNone
<1>3. call[w].kind \in UserCalls
  BY <1>2, CallFacts DEF Stage, UserCalls
<1>4. /\ torn' \subseteq Users
      /\ \A x \in Users \ {u} : x \in torn' <=> x \in torn
  BY <1>1, EndingOwn
<1>5. Deleted \in Account /\ Deleted.known = "deleted"
  BY DEF Account, Deleted, NoAccount
<1>6. kc' = kc \/ kc' = [kc EXCEPT ![u] = Deleted]
  BY DEF DeleteUser
<1>7. kc' \in [Users -> Account] /\ (kc'[u] = Deleted \/ kc'[u] = kc[u])
      /\ \A x \in Users \ {u} : kc'[x] = kc[x]
  BY <1>5, <1>6, CallFacts
<1>8. OwnOnly(u)
  BY <1>1, <1>4, <1>5, <1>7, CallFacts DEF OwnOnly, Account, NoAccount
<1>9. Fits(kc[u]) => Fits(kc'[u])
  BY <1>5, <1>7 DEF Fits
<1> QED
  BY <1>1, <1>3, <1>8, <1>9, EndsUntouched

LEMMA UserStepOwn ==
    ASSUME Typed, NEW w \in Workers, Ready(call[w], kc[call[w].user], torn), UserStep(w)
    PROVE  /\ call[w].user \in Users
           /\ OwnOnly(call[w].user) /\ Leaves(w)
           /\ Ready(call'[w], kc'[call[w].user], torn')
<1>1. call[w].user \in Users
  BY CallFacts DEF UserStep, CallType
<1> QED
  BY <1>1, CheckTenantOwn, CreateUserOwn, FindUserOwn, PutProfileOwn, ListRolesOwn,
     DropRolesOwn, AssignRolesOwn, DeleteUserOwn DEF UserStep
-----------------------------------------------------------------------------
(* The invariant.                                                          *)

\* Two calls of one sort: toggles, or calls about one user.
Same(c, d) ==
    \/ c.kind \in Toggles /\ d.kind \in Toggles
    \/ c.kind \in UserCalls /\ d.kind \in UserCalls /\ c.user = d.user

\* Neither of two calls of one sort takes itself to be alone.
Alone ==
    \A v, w \in Workers :
        v # w /\ Same(call[v], call[w]) => ~call[v].solo /\ ~call[w].solo

\* The account is as the row has it.
Agrees(s, a) ==
    a.known = "yes" => /\ s = "inactive" => ~a.enabled /\ ~a.sso
                       /\ s = "active" => a.enabled

\* A toggle that has still to come to user u.
Pending(c, u) == c.kind \in Toggles /\ (c.at = "list" \/ (c.at = "sync" /\ u \in c.left))

\* A toggle that is alone knows who of the users still on its list is enabled.
Listed(c, K) ==
    c.at = "sync" =>
        \A u \in c.left :
            /\ K[u].known # "unborn"
            /\ c.solo /\ K[u].known = "yes" => (u \in c.on <=> K[u].enabled)

AllListed == \A w \in Workers : Listed(call[w], kc)

Following == \A u \in Users : u \in gap \/ Agrees(row, kc[u]) \/ \E w \in Workers : Pending(call[w], u)

Settled ==
    \A u \in Users :
        \/ u \in torn \/ Fits(kc[u])
        \/ \E w \in Workers : call[w].kind \in UserCalls /\ call[w].user = u

AllReady == \A w \in Workers : Ready(call[w], kc[call[w].user], torn)

Enabling  == AllListed /\ Following
Appointed == Settled /\ AllReady
Inv == Typed /\ Alone /\ Enabling /\ Appointed

-----------------------------------------------------------------------------
(* A call begins.                                                          *)

LEMMA BeginCalls ==
    ASSUME Typed, NEW w \in Workers, NEW kind \in RowCalls \cup UserCalls,
           NEW u \in Users \cup {None}, NEW r \in Roles \cup {None}, Begin(w, kind, u, r),
           kind \in UserCalls => u \in Users, kind \in {"invite", "role"} => r \in Roles
    PROVE  /\ call' \in [Workers -> CallType] /\ \A v \in Workers : Stage(call'[v])
           /\ call[w].at = "idle" /\ call'[w].kind = kind /\ call'[w].at = "find"
           /\ call'[w].user = u /\ (call'[w].solo => Rivals(kind, u) = {})
           /\ \A v \in Workers \ {w} :
                  /\ call'[v].kind = call[v].kind /\ call'[v].at = call[v].at
                  /\ call'[v].user = call[v].user /\ call'[v].role = call[v].role
                  /\ call'[v].left = call[v].left /\ call'[v].on = call[v].on
                  /\ call'[v].saw = call[v].saw
                  /\ call'[v].solo => call[v].solo /\ v \notin Rivals(kind, u)
<1>0. call \in [Workers -> CallType] /\ \A v \in Workers : Stage(call[v])
  BY CallFacts
<1>1. PICK R : R = Rivals(kind, u)
  OBVIOUS
<1>2. PICK s \in BOOLEAN : s <=> R = {}
  OBVIOUS
<1>3. PICK c : c = [Idle EXCEPT !.kind = kind, !.at = "find", !.user = u, !.role = r, !.solo = s]
  OBVIOUS
<1>4. c = [kind |-> kind, at |-> "find", user |-> u, role |-> r, image |-> "active",
           left |-> {}, on |-> {}, saw |-> {}, solo |-> s]
  BY <1>3 DEF Idle
<1>5. c \in CallType
  BY <1>4 DEF CallType, Steps, TenantStatus
<1>6. /\ c.kind = kind /\ c.at = "find" /\ c.user = u /\ c.role = r /\ c.solo = s
  BY <1>4
<1>7. Stage(c)
  BY <1>6 DEF Stage, RowCalls, UserCalls, Toggles
<1>8. call' = [v \in Workers |-> IF v = w THEN c
                                ELSE [call[v] EXCEPT !.solo = call[v].solo /\ v \notin R]]
  <2>1. c = [Idle EXCEPT !.kind = kind, !.at = "find", !.user = u, !.role = r,
                         !.solo = (R = {})]
    BY <1>2, <1>3
  <2> QED
    BY <1>1, <2>1 DEF Begin
<1>9. ASSUME NEW v \in Workers \ {w}
      PROVE  /\ call'[v] \in CallType /\ Stage(call'[v])
             /\ call'[v].kind = call[v].kind /\ call'[v].at = call[v].at
             /\ call'[v].user = call[v].user /\ call'[v].role = call[v].role
             /\ call'[v].left = call[v].left /\ call'[v].on = call[v].on
             /\ call'[v].saw = call[v].saw
             /\ call'[v].solo => call[v].solo /\ v \notin Rivals(kind, u)
  <2>1. PICK d \in CallType : d = call[v] /\ Stage(d)
    BY <1>0
  <2>2. PICK t \in BOOLEAN : t = (d.solo /\ v \notin R)
    BY DEF CallType
  <2>3. PICK e : e = [d EXCEPT !.solo = t]
    OBVIOUS
  <2>4. e \in CallType
    BY <2>3 DEF CallType
  <2>5. /\ e.kind = d.kind /\ e.at = d.at /\ e.user = d.user /\ e.role = d.role
        /\ e.left = d.left /\ e.on = d.on /\ e.saw = d.saw /\ e.solo = t
    BY <2>3 DEF CallType
  <2>6. Stage(e)
    BY <2>1, <2>5 DEF Stage
  <2>7. call'[v] = e
    BY <1>8, <2>1, <2>2, <2>3
  <2> QED
    BY <1>1, <2>1, <2>2, <2>4, <2>5, <2>6, <2>7
<1>10. call'[w] = c /\ DOMAIN call' = Workers
  BY <1>8
<1>11. call' \in [Workers -> CallType] /\ \A v \in Workers : Stage(call'[v])
  <2>1. \A v \in Workers : call'[v] \in CallType /\ Stage(call'[v])
    BY <1>5, <1>7, <1>9, <1>10
  <2> QED
    BY <1>8, <2>1
<1>12. call[w].at = "idle"
  BY DEF Begin
<1> QED
  BY <1>1, <1>2, <1>6, <1>9, <1>10, <1>11, <1>12

\* How a request reaches Begin.
Begins ==
    \E w \in Workers, kind \in RowCalls \cup UserCalls, u \in Users \cup {None},
       r \in Roles \cup {None} :
        /\ Begin(w, kind, u, r)
        /\ kind \in UserCalls => u \in Users
        /\ kind \in {"invite", "role"} => r \in Roles

LEMMA RequestBegins ==
    ASSUME Request
    PROVE  Begins
<1>1. PICK w \in Workers, kind \in Calls :
          \/ kind \in RowCalls /\ Begin(w, kind, None, None)
          \/ kind \in {"site", "delete"} /\ \E u \in Users : Begin(w, kind, u, None)
          \/ kind \in {"invite", "role"} /\ \E u \in Users, r \in Roles : Begin(w, kind, u, r)
  BY DEF Request
<1>2. CASE kind \in RowCalls /\ Begin(w, kind, None, None)
  <2>1. kind \notin UserCalls /\ kind \notin {"invite", "role"}
    BY <1>2 DEF RowCalls, UserCalls, Toggles
  <2> QED
    BY <1>2, <2>1 DEF Begins
<1>3. CASE kind \in {"site", "delete"} /\ \E u \in Users : Begin(w, kind, u, None)
  <2>1. PICK u \in Users : Begin(w, kind, u, None)
    BY <1>3
  <2>2. kind \in UserCalls /\ kind \notin {"invite", "role"}
    BY <1>3 DEF UserCalls
  <2> QED
    BY <2>1, <2>2 DEF Begins
<1>4. CASE kind \in {"invite", "role"} /\ \E u \in Users, r \in Roles : Begin(w, kind, u, r)
  <2>1. PICK u \in Users, r \in Roles : Begin(w, kind, u, r)
    BY <1>4
  <2>2. kind \in UserCalls
    BY <1>4 DEF UserCalls
  <2> QED
    BY <2>1, <2>2 DEF Begins
<1> QED
  BY <1>1, <1>2, <1>3, <1>4

LEMMA BeginInv ==
    ASSUME Inv, Begins
    PROVE  Inv'
<1>0. Typed /\ Alone /\ AllListed /\ Following /\ Settled /\ AllReady
  BY DEF Inv, Enabling, Appointed
<1>1. PICK w \in Workers, kind \in RowCalls \cup UserCalls, u \in Users \cup {None},
          r \in Roles \cup {None} :
          /\ Begin(w, kind, u, r)
          /\ kind \in UserCalls => u \in Users
          /\ kind \in {"invite", "role"} => r \in Roles
  BY DEF Begins
<1>2. UNCHANGED <<row, kc, web, faults, gap, torn>> /\ calls' \in 0 .. MaxCalls
  <2>1. calls < MaxCalls /\ calls' = calls + 1 /\ UNCHANGED <<row, kc, web, faults, gap, torn>>
    BY <1>1 DEF Begin
  <2>2. calls \in 0 .. MaxCalls /\ MaxCalls \in Nat
    BY <1>0, CallFacts
  <2> QED
    BY <2>1, <2>2
<1>3. /\ call' \in [Workers -> CallType] /\ \A v \in Workers : Stage(call'[v])
      /\ call[w].at = "idle" /\ call'[w].kind = kind /\ call'[w].at = "find"
      /\ call'[w].user = u /\ (call'[w].solo => Rivals(kind, u) = {})
  BY <1>0, <1>1, BeginCalls
<1>4. \A v \in Workers \ {w} :
          /\ call'[v].kind = call[v].kind /\ call'[v].at = call[v].at
          /\ call'[v].user = call[v].user /\ call'[v].role = call[v].role
          /\ call'[v].left = call[v].left /\ call'[v].on = call[v].on
          /\ call'[v].saw = call[v].saw
          /\ call'[v].solo => call[v].solo /\ v \notin Rivals(kind, u)
  BY <1>0, <1>1, BeginCalls
<1>5. Typed'
  BY <1>0, <1>2, <1>3, CallFacts DEF Typed, TypeOK, CallType
<1>6. call[w].kind = None
  BY <1>0, <1>3, CallFacts DEF Stage
<1>7. Alone'
  <2>1. ASSUME NEW v \in Workers, v # w, Same(call'[v], call'[w])
        PROVE  v \in Rivals(kind, u)
    <3>1. CASE call[v].kind \in Toggles /\ kind \in Toggles
      BY <3>1 DEF Rivals, InFlight
    <3>2. CASE call[v].kind \in UserCalls /\ kind \in UserCalls /\ call[v].user = u
      BY <3>2 DEF Rivals, InFlight, About, Toggles, UserCalls
    <3> QED
      BY <1>3, <1>4, <2>1, <3>1, <3>2 DEF Same
  <2>2. \A v \in Workers : v # w /\ (Same(call'[v], call'[w]) \/ Same(call'[w], call'[v])) =>
            ~call'[v].solo /\ ~call'[w].solo
    BY <1>3, <1>4, <2>1 DEF Same
  <2>3. ASSUME NEW v \in Workers, NEW x \in Workers, v # w, x # w, v # x,
               Same(call'[v], call'[x])
        PROVE  ~call'[v].solo /\ ~call'[x].solo
    <3>1. Same(call[v], call[x])
      BY <1>4, <2>3 DEF Same
    <3> QED
      BY <1>0, <1>4, <2>3, <3>1 DEF Alone
  <2> QED
    BY <2>2, <2>3 DEF Alone
<1>8. AllListed'
  <2>1. \A v \in Workers : Listed(call'[v], kc)
    BY <1>0, <1>3, <1>4 DEF AllListed, Listed
  <2> QED
    BY <1>2, <2>1 DEF AllListed
<1>9. Following'
  <2>1. \A v \in Workers, x \in Users : Pending(call[v], x) => Pending(call'[v], x)
    BY <1>3, <1>4, <1>6 DEF Pending, RowCalls, UserCalls, Toggles
  <2> QED
    BY <1>0, <1>2, <2>1 DEF Following
<1>11. Settled'
  <2>1. \A v \in Workers, x \in Users :
            call[v].kind \in UserCalls /\ call[v].user = x =>
                call'[v].kind \in UserCalls /\ call'[v].user = x
    BY <1>4, <1>6 DEF UserCalls
  <2> QED
    BY <1>0, <1>2, <2>1 DEF Settled
<1>12. AllReady'
  <2>1. ASSUME NEW v \in Workers \ {w}
        PROVE  Ready(call'[v], kc[call'[v].user], torn)
    <3>1. Ready(call[v], kc[call[v].user], torn)
      BY <1>0 DEF AllReady
    <3> QED
      BY <1>4, <3>1 DEF Ready
  <2>2. Ready(call'[w], kc[call'[w].user], torn)
    <3>1. SUFFICES ASSUME kind \in UserCalls, Rivals(kind, u) = {}
                   PROVE  u \in torn \/ Fits(kc[u])
      BY <1>3 DEF Ready
    <3>2. u \in Users /\ About(u) = {}
      BY <1>1, <3>1 DEF Rivals, UserCalls, Toggles
    <3> QED
      BY <1>0, <3>2 DEF Settled, About, InFlight
  <2>3. \A v \in Workers : Ready(call'[v], kc[call'[v].user], torn)
    BY <2>1, <2>2
  <2> QED
    BY <1>2, <2>3 DEF AllReady
<1> QED
  BY <1>5, <1>7, <1>8, <1>9, <1>11, <1>12 DEF Inv, Enabling, Appointed
-----------------------------------------------------------------------------
(* The steps of the browsers keep the invariant.                           *)

LEMMA SwitchesFit ==
    ASSUME Switches
    PROVE  \A x \in Users : Fits(kc[x]) => Fits(kc'[x])
  BY DEF Switches, Fits, Exists

LEMMA SwitchesReady ==
    ASSUME Switches, torn' = torn, NEW c, Stage(c), Ready(c, kc[c.user], torn)
    PROVE  Ready(c, kc'[c.user], torn')
<1>1. SUFFICES ASSUME c.kind \in UserCalls
               PROVE  Ready(c, kc'[c.user], torn')
  BY DEF Ready
<1>2. c.user \in Users
  BY <1>1 DEF Stage
<1>3. Fits(kc[c.user]) => Fits(kc'[c.user])
  BY <1>2, SwitchesFit
<1>4. /\ kc'[c.user].known = kc[c.user].known
      /\ kc[c.user].known = "yes" => kc'[c.user].role = kc[c.user].role
                                     /\ kc'[c.user].mapped = kc[c.user].mapped
  BY <1>2 DEF Switches, Exists
<1> QED
  BY <1>3, <1>4 DEF Ready

\* No user appears that was not there, and nobody is switched.
Calmer ==
    \A x \in Users :
        /\ kc'[x].known = "unborn" => kc[x].known = "unborn"
        /\ kc[x].known # "unborn" /\ kc'[x].known = "yes" =>
               kc[x].known = "yes" /\ kc'[x].enabled = kc[x].enabled

LEMMA CalmerListed ==
    ASSUME Calmer, NEW c \in CallType, Listed(c, kc)
    PROVE  Listed(c, kc')
  BY DEF Calmer, Listed, CallType

LEMMA SurfInv ==
    ASSUME Inv, NEW u \in Users, Surf(u)
    PROVE  Inv'
<1>0. Typed /\ Alone /\ AllListed /\ Following /\ Settled /\ AllReady
  BY DEF Inv, Enabling, Appointed
<1>1. /\ Switches /\ UNCHANGED <<row, call, gap, torn>>
      /\ \A x \in Users : Exists(x) =>
             /\ kc'[x].enabled = kc[x].enabled
             /\ kc'[x].sso => kc[x].sso \/ kc[x].enabled
  BY <1>0, SurfSwitches
<1>2. web' \in [Users -> Browser] /\ BudgetOK
  BY <1>0, SurfBrowsers, SurfBudget
<1>3. kc' \in [Users -> Account] /\ \A x \in Users : kc'[x].known = kc[x].known
  BY <1>1 DEF Switches
<1>4. Typed'
  BY <1>0, <1>1, <1>2, <1>3, CallFacts DEF Typed, TypeOK, CallType, BudgetOK
<1>5. Alone'
  BY <1>0, <1>1 DEF Alone
<1>6. AllListed'
  <2>1. Calmer
    BY <1>1, <1>3 DEF Calmer, Exists
  <2>2. \A w \in Workers : Listed(call[w], kc')
    BY <1>0, <2>1, CalmerListed, CallFacts DEF AllListed
  <2> QED
    BY <1>1, <2>2 DEF AllListed
<1>7. Following'
  <2>1. \A x \in Users : Agrees(row, kc[x]) => Agrees(row, kc'[x])
    BY <1>1, <1>3 DEF Agrees, Exists
  <2> QED
    BY <1>0, <1>1, <2>1 DEF Following
<1>9. Settled'
  BY <1>0, <1>1, SwitchesFit DEF Settled
<1>10. AllReady'
  <2>1. \A w \in Workers : Ready(call[w], kc'[call[w].user], torn')
    BY <1>0, <1>1, SwitchesReady, CallFacts DEF AllReady
  <2> QED
    BY <1>1, <2>1 DEF AllReady
<1> QED
  BY <1>4, <1>5, <1>6, <1>7, <1>9, <1>10 DEF Inv, Enabling, Appointed

-----------------------------------------------------------------------------
(* So do the steps of the calls about one user.                            *)

LEMMA UserStepKind ==
    ASSUME Typed, NEW w \in Workers, UserStep(w)
    PROVE  call[w].kind \in UserCalls
<1>1. Stage(call[w])
  BY CallFacts
<1>2. \/ call[w].kind \in {"invite", "role", "site", "delete"}
      \/ call[w].at \in {"create", "put", "roles", "drop", "assign", "del"}
  BY DEF UserStep, CheckTenant, CreateUser, FindUser, PutProfile, ListRoles, DropRoles,
     AssignRoles, DeleteUser, RolesFail, Goes, Ends, Moves
<1> QED
  BY <1>1, <1>2 DEF Stage, UserCalls

\* What the others see of the step of one worker.
LEMMA WorksOthers ==
    ASSUME Typed, NEW w \in Workers, NEW c, Works(w, c)
    PROVE  /\ call'[w] = c /\ \A v \in Workers \ {w} : call'[v] = call[v]
           /\ \/ c.kind = None
              \/ c.kind = call[w].kind /\ c.user = call[w].user /\ c.solo = call[w].solo
  BY CallFacts, IdleType DEF Works

LEMMA WorksAlone ==
    ASSUME Typed, Alone, NEW w \in Workers, NEW c, Works(w, c)
    PROVE  Alone'
<1>1. /\ call'[w] = c /\ \A v \in Workers \ {w} : call'[v] = call[v]
      /\ \/ c.kind = None
         \/ c.kind = call[w].kind /\ c.user = call[w].user /\ c.solo = call[w].solo
  BY WorksOthers
<1>2. \A v, x \in Workers : Same(call'[v], call'[x]) =>
          /\ Same(call[v], call[x])
          /\ call'[v].solo = call[v].solo /\ call'[x].solo = call[x].solo
  BY <1>1 DEF Same, Toggles, UserCalls, RowCalls
<1> QED
  BY <1>2 DEF Alone

LEMMA UserStepInv ==
    ASSUME Inv, NEW w \in Workers, UserStep(w)
    PROVE  Inv'
<1>0. Typed /\ Alone /\ AllListed /\ Following /\ Settled /\ AllReady
  BY DEF Inv, Enabling, Appointed
<1>1. PICK c : Works(w, c)
  BY <1>0, CallSteps
<1>2. call'[w] = c /\ (\A v \in Workers \ {w} : call'[v] = call[v])
      /\ \/ c.kind = None
         \/ c.kind = call[w].kind /\ c.user = call[w].user /\ c.solo = call[w].solo
  BY <1>0, <1>1, WorksOthers
<1>3. PICK u \in Users :
          u = call[w].user /\ OwnOnly(u) /\ Leaves(w) /\ Ready(call'[w], kc'[u], torn')
  BY <1>0, UserStepOwn DEF AllReady
<1>4. call[w].kind \in UserCalls /\ c.kind \notin Toggles
  BY <1>0, <1>2, UserStepKind DEF UserCalls, Toggles, RowCalls
<1>5. /\ kc' \in [Users -> Account]
      /\ \A x \in Users \ {u} : kc'[x] = kc[x] /\ (x \in torn' <=> x \in torn)
      /\ torn' \subseteq Users /\ gap \subseteq gap' /\ gap' \subseteq Users
      /\ row' = row /\ web' = web /\ BudgetOK
  BY <1>3 DEF OwnOnly
<1>6. /\ kc'[u].known = "unborn" => kc[u].known = "unborn"
      /\ kc'[u].known = "yes" =>
             \/ /\ kc[u].known = "yes"
                /\ kc'[u].enabled = kc[u].enabled
                /\ kc'[u].sso => kc[u].sso
             \/ /\ kc[u].known = "unborn" /\ kc'[u].enabled
                /\ row # "active" => u \in gap'
  BY <1>3 DEF OwnOnly
<1>7. Typed'
  BY <1>0, <1>1, <1>5, WorksTyped, CallFacts DEF Typed, TypeOK, CallType, BudgetOK
<1>8. Alone'
  BY <1>0, <1>1, WorksAlone
<1>9. AllListed'
  <2>1. Calmer
    BY <1>5, <1>6 DEF Calmer
  <2>2. \A v \in Workers \ {w} : Listed(call'[v], kc')
    BY <1>0, <1>2, <2>1, CalmerListed, CallFacts DEF AllListed
  <2>3. Listed(call'[w], kc')
    <3>1. c.at # "sync"
      BY <1>1, <1>4 DEF Works, Stage
    <3> QED
      BY <1>2, <3>1 DEF Listed
  <2> QED
    BY <2>2, <2>3 DEF AllListed
<1>10. Following'
  <2>1. SUFFICES ASSUME NEW x \in Users
                 PROVE  x \in gap' \/ Agrees(row, kc'[x]) \/ \E v \in Workers : Pending(call'[v], x)
    BY <1>5 DEF Following
  <2>2. x \in gap \/ Agrees(row, kc[x]) \/ \E v \in Workers : Pending(call[v], x)
    BY <1>0 DEF Following
  <2>3. Agrees(row, kc[x]) => x \in gap' \/ Agrees(row, kc'[x])
    <3>1. CASE x # u
      BY <1>5, <3>1
    <3>2. CASE x = u
      BY <1>6, <3>2 DEF Agrees
    <3> QED
      BY <3>1, <3>2
  <2>4. \A v \in Workers : Pending(call[v], x) => Pending(call'[v], x)
    BY <1>2, <1>4 DEF Pending, UserCalls, Toggles
  <2> QED
    BY <1>5, <2>2, <2>3, <2>4
<1>12. Settled'
  <2>1. ASSUME NEW x \in Users
        PROVE  \/ x \in torn' \/ Fits(kc'[x])
               \/ \E v \in Workers : call'[v].kind \in UserCalls /\ call'[v].user = x
    <3>1. CASE x = u
      <4>1. CASE c.kind = None
        BY <1>2, <1>3, <3>1, <4>1 DEF Leaves
      <4>2. CASE c.kind # None
        BY <1>2, <1>3, <1>4, <3>1, <4>2
      <4> QED
        BY <4>1, <4>2
    <3>2. CASE x # u
      <4>1. \/ x \in torn \/ Fits(kc[x])
            \/ \E v \in Workers : call[v].kind \in UserCalls /\ call[v].user = x
        BY <1>0 DEF Settled
      <4>2. \A v \in Workers : call[v].user = x => v # w
        BY <1>3, <3>2
      <4> QED
        BY <1>2, <1>5, <3>2, <4>1, <4>2
    <3> QED
      BY <3>1, <3>2
  <2> QED
    BY <2>1 DEF Settled
<1>13. AllReady'
  <2>1. Ready(call'[w], kc'[call'[w].user], torn')
    <3>1. CASE c.kind = None
      BY <1>2, <3>1 DEF Ready, UserCalls
    <3>2. CASE c.kind # None
      BY <1>2, <1>3, <3>2
    <3> QED
      BY <3>1, <3>2
  <2>2. ASSUME NEW v \in Workers \ {w}
        PROVE  Ready(call'[v], kc'[call'[v].user], torn')
    <3>1. call'[v] = call[v] /\ Ready(call[v], kc[call[v].user], torn)
      BY <1>0, <1>2 DEF AllReady
    <3>2. CASE call[v].kind \notin UserCalls
      BY <3>1, <3>2 DEF Ready
    <3>3. CASE call[v].kind \in UserCalls /\ call[v].user = u
      <4>1. Same(call[v], call[w])
        BY <1>3, <1>4, <3>3 DEF Same
      <4>2. ~call[v].solo
        BY <1>0, <4>1 DEF Alone
      <4> QED
        BY <3>1, <4>2 DEF Ready
    <3>4. CASE call[v].kind \in UserCalls /\ call[v].user # u
      <4>1. call[v].user \in Users \ {u}
        BY <1>0, <3>4, CallFacts DEF Stage
      <4>2. kc'[call[v].user] = kc[call[v].user] /\ (call[v].user \in torn' <=> call[v].user \in torn)
        BY <1>5, <4>1
      <4> QED
        BY <3>1, <4>2 DEF Ready
    <3> QED
      BY <3>2, <3>3, <3>4
  <2>3. \A v \in Workers : Ready(call'[v], kc'[call'[v].user], torn')
    BY <2>1, <2>2
  <2> QED
    BY <2>3 DEF AllReady
<1> QED
  BY <1>7, <1>8, <1>9, <1>10, <1>12, <1>13 DEF Inv, Enabling, Appointed
-----------------------------------------------------------------------------
(* And the steps of the calls about the tenant.                            *)

LEMMA TenantStepFrame ==
    ASSUME Typed, NEW w \in Workers, TenantStep(w)
    PROVE  /\ Switches /\ torn' = torn /\ web' = web /\ BudgetOK
           /\ row' \in TenantStatus /\ gap' \subseteq Users
           /\ call[w].kind \in RowCalls
<1>0. row \in TenantStatus /\ kc \in [Users -> Account] /\ gap \subseteq Users
  BY CallFacts
<1>1. CASE FindTenant(w)
  BY <1>0, <1>1, SameBudget DEF FindTenant, Switches
<1>2. CASE SaveTenant(w)
  <2>1. call[w].at = "save"
    BY <1>2 DEF SaveTenant, Goes, Ends, Moves
  <2>2. call[w].kind \in RowCalls
    BY <2>1, CallFacts DEF Stage
  <2>3. call[w].image \in TenantStatus
    BY CallFacts DEF CallType
  <2>4. Written(call[w]) \in TenantStatus
    BY <2>3 DEF Written, TenantStatus
  <2> QED
    BY <1>0, <1>2, <2>2, <2>4, SameBudget DEF SaveTenant, Switches
<1>3. CASE ListUsers(w)
  <2>1. call[w].at = "list"
    BY <1>3 DEF ListUsers, Ends, Moves
  <2>2. call[w].kind \in RowCalls
    BY <2>1, CallFacts DEF Stage, RowCalls
  <2> QED
    BY <1>0, <1>3, <2>2, SameBudget, FaultBudget DEF ListUsers, Switches
<1>4. CASE \E u \in Users : SyncUser(w, u)
  <2>1. PICK u \in Users : SyncUser(w, u)
    BY <1>4
  <2>2. call[w].at = "sync"
    BY <2>1 DEF SyncUser, Moves
  <2>3. call[w].kind \in RowCalls
    BY <2>2, CallFacts DEF Stage, RowCalls
  <2>4. UNCHANGED <<row, web, torn>> /\ BudgetOK
    BY <2>1, SameBudget, FaultBudget DEF SyncUser
  <2> QED
    BY <1>0, <2>1, <2>3, <2>4, SyncUserSwitches
<1> QED
  BY <1>1, <1>2, <1>3, <1>4 DEF TenantStep

LEMMA TenantStepAppoints ==
    ASSUME Inv, NEW w \in Workers, TenantStep(w)
    PROVE  Typed' /\ Alone' /\ Appointed'
<1>0. Typed /\ Alone /\ AllListed /\ Following /\ Settled /\ AllReady
  BY DEF Inv, Enabling, Appointed
<1>1. PICK c : Works(w, c)
  BY <1>0, CallSteps
<1>2. call'[w] = c /\ (\A v \in Workers \ {w} : call'[v] = call[v])
      /\ \/ c.kind = None
         \/ c.kind = call[w].kind /\ c.user = call[w].user /\ c.solo = call[w].solo
  BY <1>0, <1>1, WorksOthers
<1>3. /\ Switches /\ torn' = torn /\ web' = web /\ BudgetOK
      /\ row' \in TenantStatus /\ gap' \subseteq Users
      /\ call[w].kind \in RowCalls
  BY <1>0, TenantStepFrame
<1>4. call[w].kind \notin UserCalls /\ c.kind \notin UserCalls
  BY <1>2, <1>3 DEF RowCalls, UserCalls, Toggles
<1>5. Typed'
  BY <1>0, <1>1, <1>3, WorksTyped, CallFacts DEF Typed, TypeOK, CallType, BudgetOK, Switches
<1>6. Alone'
  BY <1>0, <1>1, WorksAlone
<1>7. Settled'
  <2>1. \A v \in Workers : call[v].kind \in UserCalls => call'[v] = call[v]
    BY <1>2, <1>4
  <2> QED
    BY <1>0, <1>3, <2>1, SwitchesFit DEF Settled
<1>8. AllReady'
  <2>1. ASSUME NEW v \in Workers \ {w}
        PROVE  Ready(call'[v], kc'[call'[v].user], torn')
    <3>1. Stage(call[v]) /\ Ready(call[v], kc[call[v].user], torn)
      BY <1>0, CallFacts DEF AllReady
    <3> QED
      BY <1>2, <1>3, <3>1, SwitchesReady
  <2>2. Ready(call'[w], kc'[call'[w].user], torn')
    BY <1>2, <1>4 DEF Ready
  <2>3. \A v \in Workers : Ready(call'[v], kc'[call'[v].user], torn')
    BY <2>1, <2>2
  <2> QED
    BY <2>3 DEF AllReady
<1> QED
  BY <1>5, <1>6, <1>7, <1>8 DEF Appointed

LEMMA FindTenantEnables ==
    ASSUME Inv, NEW w \in Workers, FindTenant(w)
    PROVE  Enabling'
<1>0. Typed /\ AllListed /\ Following
  BY DEF Inv, Enabling
<1>1. PICK d \in CallType : d = call[w]
  BY <1>0, CallFacts
<1>2. PICK c : c = [d EXCEPT !.at = "save", !.image = IF d.kind \in {"rename", "prefs"} THEN row ELSE d.image]
  OBVIOUS
<1>3. UNCHANGED <<row, kc, gap>> /\ d.at = "find" /\ (Ends(w, "find") \/ Moves(w, "find", c))
  BY <1>1, <1>2 DEF FindTenant, Ends, Moves
<1>4. c.at = "save"
  BY <1>2 DEF CallType
<1>5. /\ (call'[w] = Idle \/ call'[w] = c) /\ \A v \in Workers \ {w} : call'[v] = call[v]
  BY <1>0, <1>3, CallFacts DEF Ends, Moves
<1>6. call'[w].at \in {"idle", "save"}
  BY <1>4, <1>5 DEF Idle
<1>7. AllListed'
  <2>1. \A v \in Workers : Listed(call'[v], kc)
    BY <1>0, <1>5, <1>6 DEF AllListed, Listed
  <2> QED
    BY <1>3, <2>1 DEF AllListed
<1>8. Following'
  <2>1. \A v \in Workers, x \in Users : Pending(call[v], x) => Pending(call'[v], x)
    BY <1>1, <1>3, <1>5 DEF Pending
  <2> QED
    BY <1>0, <1>3, <2>1 DEF Following
<1> QED
  BY <1>7, <1>8 DEF Enabling

LEMMA SaveTenantEnables ==
    ASSUME Inv, NEW w \in Workers, SaveTenant(w)
    PROVE  Enabling'
<1>0. Typed /\ AllListed /\ Following
  BY DEF Inv, Enabling
<1>1. PICK d \in CallType : d = call[w] /\ Stage(d)
  BY <1>0, CallFacts
<1>2. kc' = kc /\ row' = Written(d) /\ d.at = "save"
      /\ (IF d.kind \in Toggles THEN Goes(w, "save", "list") ELSE Ends(w, "save"))
      /\ gap' = IF d.kind \in {"rename", "prefs"} /\ row' # row THEN Users ELSE gap
  BY <1>1 DEF SaveTenant, Goes, Ends, Moves
<1>3. \A v \in Workers \ {w} : call'[v] = call[v]
  BY <1>0, <1>2, CallFacts DEF Goes, Ends, Moves
<1>4. call'[w].at # "sync"
  <2>1. CASE Goes(w, "save", "list")
    BY <1>0, <2>1, GoesNext DEF Steps
  <2>2. CASE Ends(w, "save")
    BY <1>0, <2>2, CallFacts DEF Ends, Moves, Idle
  <2> QED
    BY <1>2, <2>1, <2>2
<1>5. AllListed'
  <2>1. \A v \in Workers : Listed(call'[v], kc)
    BY <1>0, <1>3, <1>4 DEF AllListed, Listed
  <2> QED
    BY <1>2, <2>1 DEF AllListed
<1>6. CASE d.kind \in Toggles
  <2>1. call'[w].kind \in Toggles /\ call'[w].at = "list"
    BY <1>0, <1>1, <1>2, <1>6, GoesNext DEF Steps
  <2>2. Following'
    BY <2>1 DEF Following, Pending
  <2> QED
    BY <1>5, <2>2 DEF Enabling
<1>7. CASE d.kind = "remove"
  <2>1. row' = "removed"
    BY <1>2, <1>7 DEF Written
  <2>2. Following'
    BY <2>1 DEF Following, Agrees
  <2> QED
    BY <1>5, <2>2 DEF Enabling
<1>8. CASE d.kind \in {"rename", "prefs"}
  <2>1. CASE row' # row
    BY <1>2, <1>5, <1>8, <2>1 DEF Enabling, Following
  <2>2. CASE row' = row
    <3>1. gap' = gap
      BY <1>2, <2>2
    <3>2. \A v \in Workers, x \in Users : Pending(call[v], x) => Pending(call'[v], x)
      BY <1>1, <1>2, <1>3 DEF Pending
    <3>3. Following'
      BY <1>0, <1>2, <2>2, <3>1, <3>2 DEF Following
    <3> QED
      BY <1>5, <3>3 DEF Enabling
  <2> QED
    BY <2>1, <2>2
<1> QED
  BY <1>1, <1>2, <1>6, <1>7, <1>8 DEF Stage, RowCalls

LEMMA ListUsersEnables ==
    ASSUME Inv, NEW w \in Workers, ListUsers(w)
    PROVE  Enabling'
<1>0. Typed /\ AllListed /\ Following
  BY DEF Inv, Enabling
<1>1. PICK d \in CallType : d = call[w] /\ Stage(d)
  BY <1>0, CallFacts
<1>2. PICK found : found = {u \in Users : Exists(u)}
  OBVIOUS
<1>3. PICK on : on = {u \in found : kc[u].enabled}
  OBVIOUS
<1>4. PICK c : c = [d EXCEPT !.at = "sync", !.left = found, !.on = on]
  OBVIOUS
<1>5. /\ c.kind = d.kind /\ c.at = "sync" /\ c.left = found /\ c.on = on /\ c.solo = d.solo
  BY <1>4 DEF CallType
<1>6. UNCHANGED <<row, kc>> /\ d.at = "list"
      /\ \/ Moves(w, "list", IF found = {} THEN Idle ELSE c) /\ gap' = gap
         \/ Ends(w, "list") /\ gap' = Users
  BY <1>1, <1>2, <1>3, <1>4 DEF ListUsers, Ends, Moves
<1>7. /\ \A v \in Workers \ {w} : call'[v] = call[v]
      /\ \/ call'[w] = Idle /\ found = {} /\ gap' = gap
         \/ call'[w] = c /\ gap' = gap
         \/ call'[w] = Idle /\ gap' = Users
  BY <1>0, <1>6, CallFacts DEF Ends, Moves
<1>8. Idle.at = "idle" /\ Idle.left = {}
  BY DEF Idle
<1>9. d.kind \in Toggles
  BY <1>1, <1>6 DEF Stage
<1>10. AllListed'
  <2>1. Listed(c, kc)
    BY <1>2, <1>3, <1>5 DEF Listed, Exists
  <2>2. Listed(Idle, kc)
    BY <1>8 DEF Listed
  <2>3. \A v \in Workers : Listed(call'[v], kc)
    BY <1>0, <1>7, <2>1, <2>2 DEF AllListed
  <2> QED
    BY <1>6, <2>3 DEF AllListed
<1>11. Following'
  <2>1. SUFFICES ASSUME NEW x \in Users, gap' = gap
                 PROVE  x \in gap \/ Agrees(row, kc[x]) \/ \E v \in Workers : Pending(call'[v], x)
    BY <1>6, <1>7 DEF Following
  <2>2. x \in gap \/ Agrees(row, kc[x]) \/ \E v \in Workers : Pending(call[v], x)
    BY <1>0 DEF Following
  <2>3. CASE x \notin found
    BY <1>2, <2>3 DEF Agrees, Exists
  <2>4. CASE x \in found
    <3>1. CASE call'[w] = c
      BY <1>5, <1>9, <2>4, <3>1 DEF Pending
    <3>2. CASE gap' = Users
      BY <2>1, <3>2
    <3> QED
      BY <1>7, <2>4, <3>1, <3>2
  <2> QED
    BY <2>3, <2>4
<1> QED
  BY <1>10, <1>11 DEF Enabling

LEMMA SyncUserEnables ==
    ASSUME Inv, NEW w \in Workers, NEW u \in Users, SyncUser(w, u)
    PROVE  Enabling'
<1>0. Typed /\ Alone /\ AllListed /\ Following
  BY DEF Inv, Enabling
<1>1. PICK d \in CallType : d = call[w] /\ Stage(d)
  BY <1>0, CallFacts
<1>2. PICK left : left = d.left \ {u}
  OBVIOUS
<1>3. PICK c : c = [d EXCEPT !.left = left]
  OBVIOUS
<1>4. /\ c.kind = d.kind /\ c.at = d.at /\ c.left = left /\ c.on = d.on /\ c.solo = d.solo
  BY <1>3 DEF CallType
<1>5. u \in d.left /\ row' = row /\ d.at = "sync"
      /\ Moves(w, "sync", IF left = {} THEN Idle ELSE c)
  BY <1>1, <1>2, <1>3, <1>4 DEF SyncUser, Moves
<1>6. /\ \A v \in Workers \ {w} : call'[v] = call[v]
      /\ call'[w] = IF left = {} THEN Idle ELSE c
  BY <1>0, <1>5, CallFacts DEF Moves
<1>7. d.kind \in Toggles
  BY <1>1, <1>5 DEF Stage
<1>8. Idle.at = "idle" /\ Idle.kind = None
  BY DEF Idle
<1>9. Switches /\ \A x \in Users \ {u} : kc'[x] = kc[x]
  BY <1>0, SyncUserSwitches
<1>10. \/ gap' = gap \cup {u}
       \/ /\ d.solo /\ row = Written(d) /\ gap' = gap \ {u}
          /\ Exists(u) => /\ (u \in d.on <=> kc[u].enabled) => (kc'[u].enabled <=> d.kind = "activate")
                          /\ d.kind # "activate" => ~kc'[u].sso
  BY <1>0, <1>1, SyncUserSwitches
<1>11. Listed(d, kc)
  BY <1>0, <1>1 DEF AllListed
<1>12. kc' \in [Users -> Account] /\ (\A x \in Users : kc'[x].known = kc[x].known)
  BY <1>9 DEF Switches
<1>13. \A v \in Workers \ {w} : call[v].kind \in Toggles => ~call[v].solo
  BY <1>0, <1>1, <1>7 DEF Alone, Same
<1>14. \A v \in Workers : call[v] \in CallType /\ Stage(call[v])
  BY <1>0, CallFacts
<1>15. AllListed'
  <2>1. ASSUME NEW v \in Workers \ {w}
        PROVE  Listed(call[v], kc')
    <3>1. SUFFICES ASSUME call[v].at = "sync"
                   PROVE  Listed(call[v], kc')
      BY DEF Listed
    <3>2. ~call[v].solo
      BY <1>13, <1>14, <3>1 DEF Stage
    <3>3. \A x \in call[v].left : x \in Users /\ kc[x].known # "unborn"
      BY <1>0, <1>14, <3>1 DEF AllListed, Listed, CallType
    <3> QED
      BY <1>12, <3>2, <3>3 DEF Listed
  <2>2. Listed(c, kc')
    <3>1. \A x \in left : x \in Users \ {u}
      BY <1>2 DEF CallType
    <3>2. \A x \in left : kc'[x] = kc[x]
      BY <1>9, <3>1
    <3> QED
      BY <1>2, <1>4, <1>5, <1>11, <3>2 DEF Listed
  <2>3. Listed(Idle, kc')
    BY <1>8 DEF Listed
  <2>4. \A v \in Workers : Listed(call'[v], kc')
    BY <1>6, <2>1, <2>2, <2>3
  <2> QED
    BY <2>4 DEF AllListed
<1>16. Following'
  <2>1. SUFFICES ASSUME NEW x \in Users
                 PROVE  x \in gap' \/ Agrees(row, kc'[x]) \/ \E v \in Workers : Pending(call'[v], x)
    BY <1>5 DEF Following
  <2>2. x \in gap \/ Agrees(row, kc[x]) \/ \E v \in Workers : Pending(call[v], x)
    BY <1>0 DEF Following
  <2>3. CASE x = u
    <3>1. CASE gap' = gap \cup {u}
      BY <2>3, <3>1
    <3>2. CASE /\ d.solo /\ row = Written(d) /\ gap' = gap \ {u}
               /\ Exists(u) => /\ (u \in d.on <=> kc[u].enabled) => (kc'[u].enabled <=> d.kind = "activate")
                               /\ d.kind # "activate" => ~kc'[u].sso
      <4>1. Exists(u) => (u \in d.on <=> kc[u].enabled)
        BY <1>5, <1>11, <3>2 DEF Listed, Exists
      <4>2. Exists(u) => (kc'[u].enabled <=> d.kind = "activate") /\ (d.kind # "activate" => ~kc'[u].sso)
        BY <3>2, <4>1
      <4>3. kc'[u].known = "yes" => Exists(u)
        BY <1>12 DEF Exists
      <4>4. (d.kind = "activate" /\ row = "active") \/ (d.kind = "deactivate" /\ row = "inactive")
        BY <1>7, <3>2 DEF Toggles, Written
      <4>5. Agrees(row, kc'[u])
        BY <4>2, <4>3, <4>4 DEF Agrees
      <4> QED
        BY <2>3, <4>5
    <3> QED
      BY <1>10, <3>1, <3>2
  <2>4. CASE x # u
    <3>1. kc'[x] = kc[x] /\ (x \in gap => x \in gap')
      BY <1>9, <1>10, <2>4
    <3>2. Pending(call[w], x) => call'[w] = c /\ Pending(c, x)
      BY <1>1, <1>2, <1>4, <1>5, <1>6, <2>4 DEF Pending
    <3>3. \A v \in Workers : Pending(call[v], x) => Pending(call'[v], x)
      BY <1>6, <3>2
    <3> QED
      BY <2>2, <3>1, <3>3
  <2> QED
    BY <2>3, <2>4
<1> QED
  BY <1>15, <1>16 DEF Enabling

LEMMA TenantStepInv ==
    ASSUME Inv, NEW w \in Workers, TenantStep(w)
    PROVE  Inv'
<1>1. Typed' /\ Alone' /\ Appointed'
  BY TenantStepAppoints
<1>2. Enabling'
  BY FindTenantEnables, SaveTenantEnables, ListUsersEnables, SyncUserEnables DEF TenantStep
<1> QED
  BY <1>1, <1>2 DEF Inv

-----------------------------------------------------------------------------

(* A crash leaves no call, and what the calls had not done is in the gaps. *)

LEMMA CrashSwitches ==
    ASSUME Typed, Crash
    PROVE  /\ Switches /\ row' = row /\ web' = web /\ BudgetOK /\ call' = [w \in Workers |-> Idle]
           /\ gap \subseteq gap' /\ gap' \subseteq Users
           /\ \A x \in Users : kc'[x] = kc[x] \/ x \in gap'
           /\ \A w \in Workers : Unswitched(w) \subseteq gap'
<1>1. kc \in [Users -> Account] /\ gap \subseteq Users
  BY CallFacts
<1>2. /\ row' = row /\ web' = web /\ call' = [w \in Workers |-> Idle] /\ Fault
      /\ gap' = gap \cup UNION {Unswitched(w) : w \in Workers}
  BY DEF Crash
<1>3. BudgetOK
  BY <1>2, FaultBudget
<1>4. ASSUME NEW w \in Workers
      PROVE  Unswitched(w) \subseteq Users /\ Unswitched(w) \subseteq gap'
  <2>1. call[w].left \subseteq Users
    BY CallFacts DEF CallType
  <2>2. Unswitched(w) \subseteq Users
    BY <2>1 DEF Unswitched
  <2> QED
    BY <1>2, <2>2
<1>5. gap \subseteq gap' /\ gap' \subseteq Users
  BY <1>1, <1>2, <1>4
<1>6. PICK half \in [Workers -> Users \cup {None}] :
          /\ \A w \in Workers : half[w] \in HalfSwitched(w)
          /\ kc' = [u \in Users |-> IF \E w \in Workers : half[w] = u
                                    THEN [kc[u] EXCEPT !.enabled = FALSE] ELSE kc[u]]
  BY DEF Crash
<1>7. ASSUME NEW x \in Users
      PROVE  /\ kc'[x] \in Account /\ kc'[x].known = kc[x].known
             /\ Exists(x) => kc'[x].role = kc[x].role /\ kc'[x].mapped = kc[x].mapped
             /\ kc'[x] = kc[x] \/ x \in gap'
  <2>1. CASE \E w \in Workers : half[w] = x
    <3>1. PICK w \in Workers : half[w] = x
      BY <2>1
    <3>2. x \in HalfSwitched(w) /\ x # None
      BY <1>6, <3>1
    <3>3. x \in Unswitched(w) /\ Exists(x)
      BY <3>2 DEF HalfSwitched
    <3>4. PICK a \in Account : a = kc[x] /\ a.known = "yes"
      BY <1>1, <3>3 DEF Exists
    <3>5. PICK b \in Account :
              /\ b = [a EXCEPT !.enabled = FALSE]
              /\ b.known = "yes" /\ b.role = a.role /\ b.mapped = a.mapped
      BY <3>4, EnableAccount
    <3>6. kc'[x] = b
      BY <1>6, <2>1, <3>4, <3>5
    <3> QED
      BY <1>4, <3>3, <3>4, <3>5, <3>6
  <2>2. CASE ~ \E w \in Workers : half[w] = x
    BY <1>1, <1>6, <2>2
  <2> QED
    BY <2>1, <2>2
<1>8. Switches
  <2>1. kc' = [u \in Users |-> kc'[u]]
    BY <1>6
  <2> QED
    BY <1>7, <2>1 DEF Switches
<1> QED
  BY <1>2, <1>3, <1>4, <1>5, <1>7, <1>8

LEMMA CrashInv ==
    ASSUME Inv, Crash
    PROVE  Inv'
<1>0. Typed /\ Following /\ Settled /\ AllReady
  BY DEF Inv, Enabling, Appointed
<1>1. /\ Switches /\ row' = row /\ web' = web /\ BudgetOK /\ call' = [w \in Workers |-> Idle]
      /\ gap \subseteq gap' /\ gap' \subseteq Users
      /\ \A x \in Users : kc'[x] = kc[x] \/ x \in gap'
      /\ \A w \in Workers : Unswitched(w) \subseteq gap'
  BY <1>0, CrashSwitches
<1>2. (\A w \in Workers : call'[w] = Idle) /\ Idle.kind = None /\ Idle.at = "idle"
  BY <1>1 DEF Idle
<1>3. torn' = torn \cup {call[w].user : w \in {v \in InFlight(UserCalls) : HalfChanged(v)}}
  BY DEF Crash
<1>4. torn' \subseteq Users
  <2>1. \A w \in InFlight(UserCalls) : call[w].user \in Users
    BY <1>0, CallFacts DEF InFlight, Stage
  <2>2. torn \subseteq Users
    BY <1>0, CallFacts
  <2> QED
    BY <1>3, <2>1, <2>2
<1>5. Typed'
  <2>1. kc' \in [Users -> Account]
    BY <1>1 DEF Switches
  <2>2. call' \in [Workers -> CallType] /\ \A w \in Workers : Stage(call'[w])
    BY <1>1, <1>2, IdleType
  <2> QED
    BY <1>0, <1>1, <1>4, <2>1, <2>2, CallFacts DEF Typed, TypeOK, CallType, BudgetOK
<1>6. Alone'
  BY <1>2 DEF Alone, Same, Toggles, UserCalls, RowCalls
<1>7. AllListed' /\ AllReady'
  BY <1>2 DEF AllListed, Listed, AllReady, Ready, UserCalls, RowCalls
<1>8. Following'
  <2>1. SUFFICES ASSUME NEW x \in Users, x \notin gap'
                 PROVE  Agrees(row', kc'[x])
    BY DEF Following
  <2>2. kc'[x] = kc[x] /\ x \notin gap /\ row' = row
    BY <1>1, <2>1
  <2>3. \A w \in Workers : ~Pending(call[w], x)
    BY <1>1, <2>1 DEF Pending, Unswitched
  <2> QED
    BY <1>0, <2>2, <2>3 DEF Following
<1>9. Settled'
  <2>1. SUFFICES ASSUME NEW x \in Users, x \notin torn'
                 PROVE  Fits(kc'[x])
    BY DEF Settled
  <2>2. x \notin torn
    BY <1>3, <2>1
  <2>3. ASSUME NEW w \in Workers, call[w].kind \in UserCalls, call[w].user = x
        PROVE  Fits(kc[x])
    <3>1. ~HalfChanged(w)
      BY <1>3, <2>1, <2>3 DEF InFlight
    <3>2. call[w].solo /\ call[w].at \in {"find", "create", "put", "del"}
      BY <1>0, <2>3, <3>1, CallFacts DEF HalfChanged, Stage
    <3> QED
      BY <1>0, <2>2, <2>3, <3>2 DEF AllReady, Ready
  <2>4. Fits(kc[x])
    BY <1>0, <2>2, <2>3 DEF Settled
  <2> QED
    BY <1>1, <2>4, SwitchesFit
<1> QED
  BY <1>5, <1>6, <1>7, <1>8, <1>9 DEF Inv, Enabling, Appointed

-----------------------------------------------------------------------------

LEMMA InitInv == Init => Inv
<1> SUFFICES ASSUME Init
             PROVE  Inv
  OBVIOUS
<1>1. /\ row = "active" /\ calls = 0 /\ faults = 0 /\ gap = {} /\ torn = {}
      /\ web = [u \in Users |-> SignedOut] /\ call = [w \in Workers |-> Idle]
      /\ kc \in [Users -> {NoAccount} \cup
                    {[known |-> "yes", enabled |-> TRUE, role |-> r, mapped |-> Effective(r),
                      sso |-> FALSE] : r \in Roles}]
  BY DEF Init
<1>2. \A r \in Roles :
          [known |-> "yes", enabled |-> TRUE, role |-> r, mapped |-> Effective(r), sso |-> FALSE]
              \in Account
  BY RoleFacts, AccountMade
<1>3. kc \in [Users -> Account]
  <2>1. NoAccount \in Account
    BY DEF Account
  <2>2. {[known |-> "yes", enabled |-> TRUE, role |-> r, mapped |-> Effective(r), sso |-> FALSE] :
            r \in Roles} \subseteq Account
    BY <1>2
  <2>3. \A u \in Users : kc[u] \in Account
    BY <1>1, <2>1, <2>2, Zenon
  <2> QED
    BY <1>1, <2>3, Zenon
<1>4. \A u \in Users : Fits(kc[u])
  BY <1>1 DEF Fits, NoAccount
<1>5. Typed
  BY <1>1, <1>3, IdleType, SignedOutBrowser DEF Typed, TypeOK, CallType, TenantStatus
<1>6. \A w \in Workers : call[w] = Idle
  BY <1>1
<1>7. Idle.kind = None /\ Idle.at = "idle"
  BY DEF Idle
<1>8. Alone
  BY <1>6, <1>7 DEF Alone, Same, Toggles, UserCalls, RowCalls
<1>9. Enabling
  <2>1. \A u \in Users : kc[u].known = "yes" => kc[u].enabled
    BY <1>1 DEF NoAccount
  <2> QED
    BY <1>1, <1>6, <1>7, <2>1 DEF Enabling, AllListed, Listed, Following, Agrees
<1>10. Appointed
  BY <1>4, <1>6, <1>7 DEF Appointed, Settled, AllReady, Ready, UserCalls, RowCalls
<1> QED
  BY <1>5, <1>8, <1>9, <1>10 DEF Inv

LEMMA StutterInv ==
    ASSUME Inv, UNCHANGED vars
    PROVE  Inv'
<1>1. /\ row' = row /\ kc' = kc /\ web' = web /\ call' = call /\ calls' = calls
      /\ faults' = faults /\ gap' = gap /\ torn' = torn
  BY DEF vars
<1>2. Typed' /\ Alone'
  BY <1>1 DEF Inv, Typed, TypeOK, Alone
<1>3. Enabling'
  BY <1>1 DEF Inv, Enabling, AllListed, Following
<1>4. Appointed'
  BY <1>1 DEF Inv, Appointed, Settled, AllReady
<1> QED
  BY <1>2, <1>3, <1>4 DEF Inv

LEMMA NextInv == Inv /\ [Next]_vars => Inv'
<1> SUFFICES ASSUME Inv, [Next]_vars
             PROVE  Inv'
  OBVIOUS
<1>1. CASE Request
  BY <1>1, RequestBegins, BeginInv
<1>2. CASE \E w \in Workers : TenantStep(w) \/ UserStep(w)
  BY <1>2, TenantStepInv, UserStepInv
<1>3. CASE \E u \in Users : Surf(u)
  BY <1>3, SurfInv
<1>4. CASE UNCHANGED vars
  BY <1>4, StutterInv
<1>5. CASE Crash
  BY <1>5, CrashInv
<1> QED
  BY <1>1, <1>2, <1>3, <1>4, <1>5 DEF Next

\* With no toggle in flight nothing is pending, and with no call about a user
\* nothing is under way for that user.
LEMMA InvFollows == Inv => AccountsFollowRow
<1> SUFFICES ASSUME Inv
             PROVE  AccountsFollowRow
  OBVIOUS
<1>1. ASSUME InFlight(Toggles) = {}, NEW u \in Users \ gap, Exists(u)
      PROVE  /\ row = "inactive" => ~kc[u].enabled /\ ~kc[u].sso
             /\ row = "active" => kc[u].enabled
  <2>1. \A w \in Workers : ~Pending(call[w], u)
    BY <1>1 DEF InFlight, Pending
  <2>2. Agrees(row, kc[u])
    BY <1>1, <2>1 DEF Inv, Enabling, Following
  <2> QED
    BY <1>1, <2>2 DEF Agrees, Exists
<1>2. DeactivatedIsShutOut /\ ActiveIsLetIn
  BY <1>1 DEF DeactivatedIsShutOut, ActiveIsLetIn
<1>3. RolesMatchProfile
  BY DEF Inv, Appointed, Settled, Fits, RolesMatchProfile, About, InFlight, Exists
<1> QED
  BY <1>2, <1>3 DEF Inv, Typed, AccountsFollowRow

\* For any number of users, roles, calls in flight and crashes: once the toggles are
\* over a user of an inactive tenant is disabled and signed out at Keycloak and one
\* of an active tenant is enabled, but for the named gaps, and a user no call is
\* about has exactly the realm roles of the profile, but for the calls that
\* overlapped, failed or were cut short half way
\* (TenantService.update, KeycloakService.setTenantUsersEnabled,
\* UserService.inviteUser, updateUser and deleteUser).
THEOREM AccountsAlwaysFollowRow == Spec => []AccountsFollowRow
<1>1. Init /\ [][Next]_vars => []Inv
  BY InitInv, NextInv, PTL
<1>2. Inv => AccountsFollowRow
  BY InvFollows
<1> QED
  BY <1>1, <1>2, PTL DEF Spec

HIDE AccessAssumption

-----------------------------------------------------------------------------
(* The reports.  Sums of the values of a function.                         *)

\* SumFunction is a sum as Sums has it.
LEMMA SumIs ==
    ASSUME NEW K, IsFiniteSet(K), NEW f \in [K -> Nat]
    PROVE  IsSum(SumFunction(f), f, K)
<1> DEFINE Parts == SUBSET K
           Body(h) == [s \in Parts |-> IF s = Empty THEN 0 ELSE f[Some(s)] + h[Less(s)]]
           g == CHOOSE h : h = Body(h)
<1>1. DOMAIN f = K
  OBVIOUS
<1>2. SumFunction(f) = g[K]
  BY <1>1, Zenon DEF SumFunction, SumFunctionOnSet, FoldFunctionOnSet, MapThenFoldSet, Some, Less, Empty
<1>3. PICK h : Folds(f, h, Parts)
  BY FoldExists
<1> HIDE DEF Parts
<1>4. h = Body(h)
  BY <1>3 DEF Folds
<1>5. g = Body(g)
  <2> HIDE DEF Body
  <2> QED
    BY <1>4
<1> HIDE DEF g
<1>6. Folds(f, g, Parts)
  BY <1>5 DEF Folds
<1> QED
  BY <1>2, <1>6 DEF IsSum, Parts

LEMMA SumNat ==
    ASSUME NEW K, IsFiniteSet(K), NEW f \in [K -> Nat]
    PROVE  SumFunction(f) \in Nat
<1>1. IsSum(SumFunction(f), f, K)
  BY SumIs
<1>2. \A k \in K : f[k] \in Nat
  OBVIOUS
<1> QED
  BY <1>1, <1>2, SumIsNat

LEMMA SumUnique ==
    ASSUME NEW K, IsFiniteSet(K), NEW c, NEW d, \A k \in K : c[k] \in Nat /\ d[k] = c[k],
           NEW n, IsSum(n, c, K), NEW m, IsSum(m, d, K)
    PROVE  n = m
<1>1. n \in Nat /\ m \in Nat
  BY SumIsNat
<1>2. n <= m /\ m <= n
  BY SumOfNoMore
<1> QED
  BY <1>1, <1>2

LEMMA SumNone ==
    ASSUME NEW f \in [{} -> Nat]
    PROVE  SumFunction(f) = 0
<1>1. IsFiniteSet({}) /\ IsSum(SumFunction(f), f, {})
  BY FS_EmptySet, SumIs
<1> QED
  BY <1>1, SumOfZeros

\* One term, whichever, and the rest.
LEMMA SumStep ==
    ASSUME NEW K, IsFiniteSet(K), NEW f \in [K -> Nat], NEW k \in K
    PROVE  SumFunction(f) = f[k] + SumFunction([x \in K \ {k} |-> f[x]])
<1> DEFINE A == K \ {k}
           h == [x \in A |-> f[x]]
<1>1. PICK r \in Nat : SumFunction(f) = f[k] + r /\ IsSum(r, f, A)
  <2>1. \A l \in K : f[l] \in Nat
    OBVIOUS
  <2> QED
    BY <2>1, SumIs, SumSplit
<1>2. IsFiniteSet(A) /\ h \in [A -> Nat] /\ \A l \in A : f[l] \in Nat /\ h[l] = f[l]
  BY FS_Subset
<1>3. IsSum(SumFunction(h), h, A)
  BY <1>2, SumIs
<1> HIDE DEF A, h
<1>4. r = SumFunction(h)
  BY <1>1, <1>2, <1>3, SumUnique
<1> QED
  BY <1>1, <1>4 DEF A, h

LEMMA SumLeq ==
    ASSUME NEW K, IsFiniteSet(K), NEW f \in [K -> Nat], NEW g \in [K -> Nat],
           \A k \in K : f[k] <= g[k]
    PROVE  SumFunction(f) <= SumFunction(g)
<1>1. IsSum(SumFunction(f), f, K) /\ IsSum(SumFunction(g), g, K)
  BY SumIs
<1>2. \A k \in K : f[k] \in Nat /\ g[k] \in Nat /\ f[k] <= g[k]
  OBVIOUS
<1> QED
  BY <1>1, <1>2, SumOfNoMore

\* If no term exceeds its counterpart, the sums are equal when all terms are.
LEMMA SumSame ==
    ASSUME NEW K, IsFiniteSet(K), NEW f \in [K -> Nat], NEW g \in [K -> Nat],
           \A k \in K : f[k] <= g[k]
    PROVE  SumFunction(f) = SumFunction(g) <=> \A k \in K : f[k] = g[k]
<1>1. ASSUME \A k \in K : f[k] = g[k]
      PROVE  SumFunction(f) = SumFunction(g)
  <2>1. f = g
    BY <1>1
  <2> QED
    BY <2>1
<1>2. ASSUME SumFunction(f) = SumFunction(g), NEW k \in K
      PROVE  f[k] = g[k]
  <2> DEFINE A == K \ {k}
             r == SumFunction([x \in A |-> f[x]])
             q == SumFunction([x \in A |-> g[x]])
  <2>1. SumFunction(f) = f[k] + r /\ SumFunction(g) = g[k] + q
    BY SumStep
  <2>2. IsFiniteSet(A) /\ [x \in A |-> f[x]] \in [A -> Nat] /\ [x \in A |-> g[x]] \in [A -> Nat]
    BY FS_Subset
  <2>3. r \in Nat /\ q \in Nat
    BY <2>2, SumNat
  <2>4. r <= q
    <3>1. \A x \in A : [y \in A |-> f[y]][x] <= [y \in A |-> g[y]][x]
      OBVIOUS
    <3> QED
      BY <2>2, <3>1, SumLeq
  <2> HIDE DEF r, q
  <2>5. f[k] \in Nat /\ g[k] \in Nat /\ f[k] <= g[k]
    OBVIOUS
  <2> QED
    BY <2>1, <2>3, <2>4, <2>5, <1>2
<1> QED
  BY <1>1, <1>2

\* What a function adds up to on a part of its domain.
On(f, A) == SumFunction([x \in A |-> f[x]])

LEMMA OnPart ==
    ASSUME NEW K, IsFiniteSet(K), NEW f, \A k \in K : f[k] \in Nat
    PROVE  /\ On(f, {}) = 0
           /\ \A A \in SUBSET K : On(f, A) \in Nat
           /\ \A A \in SUBSET K : \A a \in A : On(f, A) = f[a] + On(f, A \ {a})
<1>1. On(f, {}) = 0
  <2>1. [x \in {} |-> f[x]] \in [{} -> Nat]
    OBVIOUS
  <2> QED
    BY <2>1, SumNone DEF On
<1>2. ASSUME NEW A \in SUBSET K
      PROVE  On(f, A) \in Nat /\ \A a \in A : On(f, A) = f[a] + On(f, A \ {a})
  <2> DEFINE e == [x \in A |-> f[x]]
  <2>1. IsFiniteSet(A) /\ e \in [A -> Nat]
    BY FS_Subset
  <2>2. SumFunction(e) \in Nat
    BY <2>1, SumNat
  <2>3. ASSUME NEW a \in A
        PROVE  SumFunction(e) = f[a] + SumFunction([x \in A \ {a} |-> f[x]])
    <3>1. SumFunction(e) = e[a] + SumFunction([x \in A \ {a} |-> e[x]])
      <4> HIDE DEF e
      <4> QED
        BY <2>1, SumStep
    <3>2. [x \in A \ {a} |-> e[x]] = [x \in A \ {a} |-> f[x]] /\ e[a] = f[a]
      OBVIOUS
    <3> HIDE DEF e
    <3> QED
      BY <3>1, <3>2
  <2> QED
    BY <2>2, <2>3 DEF On
<1> QED
  BY <1>1, <1>2

LEMMA OnStep ==
    ASSUME NEW K, IsFiniteSet(K), NEW f, \A k \in K : f[k] \in Nat,
           NEW A \in SUBSET K, NEW a \in A
    PROVE  On(f, A) = f[a] + On(f, A \ {a})
BY OnPart

LEMMA OnAll ==
    ASSUME NEW K, NEW f, f = [x \in K |-> f[x]]
    PROVE  On(f, K) = SumFunction(f)
BY DEF On

\* Induction over the parts of a finite set, one element more at a time.
LEMMA PartsIn ==
    ASSUME NEW K, IsFiniteSet(K), NEW G, {} \in G,
           \A A \in SUBSET K : \A a \in K \ A : A \in G => A \cup {a} \in G
    PROVE  K \in G
<1>1. Empty \in G
  BY DEF Empty
<1>2. ASSUME NEW s \in SUBSET K, s # Empty, Less(s) \in G
      PROVE  s \in G
  <2>1. PICK k : k = Some(s)
    OBVIOUS
  <2>2. k \in s /\ Less(s) = s \ {k} /\ Less(s) \in SUBSET K
    BY <1>2, <2>1, LessIs DEF Less
  <2>3. k \in K \ Less(s) /\ Less(s) \cup {k} = s
    BY <2>2
  <2> QED
    BY <1>2, <2>2, <2>3
<1> QED
  BY <1>1, <1>2, SubsetsIn

LEMMA SumPlus ==
    ASSUME NEW K, IsFiniteSet(K), NEW f \in [K -> Nat], NEW g \in [K -> Nat], NEW h \in [K -> Nat],
           \A k \in K : h[k] = f[k] + g[k]
    PROVE  SumFunction(h) = SumFunction(f) + SumFunction(g)
<1> DEFINE G == {A \in SUBSET K : On(h, A) = On(f, A) + On(g, A)}
<1>1. {} \in G
  BY OnPart
<1>2. ASSUME NEW A \in SUBSET K, NEW a \in K \ A, A \in G
      PROVE  A \cup {a} \in G
  <2>1. PICK B \in SUBSET K : B = A \cup {a}
    OBVIOUS
  <2>2. a \in B /\ B \ {a} = A
    BY <2>1
  <2>3. On(f, B) = f[a] + On(f, A) /\ On(f, A) \in Nat
    BY <2>2, OnPart
  <2>4. On(g, B) = g[a] + On(g, A) /\ On(g, A) \in Nat
    BY <2>2, OnPart
  <2>5. On(h, B) = h[a] + On(h, A) /\ On(h, A) \in Nat
    BY <2>2, OnPart
  <2>6. h[a] = f[a] + g[a] /\ f[a] \in Nat /\ g[a] \in Nat /\ On(h, A) = On(f, A) + On(g, A)
    BY <1>2
  <2> QED
    BY <2>1, <2>3, <2>4, <2>5, <2>6
<1>3. K \in G
  <2> HIDE DEF G
  <2> QED
    BY <1>1, <1>2, PartsIn
<1>4. On(f, K) = SumFunction(f) /\ On(g, K) = SumFunction(g) /\ On(h, K) = SumFunction(h)
  BY OnAll
<1> QED
  BY <1>3, <1>4

LEMMA SumOfOnes ==
    ASSUME NEW K, IsFiniteSet(K)
    PROVE  SumFunction([x \in K |-> 1]) = Cardinality(K)
<1> DEFINE e == [x \in K |-> 1]
           G == {A \in SUBSET K : On(e, A) = Cardinality(A)}
<1>1. (\A k \in K : e[k] = 1) /\ (\A k \in K : e[k] \in Nat) /\ On(e, K) = SumFunction(e)
  BY OnAll
<1> HIDE DEF e
<1>2. {} \in G
  BY <1>1, OnPart, FS_EmptySet
<1>3. ASSUME NEW A \in SUBSET K, NEW a \in K \ A, A \in G
      PROVE  A \cup {a} \in G
  <2>1. PICK B \in SUBSET K : B = A \cup {a}
    OBVIOUS
  <2>2. a \in B /\ B \ {a} = A
    BY <2>1
  <2>3. On(e, B) = e[a] + On(e, A)
    BY <1>1, <2>2, OnPart
  <2>4. e[a] = 1 /\ On(e, A) = Cardinality(A)
    BY <1>1, <1>3
  <2>5. IsFiniteSet(A) /\ Cardinality(A) \in Nat
    BY FS_Subset, FS_CardinalityType
  <2>6. Cardinality(B) = Cardinality(A) + 1
    BY <2>1, <2>5, FS_AddElement
  <2> QED
    BY <2>1, <2>3, <2>4, <2>5, <2>6
<1>4. K \in G
  <2> HIDE DEF G
  <2> QED
    BY <1>2, <1>3, PartsIn
<1> QED
  BY <1>1, <1>4 DEF e

LEMMA SumOfNothing ==
    ASSUME NEW K, IsFiniteSet(K), NEW f \in [K -> Nat], \A k \in K : f[k] = 0
    PROVE  SumFunction(f) = 0
BY SumIs, SumOfZeros

LEMMA SumOfOne ==
    ASSUME NEW K, IsFiniteSet(K), NEW f \in [K -> Nat], NEW k, \A x \in K : x # k => f[x] = 0
    PROVE  SumFunction(f) = IF k \in K THEN f[k] ELSE 0
<1>1. CASE k \in K
  <2> DEFINE A == K \ {k}
             e == [x \in A |-> f[x]]
  <2>1. On(f, K) = f[k] + On(f, A)
    BY <1>1, OnPart
  <2>2. IsFiniteSet(A) /\ e \in [A -> Nat] /\ \A x \in A : e[x] = 0
    BY FS_Subset
  <2>3. SumFunction(e) = 0
    <3> HIDE DEF e, A
    <3> QED
      BY <2>2, SumOfNothing
  <2>4. On(f, A) = 0
    BY <2>3 DEF On
  <2>5. f[k] \in Nat /\ On(f, K) = SumFunction(f)
    BY <1>1, OnAll
  <2> QED
    BY <1>1, <2>1, <2>4, <2>5
<1>2. CASE k \notin K
  BY <1>2, SumOfNothing
<1> QED
  BY <1>1, <1>2

\* A table J[x][k] added up by keys, where key k has entries on T[k] only, and by elements.
KeySums(J, T, K) == [k \in K |-> SumFunction([x \in T[k] |-> J[x][k]])]
ElementSums(J, S) == [x \in S |-> SumFunction(J[x])]

LEMMA SumSwap ==
    ASSUME NEW S, IsFiniteSet(S), NEW K, IsFiniteSet(K),
           NEW J \in [S -> [K -> Nat]], NEW T \in [K -> SUBSET S],
           \A x \in S, k \in K : x \notin T[k] => J[x][k] = 0
    PROVE  SumFunction(KeySums(J, T, K)) = SumFunction(ElementSums(J, S))
<1> DEFINE col == [k \in K |-> [x \in S |-> J[x][k]]]
           tot == [x \in S |-> SumFunction(J[x])]
           Row(A) == [k \in K |-> On(col[k], T[k] \cap A)]
           G == {A \in SUBSET S : SumFunction(Row(A)) = On(tot, A)}
<1>1. \A k \in K, x \in S : col[k][x] = J[x][k] /\ col[k][x] \in Nat
  OBVIOUS
<1>2. \A x \in S : tot[x] = SumFunction(J[x]) /\ tot[x] \in Nat
  BY SumNat
<1>3. On(tot, S) = SumFunction(tot)
  BY OnAll
<1>4. [k \in K |-> SumFunction([x \in T[k] |-> J[x][k]])] = Row(S)
  <2>1. ASSUME NEW k \in K
        PROVE  SumFunction([x \in T[k] |-> J[x][k]]) = On(col[k], T[k] \cap S)
    <3>1. T[k] \cap S = T[k] /\ [x \in T[k] |-> J[x][k]] = [x \in T[k] |-> col[k][x]]
      OBVIOUS
    <3> HIDE DEF col
    <3> QED
      BY <3>1 DEF On
  <2> QED
    BY <2>1
<1> HIDE DEF col, tot
<1>5. \A A \in SUBSET S : Row(A) \in [K -> Nat]
  <2> SUFFICES ASSUME NEW A \in SUBSET S, NEW k \in K
               PROVE  On(col[k], T[k] \cap A) \in Nat
    OBVIOUS
  <2>1. T[k] \cap A \in SUBSET S /\ \A x \in S : col[k][x] \in Nat
    BY <1>1
  <2> QED
    BY <2>1, OnPart
<1>6. {} \in G
  <2>1. \A k \in K : Row({})[k] = 0
    <3> SUFFICES ASSUME NEW k \in K
                 PROVE  On(col[k], {}) = 0
      OBVIOUS
    <3> QED
      BY <1>1, OnPart
  <2>2. Row({}) \in [K -> Nat]
    BY <1>5
  <2> HIDE DEF Row
  <2>3. SumFunction(Row({})) = 0
    BY <2>1, <2>2, SumOfNothing
  <2>4. On(tot, {}) = 0
    BY <1>2, OnPart
  <2> QED
    BY <2>3, <2>4
<1>7. ASSUME NEW A \in SUBSET S, NEW a \in S \ A, A \in G
      PROVE  A \cup {a} \in G
  <2>1. PICK B \in SUBSET S : B = A \cup {a}
    OBVIOUS
  <2>2. a \in B /\ B \ {a} = A
    BY <2>1
  <2>3. On(tot, B) = SumFunction(J[a]) + On(tot, A)
    <3>1. \A x \in S : tot[x] \in Nat
      BY <1>2
    <3>2. On(tot, B) = tot[a] + On(tot, B \ {a})
      <4>1. IsFiniteSet(S) /\ B \in SUBSET S
        OBVIOUS
      <4> QED
        BY ONLY <2>2, <3>1, <4>1, OnStep, SMTT(40)
    <3>3. tot[a] = SumFunction(J[a])
      BY <1>2
    <3> QED
      BY <2>2, <3>2, <3>3
  <2>4. ASSUME NEW k \in K
        PROVE  On(col[k], T[k] \cap B) = J[a][k] + On(col[k], T[k] \cap A)
    <3>1. PICK C, D, e : C = T[k] \cap B /\ D = T[k] \cap A /\ e = col[k]
      OBVIOUS
    <3>2. C \in SUBSET S /\ D \in SUBSET S /\ \A x \in S : e[x] \in Nat
      BY <1>1, <3>1
    <3>3. CASE a \in T[k]
      <4>1. a \in C /\ C \ {a} = D /\ e[a] = J[a][k]
        BY <1>1, <2>2, <3>1, <3>3
      <4>2. On(e, C) = e[a] + On(e, C \ {a})
        <5>1. IsFiniteSet(S) /\ C \in SUBSET S /\ \A x \in S : e[x] \in Nat
          BY <3>2
        <5>2. a \in C
          BY <4>1
        <5> QED
          BY ONLY <5>1, <5>2, OnStep, SMTT(40)
      <4> QED
        BY ONLY <3>1, <4>1, <4>2
    <3>4. CASE a \notin T[k]
      <4>1. C = D /\ J[a][k] = 0
        BY <2>1, <3>1, <3>4
      <4>2. On(e, D) \in Nat
        BY <3>2, OnPart
      <4>3. On(e, C) = 0 + On(e, D)
        BY <4>1, <4>2
      <4> QED
        BY <3>1, <4>1, <4>3, Zenon
    <3> QED
      BY <3>3, <3>4
  <2>5. PICK f, g, h : f = J[a] /\ g = Row(A) /\ h = Row(B)
    OBVIOUS
  <2>6. f \in [K -> Nat] /\ g \in [K -> Nat] /\ h \in [K -> Nat]
    BY <1>5, <2>5
  <2>7. \A k \in K : h[k] = f[k] + g[k]
    BY <2>4, <2>5
  <2>8. SumFunction(h) = SumFunction(f) + SumFunction(g)
    BY <2>6, <2>7, SumPlus
  <2>9. SumFunction(g) = On(tot, A)
    BY <1>7, <2>5
  <2> QED
    BY <2>1, <2>3, <2>5, <2>8, <2>9
<1>8. S \in G
  <2> HIDE DEF G
  <2> QED
    BY <1>6, <1>7, PartsIn
<1> QED
  BY <1>3, <1>4, <1>8 DEF tot, KeySums, ElementSums

\* Terms grouped by a key that may not be in K.
LEMMA SumByKey ==
    ASSUME NEW S, IsFiniteSet(S), NEW K, IsFiniteSet(K), NEW f \in [S -> Nat], NEW g,
           NEW T \in [K -> SUBSET S], \A k \in K : T[k] = {y \in S : g[y] = k}
    PROVE  LET rows == [k \in K |-> SumFunction([x \in T[k] |-> f[x]])]
           IN  /\ rows \in [K -> Nat]
               /\ SumFunction(rows) <= SumFunction(f)
               /\ (\A x \in S : g[x] \in K) => SumFunction(rows) = SumFunction(f)
<1> DEFINE rows == [k \in K |-> SumFunction([x \in T[k] |-> f[x]])]
           J == [x \in S |-> [k \in K |-> IF g[x] = k THEN f[x] ELSE 0]]
           tot == [x \in S |-> SumFunction(J[x])]
<1>1. J \in [S -> [K -> Nat]]
  OBVIOUS
<1>2. ASSUME NEW k \in K
      PROVE  [x \in T[k] |-> f[x]] = [x \in T[k] |-> J[x][k]]
  <2>1. \A x \in T[k] : x \in S /\ g[x] = k
    OBVIOUS
  <2>2. \A x \in T[k] : f[x] = J[x][k]
    BY <2>1
  <2> HIDE DEF J
  <2> QED
    BY <2>2
<1>3. ASSUME NEW k \in K
      PROVE  SumFunction([x \in T[k] |-> f[x]]) \in Nat
  <2>1. IsFiniteSet(T[k]) /\ [x \in T[k] |-> f[x]] \in [T[k] -> Nat]
    BY FS_Subset
  <2> QED
    BY <2>1, SumNat
<1>4. rows = [k \in K |-> SumFunction([x \in T[k] |-> J[x][k]])]
  <2> HIDE DEF J
  <2> QED
    BY <1>2
<1>5. rows \in [K -> Nat]
  BY <1>3
<1>6. SumFunction(rows) = SumFunction(tot)
  <2>1. \A x \in S, k \in K : x \notin T[k] => J[x][k] = 0
    OBVIOUS
  <2> HIDE DEF J, rows
  <2>2. SumFunction(KeySums(J, T, K)) = SumFunction(ElementSums(J, S))
    <3>1. IsFiniteSet(S) /\ IsFiniteSet(K) /\ T \in [K -> SUBSET S]
      OBVIOUS
    <3> QED
      BY ONLY <1>1, <2>1, <3>1, SumSwap
  <2> QED
    BY <1>4, <2>2 DEF KeySums, ElementSums, tot
<1>7. ASSUME NEW x \in S
      PROVE  tot[x] = IF g[x] \in K THEN f[x] ELSE 0
  <2>1. J[x] \in [K -> Nat] /\ (\A k \in K : k # g[x] => J[x][k] = 0) /\ (g[x] \in K => J[x][g[x]] = f[x])
    OBVIOUS
  <2>2. tot[x] = SumFunction(J[x])
    OBVIOUS
  <2> HIDE DEF J, tot
  <2>3. PICK e, k : e = J[x] /\ k = g[x]
    OBVIOUS
  <2>4. e \in [K -> Nat] /\ \A y \in K : y # k => e[y] = 0
    BY <2>1, <2>3
  <2>5. SumFunction(e) = IF k \in K THEN e[k] ELSE 0
    BY <2>4, SumOfOne
  <2> QED
    BY <2>1, <2>2, <2>3, <2>5
<1>8. tot \in [S -> Nat]
  <2>1. \A x \in S : (IF g[x] \in K THEN f[x] ELSE 0) \in Nat
    OBVIOUS
  <2>2. \A x \in S : tot[x] \in Nat
    <3> HIDE DEF tot
    <3> QED
      BY <1>7, <2>1
  <2>3. tot = [x \in S |-> tot[x]]
    OBVIOUS
  <2> HIDE DEF tot
  <2> QED
    BY <2>2, <2>3
<1> HIDE DEF tot, rows, J
<1>9. \A x \in S : tot[x] <= f[x]
  BY <1>7
<1>10. SumFunction(tot) <= SumFunction(f)
  BY <1>8, <1>9, SumLeq
<1>11. ASSUME \A x \in S : g[x] \in K
       PROVE  SumFunction(tot) = SumFunction(f)
  <2>1. \A x \in S : tot[x] = f[x]
    BY <1>7, <1>11
  <2>2. tot = f
    BY <1>8, <2>1
  <2> QED
    BY <2>2
<1>12. /\ rows \in [K -> Nat]
       /\ SumFunction(rows) <= SumFunction(f)
       /\ (\A x \in S : g[x] \in K) => SumFunction(rows) = SumFunction(f)
  BY <1>5, <1>6, <1>10, <1>11
<1> QED
  BY <1>12 DEF rows

LEMMA CountByKey ==
    ASSUME NEW S, IsFiniteSet(S), NEW K, IsFiniteSet(K), NEW g,
           NEW n, n = [k \in K |-> Cardinality({y \in S : g[y] = k})]
    PROVE  /\ n \in [K -> Nat]
           /\ SumFunction(n) <= Cardinality(S)
           /\ (\A x \in S : g[x] \in K) => SumFunction(n) = Cardinality(S)
<1> DEFINE f == [x \in S |-> 1]
           T == [k \in K |-> {y \in S : g[y] = k}]
           rows == [k \in K |-> SumFunction([x \in T[k] |-> f[x]])]
<1>1. ASSUME NEW k \in K
      PROVE  SumFunction([x \in T[k] |-> f[x]]) = Cardinality({y \in S : g[y] = k})
  <2> DEFINE B == {y \in S : g[y] = k}
  <2>1. IsFiniteSet(B) /\ [x \in T[k] |-> f[x]] = [x \in B |-> 1]
    BY FS_Subset
  <2>2. SumFunction([x \in B |-> 1]) = Cardinality(B)
    <3> HIDE DEF B
    <3> QED
      BY <2>1, SumOfOnes
  <2> QED
    BY <2>1, <2>2
<1>2. rows = n
  <2> HIDE DEF f, T
  <2> QED
    BY <1>1
<1>3. SumFunction(f) = Cardinality(S)
  BY SumOfOnes
<1>4. f \in [S -> Nat] /\ T \in [K -> SUBSET S] /\ \A k \in K : T[k] = {y \in S : g[y] = k}
  OBVIOUS
<1> HIDE DEF f, T
<1>5. /\ rows \in [K -> Nat]
      /\ SumFunction(rows) <= SumFunction(f)
      /\ (\A x \in S : g[x] \in K) => SumFunction(rows) = SumFunction(f)
  BY <1>4, SumByKey
<1> HIDE DEF rows
<1> QED
  BY <1>2, <1>3, <1>5


-----------------------------------------------------------------------------
(* Products and quotients, as the prover does not see them.                 *)

LEMMA TimesMore ==
    ASSUME NEW a \in Int, NEW b \in Int, NEW n \in Nat, a <= b
    PROVE  a * n <= b * n /\ a * n \in Int /\ b * n \in Int
<1>1. (b - a) * n = b * n - a * n /\ a * n \in Int /\ b * n \in Int
  OBVIOUS
<1>2. b - a \in Nat
  OBVIOUS
<1>3. (b - a) * n \in Nat
  BY <1>2
<1> QED
  BY <1>1, <1>3

LEMMA TimesNext ==
    ASSUME NEW a \in Int, NEW n \in Nat
    PROVE  (a + 1) * n = a * n + n /\ (a - 1) * n = a * n - n
OBVIOUS

LEMMA QuotientIs ==
    ASSUME NEW t \in Int, NEW b \in Int, b > 0
    PROVE  /\ t \div b \in Int
           /\ (t \div b) * b <= t
           /\ t < (t \div b) * b + b
<1>1. PICK q : q = t \div b
  OBVIOUS
<1>2. PICK r : r = t % b
  OBVIOUS
<1>3. q \in Int /\ r \in 0 .. b - 1 /\ t = b * q + r
  BY <1>1, <1>2
<1>4. b * q = q * b /\ q * b \in Int
  BY <1>3
<1> QED
  BY <1>1, <1>3, <1>4

LEMMA DayBegins ==
    ASSUME NEW t \in Int
    PROVE  /\ DayOf(t) \in Int
           /\ DayOf(t) * DayLength <= t
           /\ t < DayOf(t) * DayLength + DayLength
<1>1. DayLength \in Int /\ DayLength > 0
  BY ReportsAssumption
<1> QED
  BY <1>1, QuotientIs DEF DayOf

\* It is the only number that begins no later and ends later.
LEMMA DayIs ==
    ASSUME NEW t \in Int, NEW d \in Int, d * DayLength <= t, t < d * DayLength + DayLength
    PROVE  DayOf(t) = d
<1>1. DayLength \in Nat
  BY ReportsAssumption
<1>2. PICK q \in Int : q = DayOf(t) /\ q * DayLength <= t /\ t < q * DayLength + DayLength
  BY DayBegins
<1>3. q * DayLength \in Int /\ d * DayLength \in Int
  BY <1>1
<1>4. CASE q + 1 <= d
  <2>1. (q + 1) * DayLength <= d * DayLength
    BY <1>1, <1>4, TimesMore
  <2> QED
    BY <1>1, <1>2, <1>3, <2>1, TimesNext
<1>5. CASE d + 1 <= q
  <2>1. (d + 1) * DayLength <= q * DayLength
    BY <1>1, <1>5, TimesMore
  <2> QED
    BY <1>1, <1>2, <1>3, <2>1, TimesNext
<1> QED
  BY <1>2, <1>4, <1>5

LEMMA DaysInOrder ==
    ASSUME NEW t \in Int, NEW u \in Int, t <= u
    PROVE  DayOf(t) <= DayOf(u)
<1>1. DayLength \in Nat
  BY ReportsAssumption
<1>2. PICK q \in Int : q = DayOf(t) /\ q * DayLength <= t
  BY DayBegins
<1>3. PICK p \in Int : p = DayOf(u) /\ u < p * DayLength + DayLength
  BY DayBegins
<1>4. CASE p + 1 <= q
  <2>1. (p + 1) * DayLength <= q * DayLength /\ q * DayLength \in Int /\ p * DayLength \in Int
    BY <1>1, <1>4, TimesMore
  <2> QED
    BY <1>1, <1>2, <1>3, <2>1, TimesNext
<1> QED
  BY <1>2, <1>3, <1>4


-----------------------------------------------------------------------------
(* Rows.                                                                   *)

\* What the sums of the reports rest on.
Rows ==
    /\ ReportTypes
    /\ orders = [o \in Orders |-> orders[o]]
    /\ IsFiniteSet(Placed) /\ IsFiniteSet(expenses)

LEMMA OfOrder ==
    ASSUME Rows, NEW o \in Placed
    PROVE  /\ o \in Orders /\ orders[o].at \in 0 .. now
           /\ orders[o].status \in OrderStatus
           /\ orders[o].basket \in Baskets
           /\ orders[o].basket.site \in Sites /\ orders[o].basket.site # Unset
           /\ orders[o].basket.express \in BOOLEAN /\ orders[o].basket.due \in Nat
           /\ orders[o].basket.lines \in Seq(Services)
           /\ Len(orders[o].basket.lines) \in Nat \ {0}
           /\ Total(o) \in Nat \ {0}
           /\ Len(orders[o].basket.lines) <= Total(o)
           /\ Len(orders[o].basket.lines) = Total(o) <=> ~orders[o].basket.express
<1>1. o \in Orders /\ orders[o] \in [basket: Baskets, at: 0..now, status: OrderStatus]
  BY DEF Rows, ReportTypes, Placed
<1>2. orders[o].basket \in Baskets /\ orders[o].at \in 0 .. now /\ orders[o].status \in OrderStatus
  BY <1>1
<1>3. PICK b \in Baskets : b = orders[o].basket
  BY <1>2
<1>4. /\ b.site \in Sites /\ b.site # Unset /\ b.express \in BOOLEAN /\ b.due \in Nat
      /\ b.lines \in Seq(Services) /\ Len(b.lines) > 0
  BY ReportsAssumption
<1>5. Len(b.lines) \in Nat \ {0}
  BY <1>4
<1>6. Total(o) = Len(b.lines) * (IF b.express THEN 2 ELSE 1)
  BY <1>3 DEF Total
<1>7. PICK n \in Nat \ {0} : n = Len(b.lines)
  BY <1>5
<1>8. Total(o) = IF b.express THEN n + n ELSE n
  <2>1. CASE b.express
    <3>1. Total(o) = n * 2
      BY <1>6, <1>7, <2>1
    <3> QED
      BY <2>1, <3>1
  <2>2. CASE ~b.express
    <3>1. Total(o) = n * 1
      BY <1>6, <1>7, <2>2
    <3> QED
      BY <2>2, <3>1
  <2> QED
    BY <2>1, <2>2
<1> QED
  BY <1>1, <1>2, <1>3, <1>4, <1>7, <1>8

LEMMA OfJoin ==
    ASSUME Rows, NEW o \in Placed, NEW v
    PROVE  Joined(o, v) \in Nat /\ (v = Unset => Joined(o, v) = 1)
<1> DEFINE l == orders[o].basket.lines
           L == {i \in DOMAIN l : l[i] = v}
<1>1. l \in Seq(Services) /\ DOMAIN l = 1 .. Len(l) /\ Len(l) \in Nat
  BY OfOrder
<1>2. IsFiniteSet(1 .. Len(l))
  <2>1. PICK n \in Int : n = Len(l)
    BY <1>1
  <2>2. IsFiniteSet(1 .. n)
    BY FS_Interval
  <2> QED
    BY <2>1, <2>2
<1>3. IsFiniteSet(L)
  BY <1>1, <1>2, FS_Subset
<1>4. Cardinality(L) \in Nat
  BY <1>3, FS_CardinalityType
<1> QED
  BY <1>4 DEF Joined

LEMMA OfSelection ==
    ASSUME Rows, NEW p, NEW site, NEW v
    PROVE  /\ Selected(p, site, v) \in SUBSET Placed
           /\ IsFiniteSet(Selected(p, site, v))
           /\ Cardinality(Selected(p, site, v)) \in Nat
           /\ [o \in Selected(p, site, v) |-> Total(o)] \in [Selected(p, site, v) -> Nat]
<1>1. Selected(p, site, v) \in SUBSET Placed
  BY DEF Selected
<1>2. IsFiniteSet(Selected(p, site, v))
  BY <1>1, FS_Subset DEF Rows
<1>3. \A o \in Selected(p, site, v) : Total(o) \in Nat
  BY <1>1, OfOrder
<1> QED
  BY <1>1, <1>2, <1>3, FS_CardinalityType

\* Without a filter for the service the join asks for nothing.
LEMMA SelectedIs ==
    ASSUME Rows, NEW p, NEW site, NEW v
    PROVE  /\ \A o : o \in Selected(p, site, Unset) <=>
                         /\ o \in Placed /\ orders[o].at \in p.start..p.end
                         /\ site \in {Unset, orders[o].basket.site}
           /\ \A o : o \in Selected(p, site, v) <=>
                         o \in Selected(p, site, Unset) /\ Joined(o, v) > 0
<1>1. \A o \in Placed : Joined(o, Unset) = 1
  BY OfJoin
<1>2. \A o \in Placed : Joined(o, Unset) > 0
  BY <1>1
<1> QED
  BY <1>2 DEF Selected

LEMMA FewerCounted ==
    ASSUME NEW S, IsFiniteSet(S), NEW T, T \subseteq S
    PROVE  /\ IsFiniteSet(T) /\ Cardinality(T) \in Nat /\ Cardinality(S) \in Nat
           /\ Cardinality(T) <= Cardinality(S)
           /\ Cardinality(T) = Cardinality(S) => T = S
BY FS_Subset, FS_CardinalityType

-----------------------------------------------------------------------------
(* The table of agencies: an order has one agency.                         *)

LEMMA SitesAdd ==
    ASSUME Rows, NEW p
    PROVE  SitesFitTile(p)
<1> DEFINE S == Selected(p, Unset, Unset)
           g == [o \in Placed |-> orders[o].basket.site]
           T == [s \in Sites |-> Selected(p, s, Unset)]
           f == [o \in S |-> Total(o)]
           W == {o \in Placed : orders[o].status \in Waiting}
           P == {o \in S : orders[o].status \in Waiting}
           A == [s \in Sites |-> Cardinality({o \in W : g[o] = s})]
           table == BySite(p)
           tile == Dashboard(p, Unset, Unset)
<1>1. S \in SUBSET Placed /\ IsFiniteSet(S) /\ f \in [S -> Nat] /\ IsFiniteSet(Sites)
  BY OfSelection, ReportsAssumption
<1>2. \A o \in Placed : g[o] \in Sites
  BY OfOrder
<1>3. ASSUME NEW s \in Sites
      PROVE  Selected(p, s, Unset) = {o \in S : g[o] = s}
  <2>1. s # Unset
    BY ReportsAssumption
  <2>2. \A o : o \in Selected(p, s, Unset) <=> o \in S /\ orders[o].basket.site = s
    BY <2>1, SelectedIs
  <2>3. \A o \in S : g[o] = orders[o].basket.site
    BY <1>1
  <2> HIDE DEF S, g
  <2> QED
    BY <2>2, <2>3
<1>4. /\ \A s \in Sites : table[s].orders = Cardinality({o \in S : g[o] = s})
      /\ \A s \in Sites : table[s].revenue = SumFunction([o \in T[s] |-> Total(o)])
  <2> HIDE DEF S, g
  <2> QED
    BY <1>3 DEF BySite
<1>5. \A s \in Sites : table[s].active = Cardinality({o \in W : g[o] = s})
  <2>1. \A s \in Sites : table[s].active = Cardinality({o \in Placed : /\ orders[o].basket.site = s
                                                                      /\ orders[o].status \in Waiting})
    BY DEF BySite
  <2>2. \A s \in Sites : {o \in Placed : orders[o].basket.site = s /\ orders[o].status \in Waiting}
                           = {o \in W : g[o] = s}
    OBVIOUS
  <2> QED
    BY <2>1, <2>2
<1>6. DOMAIN table = Sites
  BY DEF BySite
<1>7. tile.orders = Cardinality(S) /\ tile.revenue = SumFunction(f) /\ tile.pending = Cardinality(P)
  BY DEF Dashboard
<1>8. T \in [Sites -> SUBSET S] /\ \A s \in Sites : T[s] = {o \in S : g[o] = s}
  <2> HIDE DEF S, g
  <2> QED
    BY <1>3
<1>9. \A s \in Sites : [o \in T[s] |-> Total(o)] = [o \in T[s] |-> f[o]]
  <2>1. \A s \in Sites : \A o \in T[s] : f[o] = Total(o)
    <3>1. \A o \in S : f[o] = Total(o)
      OBVIOUS
    <3> HIDE DEF S, T, f
    <3> QED
      BY <1>8, <3>1
  <2> HIDE DEF S, T, f
  <2> QED
    BY <2>1
<1>10. IsFiniteSet(W) /\ P \subseteq W /\ W \subseteq Placed
  BY <1>1, FS_Subset DEF Rows
<1> HIDE DEF S, g, T, f, W, P, table, tile
<1>11. OrdersOf(table) = tile.orders
  <2>1. PICK n : n = [s \in Sites |-> Cardinality({o \in S : g[o] = s})]
    OBVIOUS
  <2>2. [s \in Sites |-> table[s].orders] = n
    BY <1>4, <2>1
  <2>3. \A o \in S : g[o] \in Sites
    BY <1>1, <1>2
  <2>4. SumFunction(n) = Cardinality(S)
    BY <1>1, <2>1, <2>3, CountByKey
  <2> QED
    BY <1>6, <1>7, <2>2, <2>4 DEF OrdersOf
<1>12. RevenueOf(table) = tile.revenue
  <2>1. [s \in Sites |-> table[s].revenue] = [s \in Sites |-> SumFunction([o \in T[s] |-> f[o]])]
    BY <1>4, <1>9
  <2>2. \A o \in S : g[o] \in Sites
    BY <1>1, <1>2
  <2>3. SumFunction([s \in Sites |-> SumFunction([o \in T[s] |-> f[o]])]) = SumFunction(f)
    BY <1>1, <1>8, <2>2, SumByKey
  <2> QED
    BY <1>6, <1>7, <2>1, <2>3 DEF RevenueOf
<1>13. SumFunction([s \in Sites |-> table[s].active]) >= tile.pending
  <2>1. [s \in Sites |-> table[s].active] = A
    BY <1>5
  <2>2. \A o \in W : g[o] \in Sites
    BY <1>2, <1>10
  <2>3. SumFunction(A) = Cardinality(W)
    BY <1>1, <1>10, <2>2, CountByKey
  <2>4. Cardinality(P) <= Cardinality(W) /\ Cardinality(P) \in Nat /\ Cardinality(W) \in Nat
    BY <1>10, FewerCounted
  <2> QED
    BY <1>7, <2>1, <2>3, <2>4
<1> QED
  BY <1>11, <1>12, <1>13 DEF SitesFitTile, table, tile


-----------------------------------------------------------------------------
(* Periods.                                                                *)

\* On a clock behind UTC, midnight of a date in UTC falls on the day before.
LEMMA PeriodBounds ==
    ASSUME Rows, NEW d \in Int, NEW e \in Int
    PROVE  LET early == IF zone < 0 THEN 1 ELSE 0
           IN  /\ Period(d, e).start + zone = (d - early) * DayLength
               /\ Period(d, e).end + zone = (e - early + 1) * DayLength - 1
               /\ Period(d, e).start \in Int /\ Period(d, e).end \in Int
<1> DEFINE early == IF zone < 0 THEN 1 ELSE 0
<1>1. zone \in Int /\ 0 - DayLength < zone /\ zone < DayLength /\ DayLength \in Nat
  <2>1. zone \in (1 - DayLength)..(DayLength - 1) /\ DayLength \in Nat
    BY ReportsAssumption DEF Rows, ReportTypes
  <2> QED
    BY <2>1
<1>2. ASSUME NEW c \in Int
      PROVE  DayOf(c * DayLength + zone) = c - early
  <2>1. c * DayLength \in Int /\ (c - 1) * DayLength = c * DayLength - DayLength
    BY <1>1, TimesNext
  <2>2. CASE zone < 0
    <3>1. early = 1 /\ c - 1 \in Int /\ c * DayLength + zone \in Int
      BY <1>1, <2>1, <2>2
    <3>2. /\ (c - 1) * DayLength <= c * DayLength + zone
          /\ c * DayLength + zone < (c - 1) * DayLength + DayLength
      BY <1>1, <2>1, <2>2
    <3>3. DayOf(c * DayLength + zone) = c - 1
      BY <3>1, <3>2, DayIs
    <3> QED
      BY <3>1, <3>3
  <2>3. CASE ~(zone < 0)
    <3>1. early = 0 /\ c - 0 = c /\ c * DayLength + zone \in Int
      BY <1>1, <2>1, <2>3
    <3>2. c * DayLength <= c * DayLength + zone /\ c * DayLength + zone < c * DayLength + DayLength
      BY <1>1, <2>1, <2>3
    <3>3. DayOf(c * DayLength + zone) = c
      BY <3>1, <3>2, DayIs
    <3> QED
      BY <3>1, <3>3
  <2> QED
    BY <2>2, <2>3
<1>3. early \in Int
  OBVIOUS
<1> HIDE DEF early
<1>4. Period(d, e).start = (d - early) * DayLength - zone
  BY <1>2 DEF Period, Around
<1>5. Period(d, e).end = (e - early + 1) * DayLength - zone - 1
  BY <1>2 DEF Period, Around
<1>6. (d - early) * DayLength \in Int /\ (e - early + 1) * DayLength \in Int
  <2>1. d - early \in Int /\ e - early + 1 \in Int /\ DayLength \in Int
    BY <1>1, <1>3
  <2> QED
    BY <2>1
<1>7. /\ Period(d, e).start + zone = (d - early) * DayLength
      /\ Period(d, e).end + zone = (e - early + 1) * DayLength - 1
      /\ Period(d, e).start \in Int /\ Period(d, e).end \in Int
  BY <1>1, <1>4, <1>5, <1>6
<1> QED
  BY <1>7 DEF early

LEMMA TodayIsNow ==
    ASSUME Rows
    PROVE  now \in Around(now, now).start..Around(now, now).end
<1>1. now \in Int /\ zone \in Int
  BY ReportsAssumption DEF Rows, ReportTypes
<1>2. PICK q \in Int : /\ q = DayOf(now + zone) /\ q * DayLength <= now + zone
                       /\ now + zone < q * DayLength + DayLength
  BY <1>1, DayBegins
<1>3. DayLength \in Int /\ q * DayLength \in Int /\ (q + 1) * DayLength = q * DayLength + DayLength
  BY <1>2, ReportsAssumption, TimesNext
<1>4. Around(now, now).start = q * DayLength - zone /\ Around(now, now).end = (q + 1) * DayLength - zone - 1
  BY <1>2 DEF Around
<1> QED
  BY <1>1, <1>2, <1>3, <1>4

LEMMA DaysAre ==
    /\ Days \subseteq Nat
    /\ \A r \in Ranges : r[1] \in Nat /\ r[2] \in Nat /\ r[1] \in Days /\ r[2] \in Days /\ r[1] <= r[2]
<1>1. Days \subseteq Nat
  <2>1. Horizon \in Int
    BY ReportsAssumption
  <2>2. DayOf(Horizon) \in Int
    BY <2>1, DayBegins
  <2> QED
    BY <2>2 DEF Days, DayOf
<1> QED
  BY <1>1 DEF Ranges

LEMMA PeriodsAreLocal ==
    ASSUME Rows
    PROVE  PeriodIsLocal
<1> SUFFICES ASSUME NEW r \in Ranges
             PROVE  LET early == IF zone < 0 THEN 1 ELSE 0
                    IN  /\ Period(r[1], r[2]).start + zone = (r[1] - early) * DayLength
                        /\ Period(r[1], r[2]).end + zone = (r[2] - early + 1) * DayLength - 1
                        /\ now \in Around(now, now).start..Around(now, now).end
  BY DEF PeriodIsLocal
<1>1. r[1] \in Int /\ r[2] \in Int
  BY DaysAre
<1> QED
  BY <1>1, PeriodBounds, TodayIsNow

\* The days of the orders of a period, while the tenant's clock is UTC.
LEMMA StampedInPeriod ==
    ASSUME Rows, zone = 0, NEW d \in Int, NEW e \in Int, NEW t \in Int
    PROVE  t \in Period(d, e).start..Period(d, e).end <=> DayOf(t) \in d..e
<1>1. DayLength \in Nat \ {0}
  BY ReportsAssumption
<1>2. PICK a, b : a = Period(d, e).start /\ b = Period(d, e).end
  OBVIOUS
<1>3. a + 0 = (d - 0) * DayLength /\ b + 0 = (e - 0 + 1) * DayLength - 1 /\ a \in Int /\ b \in Int
  BY <1>2, PeriodBounds
<1>4. d - 0 = d /\ e - 0 + 1 = e + 1
  OBVIOUS
<1>5. a = d * DayLength /\ b = (e + 1) * DayLength - 1
  BY <1>1, <1>3, <1>4
<1>6. PICK q \in Int : q = DayOf(t) /\ q * DayLength <= t /\ t < q * DayLength + DayLength
  BY DayBegins
<1>7. /\ d * DayLength \in Int /\ e * DayLength \in Int /\ q * DayLength \in Int
      /\ (e + 1) * DayLength = e * DayLength + DayLength /\ (q + 1) * DayLength = q * DayLength + DayLength
  BY <1>1, <1>6, TimesNext
<1>8. ASSUME d <= q, q <= e
      PROVE  a <= t /\ t <= b
  <2>1. d * DayLength <= q * DayLength /\ q * DayLength <= e * DayLength
    BY <1>1, <1>6, <1>8, TimesMore
  <2> QED
    BY <1>1, <1>5, <1>6, <1>7, <2>1
<1>9. ASSUME q + 1 <= d
      PROVE  t < a
  <2>1. (q + 1) * DayLength <= d * DayLength
    BY <1>1, <1>6, <1>9, TimesMore
  <2> QED
    BY <1>1, <1>5, <1>6, <1>7, <2>1
<1>10. ASSUME e + 1 <= q
       PROVE  b < t
  <2>1. (e + 1) * DayLength <= q * DayLength
    BY <1>1, <1>6, <1>10, TimesMore
  <2> QED
    BY <1>1, <1>5, <1>6, <1>7, <2>1
<1>11. t \in a..b <=> q \in d..e
  BY <1>3, <1>6, <1>8, <1>9, <1>10
<1> QED
  BY <1>2, <1>6, <1>11

-----------------------------------------------------------------------------
(* The curve: an order has one day; while the clock is UTC it is one of    *)
(* the period.                                                             *)

LEMMA SeriesAdds ==
    ASSUME Rows, NEW d \in Int, NEW e \in Int, NEW site, NEW v
    PROVE  SeriesFitsTile(d, e, site, v)
<1> DEFINE S == Selected(Period(d, e), site, v)
           K == d..e
           g == [o \in S |-> StampedDay(o)]
           f == [o \in S |-> Total(o)]
           m == [o \in S |-> Total(o) * Joined(o, v)]
           T == [k \in K |-> {o \in S : g[o] = k}]
           series == Series(d, e, site, v)
           tile == Dashboard(Period(d, e), site, v)
           twice == \E o \in S : Joined(o, v) > 1
<1>1. S \in SUBSET Placed /\ IsFiniteSet(S) /\ f \in [S -> Nat] /\ Cardinality(S) \in Nat /\ IsFiniteSet(K)
  BY OfSelection, FS_Interval
<1>2. \A o \in S : Joined(o, v) \in Nat \ {0} /\ Total(o) \in Nat \ {0}
  <2>1. \A o \in S : Joined(o, v) > 0
    BY DEF Selected
  <2>2. \A o \in S : Joined(o, v) \in Nat /\ Total(o) \in Nat \ {0}
    BY <1>1, OfJoin, OfOrder
  <2> QED
    BY <2>1, <2>2
<1>3. \A o \in S : /\ Total(o) * Joined(o, v) \in Nat /\ Total(o) <= Total(o) * Joined(o, v)
                   /\ Total(o) = Total(o) * Joined(o, v) <=> ~(Joined(o, v) > 1)
  <2> SUFFICES ASSUME NEW o \in S
               PROVE  /\ Total(o) * Joined(o, v) \in Nat /\ Total(o) <= Total(o) * Joined(o, v)
                      /\ Total(o) = Total(o) * Joined(o, v) <=> ~(Joined(o, v) > 1)
    OBVIOUS
  <2>1. PICK t \in Nat \ {0}, j \in Nat \ {0} : t = Total(o) /\ j = Joined(o, v)
    BY <1>2
  <2>2. 1 * t <= j * t
    BY <2>1, TimesMore
  <2>3. 1 * t = t /\ j * t = t * j /\ t * j \in Nat
    BY <2>1
  <2>4. j > 1 => 2 * t <= j * t /\ 2 * t = t + t
    BY <2>1, TimesMore
  <2>5. j = 1 => t * j = t
    BY <2>1
  <2>6. t <= t * j /\ (t = t * j <=> ~(j > 1))
    BY <2>1, <2>2, <2>3, <2>4, <2>5
  <2> QED
    BY <2>1, <2>3, <2>6
<1>4. m \in [S -> Nat]
  BY <1>3
<1>5. \A k \in K : T[k] = {o \in S : StampedDay(o) = k}
  OBVIOUS
<1>6. /\ DOMAIN series = K
      /\ \A k \in K : series[k].orders = Cardinality({o \in S : g[o] = k})
      /\ \A k \in K : series[k].revenue = SumFunction([o \in T[k] |-> Total(o) * Joined(o, v)])
  <2>1. \A k \in K : {o \in S : g[o] = k} = {o \in S : StampedDay(o) = k}
    OBVIOUS
  <2> HIDE DEF g, T
  <2> QED
    BY <1>5, <2>1 DEF Series
<1>7. \A k \in K : [o \in T[k] |-> Total(o) * Joined(o, v)] = [o \in T[k] |-> m[o]]
  <2>1. \A o \in S : m[o] = Total(o) * Joined(o, v)
    OBVIOUS
  <2>2. \A k \in K : \A o \in T[k] : o \in S
    OBVIOUS
  <2> HIDE DEF S, T, m, K
  <2> QED
    BY <2>1, <2>2
<1>8. T \in [K -> SUBSET S] /\ \A k \in K : T[k] = {o \in S : g[o] = k}
  OBVIOUS
<1>9. tile.orders = Cardinality(S) /\ tile.revenue = SumFunction(f)
  BY DEF Dashboard
<1>10. \A o \in S : f[o] <= m[o] /\ (f[o] = m[o] <=> ~(Joined(o, v) > 1))
  <2>1. \A o \in S : f[o] = Total(o) /\ m[o] = Total(o) * Joined(o, v)
    OBVIOUS
  <2> HIDE DEF f, m, S
  <2> QED
    BY <1>3, <2>1
<1>11. ASSUME zone = 0
       PROVE  \A o \in S : g[o] \in K
  <2> SUFFICES ASSUME NEW o \in S
               PROVE  StampedDay(o) \in K
    OBVIOUS
  <2>1. PICK t \in Int : t = orders[o].at
    <3>1. now \in Nat
      BY DEF Rows, ReportTypes
    <3> QED
      BY <1>1, <3>1, OfOrder
  <2>2. t \in Period(d, e).start..Period(d, e).end
    BY <2>1 DEF Selected
  <2>3. DayOf(t) \in K
    BY <1>11, <2>2, StampedInPeriod
  <2>4. t - 0 = t
    OBVIOUS
  <2>5. StampedDay(o) = DayOf(t)
    BY <1>11, <2>1, <2>4 DEF StampedDay
  <2> QED
    BY <2>3, <2>5
<1> HIDE DEF S, K, g, f, m, T, series, tile
<1>12. PICK n : n = [k \in K |-> Cardinality({o \in S : g[o] = k})]
  OBVIOUS
<1>13. OrdersOf(series) = SumFunction(n)
  <2>1. [k \in K |-> series[k].orders] = n
    BY <1>6, <1>12
  <2> QED
    BY <1>6, <2>1 DEF OrdersOf
<1>14. SumFunction(n) <= Cardinality(S) /\ (zone = 0 => SumFunction(n) = Cardinality(S))
  BY <1>1, <1>11, <1>12, CountByKey
<1>15. RevenueOf(series) = SumFunction([k \in K |-> SumFunction([o \in T[k] |-> m[o]])])
  <2>1. [k \in K |-> series[k].revenue] = [k \in K |-> SumFunction([o \in T[k] |-> m[o]])]
    BY <1>6, <1>7
  <2> QED
    BY <1>6, <2>1 DEF RevenueOf
<1>16. zone = 0 => RevenueOf(series) = SumFunction(m)
  <2>1. (\A o \in S : g[o] \in K) => SumFunction([k \in K |-> SumFunction([o \in T[k] |-> m[o]])]) = SumFunction(m)
    BY <1>1, <1>4, <1>8, SumByKey
  <2> QED
    BY <1>11, <1>15, <2>1
<1>17. SumFunction(f) <= SumFunction(m) /\ (SumFunction(f) = SumFunction(m) <=> ~twice)
  <2>1. SumFunction(f) <= SumFunction(m)
    BY <1>1, <1>4, <1>10, SumLeq
  <2>2. SumFunction(f) = SumFunction(m) <=> \A o \in S : f[o] = m[o]
    BY <1>1, <1>4, <1>10, SumSame
  <2> QED
    BY <1>10, <2>1, <2>2
<1>18. SumFunction(f) \in Nat /\ SumFunction(m) \in Nat
  BY <1>1, <1>4, SumNat
<1> QED
  BY <1>9, <1>13, <1>14, <1>16, <1>17, <1>18 DEF SeriesFitsTile, S, series, tile


-----------------------------------------------------------------------------
(* The table of services.                                                  *)

\* The lines of an order are those of each service together.
LEMMA LinesByService ==
    ASSUME Rows, NEW o \in Placed
    PROVE  SumFunction([v \in Services |-> Joined(o, v)]) = Len(orders[o].basket.lines)
<1> DEFINE l == orders[o].basket.lines
<1>1. PICK len \in Nat : len = Len(l)
  BY OfOrder
<1>2. PICK I : I = 1 .. len /\ DOMAIN l = I
  BY <1>1, OfOrder
<1>3. \A i \in I : l[i] \in Services
  BY <1>1, <1>2, OfOrder
<1>4. IsFiniteSet(I) /\ Cardinality(I) = len
  <2>1. 1 \in Int /\ len \in Int
    BY <1>1
  <2>2. IsFiniteSet(1 .. len) /\ Cardinality(1 .. len) = IF 1 > len THEN 0 ELSE len - 1 + 1
    BY <2>1, FS_Interval
  <2> QED
    BY <1>1, <1>2, <2>2
<1>5. \A v \in Services : Joined(o, v) = Cardinality({i \in I : l[i] = v})
  <2>1. \A v \in Services : v # Unset
    BY ReportsAssumption
  <2> QED
    BY <1>2, <2>1 DEF Joined
<1>6. PICK n : n = [v \in Services |-> Cardinality({i \in I : l[i] = v})]
  OBVIOUS
<1>7. [v \in Services |-> Joined(o, v)] = n
  BY <1>5, <1>6
<1>8. SumFunction(n) = Cardinality(I)
  <2>1. PICK g : g = l
    OBVIOUS
  <2>2. IsFiniteSet(Services) /\ n = [v \in Services |-> Cardinality({i \in I : g[i] = v})]
    BY <1>6, <2>1, ReportsAssumption
  <2>3. \A i \in I : g[i] \in Services
    BY <1>3, <2>1
  <2> QED
    BY <1>4, <2>2, <2>3, CountByKey
<1> QED
  BY <1>1, <1>4, <1>7, <1>8

\* Added up by services and by orders, a line is counted once.
LEMMA ServicesAdd ==
    ASSUME Rows, NEW p, NEW site
    PROVE  ServicesFitTile(p, site)
<1> DEFINE S == Selected(p, site, Unset)
           f == [o \in S |-> Total(o)]
           len == [o \in S |-> Len(orders[o].basket.lines)]
           J == [o \in S |-> [v \in Services |-> Joined(o, v)]]
           T == [v \in Services |-> Selected(p, site, v)]
           table == ByService(p, site)
           express == \E o \in S : orders[o].basket.express
<1>1. S \in SUBSET Placed /\ IsFiniteSet(S) /\ f \in [S -> Nat] /\ IsFiniteSet(Services)
  BY OfSelection, ReportsAssumption
<1>2. J \in [S -> [Services -> Nat]]
  <2>1. \A o \in S, v \in Services : Joined(o, v) \in Nat
    BY <1>1, OfJoin
  <2> QED
    BY <2>1
<1>3. \A o : \A v : o \in Selected(p, site, v) <=> o \in S /\ Joined(o, v) > 0
  BY SelectedIs
<1>4. T \in [Services -> SUBSET S]
  <2> HIDE DEF S
  <2> QED
    BY <1>3
<1>5. \A o \in S, v \in Services : o \notin T[v] => J[o][v] = 0
  <2> SUFFICES ASSUME NEW o \in S, NEW v \in Services, o \notin T[v]
               PROVE  J[o][v] = 0
    OBVIOUS
  <2>1. Joined(o, v) \in Nat /\ ~(Joined(o, v) > 0)
    BY <1>1, <1>3, OfJoin
  <2> QED
    BY <2>1
<1>6. \A v \in Services : /\ table[v].orders = Cardinality(Selected(p, site, v))
                          /\ table[v].revenue = SumFunction([o \in T[v] |-> Joined(o, v)])
  BY DEF ByService
<1>7. DOMAIN table = Services
  BY DEF ByService
<1>8. \A v \in Services : [o \in T[v] |-> Joined(o, v)] = [o \in T[v] |-> J[o][v]]
  <2>1. \A o \in S, v \in Services : J[o][v] = Joined(o, v)
    OBVIOUS
  <2> HIDE DEF S, T, J
  <2> QED
    BY <1>4, <2>1
<1>9. \A v \in Services : Dashboard(p, site, v).orders = Cardinality(Selected(p, site, v))
  BY DEF Dashboard
<1>10. Dashboard(p, site, Unset).revenue = SumFunction(f)
  BY DEF Dashboard
<1>11. ElementSums(J, S) = len
  <2>1. \A o \in S : SumFunction([v \in Services |-> Joined(o, v)]) = Len(orders[o].basket.lines)
    BY <1>1, LinesByService
  <2>2. \A o \in S : J[o] = [v \in Services |-> Joined(o, v)]
    OBVIOUS
  <2> HIDE DEF J, S
  <2> QED
    BY <2>1, <2>2 DEF ElementSums
<1>12. \A o \in S : len[o] \in Nat /\ len[o] <= f[o] /\ (len[o] = f[o] <=> ~orders[o].basket.express)
  <2>1. \A o \in S : len[o] = Len(orders[o].basket.lines) /\ f[o] = Total(o)
    OBVIOUS
  <2> HIDE DEF len, f, S
  <2> QED
    BY <1>1, <2>1, OfOrder
<1>13. len \in [S -> Nat]
  <2>1. len = [o \in S |-> len[o]]
    OBVIOUS
  <2> HIDE DEF len, S
  <2> QED
    BY <1>12, <2>1
<1> HIDE DEF S, f, len, J, T, table
<1>14. RevenueOf(table) = SumFunction(len)
  <2>1. [v \in Services |-> table[v].revenue] = KeySums(J, T, Services)
    BY <1>6, <1>8 DEF KeySums
  <2>2. SumFunction(KeySums(J, T, Services)) = SumFunction(ElementSums(J, S))
    BY <1>1, <1>2, <1>4, <1>5, SumSwap
  <2> QED
    BY <1>7, <1>11, <2>1, <2>2 DEF RevenueOf
<1>15. SumFunction(len) <= SumFunction(f)
  BY <1>1, <1>12, <1>13, SumLeq
<1>16. SumFunction(len) = SumFunction(f) <=> ~express
  <2>1. SumFunction(len) = SumFunction(f) <=> \A o \in S : len[o] = f[o]
    BY <1>1, <1>12, <1>13, SumSame
  <2> QED
    BY <1>12, <2>1
<1> QED
  BY <1>6, <1>9, <1>10, <1>14, <1>15, <1>16 DEF ServicesFitTile, S, table

-----------------------------------------------------------------------------
(* Counts.                                                                 *)

LEMMA TwoParts ==
    ASSUME NEW S, IsFiniteSet(S), NEW A \in SUBSET S, NEW B \in SUBSET S, A \cap B = {}
    PROVE  Cardinality(A) + Cardinality(B) <= Cardinality(S)
<1>1. IsFiniteSet(A) /\ IsFiniteSet(B) /\ A \cup B \subseteq S
  BY FS_Subset
<1>2. Cardinality(A \cup B) = Cardinality(A) + Cardinality(B) - Cardinality(A \cap B)
  BY <1>1, FS_Union
<1>3. Cardinality(A \cap B) = 0
  BY FS_EmptySet
<1>4. Cardinality(A \cup B) <= Cardinality(S) /\ Cardinality(A) \in Nat /\ Cardinality(B) \in Nat
  BY <1>1, FewerCounted
<1>5. Cardinality(A \cup B) = Cardinality(A) + Cardinality(B)
  BY <1>2, <1>3, <1>4
<1> QED
  BY <1>4, <1>5

LEMMA StatusesAdd ==
    ASSUME Rows, NEW p, NEW site, NEW v
    PROVE  LET done == Throughput(p, site, v)
               tile == Dashboard(p, site, v)
           IN  done.created = tile.orders /\ done.completed + tile.pending <= done.created
<1> DEFINE S == Selected(p, site, v)
           A == {o \in S : orders[o].status = "DELIVERED"}
           B == {o \in S : orders[o].status \in Waiting}
<1>1. IsFiniteSet(S)
  BY OfSelection
<1>2. A \cap B = {}
  BY DEF Waiting
<1>3. Cardinality(A) + Cardinality(B) <= Cardinality(S)
  <2>1. A \in SUBSET S /\ B \in SUBSET S
    OBVIOUS
  <2> HIDE DEF A, B, S
  <2> QED
    BY <1>1, <1>2, <2>1, TwoParts
<1>4. /\ Throughput(p, site, v).created = Cardinality(S)
      /\ Throughput(p, site, v).completed = Cardinality(A)
      /\ Dashboard(p, site, v).orders = Cardinality(S)
      /\ Dashboard(p, site, v).pending = Cardinality(B)
  BY DEF Throughput, Dashboard
<1> QED
  BY <1>3, <1>4

LEMMA HoursAdd ==
    ASSUME Rows, NEW d \in Int, NEW site
    PROVE  SumFunction(Hourly(d, site)) = Dashboard(Period(d, d), site, Unset).orders
<1> DEFINE S == Selected(Period(d, d), site, Unset)
           K == 0..(DayLength - 1)
           g == [o \in S |-> StampedHour(o)]
<1>1. IsFiniteSet(S) /\ S \in SUBSET Placed
  BY OfSelection
<1>2. DayLength \in Nat \ {0} /\ zone \in Int /\ now \in Nat
  BY ReportsAssumption DEF Rows, ReportTypes
<1>3. IsFiniteSet(K)
  BY <1>2, FS_Interval
<1>4. \A o \in S : StampedHour(o) \in K
  <2> SUFFICES ASSUME NEW o \in S
               PROVE  StampedHour(o) \in K
    OBVIOUS
  <2>1. orders[o].at \in Nat
    BY <1>1, <1>2, OfOrder
  <2>2. PICK t \in Int : t = orders[o].at - zone
    BY <1>2, <2>1
  <2>3. t % DayLength \in K
    BY <1>2
  <2> QED
    BY <2>2, <2>3 DEF StampedHour
<1>5. \A o \in S : g[o] \in K
  BY <1>4
<1>6. \A k \in K : {o \in S : StampedHour(o) = k} = {o \in S : g[o] = k}
  OBVIOUS
<1>7. Hourly(d, site) = [k \in K |-> Cardinality({o \in S : StampedHour(o) = k})]
  BY DEF Hourly
<1>8. Dashboard(Period(d, d), site, Unset).orders = Cardinality(S)
  BY DEF Dashboard
<1> HIDE DEF S, K, g
<1>9. Hourly(d, site) = [k \in K |-> Cardinality({o \in S : g[o] = k})]
  BY <1>6, <1>7
<1>10. SumFunction(Hourly(d, site)) = Cardinality(S)
  <2>1. PICK n : n = Hourly(d, site)
    OBVIOUS
  <2>2. n = [k \in K |-> Cardinality({o \in S : g[o] = k})]
    BY <1>9, <2>1
  <2> QED
    BY <1>1, <1>3, <1>5, <2>1, <2>2, CountByKey
<1> QED
  BY <1>8, <1>10

LEMMA WeekAdds ==
    ASSUME Rows, zone = 0, NEW site
    PROVE  LET today == DayOf(now)
           IN  OrdersOf(Weekly(site))
                   <= Dashboard(Period(today - Week + 1, today), site, Unset).orders
<1> DEFINE today == DayOf(now)
           K == (today - Week + 1)..today
           P == {o \in Placed : /\ orders[o].at >= now - (Week - 1) * DayLength
                                /\ site \in {Unset, orders[o].basket.site}
                                /\ DayOf(orders[o].at) \in K}
           S == Selected(Period(today - Week + 1, today), site, Unset)
           g == [o \in P |-> DayOf(orders[o].at)]
           n == [k \in K |-> Cardinality({o \in P : g[o] = k})]
           table == Weekly(site)
<1>1. now \in Nat /\ today \in Int /\ Week \in Nat \ {0}
  BY DayBegins, ReportsAssumption DEF Rows, ReportTypes
<1>2. today - Week + 1 \in Int
  BY <1>1
<1>3. IsFiniteSet(K) /\ IsFiniteSet(P) /\ P \in SUBSET Placed
  <2>1. IsFiniteSet(K)
    BY <1>1, <1>2, FS_Interval
  <2> QED
    BY <2>1, FS_Subset DEF Rows
<1>4. P \subseteq S
  <2> SUFFICES ASSUME NEW o \in P
               PROVE  o \in S
    OBVIOUS
  <2>1. PICK t \in Int : t = orders[o].at
    BY <1>1, OfOrder
  <2>2. DayOf(t) \in (today - Week + 1)..today
    BY <2>1
  <2>3. t \in Period(today - Week + 1, today).start..Period(today - Week + 1, today).end
    <3> HIDE DEF today
    <3> QED
      BY <1>1, <1>2, <2>2, StampedInPeriod
  <2>4. o \in Placed /\ site \in {Unset, orders[o].basket.site}
    OBVIOUS
  <2> QED
    BY <2>1, <2>3, <2>4, SelectedIs
<1>5. Cardinality(P) <= Cardinality(S)
  <2>1. IsFiniteSet(S)
    BY OfSelection
  <2> HIDE DEF P, S
  <2> QED
    BY <1>4, <2>1, FewerCounted
<1>6. SumFunction(n) <= Cardinality(P)
  <2> HIDE DEF K, P, g
  <2>1. PICK h : h = n
    OBVIOUS
  <2>2. h = [k \in K |-> Cardinality({o \in P : g[o] = k})]
    BY <2>1
  <2>3. SumFunction(h) <= Cardinality(P)
    BY <1>3, <2>2, CountByKey
  <2> QED
    BY <2>1, <2>3
<1>7. ASSUME NEW k \in K
      PROVE  table[k].orders = Cardinality({o \in P : g[o] = k})
  <2>1. table[k].orders = Cardinality({o \in Placed : /\ orders[o].at >= now - (Week - 1) * DayLength
                                                      /\ site \in {Unset, orders[o].basket.site}
                                                      /\ DayOf(orders[o].at) = k})
    BY DEF Weekly
  <2>2. {o \in Placed : /\ orders[o].at >= now - (Week - 1) * DayLength
                        /\ site \in {Unset, orders[o].basket.site}
                        /\ DayOf(orders[o].at) = k} = {o \in P : g[o] = k}
    <3> HIDE DEF K
    <3> QED
      OBVIOUS
  <2> QED
    BY <2>1, <2>2
<1>8. DOMAIN table = K
  BY DEF Weekly
<1>9. [k \in K |-> table[k].orders] = n
  <2> HIDE DEF table, K, P, g
  <2> QED
    BY <1>7
<1>10. OrdersOf(table) = SumFunction(n)
  <2> HIDE DEF table, K, n
  <2> QED
    BY <1>8, <1>9 DEF OrdersOf
<1>11. Dashboard(Period(today - Week + 1, today), site, Unset).orders = Cardinality(S)
  BY DEF Dashboard
<1>12. SumFunction(n) \in Int /\ Cardinality(P) \in Int /\ Cardinality(S) \in Int
  <2>1. IsFiniteSet(S)
    BY OfSelection
  <2>2. \A k \in K : Cardinality({o \in P : g[o] = k}) \in Nat
    <3> HIDE DEF K, P, g
    <3> QED
      BY <1>3, FS_Subset, FS_CardinalityType
  <2>3. n \in [K -> Nat]
    <3> HIDE DEF K, P, g
    <3> QED
      BY <2>2
  <2> HIDE DEF K, P, S, n
  <2>4. SumFunction(n) \in Nat
    BY <1>3, <2>3, SumNat
  <2> QED
    BY <1>3, <2>1, <2>4, FS_CardinalityType
<1> HIDE DEF n, P, S, table
<1> QED
  BY <1>5, <1>6, <1>10, <1>11, <1>12 DEF table

LEMMA ListsAdd ==
    ASSUME Rows
    PROVE  /\ Delayed(Unset) = Cardinality(Chip("late"))
           /\ Chip("late") = {o \in Chip("all") : IsLate(o)}
           /\ Chip("ready") \cup Chip("processing") = ActiveList
           /\ Chip("ready") \cap Chip("processing") = {}
<1>1. /\ Chip("late") = {o \in Placed : Due(o) < now /\ orders[o].status \notin Closed}
      /\ Chip("all") = Placed
      /\ Chip("ready") = {o \in Placed : orders[o].status \in {"READY", "STORED"}}
      /\ Chip("processing") = {o \in Placed : orders[o].status \in {"CREATED", "IN_PROGRESS"}}
  BY DEF Chip
<1>2. \A o \in Placed : orders[o].status \in Open <=> orders[o].status \notin Closed
  BY OfOrder DEF Open, Waiting, Closed, OrderStatus
<1>3. Delayed(Unset) = Cardinality(Chip("late"))
  <2>1. {o \in Placed : /\ orders[o].status \in Open
                        /\ Due(o) < now
                        /\ Unset \in {Unset, orders[o].basket.site}} = Chip("late")
    BY <1>1, <1>2
  <2> QED
    BY <2>1 DEF Delayed
<1>4. Chip("late") = {o \in Chip("all") : IsLate(o)}
  BY <1>1 DEF IsLate
<1>5. Chip("ready") \cup Chip("processing") = ActiveList
  BY <1>1 DEF ActiveList, Open, Waiting
<1>6. Chip("ready") \cap Chip("processing") = {}
  BY <1>1
<1> QED
  BY <1>3, <1>4, <1>5, <1>6

LEMMA CountsAdd ==
    ASSUME Rows, NEW site
    PROVE  CountsAgree(site)
<1>1. \A d \in Days : d \in Int
  BY DaysAre
<1>2. \A d \in Days : SumFunction(Hourly(d, site)) = Dashboard(Period(d, d), site, Unset).orders
  BY <1>1, HoursAdd
<1>3. \A r \in Ranges, v \in Services \cup {Unset} :
          LET p    == Period(r[1], r[2])
              done == Throughput(p, site, v)
              tile == Dashboard(p, site, v)
          IN  done.created = tile.orders /\ done.completed + tile.pending <= done.created
  BY StatusesAdd
<1>4. zone = 0 =>
          LET today == DayOf(now)
          IN  OrdersOf(Weekly(site))
                  <= Dashboard(Period(today - Week + 1, today), site, Unset).orders
  BY WeekAdds
<1> QED
  BY <1>2, <1>3, <1>4, ListsAdd DEF CountsAgree

LEMMA ExpensesAdd ==
    ASSUME Rows
    PROVE  ExpensesAddUp
<1> SUFFICES ASSUME NEW r \in Ranges
             PROVE  /\ SumFunction(ExpenseStats(r[1], r[2])) = Cardinality(SpentOn(r[1], r[2]))
                    /\ SumFunction(ExpenseSeries(r[1], r[2])) = Cardinality(SpentOn(r[1], r[2]))
  BY DEF ExpensesAddUp
<1>1. PICK d \in Int, e \in Int : d = r[1] /\ e = r[2]
  BY DaysAre
<1>2. PICK S : S = SpentOn(d, e)
  OBVIOUS
<1>3. IsFiniteSet(S) /\ \A x \in S : x.on \in d..e /\ x.type \in Types
  <2>1. S \subseteq expenses /\ \A x \in S : x.on \in d..e
    BY <1>2 DEF SpentOn
  <2>2. \A x \in expenses : x.type \in Types
    BY DEF Rows, ReportTypes
  <2> QED
    BY <2>1, <2>2, FS_Subset DEF Rows
<1>4. SumFunction(ExpenseStats(d, e)) = Cardinality(S)
  <2>1. PICK g : g = [x \in S |-> x.type]
    OBVIOUS
  <2>2. PICK n : n = ExpenseStats(d, e)
    OBVIOUS
  <2>3. n = [t \in Types |-> Cardinality({x \in S : x.type = t})]
    BY <1>2, <2>2 DEF ExpenseStats
  <2>4. \A t \in Types : {x \in S : x.type = t} = {x \in S : g[x] = t}
    BY <2>1
  <2>5. n = [t \in Types |-> Cardinality({x \in S : g[x] = t})]
    BY <2>3, <2>4
  <2>6. IsFiniteSet(Types) /\ \A x \in S : g[x] \in Types
    BY <1>3, <2>1, ReportsAssumption
  <2>7. IsFiniteSet(S)
    BY <1>3
  <2>8. SumFunction(n) = Cardinality(S)
    BY ONLY <2>5, <2>6, <2>7, CountByKey
  <2> QED
    BY <2>2, <2>8
<1>5. SumFunction(ExpenseSeries(d, e)) = Cardinality(S)
  <2>1. PICK g : g = [x \in S |-> x.on]
    OBVIOUS
  <2>2. PICK n : n = ExpenseSeries(d, e)
    OBVIOUS
  <2>3. PICK K : K = d..e
    OBVIOUS
  <2>4. n = [t \in K |-> Cardinality({x \in S : x.on = t})]
    BY <1>2, <2>2, <2>3 DEF ExpenseSeries
  <2>5. \A t \in K : {x \in S : x.on = t} = {x \in S : g[x] = t}
    BY <2>1
  <2>6. n = [t \in K |-> Cardinality({x \in S : g[x] = t})]
    BY <2>4, <2>5
  <2>7. IsFiniteSet(K) /\ \A x \in S : g[x] \in K
    BY <1>3, <2>1, <2>3, FS_Interval
  <2> QED
    BY <1>3, <2>2, <2>6, <2>7, CountByKey
<1> QED
  BY <1>1, <1>2, <1>4, <1>5

LEMMA RowsAddUp ==
    ASSUME Rows
    PROVE  ReportsAddUp
<1>1. \A r \in Ranges :
          /\ SitesFitTile(Period(r[1], r[2]))
          /\ \A site \in Sites \cup {Unset} :
                 /\ ServicesFitTile(Period(r[1], r[2]), site)
                 /\ \A v \in Services \cup {Unset} : SeriesFitsTile(r[1], r[2], site, v)
  <2>1. \A r \in Ranges : r[1] \in Int /\ r[2] \in Int
    BY DaysAre
  <2> QED
    BY <2>1, SitesAdd, ServicesAdd, SeriesAdds
<1>2. \A site \in Sites \cup {Unset} : CountsAgree(site)
  BY CountsAdd
<1> QED
  BY <1>1, <1>2, PeriodsAreLocal, ExpensesAdd DEF ReportsAddUp, Rows


-----------------------------------------------------------------------------
(* The export.  E is the table, r the reader, n the number of insertions.  *)

Row(n) == [made: 1..n, on: Days, type: Types]

PlaceIn(E, x) == Cardinality({y \in E : y = x \/ Before(y, x)})
Offset(r) == (r.page - 1) * PageSize

\* Rows that have been passed over, and rows that will come a second time.
Missed(E, r) == {x \in r.kept \ r.got : PlaceIn(E, x) <= Offset(r)}
Again(E, r)  == {x \in E \cap r.got : PlaceIn(E, x) > Offset(r)}

\* Rows behind the page, and those that are there although it is the last one.
Behind(E, r)  == {x \in r.kept : PlaceIn(E, x) > r.page * PageSize}
Counted(E, r) == r.state = "listing" /\ ~(r.page + 1 <= r.pages) => Cardinality(Behind(E, r)) <= r.late

TableOK(E, n) ==
    /\ n \in Nat /\ IsFiniteSet(E) /\ E \subseteq Row(n)
    /\ \A x, y \in E : x.made = y.made => x = y

ReaderOK(r, n) ==
    /\ r \in [state: {"idle", "counting", "listing", "done"}, page: Nat \ {0}, pages: Int,
              got: SUBSET Row(n), written: Nat, kept: SUBSET Row(n), added: Nat, late: Nat, dropped: Nat]
    /\ IsFiniteSet(r.got) /\ IsFiniteSet(r.kept)

ReadOK(E, r) ==
    /\ r.kept \subseteq E
    /\ Cardinality(Missed(E, r)) <= r.dropped
    /\ r.written + Cardinality(Again(E, r)) <= r.added + Cardinality(r.got)

ReportsInv ==
    /\ Rows
    /\ TableOK(expenses, inserted)
    /\ ReaderOK(reader, inserted)
    /\ Exporting => ReadOK(expenses, reader) /\ Counted(expenses, reader)
    /\ ExportIsComplete

LEMMA OfRow ==
    ASSUME NEW E, NEW n, TableOK(E, n), NEW x \in E
    PROVE  x.made \in Nat /\ x.on \in Nat /\ x.made \in 1..n
<1>1. x \in Row(n) /\ n \in Nat
  BY DEF TableOK
<1>2. x.made \in 1..n /\ x.on \in Days
  BY <1>1 DEF Row
<1>3. x.on \in Nat
  BY <1>2, DaysAre
<1>4. x.made \in Nat
  BY <1>1, <1>2
<1> QED
  BY <1>2, <1>3, <1>4

\* Rows have different places, between 1 and the number of rows.
LEMMA PlaceIs ==
    ASSUME NEW E, NEW n, TableOK(E, n), NEW x \in E
    PROVE  PlaceIn(E, x) \in Nat \ {0} /\ PlaceIn(E, x) <= Cardinality(E)
<1> DEFINE A == {y \in E : y = x \/ Before(y, x)}
<1>1. IsFiniteSet(E) /\ A \subseteq E /\ x \in A
  BY DEF TableOK
<1>2. PlaceIn(E, x) = Cardinality(A)
  BY DEF PlaceIn
<1> HIDE DEF A
<1>3. IsFiniteSet(A) /\ Cardinality(A) \in Nat /\ Cardinality(A) <= Cardinality(E)
  BY <1>1, FewerCounted
<1>4. Cardinality(A) # 0
  BY <1>1, <1>3, FS_EmptySet
<1> QED
  BY <1>2, <1>3, <1>4

LEMMA PlacesDiffer ==
    ASSUME NEW E, NEW n, TableOK(E, n), NEW x \in E, NEW y \in E, PlaceIn(E, x) = PlaceIn(E, y)
    PROVE  x = y
<1>1. ASSUME NEW u \in E, NEW w \in E, Before(u, w)
      PROVE  PlaceIn(E, u) # PlaceIn(E, w)
  <2> DEFINE A == {z \in E : z = u \/ Before(z, u)}
             B == {z \in E : z = w \/ Before(z, w)}
  <2>1. u.made \in Nat /\ u.on \in Nat /\ w.made \in Nat /\ w.on \in Nat
    BY OfRow
  <2>2. A \subseteq B
    <3> SUFFICES ASSUME NEW z \in E, z = u \/ Before(z, u)
                 PROVE  Before(z, w)
      OBVIOUS
    <3>1. z.made \in Nat /\ z.on \in Nat
      BY OfRow
    <3> QED
      BY <1>1, <2>1, <3>1 DEF Before
  <2>3. w \in B /\ w \notin A
    BY <1>1, <2>1 DEF Before
  <2>4. IsFiniteSet(B)
    BY FS_Subset DEF TableOK
  <2>5. PlaceIn(E, u) = Cardinality(A) /\ PlaceIn(E, w) = Cardinality(B)
    BY DEF PlaceIn
  <2> HIDE DEF A, B
  <2> QED
    BY <2>2, <2>3, <2>4, <2>5, FewerCounted
<1>2. ASSUME x # y
      PROVE  Before(x, y) \/ Before(y, x)
  <2>1. x.made # y.made
    BY <1>2 DEF TableOK
  <2>2. x.made \in Nat /\ x.on \in Nat /\ y.made \in Nat /\ y.on \in Nat
    BY OfRow
  <2> QED
    BY <2>1, <2>2 DEF Before
<1> QED
  BY <1>1, <1>2

\* One row more in the table moves the others down by one place or not at all.
LEMMA PlaceMoves ==
    ASSUME NEW E, NEW n, TableOK(E, n), NEW z, z \notin E, NEW x \in E
    PROVE  PlaceIn(E \cup {z}, x) = PlaceIn(E, x) \/ PlaceIn(E \cup {z}, x) = PlaceIn(E, x) + 1
<1> DEFINE A == {y \in E : y = x \/ Before(y, x)}
           B == {y \in E \cup {z} : y = x \/ Before(y, x)}
<1>1. IsFiniteSet(A) /\ z \notin A /\ (B = A \/ B = A \cup {z})
  BY FS_Subset DEF TableOK
<1>2. PlaceIn(E, x) = Cardinality(A) /\ PlaceIn(E \cup {z}, x) = Cardinality(B)
  BY DEF PlaceIn
<1> HIDE DEF A, B
<1>3. Cardinality(A \cup {z}) = Cardinality(A) + 1
  BY <1>1, FS_AddElement
<1> QED
  BY <1>1, <1>2, <1>3

\* A set with at most one element that S lacks.
LEMMA OneMore ==
    ASSUME NEW S, IsFiniteSet(S), NEW W, \A u, w \in W : u = w, NEW T, T \subseteq S \cup W
    PROVE  IsFiniteSet(T) /\ Cardinality(T) <= Cardinality(S) + 1
<1>1. Cardinality(S) \in Nat
  BY FS_CardinalityType
<1>2. CASE W = {}
  BY <1>1, <1>2, FewerCounted
<1>3. CASE W # {}
  <2>1. PICK w : W = {w}
    BY <1>3
  <2>2. IsFiniteSet(S \cup {w}) /\ (Cardinality(S \cup {w}) = Cardinality(S) \/ Cardinality(S \cup {w}) = Cardinality(S) + 1)
    BY FS_AddElement
  <2>3. IsFiniteSet(T) /\ Cardinality(T) <= Cardinality(S \cup {w}) /\ Cardinality(T) \in Nat
    BY <2>1, <2>2, FewerCounted
  <2> QED
    BY <1>1, <2>2, <2>3
<1> QED
  BY <1>2, <1>3

LEMMA OfReader ==
    ASSUME NEW E, NEW r, NEW n, TableOK(E, n), ReaderOK(r, n)
    PROVE  /\ r.page \in Nat \ {0} /\ r.written \in Nat /\ r.added \in Nat /\ r.dropped \in Nat
           /\ r.got \subseteq Row(n) /\ r.kept \subseteq Row(n)
           /\ r.pages \in Int /\ r.late \in Nat
           /\ Offset(r) \in Nat /\ r.page * PageSize \in Nat
           /\ IsFiniteSet(r.got) /\ Cardinality(r.got) \in Nat /\ IsFiniteSet(r.kept)
           /\ IsFiniteSet(Behind(E, r)) /\ Cardinality(Behind(E, r)) \in Nat
           /\ IsFiniteSet(Missed(E, r)) /\ Cardinality(Missed(E, r)) \in Nat
           /\ IsFiniteSet(Again(E, r)) /\ Cardinality(Again(E, r)) \in Nat
<1>1. /\ r.page \in Nat \ {0} /\ r.written \in Nat /\ r.added \in Nat /\ r.dropped \in Nat
      /\ r.got \subseteq Row(n) /\ r.kept \subseteq Row(n)
      /\ r.pages \in Int /\ r.late \in Nat
      /\ IsFiniteSet(r.got) /\ IsFiniteSet(r.kept)
  BY DEF ReaderOK
<1>2. Offset(r) \in Nat
  <2>1. PICK p \in Nat : p = r.page - 1
    BY <1>1
  <2>2. p * PageSize \in Nat
    BY ReportsAssumption
  <2> QED
    BY <2>1, <2>2 DEF Offset
<1>3. Missed(E, r) \subseteq r.kept /\ Again(E, r) \subseteq r.got /\ Behind(E, r) \subseteq r.kept
  BY DEF Missed, Again, Behind
<1>4. IsFiniteSet(Missed(E, r)) /\ IsFiniteSet(Again(E, r)) /\ IsFiniteSet(Behind(E, r))
  BY <1>1, <1>3, FS_Subset
<1>5. r.page * PageSize \in Nat
  <2>1. PICK p \in Nat : p = r.page
    BY <1>1
  <2>2. p * PageSize \in Nat
    BY ReportsAssumption
  <2> QED
    BY <2>1, <2>2
<1> QED
  BY <1>1, <1>2, <1>4, <1>5, FS_CardinalityType

\* An insertion makes at most one row come again, the last one before the page, and
\* puts at most one behind the page, its last one.
LEMMA InsertedWhileRead ==
    ASSUME NEW E, NEW r, NEW n, TableOK(E, n), ReaderOK(r, n), ReadOK(E, r), Counted(E, r),
           NEW z, z \notin E, z \notin r.got,
           NEW s, s = [r EXCEPT !.added = @ + 1, !.late = @ + 1]
    PROVE  ReadOK(E \cup {z}, s) /\ Counted(E \cup {z}, s)
<1>1. /\ s.page = r.page /\ s.got = r.got /\ s.written = r.written /\ s.kept = r.kept
      /\ s.added = r.added + 1 /\ s.dropped = r.dropped
      /\ s.state = r.state /\ s.pages = r.pages /\ s.late = r.late + 1
  BY DEF ReaderOK
<1>2. Offset(s) = Offset(r) /\ Offset(r) \in Nat
  BY <1>1, OfReader DEF Offset
<1>3. r.kept \subseteq E
  BY DEF ReadOK
<1>4. \A x \in E : PlaceIn(E, x) \in Nat /\ (\/ PlaceIn(E \cup {z}, x) = PlaceIn(E, x)
                                              \/ PlaceIn(E \cup {z}, x) = PlaceIn(E, x) + 1)
  BY PlaceIs, PlaceMoves
<1>5. Missed(E \cup {z}, s) \subseteq Missed(E, r)
  BY <1>1, <1>2, <1>3, <1>4 DEF Missed
<1> DEFINE W == {x \in E : PlaceIn(E, x) = Offset(r)}
           L == {x \in E : PlaceIn(E, x) = r.page * PageSize}
<1>6. Again(E \cup {z}, s) \subseteq Again(E, r) \cup W
  BY <1>1, <1>2, <1>4 DEF Again
<1>7. (\A u, w \in W : u = w) /\ (\A u, w \in L : u = w)
  BY PlacesDiffer
<1>10. Behind(E \cup {z}, s) \subseteq Behind(E, r) \cup L
  <2>1. PICK b \in Nat : b = r.page * PageSize
    BY OfReader
  <2>2. Behind(E \cup {z}, s) = {x \in r.kept : PlaceIn(E \cup {z}, x) > b} /\ Behind(E, r) = {x \in r.kept : PlaceIn(E, x) > b}
    BY <1>1, <2>1 DEF Behind
  <2>3. L = {x \in E : PlaceIn(E, x) = b}
    BY <2>1
  <2> HIDE DEF L
  <2>4. \A x \in E : PlaceIn(E \cup {z}, x) > b => PlaceIn(E, x) > b \/ PlaceIn(E, x) = b
    BY <1>4, <2>1
  <2> QED
    BY <1>3, <2>2, <2>3, <2>4
<1> HIDE DEF W, L
<1>11. Cardinality(Behind(E \cup {z}, s)) <= Cardinality(Behind(E, r)) + 1 /\ Cardinality(Behind(E \cup {z}, s)) \in Nat
  <2>1. IsFiniteSet(Behind(E \cup {z}, s)) /\ Cardinality(Behind(E \cup {z}, s)) <= Cardinality(Behind(E, r)) + 1
    BY <1>7, <1>10, OfReader, OneMore
  <2> QED
    BY <2>1, FS_CardinalityType
<1>12. Counted(E \cup {z}, s)
  <2> SUFFICES ASSUME s.state = "listing", ~(s.page + 1 <= s.pages)
               PROVE  Cardinality(Behind(E \cup {z}, s)) <= s.late
    BY DEF Counted
  <2>1. Cardinality(Behind(E, r)) <= r.late /\ r.late \in Nat /\ Cardinality(Behind(E, r)) \in Nat
    BY <1>1, OfReader DEF Counted
  <2> QED
    BY <1>1, <1>11, <2>1
<1>8. Cardinality(Missed(E \cup {z}, s)) <= r.dropped
  <2>1. Cardinality(Missed(E \cup {z}, s)) <= Cardinality(Missed(E, r)) /\ Cardinality(Missed(E \cup {z}, s)) \in Nat
    BY <1>5, OfReader, FewerCounted
  <2> QED
    BY <2>1, OfReader DEF ReadOK
<1>9. r.written + Cardinality(Again(E \cup {z}, s)) <= r.added + 1 + Cardinality(r.got)
  <2>1. IsFiniteSet(Again(E \cup {z}, s)) /\ Cardinality(Again(E \cup {z}, s)) <= Cardinality(Again(E, r)) + 1
    BY <1>6, <1>7, OfReader, OneMore
  <2>2. Cardinality(Again(E \cup {z}, s)) \in Nat
    BY <2>1, FS_CardinalityType
  <2>3. /\ r.written + Cardinality(Again(E, r)) <= r.added + Cardinality(r.got)
        /\ r.written \in Nat /\ r.added \in Nat /\ Cardinality(r.got) \in Nat /\ Cardinality(Again(E, r)) \in Nat
    BY OfReader DEF ReadOK
  <2> QED
    BY <2>1, <2>2, <2>3
<1> QED
  BY <1>1, <1>3, <1>8, <1>9, <1>12 DEF ReadOK

\* A deletion passes over at most one row, the first one of the page.
LEMMA DeletedWhileRead ==
    ASSUME NEW E, NEW r, NEW n, TableOK(E, n), ReaderOK(r, n), ReadOK(E, r), Counted(E, r), NEW z \in E,
           NEW s, s = [r EXCEPT !.dropped = @ + 1, !.kept = @ \ {z}]
    PROVE  ReadOK(E \ {z}, s) /\ Counted(E \ {z}, s)
<1> DEFINE D == E \ {z}
           W == {x \in E : PlaceIn(E, x) = Offset(r) + 1}
<1>1. /\ s.page = r.page /\ s.got = r.got /\ s.written = r.written /\ s.kept = r.kept \ {z}
      /\ s.added = r.added /\ s.dropped = r.dropped + 1
      /\ s.state = r.state /\ s.pages = r.pages /\ s.late = r.late
  BY DEF ReaderOK
<1>2. Offset(s) = Offset(r) /\ Offset(r) \in Nat
  BY <1>1, OfReader DEF Offset
<1>3. r.kept \subseteq E
  BY DEF ReadOK
<1>4. TableOK(D, n) /\ z \notin D /\ E = D \cup {z}
  <2>1. IsFiniteSet(D)
    BY FS_Subset DEF TableOK
  <2> QED
    BY <2>1 DEF TableOK
<1>5. \A x \in D : PlaceIn(D, x) \in Nat /\ (PlaceIn(E, x) = PlaceIn(D, x) \/ PlaceIn(E, x) = PlaceIn(D, x) + 1)
  <2> HIDE DEF D
  <2>1. \A x \in D : PlaceIn(D, x) \in Nat
    BY <1>4, PlaceIs
  <2>2. \A x \in D : PlaceIn(D \cup {z}, x) = PlaceIn(D, x) \/ PlaceIn(D \cup {z}, x) = PlaceIn(D, x) + 1
    BY <1>4, PlaceMoves
  <2> QED
    BY <1>4, <2>1, <2>2
<1>6. Missed(D, s) \subseteq Missed(E, r) \cup W
  <2> SUFFICES ASSUME NEW x \in Missed(D, s)
               PROVE  x \in Missed(E, r) \/ x \in W
    OBVIOUS
  <2>1. x \in r.kept \ r.got /\ x \in D /\ x \in E /\ PlaceIn(D, x) <= Offset(r)
    BY <1>1, <1>2, <1>3 DEF Missed
  <2>2. PlaceIn(E, x) <= Offset(r) \/ PlaceIn(E, x) = Offset(r) + 1
    BY <1>2, <1>5, <2>1
  <2> QED
    BY <2>1, <2>2 DEF Missed
<1>7. \A u, w \in W : u = w
  BY PlacesDiffer
<1>8. Again(D, s) \subseteq Again(E, r)
  <2> SUFFICES ASSUME NEW x \in Again(D, s)
               PROVE  x \in Again(E, r)
    OBVIOUS
  <2>1. x \in r.got /\ x \in D /\ x \in E /\ PlaceIn(D, x) > Offset(r)
    BY <1>1, <1>2 DEF Again
  <2>2. PlaceIn(E, x) > Offset(r)
    BY <1>2, <1>5, <2>1
  <2> QED
    BY <2>1, <2>2 DEF Again
<1>9. s.kept \subseteq D
  BY <1>1, <1>3
<1>12. Behind(D, s) \subseteq Behind(E, r)
  <2>1. PICK b \in Nat : b = r.page * PageSize
    BY OfReader
  <2>2. Behind(D, s) = {x \in r.kept \ {z} : PlaceIn(D, x) > b} /\ Behind(E, r) = {x \in r.kept : PlaceIn(E, x) > b}
    BY <1>1, <2>1 DEF Behind
  <2>3. \A x \in D : PlaceIn(D, x) > b => PlaceIn(E, x) > b
    BY <1>5, <2>1
  <2> HIDE DEF D
  <2>4. r.kept \ {z} \subseteq D
    BY <1>1, <1>9
  <2> QED
    BY <2>2, <2>3, <2>4
<1> HIDE DEF D, W
<1>13. Counted(D, s)
  <2> SUFFICES ASSUME s.state = "listing", ~(s.page + 1 <= s.pages)
               PROVE  Cardinality(Behind(D, s)) <= s.late
    BY DEF Counted
  <2>1. Cardinality(Behind(E, r)) <= r.late /\ r.late \in Nat /\ Cardinality(Behind(E, r)) \in Nat
    BY <1>1, OfReader DEF Counted
  <2>2. Cardinality(Behind(D, s)) <= Cardinality(Behind(E, r)) /\ Cardinality(Behind(D, s)) \in Nat
    BY <1>12, OfReader, FewerCounted
  <2> QED
    BY <1>1, <2>1, <2>2
<1>10. Cardinality(Missed(D, s)) <= s.dropped
  <2>1. IsFiniteSet(Missed(D, s)) /\ Cardinality(Missed(D, s)) <= Cardinality(Missed(E, r)) + 1
    BY <1>6, <1>7, OfReader, OneMore
  <2>2. Cardinality(Missed(D, s)) \in Nat
    BY <2>1, FS_CardinalityType
  <2>3. Cardinality(Missed(E, r)) <= r.dropped /\ r.dropped \in Nat /\ Cardinality(Missed(E, r)) \in Nat
    BY OfReader DEF ReadOK
  <2> QED
    BY <1>1, <2>1, <2>2, <2>3
<1>11. s.written + Cardinality(Again(D, s)) <= s.added + Cardinality(s.got)
  <2>1. Cardinality(Again(D, s)) <= Cardinality(Again(E, r)) /\ Cardinality(Again(D, s)) \in Nat
    BY <1>8, OfReader, FewerCounted
  <2>2. /\ r.written + Cardinality(Again(E, r)) <= r.added + Cardinality(r.got)
        /\ r.written \in Nat /\ r.added \in Nat /\ Cardinality(r.got) \in Nat /\ Cardinality(Again(E, r)) \in Nat
    BY OfReader DEF ReadOK
  <2> QED
    BY <1>1, <2>1, <2>2
<1> QED
  BY <1>9, <1>10, <1>11, <1>13 DEF ReadOK, D

\* The page shown: no row is passed over, and those that are read a second time
\* were due to come again.
LEMMA PageRead ==
    ASSUME NEW E, NEW r, NEW n, TableOK(E, n), ReaderOK(r, n), ReadOK(E, r),
           NEW P, P = {x \in E : PlaceIn(E, x) \in (r.page - 1) * PageSize + 1 .. r.page * PageSize},
           NEW s, s.kept = r.kept, s.added = r.added, s.dropped = r.dropped, s.page = r.page + 1,
           s.got = r.got \cup P, s.written = r.written + Cardinality(P)
    PROVE  ReadOK(E, s) /\ Offset(s) = r.page * PageSize
<1>1. PICK a \in Nat, b \in Nat : a = Offset(r) /\ b = Offset(s) /\ b = r.page * PageSize /\ a <= b
  <2>1. r.page \in Nat \ {0} /\ Offset(r) \in Nat /\ PageSize \in Nat
    BY OfReader, ReportsAssumption
  <2>2. Offset(s) = r.page * PageSize
    <3>1. s.page - 1 = r.page
      BY <2>1
    <3>2. Offset(s) = (s.page - 1) * PageSize
      BY DEF Offset
    <3> QED
      BY <3>1, <3>2, Zenon
  <2>3. r.page * PageSize \in Nat
    <3>1. PICK p \in Nat : p = r.page
      BY <2>1
    <3>2. p * PageSize \in Nat
      BY <2>1
    <3> QED
      BY <3>1, <3>2
  <2>4. (r.page - 1) * PageSize <= r.page * PageSize
    <3>1. r.page - 1 \in Int /\ r.page \in Int /\ r.page - 1 <= r.page
      BY <2>1
    <3> QED
      BY <2>1, <3>1, TimesMore
  <2> QED
    BY <2>1, <2>2, <2>3, <2>4 DEF Offset
<1>2. P = {x \in E : PlaceIn(E, x) \in a + 1 .. b}
  BY <1>1 DEF Offset
<1>3. \A x \in E : PlaceIn(E, x) \in Nat
  BY PlaceIs
<1>4. P \subseteq E /\ \A x \in E : x \in P <=> PlaceIn(E, x) > a /\ PlaceIn(E, x) <= b
  BY <1>1, <1>2, <1>3
<1>5. r.kept \subseteq E
  BY DEF ReadOK
<1>6. Missed(E, s) \subseteq Missed(E, r)
  <2> SUFFICES ASSUME NEW x \in Missed(E, s)
               PROVE  x \in Missed(E, r)
    OBVIOUS
  <2>1. x \in r.kept /\ x \notin r.got /\ x \notin P /\ x \in E /\ PlaceIn(E, x) <= b
    BY <1>1, <1>5 DEF Missed
  <2>2. PlaceIn(E, x) <= a
    BY <1>1, <1>3, <1>4, <2>1
  <2> QED
    BY <1>1, <2>1, <2>2 DEF Missed
<1>7. IsFiniteSet(E) /\ IsFiniteSet(P)
  BY <1>4, FS_Subset DEF TableOK
<1> DEFINE A == P \cap r.got
           C == Again(E, s)
<1>8. A \subseteq Again(E, r) /\ C \subseteq Again(E, r) /\ A \cap C = {}
  <2>1. ASSUME NEW x \in A
        PROVE  x \in Again(E, r) /\ x \notin C
    <3>1. x \in E /\ PlaceIn(E, x) > a /\ PlaceIn(E, x) <= b /\ x \in r.got
      BY <1>4
    <3>2. ~(PlaceIn(E, x) > b)
      BY <1>1, <1>3, <3>1
    <3> QED
      BY <1>1, <3>1, <3>2 DEF Again
  <2>2. ASSUME NEW x \in C
        PROVE  x \in Again(E, r)
    <3>1. x \in E /\ x \in r.got \cup P /\ PlaceIn(E, x) > b
      BY <1>1 DEF Again
    <3>2. ~(PlaceIn(E, x) <= b) /\ PlaceIn(E, x) > a
      BY <1>1, <1>3, <3>1
    <3>3. x \in r.got
      BY <1>4, <3>1, <3>2
    <3> QED
      BY <1>1, <3>1, <3>2, <3>3 DEF Again
  <2> QED
    BY <2>1, <2>2
<1>9. Cardinality(r.got \cup P) = Cardinality(r.got) + Cardinality(P) - Cardinality(A)
  <2>1. IsFiniteSet(r.got)
    BY OfReader
  <2>2. Cardinality(r.got \cup P) = Cardinality(r.got) + Cardinality(P) - Cardinality(r.got \cap P)
    BY <1>7, <2>1, FS_Union
  <2>3. r.got \cap P = A
    OBVIOUS
  <2> QED
    BY <2>2, <2>3
<1> HIDE DEF A, C
<1>10. Cardinality(A) + Cardinality(C) <= Cardinality(Again(E, r))
  BY <1>8, OfReader, TwoParts
<1>11. /\ Cardinality(A) \in Nat /\ Cardinality(C) \in Nat /\ Cardinality(P) \in Nat
       /\ Cardinality(Again(E, r)) \in Nat /\ Cardinality(r.got) \in Nat
       /\ r.written \in Nat /\ r.added \in Nat /\ r.dropped \in Nat
  BY <1>7, <1>8, OfReader, FewerCounted
<1>12. r.written + Cardinality(Again(E, r)) <= r.added + Cardinality(r.got)
  BY DEF ReadOK
<1>13. r.written + Cardinality(P) + Cardinality(C) <= r.added + Cardinality(r.got \cup P)
  BY <1>9, <1>10, <1>11, <1>12
<1>14. Cardinality(Missed(E, s)) <= r.dropped
  <2>1. Cardinality(Missed(E, s)) <= Cardinality(Missed(E, r)) /\ Cardinality(Missed(E, s)) \in Nat
    BY <1>6, OfReader, FewerCounted
  <2>2. Cardinality(Missed(E, r)) <= r.dropped /\ Cardinality(Missed(E, r)) \in Nat
    BY OfReader DEF ReadOK
  <2> QED
    BY <1>11, <2>1, <2>2
<1> QED
  BY <1>1, <1>5, <1>13, <1>14 DEF ReadOK, C


-----------------------------------------------------------------------------
(* Steps of the reports.                                                   *)

LEMMA RowsGrow ==
    ASSUME NEW n \in Nat, NEW m \in Nat, n <= m
    PROVE  Row(n) \subseteq Row(m)
<1>1. 1..n \subseteq 1..m
  OBVIOUS
<1> QED
  BY <1>1 DEF Row

LEMMA InitOK ==
    ASSUME ReportsInit
    PROVE  ReportsInv
<1>1. Placed = {} /\ orders = [o \in Orders |-> orders[o]] /\ IsFiniteSet({}) /\ expenses = {} /\ inserted = 0
  BY FS_EmptySet DEF ReportsInit, Placed
<1>2. ReportTypes
  <2>1. 0 \in 0 .. Horizon
    BY ReportsAssumption
  <2> QED
    BY <1>1, <2>1 DEF ReportsInit, ReportTypes, NoExport
<1>3. Rows
  BY <1>1, <1>2 DEF Rows
<1>4. TableOK(expenses, inserted)
  BY <1>1 DEF TableOK
<1>5. ReaderOK(reader, inserted)
  BY <1>1 DEF ReportsInit, ReaderOK, NoExport
<1>6. reader.state = "idle"
  BY DEF ReportsInit, NoExport
<1> QED
  BY <1>3, <1>4, <1>5, <1>6 DEF ReportsInv, ExportIsComplete, Exporting

\* Steps of the orders and the clock leave the expenses alone.
LEMMA OrderSteps ==
    ASSUME ReportsInv, UNCHANGED <<zone, expenses, inserted, reader>>,
           now' \in 0..Horizon, now <= now', IsFiniteSet(Placed'),
           orders' = [o \in Orders |-> orders'[o]],
           \A o \in Placed' : \/ o \in Placed /\ orders'[o] = orders[o]
                              \/ orders'[o] \in [basket: Baskets, at: 0..now', status: OrderStatus]
    PROVE  ReportsInv'
<1>1. now \in Nat /\ now' \in Nat /\ 0..now \subseteq 0..now'
  BY ReportsAssumption DEF ReportsInv, Rows, ReportTypes
<1>2. \A o \in Placed' : orders'[o] \in [basket: Baskets, at: 0..now', status: OrderStatus]
  <2> SUFFICES ASSUME NEW o \in Placed, orders'[o] = orders[o]
               PROVE  orders'[o] \in [basket: Baskets, at: 0..now', status: OrderStatus]
    OBVIOUS
  <2>1. orders[o] \in [basket: Baskets, at: 0..now, status: OrderStatus]
    BY DEF ReportsInv, Rows, ReportTypes
  <2> QED
    BY <1>1, <2>1
<1>3. ReportTypes'
  BY <1>2 DEF ReportsInv, Rows, ReportTypes, Exporting
<1>4. Rows'
  BY <1>3 DEF ReportsInv, Rows
<1> QED
  BY <1>4 DEF ReportsInv, ExportIsComplete, Exporting

LEMMA TickOK ==
    ASSUME ReportsInv, Tick
    PROVE  ReportsInv'
<1>1. now' \in 0..Horizon /\ now <= now'
  BY ReportsAssumption DEF Tick, ReportsInv, Rows, ReportTypes
<1>2. /\ orders' = orders /\ Placed' = Placed /\ IsFiniteSet(Placed)
      /\ orders = [o \in Orders |-> orders[o]] /\ UNCHANGED <<zone, expenses, inserted, reader>>
  BY DEF Tick, Placed, ReportsInv, Rows
<1>3. orders' = [o \in Orders |-> orders'[o]] /\ \A o \in Placed' : o \in Placed /\ orders'[o] = orders[o]
  BY <1>2
<1> QED
  BY <1>1, <1>2, <1>3, OrderSteps

LEMMA CreateOrderOK ==
    ASSUME ReportsInv, NEW o \in Orders, NEW b \in Baskets, CreateOrder(o, b)
    PROVE  ReportsInv'
<1> DEFINE fresh == [basket |-> b, at |-> now, status |-> "CREATED"]
<1>1. now \in 0..Horizon /\ now' = now /\ now <= now' /\ UNCHANGED <<zone, expenses, inserted, reader>>
  BY ReportsAssumption DEF CreateOrder, ReportsInv, Rows, ReportTypes
<1>2. orders = [x \in Orders |-> orders[x]] /\ orders' = [orders EXCEPT ![o] = fresh] /\ IsFiniteSet(Placed)
  BY DEF CreateOrder, ReportsInv, Rows
<1>3. fresh \in [basket: Baskets, at: 0..now', status: OrderStatus]
  <2>1. now \in 0 .. now'
    BY <1>1, ReportsAssumption
  <2> QED
    BY <2>1 DEF OrderStatus
<1> HIDE DEF fresh
<1>4. orders' = [x \in Orders |-> orders'[x]] /\ orders'[o] = fresh /\ \A x \in Orders \ {o} : orders'[x] = orders[x]
  BY <1>2
<1>5. Placed' \subseteq Placed \cup {o} /\ Placed' \subseteq Orders
  BY <1>4 DEF Placed
<1>6. IsFiniteSet(Placed')
  BY <1>2, <1>5, FS_AddElement, FS_Subset
<1>7. \A x \in Placed' : \/ x \in Placed /\ orders'[x] = orders[x]
                         \/ orders'[x] \in [basket: Baskets, at: 0..now', status: OrderStatus]
  BY <1>3, <1>4, <1>5
<1> QED
  BY <1>1, <1>4, <1>6, <1>7, OrderSteps

LEMMA UpdateStatusOK ==
    ASSUME ReportsInv, NEW o \in Orders, NEW next \in OrderStatus, UpdateStatus(o, next)
    PROVE  ReportsInv'
<1>1. now \in 0..Horizon /\ now' = now /\ now <= now' /\ UNCHANGED <<zone, expenses, inserted, reader>>
  BY ReportsAssumption DEF UpdateStatus, ReportsInv, Rows, ReportTypes
<1>2. orders = [x \in Orders |-> orders[x]] /\ orders' = [orders EXCEPT ![o].status = next] /\ IsFiniteSet(Placed)
  BY DEF UpdateStatus, ReportsInv, Rows
<1>3. o \in Placed /\ orders[o] \in [basket: Baskets, at: 0..now, status: OrderStatus]
  BY DEF UpdateStatus, Placed, ReportsInv, Rows, ReportTypes
<1>4. orders'[o] = [orders[o] EXCEPT !.status = next]
  BY <1>2
<1>5. orders'[o] \in [basket: Baskets, at: 0..now', status: OrderStatus]
  BY <1>1, <1>3, <1>4
<1>6. orders' = [x \in Orders |-> orders'[x]] /\ \A x \in Orders \ {o} : orders'[x] = orders[x]
  BY <1>2
<1>7. Placed' \subseteq Placed
  BY <1>3, <1>6 DEF Placed
<1>8. IsFiniteSet(Placed')
  BY <1>2, <1>7, FS_Subset
<1>9. \A x \in Placed' : \/ x \in Placed /\ orders'[x] = orders[x]
                         \/ orders'[x] \in [basket: Baskets, at: 0..now', status: OrderStatus]
  <2>1. Placed \subseteq Orders
    BY DEF Placed
  <2> QED
    BY <1>5, <1>6, <1>7, <2>1
<1> QED
  BY <1>1, <1>6, <1>8, <1>9, OrderSteps

\* Steps of the expenses leave the orders and the clock alone.
LEMMA ExpenseSteps ==
    ASSUME ReportsInv, UNCHANGED <<now, zone, orders>>,
           TableOK(expenses', inserted'), ReaderOK(reader', inserted'),
           Exporting' => ReadOK(expenses', reader') /\ Counted(expenses', reader'),
           ExportIsComplete'
    PROVE  ReportsInv'
<1>1. expenses' \subseteq [made: 1..inserted', on: Days, type: Types] /\ IsFiniteSet(expenses')
  BY DEF TableOK, Row
<1>2. Exporting' => reader'.kept \subseteq expenses'
  BY DEF ReadOK
<1>3. Placed' = Placed
  BY DEF Placed
<1>4. ReportTypes'
  BY <1>1, <1>2, <1>3 DEF ReportTypes, ReportsInv, Rows
<1>5. Rows'
  BY <1>1, <1>3, <1>4 DEF ReportsInv, Rows
<1> QED
  BY <1>5 DEF ReportsInv

LEMMA CreateExpenseOK ==
    ASSUME ReportsInv, NEW day \in Days, NEW type \in Types, CreateExpense(day, type)
    PROVE  ReportsInv'
<1> DEFINE z == [made |-> inserted + 1, on |-> day, type |-> type]
<1>1. TableOK(expenses, inserted) /\ ReaderOK(reader, inserted) /\ inserted \in Nat
  BY DEF ReportsInv, TableOK
<1>2. /\ inserted' = inserted + 1 /\ expenses' = expenses \cup {z} /\ UNCHANGED <<now, zone, orders>>
      /\ reader' = IF Exporting THEN [reader EXCEPT !.added = @ + 1, !.late = @ + 1] ELSE reader
  BY DEF CreateExpense
<1>3. z \in Row(inserted') /\ z.made = inserted + 1
  <2>1. inserted + 1 \in 1..inserted'
    BY <1>1, <1>2
  <2> QED
    BY <2>1 DEF Row
<1>4. \A x \in Row(inserted) : x.made # z.made
  <2>1. \A x \in Row(inserted) : x.made \in 1..inserted
    BY DEF Row
  <2> QED
    BY <1>1, <1>3, <2>1
<1> HIDE DEF z
<1>5. z \notin Row(inserted) /\ Row(inserted) \subseteq Row(inserted')
  BY <1>1, <1>2, <1>4, RowsGrow
<1>6. z \notin expenses /\ z \notin reader.got
  BY <1>1, <1>5, OfReader DEF TableOK
<1>7. TableOK(expenses', inserted')
  <2>1. IsFiniteSet(expenses') /\ inserted' \in Nat
    BY <1>1, <1>2, FS_AddElement DEF TableOK
  <2>2. expenses' \subseteq Row(inserted')
    BY <1>1, <1>2, <1>3, <1>5 DEF TableOK
  <2>3. \A x, y \in expenses' : x.made = y.made => x = y
    BY <1>1, <1>2, <1>4 DEF TableOK
  <2> QED
    BY <2>1, <2>2, <2>3 DEF TableOK
<1>8. CASE Exporting
  <2>1. reader' = [reader EXCEPT !.added = @ + 1, !.late = @ + 1]
    BY <1>2, <1>8
  <2>2. reader'.state \in {"counting", "listing"}
    BY <1>1, <1>8, <2>1 DEF ReaderOK, Exporting
  <2>3. ReadOK(expenses, reader) /\ Counted(expenses, reader)
    BY <1>8 DEF ReportsInv
  <2>4. PICK r, s : r = reader /\ s = reader'
    OBVIOUS
  <2>5. ReadOK(expenses', reader') /\ Counted(expenses', reader')
    <3>1. /\ TableOK(expenses, inserted) /\ ReaderOK(r, inserted) /\ ReadOK(expenses, r) /\ Counted(expenses, r)
          /\ z \notin expenses /\ z \notin r.got
      BY <1>1, <1>6, <2>3, <2>4
    <3>2. s = [r EXCEPT !.added = @ + 1, !.late = @ + 1]
      BY <2>1, <2>4
    <3>3. ReadOK(expenses \cup {z}, s) /\ Counted(expenses \cup {z}, s)
      BY ONLY <3>1, <3>2, InsertedWhileRead
    <3> QED
      BY <1>2, <2>4, <3>3
  <2>6. ReaderOK(reader', inserted')
    <3>1. r.added + 1 \in Nat /\ r.late + 1 \in Nat /\ r.got \subseteq Row(inserted') /\ r.kept \subseteq Row(inserted')
      BY <1>1, <1>5, <2>4, OfReader
    <3> QED
      BY <1>1, <2>1, <2>4, <3>1 DEF ReaderOK
  <2>7. ExportIsComplete'
    BY <2>2 DEF ExportIsComplete
  <2> QED
    BY <1>2, <1>7, <2>5, <2>6, <2>7, ExpenseSteps
<1>9. CASE ~Exporting
  <2>1. reader' = reader
    BY <1>2, <1>9
  <2>2. ReaderOK(reader', inserted')
    BY <1>1, <1>5, <2>1 DEF ReaderOK
  <2>3. ExportIsComplete'
    BY <2>1 DEF ExportIsComplete, ReportsInv
  <2> QED
    BY <1>2, <1>7, <1>9, <2>1, <2>2, <2>3, ExpenseSteps DEF Exporting
<1> QED
  BY <1>8, <1>9

LEMMA DeleteExpenseOK ==
    ASSUME ReportsInv, NEW x \in expenses, DeleteExpense(x)
    PROVE  ReportsInv'
<1>1. TableOK(expenses, inserted) /\ ReaderOK(reader, inserted) /\ inserted \in Nat
  BY DEF ReportsInv, TableOK
<1>2. /\ inserted' = inserted /\ expenses' = expenses \ {x} /\ UNCHANGED <<now, zone, orders>>
      /\ reader' = IF Exporting
                   THEN [reader EXCEPT !.dropped = @ + 1, !.kept = @ \ {x}] ELSE reader
  BY DEF DeleteExpense
<1>3. TableOK(expenses', inserted')
  <2>1. IsFiniteSet(expenses')
    BY <1>1, <1>2, FS_Subset DEF TableOK
  <2> QED
    BY <1>1, <1>2, <2>1 DEF TableOK
<1>4. CASE Exporting
  <2>1. reader' = [reader EXCEPT !.dropped = @ + 1, !.kept = @ \ {x}]
    BY <1>2, <1>4
  <2>2. reader'.state \in {"counting", "listing"}
    BY <1>1, <1>4, <2>1 DEF ReaderOK, Exporting
  <2>3. ReadOK(expenses, reader) /\ Counted(expenses, reader)
    BY <1>4 DEF ReportsInv
  <2>4. PICK r, s : r = reader /\ s = reader'
    OBVIOUS
  <2>5. ReadOK(expenses', reader') /\ Counted(expenses', reader')
    <3>1. TableOK(expenses, inserted) /\ ReaderOK(r, inserted) /\ ReadOK(expenses, r) /\ Counted(expenses, r)
      BY <1>1, <2>3, <2>4
    <3>2. s = [r EXCEPT !.dropped = @ + 1, !.kept = @ \ {x}]
      BY <2>1, <2>4
    <3>3. ReadOK(expenses \ {x}, s) /\ Counted(expenses \ {x}, s)
      BY ONLY <3>1, <3>2, DeletedWhileRead
    <3> QED
      BY <1>2, <2>4, <3>3
  <2>6. ReaderOK(reader', inserted')
    <3>1. r.dropped + 1 \in Nat /\ r.kept \ {x} \subseteq Row(inserted) /\ IsFiniteSet(r.kept \ {x})
      BY <1>1, <2>4, OfReader, FS_Subset
    <3>2. ReaderOK(r, inserted) /\ s = [r EXCEPT !.dropped = @ + 1, !.kept = @ \ {x}]
      BY <1>1, <2>1, <2>4
    <3>3. PICK n, K : n = r.dropped + 1 /\ K = r.kept \ {x}
      OBVIOUS
    <3>4. s = [r EXCEPT !.dropped = n, !.kept = K]
      BY <3>2, <3>3
    <3>5. n \in Nat /\ K \in SUBSET Row(inserted) /\ IsFiniteSet(K)
      BY <3>1, <3>3
    <3>6. ReaderOK(s, inserted)
      BY ONLY <3>2, <3>4, <3>5 DEF ReaderOK
    <3> QED
      BY <1>2, <2>4, <3>6
  <2>7. ExportIsComplete'
    BY <2>2 DEF ExportIsComplete
  <2> QED
    BY <1>2, <1>3, <2>5, <2>6, <2>7, ExpenseSteps
<1>5. CASE ~Exporting
  <2>1. reader' = reader
    BY <1>2, <1>5
  <2>2. ReaderOK(reader', inserted')
    BY <1>1, <1>2, <2>1
  <2>3. ExportIsComplete'
    BY <2>1 DEF ExportIsComplete, ReportsInv
  <2> QED
    BY <1>2, <1>3, <1>5, <2>1, <2>2, <2>3, ExpenseSteps DEF Exporting
<1> QED
  BY <1>4, <1>5

LEMMA StartExportOK ==
    ASSUME ReportsInv, StartExport
    PROVE  ReportsInv'
<1>1. TableOK(expenses, inserted) /\ inserted \in Nat
  BY DEF ReportsInv, TableOK
<1>2. UNCHANGED <<now, zone, orders, expenses, inserted>>
  BY DEF StartExport
<1>3. PICK s : s = reader'
  OBVIOUS
<1>4. s = [state |-> "counting", page |-> 1, pages |-> 1, got |-> {}, written |-> 0,
           kept |-> expenses, added |-> 0, late |-> 0, dropped |-> 0]
  BY <1>3 DEF StartExport, NoExport
<1>5. ReaderOK(s, inserted)
  <2>1. IsFiniteSet({}) /\ IsFiniteSet(expenses) /\ expenses \subseteq Row(inserted)
    BY <1>1, FS_EmptySet DEF TableOK
  <2> QED
    BY <1>4, <2>1 DEF ReaderOK
<1>6. ReadOK(expenses, s)
  <2>1. Offset(s) = 0
    <3>1. s.page - 1 = 0
      BY <1>4
    <3>2. 0 * PageSize = 0
      BY ReportsAssumption
    <3> QED
      BY <3>1, <3>2 DEF Offset
  <2>2. Missed(expenses, s) = {}
    <3>1. \A x \in expenses : PlaceIn(expenses, x) \in Nat \ {0}
      BY <1>1, PlaceIs
    <3>2. \A x \in expenses : ~(PlaceIn(expenses, x) <= 0)
      BY <3>1
    <3> QED
      BY <1>4, <2>1, <3>2 DEF Missed
  <2>3. Again(expenses, s) = {}
    BY <1>4 DEF Again
  <2>4. Cardinality({}) = 0
    BY FS_EmptySet
  <2> QED
    BY <1>4, <2>2, <2>3, <2>4 DEF ReadOK
<1>7. s.state = "counting"
  BY <1>4
<1>8. ExportIsComplete' /\ Counted(expenses, s)
  BY <1>3, <1>7 DEF ExportIsComplete, Counted
<1> QED
  BY <1>1, <1>2, <1>3, <1>5, <1>6, <1>8, ExpenseSteps

\* The last page reaches the end of the list.
LEMMA PagesReachTheEnd ==
    ASSUME NEW n \in Nat, n = Cardinality(expenses)
    PROVE  /\ TotalPages \in Int
           /\ \A p \in Nat \ {0} : ~(p + 1 <= TotalPages) => n <= p * PageSize
<1>1. PageSize \in Int /\ PageSize > 0
  BY ReportsAssumption
<1>2. PICK m \in Int : m = n + PageSize - 1
  BY <1>1
<1>3. PICK q \in Int : q = m \div PageSize /\ m < q * PageSize + PageSize
  BY <1>1, QuotientIs
<1>4. TotalPages = Max({1, q})
  BY <1>2, <1>3 DEF TotalPages
<1>5. TotalPages \in Int /\ TotalPages >= q
  <2>1. \E x \in {1, q} : \A y \in {1, q} : x >= y
    BY <1>3
  <2>2. TotalPages = CHOOSE x \in {1, q} : \A y \in {1, q} : x >= y
    BY <1>4 DEF Max
  <2>3. TotalPages \in {1, q} /\ \A y \in {1, q} : TotalPages >= y
    BY <2>1, <2>2
  <2> QED
    BY <1>3, <2>3
<1>6. ASSUME NEW p \in Nat \ {0}, ~(p + 1 <= TotalPages)
      PROVE  n <= p * PageSize
  <2>1. q <= p
    BY <1>3, <1>5, <1>6
  <2>2. q * PageSize <= p * PageSize /\ q * PageSize \in Int /\ p * PageSize \in Int
    BY <1>1, <1>3, <2>1, TimesMore
  <2> QED
    BY <1>1, <1>2, <1>3, <2>2
<1> QED
  BY <1>5, <1>6

\* A count that makes the page the last one leaves no row behind it.
LEMMA CountRowsOK ==
    ASSUME ReportsInv, CountRows
    PROVE  ReportsInv'
<1>1. TableOK(expenses, inserted) /\ ReaderOK(reader, inserted) /\ inserted \in Nat /\ ReadOK(expenses, reader)
  BY DEF ReportsInv, TableOK, CountRows, Exporting
<1>2. UNCHANGED <<now, zone, orders, expenses, inserted>>
  BY DEF CountRows
<1>3. PICK r, s, q : r = reader /\ s = reader' /\ q = TotalPages
  OBVIOUS
<1>4. s = [r EXCEPT !.state = "listing", !.pages = q, !.late = 0]
  BY <1>3 DEF CountRows
<1>5. PICK n \in Nat : n = Cardinality(expenses)
  BY <1>1, FS_CardinalityType DEF TableOK
<1>6. q \in Int /\ \A p \in Nat \ {0} : ~(p + 1 <= q) => n <= p * PageSize
  BY <1>3, <1>5, PagesReachTheEnd
<1>7. /\ s.page = r.page /\ s.got = r.got /\ s.written = r.written /\ s.kept = r.kept
      /\ s.added = r.added /\ s.dropped = r.dropped
      /\ s.state = "listing" /\ s.pages = q /\ s.late = 0
  BY <1>1, <1>3, <1>4 DEF ReaderOK
<1>8. ReaderOK(s, inserted)
  <2>1. r \in [state: {"idle", "counting", "listing", "done"}, page: Nat \ {0}, pages: Int,
               got: SUBSET Row(inserted), written: Nat, kept: SUBSET Row(inserted), added: Nat, late: Nat,
               dropped: Nat]
    BY <1>1, <1>3 DEF ReaderOK
  <2>2. q \in Int /\ 0 \in Nat
    BY <1>6
  <2>3. IsFiniteSet(s.got) /\ IsFiniteSet(s.kept)
    BY <1>1, <1>3, <1>7 DEF ReaderOK
  <2> QED
    BY <1>4, <2>1, <2>2, <2>3 DEF ReaderOK
<1>9. ReadOK(expenses, s)
  <2>1. Offset(s) = Offset(r)
    BY <1>7 DEF Offset
  <2>2. Missed(expenses, s) = Missed(expenses, r) /\ Again(expenses, s) = Again(expenses, r)
    BY <1>7, <2>1 DEF Missed, Again
  <2> QED
    BY <1>1, <1>3, <1>7, <2>2 DEF ReadOK
<1>10. Counted(expenses, s)
  <2> SUFFICES ASSUME ~(s.page + 1 <= s.pages)
               PROVE  Cardinality(Behind(expenses, s)) <= 0
    BY <1>7 DEF Counted
  <2>1. s.page \in Nat \ {0} /\ s.page * PageSize \in Nat /\ s.kept \subseteq expenses
    BY <1>1, <1>8, <1>9, OfReader DEF ReadOK
  <2>2. n <= s.page * PageSize
    BY <1>6, <1>7, <2>1
  <2>3. \A x \in expenses : PlaceIn(expenses, x) \in Nat /\ PlaceIn(expenses, x) <= n
    BY <1>1, <1>5, PlaceIs
  <2>4. Behind(expenses, s) = {}
    BY <2>1, <2>2, <2>3 DEF Behind
  <2> QED
    BY <2>4, FS_EmptySet
<1>11. ExportIsComplete'
  BY <1>3, <1>7 DEF ExportIsComplete
<1> QED
  BY <1>1, <1>2, <1>3, <1>8, <1>9, <1>10, <1>11, ExpenseSteps

\* A set whose elements are in one of two sets.
LEMMA FewerInTwo ==
    ASSUME NEW S, NEW T, IsFiniteSet(S), IsFiniteSet(T), NEW U, U \subseteq S \cup T
    PROVE  Cardinality(U) <= Cardinality(S) + Cardinality(T) /\ Cardinality(U) \in Nat
<1>1. IsFiniteSet(S \cup T) /\ Cardinality(S \cup T) = Cardinality(S) + Cardinality(T) - Cardinality(S \cap T)
  BY FS_Union
<1>2. IsFiniteSet(S \cap T)
  BY FS_Subset
<1>3. Cardinality(S) \in Nat /\ Cardinality(T) \in Nat /\ Cardinality(S \cap T) \in Nat /\ Cardinality(S \cup T) \in Nat
  BY <1>1, <1>2, FS_CardinalityType
<1>4. Cardinality(U) <= Cardinality(S \cup T) /\ Cardinality(U) \in Nat
  BY <1>1, FewerCounted
<1> QED
  BY <1>1, <1>3, <1>4

LEMMA ReadPageOK ==
    ASSUME ReportsInv, ReadPage
    PROVE  ReportsInv'
<1>1. TableOK(expenses, inserted) /\ ReaderOK(reader, inserted) /\ inserted \in Nat /\ ReadOK(expenses, reader)
  BY DEF ReportsInv, TableOK, ReadPage, Exporting
<1>2. UNCHANGED <<now, zone, orders, expenses, inserted>>
  BY DEF ReadPage
<1>3. PICK r, s, P, st : /\ r = reader /\ s = reader' /\ P = ListPage(reader.page)
                         /\ st = IF reader.page + 1 <= reader.pages THEN "counting" ELSE "done"
  OBVIOUS
<1>4. s = [r EXCEPT !.got = @ \cup P, !.written = @ + Cardinality(P), !.page = @ + 1, !.state = st]
  BY <1>3 DEF ReadPage
<1>5. P = {x \in expenses : PlaceIn(expenses, x) \in (r.page - 1) * PageSize + 1 .. r.page * PageSize}
  BY <1>3 DEF ListPage, Place, PlaceIn
<1>6. r \in [state: {"idle", "counting", "listing", "done"}, page: Nat \ {0}, pages: Int,
             got: SUBSET Row(inserted), written: Nat, kept: SUBSET Row(inserted), added: Nat, late: Nat,
             dropped: Nat]
  BY <1>1, <1>3 DEF ReaderOK
<1>7. /\ s.kept = r.kept /\ s.added = r.added /\ s.dropped = r.dropped /\ s.page = r.page + 1
      /\ s.got = r.got \cup P /\ s.written = r.written + Cardinality(P) /\ s.state = st
      /\ s.late = r.late
  BY <1>4, <1>6
<1>8. ReadOK(expenses, s) /\ Offset(s) = r.page * PageSize
  <2>1. ReaderOK(r, inserted) /\ ReadOK(expenses, r)
    BY <1>1, <1>3
  <2> QED
    BY ONLY <1>1, <1>5, <1>7, <2>1, PageRead
<1>9. ReaderOK(s, inserted)
  <2>1. IsFiniteSet(P) /\ P \subseteq Row(inserted) /\ Cardinality(P) \in Nat
    BY <1>1, <1>5, FS_Subset, FS_CardinalityType DEF TableOK
  <2>2. IsFiniteSet(r.got \cup P) /\ IsFiniteSet(r.kept)
    BY <1>1, <1>3, <2>1, OfReader, FS_Union
  <2>3. r.written + Cardinality(P) \in Nat /\ r.page + 1 \in Nat \ {0} /\ r.got \cup P \subseteq Row(inserted)
    BY <1>1, <1>3, <2>1, OfReader
  <2>4. st \in {"idle", "counting", "listing", "done"}
    BY <1>3
  <2> QED
    BY <1>4, <1>6, <1>7, <2>2, <2>3, <2>4 DEF ReaderOK
<1>10. ExportIsComplete'
  <2> SUFFICES ASSUME s.state = "done"
               PROVE  /\ Cardinality(s.kept \ s.got) <= s.dropped + s.late
                      /\ s.written - Cardinality(s.got) <= s.added
    BY <1>3 DEF ExportIsComplete
  <2>1. r.state = "listing" /\ ~(r.page + 1 <= r.pages)
    BY <1>3, <1>7 DEF ReadPage
  <2>2. Cardinality(Behind(expenses, r)) <= s.late
    BY <1>3, <1>7, <2>1 DEF ReportsInv, Exporting, Counted
  <2>3. s.kept \ s.got \subseteq Missed(expenses, s) \cup Behind(expenses, r)
    <3>1. \A x \in expenses : PlaceIn(expenses, x) \in Nat
      BY <1>1, PlaceIs
    <3>2. \A x \in expenses : PlaceIn(expenses, x) <= Offset(s) \/ PlaceIn(expenses, x) > r.page * PageSize
      BY <1>1, <1>3, <1>8, <3>1, OfReader
    <3> QED
      BY <1>7, <1>8, <3>2 DEF Missed, Behind, ReadOK
  <2>4. /\ IsFiniteSet(Missed(expenses, s)) /\ Cardinality(Missed(expenses, s)) \in Nat
        /\ Cardinality(Again(expenses, s)) \in Nat
        /\ s.written \in Nat /\ s.added \in Nat /\ s.dropped \in Nat /\ s.late \in Nat /\ Cardinality(s.got) \in Nat
    BY <1>1, <1>9, OfReader
  <2>5. IsFiniteSet(Behind(expenses, r)) /\ Cardinality(Behind(expenses, r)) \in Nat
    BY <1>1, <1>3, OfReader
  <2>6. /\ Cardinality(s.kept \ s.got) <= Cardinality(Missed(expenses, s)) + Cardinality(Behind(expenses, r))
        /\ Cardinality(s.kept \ s.got) \in Nat
    BY <2>3, <2>4, <2>5, FewerInTwo
  <2>7. /\ Cardinality(Missed(expenses, s)) <= s.dropped
        /\ s.written + Cardinality(Again(expenses, s)) <= s.added + Cardinality(s.got)
    BY <1>8 DEF ReadOK
  <2> QED
    BY <2>2, <2>4, <2>5, <2>6, <2>7
<1>11. Counted(expenses, s)
  BY <1>3, <1>7 DEF Counted
<1> QED
  BY <1>1, <1>2, <1>3, <1>8, <1>9, <1>10, <1>11, ExpenseSteps

LEMMA StepOK ==
    ASSUME ReportsInv, [ReportsNext]_reportVars
    PROVE  ReportsInv'
<1>1. CASE UNCHANGED reportVars
  BY <1>1 DEF ReportsInv, Rows, ReportTypes, Placed, ExportIsComplete, Exporting, reportVars
<1>2. CASE ReportsNext
  BY <1>2, TickOK, CreateOrderOK, UpdateStatusOK, CreateExpenseOK, DeleteExpenseOK, StartExportOK, CountRowsOK,
     ReadPageOK
     DEF ReportsNext
<1> QED
  BY <1>1, <1>2

LEMMA ReportsInvariant == ReportsSpec => []ReportsInv
BY InitOK, StepOK, PTL DEF ReportsSpec

\* Figures that stand side by side agree, with the exceptions ReportsAddUp
\* states, whatever the orders, clocks, periods and filters (OrdersService and
\* ExpensesService).
THEOREM ReportsAlwaysAddUp == ReportsSpec => []ReportsAddUp
<1>1. ReportsInv => ReportsAddUp
  BY RowsAddUp DEF ReportsInv
<1> QED
  BY <1>1, ReportsInvariant, PTL

\* An export misses no more rows than were deleted while it was read, or inserted
\* between the count and the rows of its last page, and writes no more rows twice
\* than were inserted (listExpenses, handleExportCsv).
THEOREM ExportAlwaysComplete == ReportsSpec => []ExportIsComplete
<1>1. ReportsInv => ExportIsComplete
  BY DEF ReportsInv
<1> QED
  BY <1>1, ReportsInvariant, PTL

=============================================================================

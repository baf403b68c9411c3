---------------------------- MODULE Remittances -----------------------------
(***************************************************************************)
(* How the cash of a closed session travels: the operator declares a cash  *)
(* remittance, the site's manager acknowledges or disputes it, gathers the *)
(* acknowledged ones of a period into a site remittance and the tenant's   *)
(* administrator acknowledges or disputes that (RemittancesService).       *)
(*                                                                         *)
(* The service opens no transaction: every find and every save stands      *)
(* alone, and a save loads the row (Load...) before it updates the columns *)
(* that differ (Write...).  A request may die between any two of them.     *)
(***************************************************************************)
EXTENDS Naturals, FiniteSets, Functions

CONSTANTS
    Sessions,         \* cash register sessions, all closed at the start
    Remittances,      \* identifiers of cash remittances
    SiteRemittances,  \* identifiers of site remittances
    Amounts,          \* what an operator may declare
    Workers,          \* requests in flight at the same time
    None              \* no session, no site remittance

RemittanceStatus == {"PENDING", "ACKNOWLEDGED", "DISPUTED"}
Verdicts == {"ACKNOWLEDGED", "DISPUTED"}

ASSUME RemittanceAssumption ==
    /\ Amounts \subseteq Nat
    /\ None \notin Sessions \cup Remittances \cup SiteRemittances \cup RemittanceStatus

VARIABLES
    session,  \* cash_register_sessions.status: CLOSED or REMITTED
    cash,     \* cash_remittances: status, session, amount, site (its site remittance)
    site,     \* site_remittances: status, total
    req       \* the request each worker runs

tables == <<session, cash, site>>
vars == <<tables, req>>

CashRow == [status  : RemittanceStatus \cup {None}, session : Sessions \cup {None},
            amount  : Nat, site : SiteRemittances \cup {None}]
SiteRow == [status : RemittanceStatus \cup {None}, total : Nat]

NoCash == [status |-> None, session |-> None, amount |-> 0, site |-> None]
NoSiteRow == [status |-> None, total |-> 0]

\* Sessions k, cash remittance r and site remittance x a request works on; the
\* images it saves: of the row of r, the verdict on x, the rows it will link.
Idle == [at |-> "idle", k |-> None, r |-> None, x |-> None, amount |-> 0,
         auto |-> FALSE, image |-> NoCash, verdict |-> None,
         dirty |-> {}, links |-> << >>]

Steps == {"idle", "existing", "insert", "reread", "session", "loadsession",
          "writesession", "loadcash", "writecash", "insertsite", "nextlink",
          "loadsite", "writesite"}

Init ==
    /\ session = [k \in Sessions |-> "CLOSED"]
    /\ cash = [r \in Remittances |-> NoCash]
    /\ site = [x \in SiteRemittances |-> NoSiteRow]
    /\ req = [w \in Workers |-> Idle]

\* Worker w goes from step `at` to request record r.
Moves(w, at, r) == req[w].at = at /\ req' = [req EXCEPT ![w] = r]

Total(rows) == FoldFunction(LAMBDA row, n : row.amount + n, 0, rows)

-----------------------------------------------------------------------------
(* createCashRemittance. *)

CreateCashRemittance(w, k, amount, auto) ==
    /\ session[k] = "CLOSED"
    /\ Moves(w, "idle", [Idle EXCEPT !.at = "existing", !.k = k, !.amount = amount,
                                     !.auto = auto])
    /\ UNCHANGED tables

CheckExisting(w) ==
    /\ \A r \in Remittances : cash[r].session # req[w].k
    /\ Moves(w, "existing", [req[w] EXCEPT !.at = "insert"])
    /\ UNCHANGED tables

\* The row is inserted; a site administrator at the till acknowledges at once.
InsertRemittance(w) ==
    /\ \E r \in Remittances :
        /\ cash[r].status = None
        /\ cash' = [cash EXCEPT ![r] =
               [status |-> "PENDING", session |-> req[w].k, amount |-> req[w].amount,
                site |-> None]]
        /\ Moves(w, "insert", IF req[w].auto THEN [Idle EXCEPT !.at = "reread", !.r = r]
                                             ELSE Idle)
    /\ UNCHANGED <<session, site>>

-----------------------------------------------------------------------------
(* acknowledgeCashRemittance and disputeCashRemittance. *)

\* Mutated form: the session is not marked before the remittance is saved.
MutantJudging(r, verdict) ==
    [Idle EXCEPT !.r = r, !.k = cash[r].session,
                 !.image = [cash[r] EXCEPT !.status = verdict],
                 !.at = "loadcash"]

\* A request about remittance r, read PENDING, that will give it this verdict.
Judging(r, verdict) ==
    [Idle EXCEPT !.r = r, !.k = cash[r].session,
                 !.image = [cash[r] EXCEPT !.status = verdict],
                 !.at = IF verdict = "ACKNOWLEDGED" THEN "session" ELSE "loadcash"]

AcknowledgeCash(w, r) ==
    /\ cash[r].status = "PENDING"
    /\ Moves(w, "idle", Judging(r, "ACKNOWLEDGED"))
    /\ UNCHANGED tables

AutoAcknowledge(w) ==
    /\ req[w].at = "reread"
    /\ cash[req[w].r].status = "PENDING"
    /\ Moves(w, "reread", Judging(req[w].r, "ACKNOWLEDGED"))
    /\ UNCHANGED tables

DisputeCash(w, r) ==
    /\ cash[r].status = "PENDING"
    /\ Moves(w, "idle", Judging(r, "DISPUTED"))
    /\ UNCHANGED tables

\* The session, whatever its status, becomes REMITTED: read,
ReadSession(w) ==
    /\ Moves(w, "session", [req[w] EXCEPT !.at = "loadsession"])
    /\ UNCHANGED tables

\* loaded by the save,
LoadSession(w) ==
    /\ Moves(w, "loadsession",
             [req[w] EXCEPT !.at = "writesession",
                            !.dirty = IF session[req[w].k] = "REMITTED" THEN {}
                                                                         ELSE {"status"}])
    /\ UNCHANGED tables

\* and updated.
WriteSession(w) ==
    /\ Moves(w, "writesession", [req[w] EXCEPT !.at = "loadcash", !.dirty = {}])
    /\ session' = IF req[w].dirty = {} THEN session
                  ELSE [session EXCEPT ![req[w].k] = "REMITTED"]
    /\ UNCHANGED <<cash, site>>

\* save of a cash remittance: the columns whose image differs from the row,
LoadCash(w) ==
    LET row == cash[req[w].r]
        image == req[w].image
    IN  /\ Moves(w, "loadcash",
                 [req[w] EXCEPT !.at = "writecash",
                                !.dirty = {c \in {"status", "site"} : image[c] # row[c]}])
        /\ UNCHANGED tables

\* and their update.
WriteCash(w) ==
    LET r == req[w]
    IN  /\ Moves(w, "writecash", IF r.links = << >> THEN Idle
                                 ELSE [r EXCEPT !.at = "nextlink", !.dirty = {}])
        /\ cash' = [cash EXCEPT ![r.r] =
               [c \in DOMAIN @ |-> IF c \in r.dirty THEN r.image[c] ELSE @[c]]]
        /\ UNCHANGED <<session, site>>

-----------------------------------------------------------------------------
(* createSiteRemittance. *)

\* The acknowledged remittances of a period.  The condition that
\* site_remittance_id is null is dropped by the find, which ignores null values.
Aggregate(w, period) ==
    LET found == {r \in period : cash[r].status = "ACKNOWLEDGED"}
    IN  /\ found # {}
        /\ Moves(w, "idle", [Idle EXCEPT !.at = "insertsite",
                                         !.links = [r \in found |-> cash[r]]])
        /\ UNCHANGED tables

\* Mutated form: what is linked is read again, after the total was computed.
MutantInsertSite(w) ==
    /\ \E x \in SiteRemittances :
        /\ site[x].status = None
        /\ site' = [site EXCEPT ![x] = [status |-> "PENDING", total |-> Total(req[w].links)]]
        /\ Moves(w, "insertsite",
                 [req[w] EXCEPT !.at = "nextlink", !.x = x,
                                !.links = [r \in {p \in Remittances :
                                                    cash[p].status = "ACKNOWLEDGED"} |-> cash[r]]])
    /\ UNCHANGED <<session, cash>>

InsertSite(w) ==
    /\ \E x \in SiteRemittances :
        /\ site[x].status = None
        /\ site' = [site EXCEPT ![x] = [status |-> "PENDING", total |-> Total(req[w].links)]]
        /\ Moves(w, "insertsite", [req[w] EXCEPT !.at = "nextlink", !.x = x])
    /\ UNCHANGED <<session, cash>>

\* One turn of the linking loop: the image read by Aggregate, with the link set.
NextLink(w) ==
    LET links == req[w].links
    IN  /\ \E r \in DOMAIN links :
               Moves(w, "nextlink",
                     [req[w] EXCEPT !.at = "loadcash", !.r = r,
                                    !.image = [links[r] EXCEPT !.site = req[w].x],
                                    !.links = [p \in DOMAIN links \ {r} |-> links[p]]])
        /\ UNCHANGED tables

-----------------------------------------------------------------------------
(* acknowledgeSiteRemittance and disputeSiteRemittance. *)

JudgeSite(w, x, verdict) ==
    /\ site[x].status = "PENDING"
    /\ Moves(w, "idle", [Idle EXCEPT !.at = "loadsite", !.x = x, !.verdict = verdict])
    /\ UNCHANGED tables

LoadSite(w) ==
    /\ Moves(w, "loadsite",
             [req[w] EXCEPT !.at = "writesite",
                            !.dirty = IF site[req[w].x].status = req[w].verdict THEN {}
                                                                          ELSE {"status"}])
    /\ UNCHANGED tables

WriteSite(w) ==
    /\ Moves(w, "writesite", Idle)
    /\ site' = IF req[w].dirty = {} THEN site
               ELSE [site EXCEPT ![req[w].x].status = req[w].verdict]
    /\ UNCHANGED <<session, cash>>

\* The process dies or the connection is lost between two statements.
Abort(w) ==
    /\ req[w].at # "idle"
    /\ req' = [req EXCEPT ![w] = Idle]
    /\ UNCHANGED tables

-----------------------------------------------------------------------------
NewRequest(w) ==
    \/ \E k \in Sessions, amount \in Amounts, auto \in BOOLEAN :
           CreateCashRemittance(w, k, amount, auto)
    \/ \E r \in Remittances : AcknowledgeCash(w, r) \/ DisputeCash(w, r)
    \/ \E period \in SUBSET Remittances : Aggregate(w, period)
    \/ \E x \in SiteRemittances, verdict \in Verdicts : JudgeSite(w, x, verdict)

NextStatement(w) ==
    \/ CheckExisting(w)
    \/ InsertRemittance(w)
    \/ AutoAcknowledge(w)
    \/ ReadSession(w)
    \/ LoadSession(w)
    \/ WriteSession(w)
    \/ LoadCash(w)
    \/ WriteCash(w)
    \/ InsertSite(w)
    \/ NextLink(w)
    \/ LoadSite(w)
    \/ WriteSite(w)

Next == \E w \in Workers : NewRequest(w) \/ NextStatement(w) \/ Abort(w)

Spec == Init /\ [][Next]_vars

-----------------------------------------------------------------------------
(* Properties. *)

TypeOK ==
    /\ session \in [Sessions -> {"CLOSED", "REMITTED"}]
    /\ cash \in [Remittances -> CashRow]
    /\ site \in [SiteRemittances -> SiteRow]
    /\ \A w \in Workers : req[w].at \in Steps

\* The money an operator's manager has acknowledged releases the operator: two
\* saves without a transaction, racing disputes, retries and crashes never leave
\* a session waiting for a remittance that has been acknowledged.
AcknowledgedIsRemitted ==
    \A r \in Remittances :
        cash[r].status = "ACKNOWLEDGED" => session[cash[r].session] = "REMITTED"

\* A site remittance is worth at least the cash remittances linked to it, though
\* the total is inserted first, the links follow one by one, and a later site
\* remittance or a crash may take over or leave out any of them.
SiteTotalCoversLinks ==
    /\ TypeOK
    /\ \A x \in SiteRemittances :
        LET linked == {r \in Remittances : cash[r].site = x}
        IN  Total([r \in linked |-> cash[r]]) <= site[x].total

=============================================================================

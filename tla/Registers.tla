------------------------------ MODULE Registers ------------------------------
(***************************************************************************)
(* The named records an administrator keeps: service definitions, article  *)
(* types and expense types, with the prices and the expenses that refer to *)
(* them (ServiceDefinitionService, CatalogService, PricingService,         *)
(* ExpensesService).  A change reads the row, checks the label and saves   *)
(* the whole row it read; a row that is gone by then is inserted again.    *)
(* A unique index stands on the labels of a register, foreign keys on the  *)
(* rows; the price of a service is deleted with it.                        *)
(***************************************************************************)
EXTENDS OfficeCalls

Registers == {"service", "article", "expense"}

CONSTANTS
    Rows,        \* identifiers of rows
    RegisterOf,  \* the register a row belongs to
    Labels,
    Default      \* the label of the built-in row of a register

VARIABLES
    rows,     \* the registers
    priced,   \* services and articles with a price
    spent,    \* expense types with an expense
    decided,  \* history: the rows as their changes meant them
    sown,     \* history: registers whose default row was seeded, and not undone by an overlap
    strange   \* history: types that were inactive all along a creation of an expense

regvars == <<rows, priced, spent, decided, sown, strange>>

Entry == [label : Labels, active : BOOLEAN, system : BOOLEAN]

ASSUME RegisterAssumption ==
    RegisterOf \in [Rows -> Registers] /\ Default \in Labels /\ None \notin Entry

There == {r \in Rows : rows[r] # None}
Of(register) == {r \in Rows : RegisterOf[r] = register}
Takers(register, label) == {r \in There \cap Of(register) : rows[r].label = label}

Taken(r, label) == Takers(RegisterOf[r], label) \ {r} # {}

RegInit ==
    /\ rows = [r \in Rows |-> None]
    /\ priced = {} /\ spent = {} /\ sown = {} /\ strange = {}
    /\ decided = rows

\* Calls that hold an image of row r, or have found it active.
Holding(r, w) == {v \in InFlight({"relabel", "switch", "drop", "seed", "spend"}) \ {w} :
                     call[v].on = r /\ call[v].at # "find"}

\* Worker w writes row r, meaning to; the call is over.  One that others came in
\* between writes what it writes.
Writes(w, kind, at, r, new, meant) ==
    LET mixed == call[w].mixed
    IN /\ MovesAmid(w, kind, at, Idle, Holding(r, w))
       /\ rows' = [rows EXCEPT ![r] = new]
       /\ decided' = [decided EXCEPT ![r] = IF mixed THEN new ELSE meant]
       /\ NoFault

-----------------------------------------------------------------------------
(* Seeding and creation.                                                   *)

\* ensureDefaultServices, ensureDefaultTypes: insert the default row, or mark the
\* one that has its label.  r: the identifier of a row to be inserted.
FindDefault(w, r) ==
    LET register == call[w].arg
        found == Takers(register, Default)
    IN /\ At(w, "seed", "find")
       /\ r \in IF found = {} THEN Of(register) \ There ELSE found
       /\ IF rows[r] # None /\ rows[r].system THEN Ends(w, "seed", "find") /\ sown' = sown \cup {register}
          ELSE /\ Moves(w, "seed", "find", [call[w] EXCEPT !.at = "write", !.on = r, !.saw = rows[r]])
               /\ UNCHANGED sown
       /\ NoFault /\ UNCHANGED <<rows, priced, spent, decided, strange>>

SowDefault(w) ==
    LET c == call[w]
        new == IF c.saw = None THEN [label |-> Default, active |-> TRUE, system |-> TRUE]
               ELSE [c.saw EXCEPT !.system = TRUE]
    IN /\ At(w, "seed", "write")
       /\ IF Taken(c.on, new.label) \/ (c.saw = None /\ rows[c.on] # None)
          THEN Ends(w, "seed", "write") /\ NoFault /\ UNCHANGED <<rows, decided, sown>>
          ELSE /\ Writes(w, "seed", "write", c.on, new,
                         IF decided[c.on] = None THEN new ELSE [decided[c.on] EXCEPT !.system = TRUE])
               /\ sown' = IF new.label = Default THEN sown \cup {c.arg} ELSE sown
       /\ UNCHANGED <<priced, spent, strange>>

CheckLabel(w) ==
    /\ At(w, "add", "find")
    /\ IF Taken(call[w].on, call[w].arg) THEN Ends(w, "add", "find") ELSE Goes(w, "add", "find", "insert")
    /\ NoFault /\ UNCHANGED regvars

InsertRow(w) ==
    LET c == call[w]
        new == [label |-> c.arg, active |-> TRUE, system |-> FALSE]
    IN /\ At(w, "add", "insert")
       /\ IF Taken(c.on, c.arg) \/ rows[c.on] # None
          THEN Ends(w, "add", "insert") /\ NoFault /\ UNCHANGED <<rows, decided>>
          ELSE Writes(w, "add", "insert", c.on, new, new)
       /\ UNCHANGED <<priced, spent, sown, strange>>

-----------------------------------------------------------------------------
(* update and delete.                                                      *)

MayRelabel(row, label) == row.system => label = row.label

Changes == {"relabel", "switch", "drop"}

\* The image the change will save.
Changed(row, c) == CASE c.kind = "relabel" -> [row EXCEPT !.label = c.arg]
                     [] c.kind = "switch"  -> [row EXCEPT !.active = c.arg]

FindRow(w, kind) ==
    LET c == call[w]
        row == rows[c.on]
        Refused == \/ row = None
                   \/ kind = "relabel" /\ ~MayRelabel(row, c.arg)
                   \/ kind = "drop" /\ row.system
    IN /\ At(w, kind, "find")
       /\ IF Refused THEN Ends(w, kind, "find")
          ELSE IF kind = "drop" THEN Goes(w, kind, "find", "delete")
          ELSE Moves(w, kind, "find",
                     [c EXCEPT !.saw = Changed(row, c),
                               !.at = IF kind = "relabel" /\ c.arg # row.label THEN "clash" ELSE "save"])
       /\ NoFault /\ UNCHANGED regvars

CheckClash(w) ==
    /\ At(w, "relabel", "clash")
    /\ IF Taken(call[w].on, call[w].arg) THEN Ends(w, "relabel", "clash") ELSE Goes(w, "relabel", "clash", "save")
    /\ NoFault /\ UNCHANGED regvars

Image(c) == c.saw

SaveRow(w, kind) ==
    LET c == call[w]
        new == Image(c)
    IN /\ kind \in {"relabel", "switch"} /\ At(w, kind, "save")
       /\ IF Taken(c.on, new.label) THEN Ends(w, kind, "save") /\ NoFault /\ UNCHANGED <<rows, decided, sown>>
          ELSE /\ Writes(w, kind, "save", c.on, new,
                         IF decided[c.on] = None THEN None ELSE Changed(decided[c.on], c))
               /\ sown' = IF c.mixed /\ rows[c.on] # None /\ rows[c.on].system
                          THEN sown \ {RegisterOf[c.on]} ELSE sown
       /\ UNCHANGED <<priced, spent, strange>>

DeleteRow(w) ==
    LET r == call[w].on
    IN /\ Writes(w, "drop", "delete", r, None, None)
       /\ priced' = priced \ {r}
       /\ sown' = IF call[w].mixed THEN sown \ {RegisterOf[r]} ELSE sown
       /\ UNCHANGED <<spent, strange>>

-----------------------------------------------------------------------------
(* What refers to the rows: prices and expenses.                           *)

\* upsert; the foreign key and the unique index may refuse the row.
FindPrice(w) ==
    /\ Moves(w, "upsert", "find", [call[w] EXCEPT !.at = "save", !.saw = (call[w].on \in priced)])
    /\ NoFault /\ UNCHANGED regvars

SavePrice(w) ==
    LET r == call[w].on
    IN /\ Ends(w, "upsert", "save")
       /\ priced' = IF r \in There /\ (call[w].saw \/ r \notin priced) THEN priced \cup {r} ELSE priced
       /\ NoFault /\ UNCHANGED <<rows, spent, decided, sown, strange>>

DeletePrice(w) ==
    /\ Ends(w, "unprice", "delete")
    /\ priced' = priced \ {call[w].on}
    /\ NoFault /\ UNCHANGED <<rows, spent, decided, sown, strange>>

MaySpend(row) == row.active

\* createExpense.
FindType(w) ==
    LET row == rows[call[w].on]
    IN /\ At(w, "spend", "find")
       /\ IF row # None /\ MaySpend(row) THEN Goes(w, "spend", "find", "insert") ELSE Ends(w, "spend", "find")
       /\ NoFault /\ UNCHANGED regvars

InsertExpense(w) ==
    LET r == call[w].on
    IN /\ Ends(w, "spend", "insert")
       /\ spent' = spent \cup {r}
       /\ strange' = IF rows[r].active \/ call[w].mixed THEN strange ELSE strange \cup {r}
       /\ NoFault /\ UNCHANGED <<rows, priced, decided, sown>>

DeleteExpense(w) ==
    /\ Ends(w, "unspend", "delete")
    /\ spent' = spent \ {call[w].on}
    /\ NoFault /\ UNCHANGED <<rows, priced, decided, sown, strange>>

-----------------------------------------------------------------------------
RegRequest(w) ==
    /\ \/ \E register \in {"service", "expense"} : Begin(w, "seed", "find", None, register)
       \/ \E r \in Rows, l \in Labels :
             \/ rows[r] = None /\ Begin(w, "add", "find", r, l)
             \/ Begin(w, "relabel", "find", r, l)
       \/ \E r \in Rows, active \in BOOLEAN : Begin(w, "switch", "find", r, active)
       \/ \E r \in Rows \ Of("expense") :
             \/ Begin(w, "drop", "find", r, None)
             \/ Begin(w, "upsert", "find", r, None)
             \/ Begin(w, "unprice", "delete", r, None)
       \/ \E r \in Of("expense") : Begin(w, "spend", "find", r, None) \/ Begin(w, "unspend", "delete", r, None)
    /\ UNCHANGED regvars

RegStep(w) ==
    \/ \E r \in Rows : FindDefault(w, r)
    \/ SowDefault(w) \/ CheckLabel(w) \/ InsertRow(w)
    \/ \E kind \in Changes : FindRow(w, kind) \/ SaveRow(w, kind)
    \/ CheckClash(w) \/ DeleteRow(w)
    \/ FindPrice(w) \/ SavePrice(w) \/ DeletePrice(w)
    \/ FindType(w) \/ InsertExpense(w) \/ DeleteExpense(w)

RegTypeOK ==
    /\ rows \in [Rows -> Entry \cup {None}]
    /\ decided \in [Rows -> Entry \cup {None}]
    /\ \A r, s \in There : RegisterOf[r] = RegisterOf[s] /\ rows[r].label = rows[s].label => r = s
    /\ priced \subseteq There /\ spent \subseteq There
    /\ sown \subseteq Registers /\ strange \subseteq Rows

=============================================================================

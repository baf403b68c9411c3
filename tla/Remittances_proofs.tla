------------------------- MODULE Remittances_proofs -------------------------
(***************************************************************************)
(* A remittance that is acknowledged belongs to a session that is          *)
(* REMITTED, for every set of sessions, remittances, amounts and requests  *)
(* in flight.  A request acts on images it read long ago, so the inductive *)
(* invariant says what an image carries to its save: ACKNOWLEDGED only for *)
(* a session that is REMITTED by then, and of a row that is there.         *)
(*                                                                         *)
(* And a site remittance is worth what is linked to it.  What it covers    *)
(* are the rows linked to it and those that some request may still link,   *)
(* from the rows it gathered or from an image read before another one took *)
(* the row over; from the insert of a site remittance on, that set only    *)
(* shrinks, and its rows keep their amounts.                               *)
(***************************************************************************)
EXTENDS Remittances, Sums

USE RemittanceAssumption

Links == UNION {[found -> CashRow] : found \in SUBSET Remittances}

Request == [at : Steps, k : Sessions \cup {None}, r : Remittances \cup {None},
            x : SiteRemittances \cup {None}, amount : Nat, auto : BOOLEAN, image : CashRow,
            verdict : Verdicts \cup {None}, dirty : SUBSET {"status", "site"}, links : Links]

\* The types of the first argument; that of the site remittances comes with the
\* second one.
Types ==
    /\ session \in [Sessions -> {"CLOSED", "REMITTED"}]
    /\ cash \in [Remittances -> CashRow]
    /\ req \in [Workers -> Request]

Inserted(r) == cash[r].status # None /\ cash[r].session \in Sessions
Released(r) == Inserted(r) /\ session[cash[r].session] = "REMITTED"

RowsKnown == \A r \in Remittances : cash[r].status # None => cash[r].session \in Sessions

\* What request c has read and may still save.
\* The judged remittance, from the read of its row to the save of its session.
OnSession(c) ==
    c.at \in {"session", "loadsession", "writesession"} =>
        /\ c.r \in Remittances /\ Inserted(c.r)
        /\ c.k = cash[c.r].session
        /\ c.image.status # None
        /\ c.at = "writesession" /\ c.dirty = {} => Released(c.r)

\* The image of a remittance about to be saved.
OnCash(c) ==
    /\ c.at \in {"existing", "insert"} => c.k \in Sessions
    /\ c.at = "reread" => c.r \in Remittances
    /\ c.at \in {"loadcash", "writecash"} =>
           /\ c.r \in Remittances /\ Inserted(c.r)
           /\ c.image.status # None
           /\ c.image.status = "ACKNOWLEDGED" => Released(c.r)

\* The remittances still to be linked.
OnLinks(c) == \A p \in DOMAIN c.links : c.links[p].status # None /\ Released(p)

RequestOK(c) == OnSession(c) /\ OnCash(c) /\ OnLinks(c)

IInv == Types /\ RowsKnown /\ AcknowledgedIsRemitted /\ \A w \in Workers : RequestOK(req[w])

\* Sessions stay REMITTED and rows stay with their session.
Grows ==
    /\ \A k \in Sessions : session[k] = "REMITTED" => session'[k] = "REMITTED"
    /\ \A r \in Remittances : Inserted(r) => Inserted(r)' /\ cash'[r].session = cash[r].session

-----------------------------------------------------------------------------
(* Types. *)

LEMMA NoLinks == << >> \in Links /\ DOMAIN << >> = {}
<1>1. << >> \in [{} -> CashRow]
  OBVIOUS
<1>2. QED
  BY <1>1 DEF Links

LEMMA IdleType == Idle \in Request /\ Idle.at = "idle" /\ DOMAIN Idle.links = {}
BY NoLinks DEF Idle, Request, NoCash, CashRow, Steps

\* A request about remittance r is well typed.
LEMMA JudgingType ==
    ASSUME Types, NEW r \in Remittances, NEW verdict \in Verdicts
    PROVE  Judging(r, verdict) \in Request
<1>1. [cash[r] EXCEPT !.status = verdict] \in CashRow
  BY DEF Types, CashRow, Verdicts, RemittanceStatus
<1>2. cash[r].session \in Sessions \cup {None}
  BY DEF Types, CashRow
<1>3. QED
  BY <1>1, <1>2, IdleType DEF Judging, Request, Steps

\* A statement moves its own request only, and keeps it well typed.
LEMMA MovesType ==
    ASSUME Types, NEW w \in Workers, NEW at, NEW r \in Request, Moves(w, at, r)
    PROVE  req' \in [Workers -> Request] /\ req'[w] = r /\ \A v \in Workers \ {w} : req'[v] = req[v]
BY DEF Types, Moves

-----------------------------------------------------------------------------
(* What a request knows stays true. *)

LEMMA ReleasedStays ==
    ASSUME Types, Grows, NEW r \in Remittances, Released(r)
    PROVE  Released(r)'
BY DEF Grows, Released, Inserted

LEMMA RequestStays ==
    ASSUME Types, Grows, NEW c \in Request, RequestOK(c)
    PROVE  /\ OnSession(c)' /\ OnCash(c)' /\ OnLinks(c)'
<1>1. \A r \in Remittances : Inserted(r) => Inserted(r)' /\ cash'[r].session = cash[r].session
  BY DEF Grows
<1>2. \A r \in Remittances : Released(r) => Released(r)'
  BY ReleasedStays
<1>3. OnSession(c)'
  BY <1>1, <1>2 DEF RequestOK, OnSession
<1>4. OnCash(c)'
  BY <1>1, <1>2 DEF RequestOK, OnCash
<1>5. DOMAIN c.links \subseteq Remittances
  BY DEF Request, Links
<1>6. OnLinks(c)'
  BY <1>2, <1>5 DEF RequestOK, OnLinks
<1>7. QED
  BY <1>3, <1>4, <1>6

LEMMA IdleOK == RequestOK(Idle) /\ RequestOK(Idle)'
BY IdleType DEF RequestOK, OnSession, OnCash, OnLinks, Idle

\* The step of worker w keeps the invariant if it only adds to the tables, keeps
\* the rows in order and leaves a request that knows what it should.
LEMMA StepKeeps ==
    ASSUME IInv, NEW w \in Workers, NEW at, NEW c \in Request, Moves(w, at, c),
           Grows, RequestOK(c)',
           session' \in [Sessions -> {"CLOSED", "REMITTED"}], cash' \in [Remittances -> CashRow],
           RowsKnown', AcknowledgedIsRemitted'
    PROVE  IInv'
<1>1. Types
  BY DEF IInv
<1>2. req' \in [Workers -> Request] /\ req'[w] = c /\ \A v \in Workers \ {w} : req'[v] = req[v]
  BY <1>1, MovesType
<1>3. Types'
  BY <1>2 DEF Types
<1>4. ASSUME NEW v \in Workers
      PROVE  RequestOK(req[v])'
  <2>1. CASE v = w
    BY <2>1, <1>2 DEF RequestOK, OnSession, OnCash, OnLinks
  <2>2. CASE v # w
    <3>1. req[v] \in Request /\ RequestOK(req[v]) /\ req'[v] = req[v]
      BY <1>1, <1>2, <2>2 DEF IInv, Types
    <3>2. ASSUME NEW d \in Request, RequestOK(d)
          PROVE  OnSession(d)' /\ OnCash(d)' /\ OnLinks(d)'
      BY <1>1, <3>2, RequestStays
    <3>3. QED
      BY <3>1, <3>2 DEF RequestOK, OnSession, OnCash, OnLinks
  <2>3. QED
    BY <2>1, <2>2
<1>5. QED
  BY <1>3, <1>4 DEF IInv

\* A read.
LEMMA ReadKeeps ==
    ASSUME IInv, NEW w \in Workers, NEW at, NEW c \in Request, Moves(w, at, c),
           RequestOK(c), UNCHANGED tables
    PROVE  IInv'
<1>1. session' = session /\ cash' = cash
  BY DEF tables
<1>2. Grows
  BY <1>1 DEF Grows, Inserted
<1>3. RowsKnown' /\ AcknowledgedIsRemitted' /\ Types
  BY <1>1 DEF IInv, RowsKnown, AcknowledgedIsRemitted
<1>4. RequestOK(c)'
  BY <1>1 DEF RequestOK, OnSession, OnCash, OnLinks, Inserted, Released
<1>5. QED
  BY <1>1, <1>2, <1>3, <1>4, StepKeeps DEF Types

-----------------------------------------------------------------------------
(* The requests. *)

LEMMA CreationKeeps ==
    ASSUME IInv, NEW w \in Workers,
           \/ \E k \in Sessions, amount \in Amounts, auto \in BOOLEAN :
                  CreateCashRemittance(w, k, amount, auto)
           \/ CheckExisting(w) \/ InsertRemittance(w)
    PROVE  IInv'
<1> USE DEF IInv
<1>1. ASSUME NEW k \in Sessions, NEW amount \in Amounts, NEW auto \in BOOLEAN,
             CreateCashRemittance(w, k, amount, auto)
      PROVE  IInv'
  <2> DEFINE c == [Idle EXCEPT !.at = "existing", !.k = k, !.amount = amount, !.auto = auto]
  <2>1. c \in Request /\ c.at = "existing" /\ c.k = k /\ DOMAIN c.links = {}
    BY IdleType DEF Request, Steps
  <2>2. RequestOK(c)
    BY <2>1 DEF RequestOK, OnSession, OnCash, OnLinks
  <2>3. Moves(w, "idle", c) /\ UNCHANGED tables
    BY <1>1 DEF CreateCashRemittance
  <2> HIDE DEF c, IInv
  <2>4. QED
    BY <2>1, <2>2, <2>3, ReadKeeps
<1>2. CASE CheckExisting(w)
  <2> DEFINE c == [req[w] EXCEPT !.at = "insert"]
  <2>1. req[w] \in Request /\ RequestOK(req[w]) /\ req[w].at = "existing"
    BY <1>2 DEF Types, CheckExisting, Moves
  <2>2. c \in Request /\ c.at = "insert" /\ c.k = req[w].k /\ c.links = req[w].links
    BY <2>1 DEF Request, Steps
  <2>3. RequestOK(c)
    BY <2>1, <2>2 DEF RequestOK, OnSession, OnCash, OnLinks
  <2>4. Moves(w, "existing", c) /\ UNCHANGED tables
    BY <1>2 DEF CheckExisting
  <2> HIDE DEF c, IInv
  <2>5. QED
    BY <2>2, <2>3, <2>4, ReadKeeps
<1>3. CASE InsertRemittance(w)
  <2> DEFINE row == [status |-> "PENDING", session |-> req[w].k, amount |-> req[w].amount,
                     site |-> None]
             next(r) == IF req[w].auto THEN [Idle EXCEPT !.at = "reread", !.r = r] ELSE Idle
  <2>1. PICK r \in Remittances :
            /\ cash[r].status = None
            /\ cash' = [cash EXCEPT ![r] = row]
            /\ Moves(w, "insert", next(r))
    BY <1>3 DEF InsertRemittance
  <2>2. session' = session
    BY <1>3 DEF InsertRemittance
  <2>3. req[w].k \in Sessions /\ row \in CashRow /\ row.session = req[w].k /\ row.status = "PENDING"
    BY <2>1 DEF Types, Moves, RequestOK, OnCash, Request, CashRow, RemittanceStatus
  <2>4. next(r) \in Request /\ DOMAIN next(r).links = {}
            /\ (next(r).at = "idle" \/ (next(r).at = "reread" /\ next(r).r = r))
    BY IdleType DEF Request, Steps
  <2> HIDE DEF row, next
  <2>5. PICK c \in Request : c = next(r)
    BY <2>4
  <2>6. cash' \in [Remittances -> CashRow] /\ cash'[r] = row
            /\ \A p \in Remittances \ {r} : cash'[p] = cash[p]
    BY <2>1, <2>3 DEF Types, IInv
  <2>7. Grows
    BY <2>1, <2>2, <2>6 DEF Grows, Inserted
  <2>8. RowsKnown' /\ AcknowledgedIsRemitted'
    BY <2>2, <2>3, <2>6 DEF RowsKnown, AcknowledgedIsRemitted
  <2>9. RequestOK(c)'
    BY <2>4, <2>5 DEF RequestOK, OnSession, OnCash, OnLinks
  <2> HIDE DEF IInv
  <2>10. session' \in [Sessions -> {"CLOSED", "REMITTED"}]
    BY <2>2 DEF IInv, Types
  <2>11. QED
    BY <2>1, <2>5, <2>6, <2>7, <2>8, <2>9, <2>10, StepKeeps
<1>4. QED
  BY <1>1, <1>2, <1>3

\* A remittance that is read PENDING goes on to its session, or to its save.
LEMMA JudgingOK ==
    ASSUME IInv, NEW r \in Remittances, NEW verdict \in Verdicts, cash[r].status = "PENDING"
    PROVE  Judging(r, verdict) \in Request /\ RequestOK(Judging(r, verdict))
<1> DEFINE c == Judging(r, verdict)
<1>1. c \in Request
  BY JudgingType DEF IInv
<1>2. cash[r] \in CashRow /\ cash[r].status # None
  BY DEF IInv, Types, CashRow, RemittanceStatus
<1>3. Inserted(r)
  BY <1>2 DEF IInv, RowsKnown, Inserted
<1>4. /\ c.r = r /\ c.k = cash[r].session /\ c.image.status = verdict
      /\ c.at = IF verdict = "ACKNOWLEDGED" THEN "session" ELSE "loadcash"
      /\ DOMAIN c.links = {}
  <2>1. [cash[r] EXCEPT !.status = verdict] \in CashRow
    BY <1>2 DEF CashRow, Verdicts, RemittanceStatus
  <2>2. [cash[r] EXCEPT !.status = verdict].status = verdict
    BY <1>2 DEF CashRow
  <2>3. QED
    BY <2>1, <2>2, IdleType DEF Judging, Request
<1> HIDE DEF c
<1>5. verdict # None
  BY DEF Verdicts, RemittanceStatus
<1>6. RequestOK(c)
  BY <1>3, <1>4, <1>5 DEF RequestOK, OnSession, OnCash, OnLinks
<1>7. QED
  BY <1>1, <1>6 DEF c

LEMMA JudgementKeeps ==
    ASSUME IInv, NEW w \in Workers,
           \/ \E r \in Remittances : AcknowledgeCash(w, r) \/ DisputeCash(w, r)
           \/ AutoAcknowledge(w)
    PROVE  IInv'
<1>1. ASSUME NEW r \in Remittances, NEW at, NEW verdict \in Verdicts, cash[r].status = "PENDING",
             Moves(w, at, Judging(r, verdict)), UNCHANGED tables
      PROVE  IInv'
  BY <1>1, JudgingOK, ReadKeeps
<1>2. "ACKNOWLEDGED" \in Verdicts /\ "DISPUTED" \in Verdicts
  BY DEF Verdicts
<1>3. ASSUME NEW r \in Remittances, AcknowledgeCash(w, r) \/ DisputeCash(w, r)
      PROVE  IInv'
  BY <1>1, <1>2, <1>3 DEF AcknowledgeCash, DisputeCash
<1>4. CASE AutoAcknowledge(w)
  <2>1. req[w].r \in Remittances
    BY <1>4 DEF AutoAcknowledge, IInv, RequestOK, OnCash
  <2>2. QED
    BY <1>1, <1>2, <1>4, <2>1 DEF AutoAcknowledge
<1>5. QED
  BY <1>3, <1>4

\* The save of the session: after it the session is REMITTED, written or found so.
LEMMA SessionKeeps ==
    ASSUME IInv, NEW w \in Workers, ReadSession(w) \/ LoadSession(w) \/ WriteSession(w)
    PROVE  IInv'
<1>1. req[w] \in Request /\ RequestOK(req[w]) /\ session \in [Sessions -> {"CLOSED", "REMITTED"}]
  BY DEF IInv, Types
<1>2. CASE ReadSession(w)
  <2> DEFINE c == [req[w] EXCEPT !.at = "loadsession"]
  <2>1. c \in Request /\ RequestOK(c)
    BY <1>1, <1>2 DEF ReadSession, Moves, Request, Steps, RequestOK, OnSession, OnCash, OnLinks
  <2>2. Moves(w, "session", c) /\ UNCHANGED tables
    BY <1>2 DEF ReadSession
  <2> HIDE DEF c
  <2>3. QED
    BY <2>1, <2>2, ReadKeeps
<1>3. CASE LoadSession(w)
  <2> DEFINE dirty == IF session[req[w].k] = "REMITTED" THEN {} ELSE {"status"}
             c == [req[w] EXCEPT !.at = "writesession", !.dirty = dirty]
  <2>1. dirty \in SUBSET {"status", "site"}
    OBVIOUS
  <2>2. Moves(w, "loadsession", c) /\ UNCHANGED tables
    BY <1>3 DEF LoadSession
  <2>3. req[w].at = "loadsession" /\ (dirty = {} => session[req[w].k] = "REMITTED")
    BY <2>2 DEF Moves
  <2> HIDE DEF dirty
  <2>4. /\ c \in Request
        /\ c.at = "writesession" /\ c.dirty = dirty
        /\ c.r = req[w].r /\ c.k = req[w].k
        /\ c.image = req[w].image /\ c.links = req[w].links
    BY <1>1, <2>1 DEF Request, Steps
  <2> HIDE DEF c
  <2>5. RequestOK(c)
    BY <1>1, <2>3, <2>4 DEF RequestOK, OnSession, OnCash, OnLinks, Released
  <2>6. QED
    BY <2>2, <2>4, <2>5, ReadKeeps
<1>4. CASE WriteSession(w)
  <2>1. PICK old \in Request : old = req[w]
    BY <1>1
  <2> DEFINE new == [old EXCEPT !.at = "loadcash", !.dirty = {}]
  <2>2. /\ Moves(w, "writesession", new) /\ old.at = "writesession"
        /\ session' = IF old.dirty = {} THEN session ELSE [session EXCEPT ![old.k] = "REMITTED"]
        /\ cash' = cash
    BY <1>4, <2>1 DEF WriteSession, Moves
  <2>3. /\ old.r \in Remittances /\ Inserted(old.r) /\ old.k = cash[old.r].session
        /\ old.image.status # None
        /\ old.dirty = {} => session[old.k] = "REMITTED"
    BY <1>1, <2>1, <2>2 DEF RequestOK, OnSession, Released
  <2>4. /\ session' \in [Sessions -> {"CLOSED", "REMITTED"}]
        /\ session'[old.k] = "REMITTED"
        /\ \A k \in Sessions : session[k] = "REMITTED" => session'[k] = "REMITTED"
    BY <1>1, <2>2, <2>3 DEF Inserted
  <2>5. Grows
    BY <2>2, <2>4 DEF Grows, Inserted
  <2>6. cash' \in [Remittances -> CashRow] /\ RowsKnown'
    BY <2>2 DEF IInv, Types, RowsKnown
  <2>7. AcknowledgedIsRemitted'
    <3> SUFFICES ASSUME NEW p \in Remittances, cash[p].status = "ACKNOWLEDGED"
                 PROVE  session'[cash[p].session] = "REMITTED"
      BY <2>2 DEF AcknowledgedIsRemitted
    <3>1. cash[p].session \in Sessions /\ session[cash[p].session] = "REMITTED"
      BY DEF IInv, RowsKnown, AcknowledgedIsRemitted, RemittanceStatus
    <3>2. QED
      BY <2>4, <3>1
  <2>8. /\ new \in Request /\ new.at = "loadcash" /\ new.r = old.r
        /\ new.image = old.image /\ new.links = old.links
    BY DEF Request, Steps
  <2>9. OnLinks(old)'
    BY <1>1, <2>1, <2>5, RequestStays DEF IInv
  <2>10. Released(old.r)'
    BY <2>2, <2>3, <2>4 DEF Released, Inserted
  <2> HIDE DEF new
  <2>11. OnLinks(new)'
    BY <2>8, <2>9 DEF OnLinks
  <2>12. RequestOK(new)'
    BY <2>3, <2>8, <2>10, <2>11 DEF RequestOK, OnSession, OnCash, Released
  <2>13. QED
    BY <2>2, <2>4, <2>5, <2>6, <2>7, <2>8, <2>12, StepKeeps
<1>5. QED
  BY <1>2, <1>3, <1>4

\* The row after an update of the columns that differ.
Updated(old, image, dirty) == [c \in DOMAIN old |-> IF c \in dirty THEN image[c] ELSE old[c]]

LEMMA UpdatedRow ==
    ASSUME NEW old \in CashRow, NEW image \in CashRow, NEW dirty \in SUBSET {"status", "site"}
    PROVE  LET new == Updated(old, image, dirty)
           IN  /\ new \in CashRow
               /\ new.session = old.session
               /\ new.status = IF "status" \in dirty THEN image.status ELSE old.status
<1> DEFINE new == Updated(old, image, dirty)
<1>1. DOMAIN old = {"status", "session", "amount", "site"}
  BY DEF CashRow
<1>2. \A c \in DOMAIN old : new[c] = IF c \in dirty THEN image[c] ELSE old[c]
  BY DEF Updated
<1>3. DOMAIN new = {"status", "session", "amount", "site"}
  BY <1>1 DEF Updated
<1> HIDE DEF new
<1>4. new = [status |-> new["status"], session |-> new["session"], amount |-> new["amount"],
             site |-> new["site"]]
  BY <1>3 DEF new, Updated
<1>5. new \in CashRow
  BY <1>1, <1>2, <1>4 DEF CashRow
<1>6. QED
  BY <1>1, <1>2, <1>5 DEF new

\* The save of a remittance: the status it writes is one its session allows.
LEMMA SaveKeeps ==
    ASSUME IInv, NEW w \in Workers, LoadCash(w) \/ WriteCash(w)
    PROVE  IInv'
<1>1. req[w] \in Request /\ RequestOK(req[w])
  BY DEF IInv, Types
<1>2. CASE LoadCash(w)
  <2> DEFINE dirty == {col \in {"status", "site"} : req[w].image[col] # cash[req[w].r][col]}
             c == [req[w] EXCEPT !.at = "writecash", !.dirty = dirty]
  <2>1. dirty \in SUBSET {"status", "site"}
    OBVIOUS
  <2>2. Moves(w, "loadcash", c) /\ UNCHANGED tables /\ req[w].at = "loadcash"
    BY <1>2 DEF LoadCash, Moves
  <2> HIDE DEF dirty
  <2>3. /\ c \in Request
        /\ c.at = "writecash" /\ c.r = req[w].r
        /\ c.image = req[w].image /\ c.links = req[w].links
    BY <1>1, <2>1 DEF Request, Steps
  <2> HIDE DEF c
  <2>4. RequestOK(c)
    BY <1>1, <2>2, <2>3 DEF RequestOK, OnSession, OnCash, OnLinks
  <2>5. QED
    BY <2>2, <2>3, <2>4, ReadKeeps
<1>3. CASE WriteCash(w)
  <2>1. PICK old \in Request : old = req[w]
    BY <1>1
  <2> DEFINE next == IF old.links = << >> THEN Idle ELSE [old EXCEPT !.at = "nextlink", !.dirty = {}]
             row == Updated(cash[old.r], old.image, old.dirty)
  <2>2. /\ Moves(w, "writecash", next) /\ old.at = "writecash"
        /\ cash' = [cash EXCEPT ![old.r] = row]
        /\ session' = session
    BY <1>3, <2>1 DEF WriteCash, Moves, Updated
  <2>3. /\ old.r \in Remittances /\ Inserted(old.r) /\ old.image.status # None
        /\ old.image.status = "ACKNOWLEDGED" => Released(old.r)
    BY <1>1, <2>1, <2>2 DEF RequestOK, OnCash
  <2>4. /\ cash \in [Remittances -> CashRow] /\ cash[old.r] \in CashRow
        /\ old.image \in CashRow /\ old.dirty \in SUBSET {"status", "site"}
        /\ session \in [Sessions -> {"CLOSED", "REMITTED"}]
    BY <2>3 DEF IInv, Types, Request
  <2>5. /\ row \in CashRow /\ row.session = cash[old.r].session
        /\ row.status = IF "status" \in old.dirty THEN old.image.status ELSE cash[old.r].status
    BY <2>4, UpdatedRow
  <2> HIDE DEF row
  <2>6. cash' \in [Remittances -> CashRow] /\ cash'[old.r] = row
            /\ \A p \in Remittances \ {old.r} : cash'[p] = cash[p]
    BY <2>2, <2>3, <2>4, <2>5
  <2>7. Grows
    BY <2>2, <2>3, <2>5, <2>6 DEF Grows, Inserted
  <2>8. RowsKnown'
    BY <2>3, <2>5, <2>6 DEF RowsKnown, Inserted, IInv
  <2>9. AcknowledgedIsRemitted'
    <3>1. row.status = "ACKNOWLEDGED" => session[row.session] = "REMITTED"
      BY <2>3, <2>5 DEF Released, IInv, AcknowledgedIsRemitted
    <3>2. QED
      BY <2>2, <2>6, <3>1 DEF IInv, AcknowledgedIsRemitted
  <2>10. OnLinks(old)'
    BY <1>1, <2>1, <2>7, RequestStays DEF IInv
  <2>11. next \in Request /\ RequestOK(next)'
    <3>1. CASE old.links = << >>
      BY <3>1, IdleOK, IdleType
    <3>2. CASE old.links # << >>
      <4>1. next \in Request /\ next.at = "nextlink" /\ next.links = old.links
        BY <3>2 DEF Request, Steps
      <4> HIDE DEF next
      <4>2. QED
        BY <4>1, <2>10 DEF RequestOK, OnSession, OnCash, OnLinks
    <3>3. QED
      BY <3>1, <3>2
  <2> HIDE DEF next
  <2>12. QED
    BY <2>2, <2>4, <2>6, <2>7, <2>8, <2>9, <2>11, StepKeeps
<1>4. QED
  BY <1>2, <1>3

\* Gathering: only acknowledged rows are linked, hence rows that were released.
LEMMA GatheringKeeps ==
    ASSUME IInv, NEW w \in Workers,
           \/ \E period \in SUBSET Remittances : Aggregate(w, period)
           \/ InsertSite(w) \/ NextLink(w)
    PROVE  IInv'
<1>1. req[w] \in Request /\ RequestOK(req[w]) /\ cash \in [Remittances -> CashRow]
  BY DEF IInv, Types
<1>2. ASSUME NEW period \in SUBSET Remittances, Aggregate(w, period)
      PROVE  IInv'
  <2> DEFINE found == {r \in period : cash[r].status = "ACKNOWLEDGED"}
             links == [r \in found |-> cash[r]]
             c == [Idle EXCEPT !.at = "insertsite", !.links = links]
  <2>1. Moves(w, "idle", c) /\ UNCHANGED tables
    BY <1>2 DEF Aggregate
  <2>2. links \in [found -> CashRow] /\ found \in SUBSET Remittances
    BY <1>1
  <2>3. links \in Links
    BY <2>2 DEF Links
  <2>4. \A p \in found : links[p].status # None /\ Released(p)
    BY DEF IInv, RowsKnown, AcknowledgedIsRemitted, Released, Inserted, RemittanceStatus
  <2>5. DOMAIN links = found
    OBVIOUS
  <2> HIDE DEF links, found
  <2>6. c \in Request /\ c.at = "insertsite" /\ c.links = links
    BY <2>3, IdleType DEF Request, Steps
  <2> HIDE DEF c
  <2>7. RequestOK(c)
    BY <2>4, <2>5, <2>6 DEF RequestOK, OnSession, OnCash, OnLinks
  <2>8. QED
    BY <2>1, <2>6, <2>7, ReadKeeps
<1>3. CASE InsertSite(w)
  <2>1. PICK x \in SiteRemittances : Moves(w, "insertsite", [req[w] EXCEPT !.at = "nextlink", !.x = x])
    BY <1>3 DEF InsertSite
  <2>2. PICK c \in Request : c = [req[w] EXCEPT !.at = "nextlink", !.x = x]
    BY <1>1 DEF Request, Steps
  <2>3. c.at = "nextlink" /\ c.links = req[w].links
    BY <1>1, <2>2 DEF Request
  <2>4. session' = session /\ cash' = cash
    BY <1>3 DEF InsertSite
  <2>5. Grows /\ RowsKnown' /\ AcknowledgedIsRemitted'
    BY <2>4 DEF Grows, Inserted, RowsKnown, AcknowledgedIsRemitted, IInv
  <2>6. RequestOK(c)
    BY <1>1, <2>3 DEF RequestOK, OnSession, OnCash, OnLinks
  <2>7. RequestOK(c)'
    BY <2>4, <2>6 DEF RequestOK, OnSession, OnCash, OnLinks, Inserted, Released
  <2>8. QED
    BY <2>1, <2>2, <2>4, <2>5, <2>7, StepKeeps DEF IInv, Types
<1>4. CASE NextLink(w)
  <2> DEFINE links == req[w].links
             image(r) == [links[r] EXCEPT !.site = req[w].x]
             rest(r) == [p \in DOMAIN links \ {r} |-> links[p]]
             c(r) == [req[w] EXCEPT !.at = "loadcash", !.r = r, !.image = image(r), !.links = rest(r)]
  <2>1. PICK r \in DOMAIN links : Moves(w, "nextlink", c(r))
    BY <1>4 DEF NextLink
  <2>2. UNCHANGED tables
    BY <1>4 DEF NextLink
  <2>3. PICK found \in SUBSET Remittances : links \in [found -> CashRow]
    BY <1>1 DEF Request, Links
  <2>4. r \in Remittances /\ links[r] \in CashRow
    BY <2>3
  <2>5. image(r) \in CashRow /\ image(r).status = links[r].status
    BY <1>1, <2>4 DEF CashRow, Request
  <2>6. rest(r) \in Links /\ \A p \in DOMAIN rest(r) : p \in DOMAIN links /\ rest(r)[p] = links[p]
    BY <2>3 DEF Links
  <2>7. \A p \in DOMAIN links : links[p].status # None /\ Released(p)
    BY <1>1 DEF RequestOK, OnLinks
  <2> HIDE DEF links, image, rest
  <2>8. /\ c(r) \in Request /\ c(r).at = "loadcash" /\ c(r).r = r
        /\ c(r).image = image(r) /\ c(r).links = rest(r)
    BY <1>1, <2>4, <2>5, <2>6 DEF Request, Steps
  <2> HIDE DEF c
  <2>9. RequestOK(c(r))
    BY <2>1, <2>4, <2>5, <2>6, <2>7, <2>8 DEF RequestOK, OnSession, OnCash, OnLinks, Released
  <2>10. QED
    BY <2>1, <2>2, <2>8, <2>9, ReadKeeps
<1>5. QED
  BY <1>2, <1>3, <1>4

\* Verdicts on site remittances, and requests that die, are about other rows.
LEMMA OthersKeep ==
    ASSUME IInv, NEW w \in Workers,
           \/ \E x \in SiteRemittances, verdict \in Verdicts : JudgeSite(w, x, verdict)
           \/ LoadSite(w) \/ WriteSite(w) \/ Abort(w)
    PROVE  IInv'
<1>1. req[w] \in Request /\ RequestOK(req[w])
  BY DEF IInv, Types
<1>2. /\ session \in [Sessions -> {"CLOSED", "REMITTED"}] /\ cash \in [Remittances -> CashRow]
      /\ session' = session /\ cash' = cash
  BY DEF JudgeSite, LoadSite, WriteSite, Abort, tables, IInv, Types
<1>3. Grows /\ RowsKnown' /\ AcknowledgedIsRemitted'
  BY <1>2 DEF Grows, Inserted, RowsKnown, AcknowledgedIsRemitted, IInv
<1>4. ASSUME NEW at, NEW c \in Request, Moves(w, at, c),
             c.at \in {"loadsite", "writesite"}, DOMAIN c.links = {} \/ c.links = req[w].links
      PROVE  IInv'
  <2>1. RequestOK(c)
    BY <1>1, <1>4 DEF RequestOK, OnSession, OnCash, OnLinks
  <2>2. RequestOK(c)'
    BY <1>2, <2>1 DEF RequestOK, OnSession, OnCash, OnLinks, Inserted, Released
  <2>3. QED
    BY <1>2, <1>3, <1>4, <2>2, StepKeeps
<1>5. ASSUME NEW x \in SiteRemittances, NEW verdict \in Verdicts, JudgeSite(w, x, verdict)
      PROVE  IInv'
  <2> DEFINE c == [Idle EXCEPT !.at = "loadsite", !.x = x, !.verdict = verdict]
  <2>1. c \in Request /\ c.at = "loadsite" /\ DOMAIN c.links = {}
    BY IdleType DEF Request, Steps
  <2>2. Moves(w, "idle", c)
    BY <1>5 DEF JudgeSite
  <2> HIDE DEF c
  <2>3. QED
    BY <1>4, <2>1, <2>2
<1>6. CASE LoadSite(w)
  <2> DEFINE dirty == IF site[req[w].x].status = req[w].verdict THEN {} ELSE {"status"}
             c == [req[w] EXCEPT !.at = "writesite", !.dirty = dirty]
  <2>1. dirty \in SUBSET {"status", "site"}
    OBVIOUS
  <2>2. Moves(w, "loadsite", c)
    BY <1>6 DEF LoadSite
  <2> HIDE DEF dirty
  <2>3. c \in Request /\ c.at = "writesite" /\ c.links = req[w].links
    BY <1>1, <2>1 DEF Request, Steps
  <2>4. PICK d \in Request : d = c
    BY <2>3
  <2> HIDE DEF c
  <2>5. QED
    BY <1>4, <2>2, <2>3, <2>4
<1>7. CASE WriteSite(w) \/ Abort(w)
  <2>1. \E at : Moves(w, at, Idle)
    BY <1>7 DEF WriteSite, Abort, Moves
  <2>2. QED
    BY <1>2, <1>3, <2>1, IdleOK, IdleType, StepKeeps
<1>8. QED
  BY <1>5, <1>6, <1>7

-----------------------------------------------------------------------------
LEMMA Invariant == Spec => []IInv
<1>1. Init => IInv
  <2> SUFFICES ASSUME Init PROVE IInv
    OBVIOUS
  <2>1. Types
    BY IdleType DEF Init, Types, NoCash, CashRow
  <2>2. RowsKnown /\ AcknowledgedIsRemitted
    BY DEF Init, RowsKnown, AcknowledgedIsRemitted, NoCash, RemittanceStatus
  <2>3. \A w \in Workers : RequestOK(req[w])
    BY IdleOK DEF Init
  <2>4. QED
    BY <2>1, <2>2, <2>3 DEF IInv
<1>2. IInv /\ [Next]_vars => IInv'
  <2>1. ASSUME IInv, NEW w \in Workers, NewRequest(w) \/ NextStatement(w) \/ Abort(w)
        PROVE  IInv'
    BY <2>1, CreationKeeps, JudgementKeeps, SessionKeeps, SaveKeeps, GatheringKeeps, OthersKeep
       DEF NewRequest, NextStatement
  <2>2. IInv /\ UNCHANGED vars => IInv'
    BY DEF vars, tables, IInv, Types, RowsKnown, AcknowledgedIsRemitted, RequestOK,
           OnSession, OnCash, OnLinks, Inserted, Released
  <2>3. QED
    BY <2>1, <2>2 DEF Next
<1>3. QED
  BY <1>1, <1>2, PTL DEF Spec

\* The money an operator's manager has acknowledged releases the operator: two
\* saves without a transaction, racing disputes, retries and crashes never leave
\* a session waiting for a remittance that has been acknowledged.
THEOREM AcknowledgedAlwaysRemitted == Spec => []AcknowledgedIsRemitted
<1>1. IInv => AcknowledgedIsRemitted
  BY DEF IInv
<1>2. QED
  BY <1>1, Invariant, PTL

-----------------------------------------------------------------------------
(* What site remittances are worth. *)

\* A judged or linked remittance, from the read of its image to its save.
Saving == {"session", "loadsession", "writesession", "loadcash", "writecash"}

\* Request c may still link remittance r to site remittance x.
Holds(c, r, x) == \/ c.at \in Saving /\ c.r = r /\ c.image.site = x
                  \/ r \in DOMAIN c.links /\ c.x = x

Covered(x) == {r \in Remittances : cash[r].site = x \/ \E w \in Workers : Holds(req[w], r, x)}

\* The amounts of the remittances R, and what they add up to.
AmountsOf(R) == [r \in R |-> cash[r].amount]
Worth(R) == Total([r \in R |-> cash[r]])

Present == {r \in Remittances : cash[r].status # None}

\* The rows gathered have the amounts of the table; a verdict is one, on a row.
BooksOf(c) ==
    /\ \A p \in DOMAIN c.links : c.links[p].amount = cash[p].amount
    /\ c.at \in {"loadsite", "writesite"} => c.verdict \in Verdicts /\ c.x \in SiteRemittances

Books ==
    /\ site \in [SiteRemittances -> SiteRow]
    /\ IsFiniteSet(Present)
    /\ \A r \in Remittances : cash[r].status = None => cash[r].site = None
    /\ \A w \in Workers : BooksOf(req[w])
    /\ \A x \in SiteRemittances : site[x].status = None => Covered(x) = {}
    /\ \A x \in SiteRemittances : Worth(Covered(x)) <= site[x].total

\* What the fold computes is the sum of the amounts.
LEMMA TotalIs ==
    ASSUME NEW K, IsFiniteSet(K), NEW rows, DOMAIN rows = K
    PROVE  IsSum(Total(rows), [r \in K |-> rows[r].amount], K)
<1> DEFINE Parts == SUBSET K
           c == [r \in K |-> rows[r].amount]
           Body(h) == [s \in Parts |-> IF s = Empty THEN 0
                                       ELSE rows[Some(s)].amount + h[Less(s)]]
           g == CHOOSE h : h = Body(h)
<1>1. Total(rows) = g[K]
  BY Zenon DEF Total, FoldFunction, FoldFunctionOnSet, MapThenFoldSet, Some, Less, Empty
<1>2. \A s \in Parts : s # Empty => c[Some(s)] = rows[Some(s)].amount
  BY LessIs
<1>3. PICK h : Folds(c, h, Parts)
  BY FoldExists
<1> HIDE DEF Parts, c
<1>4. h = Body(h)
  BY <1>2, <1>3 DEF Folds
<1>5. g = Body(g)
  <2> HIDE DEF Body
  <2> QED
    BY <1>4
<1> HIDE DEF g
<1>6. Folds(c, g, Parts)
  BY <1>2, <1>5 DEF Folds
<1> QED
  BY <1>1, <1>6 DEF IsSum, Parts, c

\* A finite set of remittances is worth the sum of its amounts, a natural.
LEMMA WorthIs ==
    ASSUME cash \in [Remittances -> CashRow], NEW R \in SUBSET Remittances, IsFiniteSet(R)
    PROVE  /\ IsSum(Worth(R), AmountsOf(R), R)
           /\ \A r \in R : AmountsOf(R)[r] \in Nat
           /\ Worth(R) \in Nat
<1>1. IsSum(Worth(R), [r \in R |-> [p \in R |-> cash[p]][r].amount], R)
  BY TotalIs DEF Worth
<1>2. [r \in R |-> [p \in R |-> cash[p]][r].amount] = AmountsOf(R)
  BY DEF AmountsOf
<1>3. \A r \in R : AmountsOf(R)[r] \in Nat
  BY DEF AmountsOf, CashRow
<1>4. IsSum(Worth(R), AmountsOf(R), R)
  BY <1>1, <1>2
<1> QED
  BY <1>3, <1>4, SumIsNat

\* A site remittance covers rows that are there, finitely many of them.
LEMMA CoveredIs ==
    ASSUME IInv, Books
    PROVE  \A x \in SiteRemittances :
               /\ Covered(x) \in SUBSET Remittances /\ IsFiniteSet(Covered(x))
               /\ \A r \in Covered(x) : Inserted(r)
<1> SUFFICES ASSUME NEW x \in SiteRemittances
             PROVE  /\ Covered(x) \in SUBSET Remittances /\ IsFiniteSet(Covered(x))
                    /\ \A r \in Covered(x) : Inserted(r)
  OBVIOUS
<1>1. \A r \in Remittances : cash[r].site = x => Inserted(r)
  BY DEF Books, IInv, RowsKnown, Inserted
<1>2. ASSUME NEW r \in Remittances, NEW w \in Workers, Holds(req[w], r, x)
      PROVE  Inserted(r)
  <2>1. RequestOK(req[w])
    BY DEF IInv
  <2> QED
    BY <1>2, <2>1 DEF RequestOK, OnSession, OnCash, OnLinks, Holds, Saving, Released
<1>3. Covered(x) \in SUBSET Remittances /\ \A r \in Covered(x) : Inserted(r)
  BY <1>1, <1>2 DEF Covered
<1>4. Covered(x) \subseteq Present
  BY <1>3 DEF Present, Inserted
<1> QED
  BY <1>3, <1>4, FS_Subset DEF Books

\* Fewer rows with the same amounts are worth no more.
LEMMA FewerAreWorthLess ==
    ASSUME IInv, Books, NEW x \in SiteRemittances, NEW table,
           NEW R, R \subseteq Covered(x), \A r \in R : table[r].amount = cash[r].amount
    PROVE  /\ Total([r \in R |-> table[r]]) \in Nat
           /\ Total([r \in R |-> table[r]]) <= Worth(Covered(x))
<1> DEFINE B == Covered(x)
           c == AmountsOf(B)
           d == [r \in R |-> table[r].amount]
           n == Worth(B)
           m == Total([r \in R |-> table[r]])
<1>1. B \in SUBSET Remittances /\ IsFiniteSet(B)
  BY CoveredIs
<1>2. IsSum(n, c, B) /\ \A r \in B : c[r] \in Nat
  BY <1>1, WorthIs DEF IInv, Types
<1>3. IsFiniteSet(R) /\ R \in SUBSET B
  BY <1>1, FS_Subset
<1>4. IsSum(m, [r \in R |-> [p \in R |-> table[p]][r].amount], R)
  BY <1>3, TotalIs
<1>5. [r \in R |-> [p \in R |-> table[p]][r].amount] = d
  OBVIOUS
<1>6. \A r \in R : d[r] = c[r]
  BY <1>3 DEF AmountsOf
<1> HIDE DEF B, c, d, n, m
<1>7. m <= n
  BY <1>1, <1>2, <1>3, <1>4, <1>5, <1>6, SumOfFewer
<1>8. \A r \in R : d[r] \in Nat
  BY <1>2, <1>3, <1>6
<1>9. m \in Nat
  BY <1>3, <1>4, <1>5, <1>8, SumIsNat
<1> QED
  BY <1>7, <1>9 DEF m, n, B

\* The step of worker w keeps the books if it makes no site remittance cover more,
\* changes no amount and no total, and leaves a request as it should be.
LEMMA BooksKept ==
    ASSUME IInv, IInv', Books, NEW w \in Workers, NEW at, NEW c, Moves(w, at, c), BooksOf(c)',
           \A x \in SiteRemittances : \A r \in Remittances :
               cash'[r].site = x \/ Holds(c, r, x) => r \in Covered(x),
           \A r \in Remittances : Inserted(r) => cash'[r].amount = cash[r].amount,
           \A r \in Remittances : cash'[r].status = None => cash'[r].site = None,
           IsFiniteSet(Present'),
           site' \in [SiteRemittances -> SiteRow],
           \A x \in SiteRemittances : /\ site'[x].total = site[x].total
                                      /\ site'[x].status = None => site[x].status = None
    PROVE  Books'
<1>1. /\ cash' \in [Remittances -> CashRow]
      /\ req' \in [Workers -> Request] /\ req \in [Workers -> Request]
      /\ req'[w] = c /\ \A v \in Workers \ {w} : req'[v] = req[v]
  BY DEF IInv, Types, Moves
<1>2. \A x \in SiteRemittances :
          /\ Covered(x) \in SUBSET Remittances /\ IsFiniteSet(Covered(x))
          /\ \A r \in Covered(x) : Inserted(r)
  BY CoveredIs
<1>3. ASSUME NEW x \in SiteRemittances
      PROVE  Covered(x)' \subseteq Covered(x)
  <2> SUFFICES ASSUME NEW r \in Remittances,
                      cash'[r].site = x \/ \E v \in Workers : Holds(req'[v], r, x)
               PROVE  r \in Covered(x)
    BY DEF Covered, Holds
  <2>1. CASE cash'[r].site = x
    BY <2>1
  <2>2. ASSUME NEW v \in Workers, Holds(req'[v], r, x)
        PROVE  r \in Covered(x)
    <3>1. CASE v = w
      BY <1>1, <2>2, <3>1
    <3>2. CASE v # w
      BY <1>1, <2>2, <3>2 DEF Covered
    <3> QED
      BY <3>1, <3>2
  <2> QED
    BY <2>1, <2>2
<1>4. ASSUME NEW x \in SiteRemittances
      PROVE  Worth(Covered(x))' <= site'[x].total
  <2>1. Worth(Covered(x)) <= site[x].total
    BY DEF Books
  <2>2. /\ Total([r \in Covered(x)' |-> cash'[r]]) \in Nat
        /\ Total([r \in Covered(x)' |-> cash'[r]]) <= Worth(Covered(x))
    <3>1. \A r \in Covered(x)' : cash'[r].amount = cash[r].amount
      BY <1>2, <1>3
    <3> QED
      BY <1>1, <1>3, <3>1, FewerAreWorthLess
  <2>3. Worth(Covered(x)) \in Nat
    BY <1>2, WorthIs DEF IInv, Types
  <2>4. site[x].total \in Nat /\ site'[x].total = site[x].total
    BY DEF Books, SiteRow
  <2> DEFINE m == Total([r \in Covered(x)' |-> cash'[r]])
             n == Worth(Covered(x))
  <2>5. Worth(Covered(x))' = m
    BY DEF Worth
  <2> HIDE DEF m, n
  <2>6. m \in Nat /\ m <= n /\ n <= site[x].total /\ n \in Nat
    BY <2>1, <2>2, <2>3 DEF m, n
  <2> QED
    BY <2>4, <2>5, <2>6
<1>5. \A x \in SiteRemittances : site'[x].status = None => Covered(x)' = {}
  BY <1>3 DEF Books
<1>6. ASSUME NEW v \in Workers PROVE BooksOf(req[v])'
  <2>1. CASE v = w
    BY <1>1, <2>1 DEF BooksOf
  <2>2. CASE v # w
    <3>1. BooksOf(req[v]) /\ RequestOK(req[v]) /\ req[v] \in Request
      BY <1>1 DEF Books, IInv
    <3>2. \A p \in DOMAIN req[v].links : p \in Remittances /\ Inserted(p)
      BY <3>1 DEF RequestOK, OnLinks, Released, Request, Links
    <3> QED
      BY <1>1, <2>2, <3>1, <3>2 DEF BooksOf
  <2> QED
    BY <2>1, <2>2
<1> QED
  BY <1>4, <1>5, <1>6 DEF Books

\* A read leaves the tables alone, and a request that holds no more.
LEMMA BooksRead ==
    ASSUME IInv, IInv', Books, NEW w \in Workers, NEW at, NEW c, Moves(w, at, c), BooksOf(c),
           \A x \in SiteRemittances : \A r \in Remittances : Holds(c, r, x) => r \in Covered(x),
           UNCHANGED <<cash, site>>
    PROVE  Books'
<1>1. BooksOf(c)'
  BY DEF BooksOf
<1>2. \A x \in SiteRemittances : \A r \in Remittances :
          cash'[r].site = x \/ Holds(c, r, x) => r \in Covered(x)
  BY DEF Covered
<1>3. IsFiniteSet(Present')
  BY DEF Present, Books
<1>4. \A r \in Remittances : cash'[r].status = None => cash'[r].site = None
  BY DEF Books
<1>5. site' \in [SiteRemittances -> SiteRow]
  BY DEF Books
<1> QED
  BY <1>1, <1>2, <1>3, <1>4, <1>5, BooksKept

\* A request that goes on with what it holds.
LEMMA GoesOn ==
    ASSUME NEW w \in Workers, NEW c, Books,
           c.links = req[w].links, c.x = req[w].x,
           c.at \in Saving => /\ req[w].at \in Saving
                              /\ c.r = req[w].r /\ c.image.site = req[w].image.site,
           c.at \notin {"loadsite", "writesite"}
    PROVE  /\ BooksOf(c)
           /\ \A x \in SiteRemittances : \A r \in Remittances : Holds(c, r, x) => r \in Covered(x)
  BY DEF Books, BooksOf, Holds, Covered

\* A request that holds nothing, not even a verdict.
LEMMA HoldsNothing ==
    ASSUME NEW c, DOMAIN c.links = {}, c.at \notin Saving, c.at \notin {"loadsite", "writesite"}
    PROVE  BooksOf(c) /\ \A x : \A r : ~ Holds(c, r, x)
  BY DEF BooksOf, Holds

\* An operator's declaration comes without a site remittance, in a fresh row.
LEMMA CreationBooks ==
    ASSUME IInv, IInv', Books, NEW w \in Workers,
           \/ \E k \in Sessions, amount \in Amounts, auto \in BOOLEAN :
                  CreateCashRemittance(w, k, amount, auto)
           \/ CheckExisting(w) \/ InsertRemittance(w)
    PROVE  Books'
<1>1. req[w] \in Request /\ cash \in [Remittances -> CashRow] /\ cash' \in [Remittances -> CashRow]
  BY DEF IInv, Types
<1>2. ASSUME NEW k \in Sessions, NEW amount \in Amounts, NEW auto \in BOOLEAN,
             CreateCashRemittance(w, k, amount, auto)
      PROVE  Books'
  <2> DEFINE c == [Idle EXCEPT !.at = "existing", !.k = k, !.amount = amount, !.auto = auto]
  <2>1. Moves(w, "idle", c) /\ UNCHANGED <<cash, site>>
    BY <1>2 DEF CreateCashRemittance, tables
  <2>2. c.at = "existing" /\ DOMAIN c.links = {}
    BY IdleType DEF Request
  <2> HIDE DEF c
  <2>3. c.at \notin Saving
    BY <2>2 DEF Saving
  <2> QED
    BY <2>1, <2>2, <2>3, HoldsNothing, BooksRead
<1>3. CASE CheckExisting(w)
  <2> DEFINE c == [req[w] EXCEPT !.at = "insert"]
  <2>1. Moves(w, "existing", c) /\ UNCHANGED <<cash, site>>
    BY <1>3 DEF CheckExisting, tables
  <2>2. c.at = "insert" /\ c.links = req[w].links /\ c.x = req[w].x
    BY <1>1 DEF Request
  <2> HIDE DEF c
  <2>3. c.at \notin Saving
    BY <2>2 DEF Saving
  <2> QED
    BY <2>1, <2>2, <2>3, GoesOn, BooksRead
<1>4. CASE InsertRemittance(w)
  <2> DEFINE c(r) == IF req[w].auto THEN [Idle EXCEPT !.at = "reread", !.r = r] ELSE Idle
             row == [status |-> "PENDING", session |-> req[w].k, amount |-> req[w].amount,
                     site |-> None]
  <2>1. PICK r \in Remittances : /\ cash[r].status = None
                                 /\ cash' = [cash EXCEPT ![r] = row]
                                 /\ Moves(w, "insert", c(r))
    BY <1>4 DEF InsertRemittance
  <2>2. site' = site
    BY <1>4 DEF InsertRemittance
  <2>3. PICK d : d = c(r)
    OBVIOUS
  <2>4. d.at \notin Saving /\ d.at \notin {"loadsite", "writesite"} /\ DOMAIN d.links = {}
    BY <2>3, IdleType DEF Request, Saving
  <2>5. row.site = None /\ row.status = "PENDING" /\ "PENDING" # None
    BY DEF RemittanceStatus
  <2> HIDE DEF c, row
  <2>6. cash'[r] = row /\ \A p \in Remittances \ {r} : cash'[p] = cash[p]
    BY <1>1, <2>1
  <2>7. BooksOf(d)' /\ \A x : \A p : ~ Holds(d, p, x)
    BY <2>4, HoldsNothing DEF BooksOf
  <2>8. \A x \in SiteRemittances : \A p \in Remittances :
            cash'[p].site = x \/ Holds(d, p, x) => p \in Covered(x)
    BY <2>5, <2>6, <2>7 DEF Covered
  <2>9. \A p \in Remittances : Inserted(p) => cash'[p].amount = cash[p].amount
    BY <2>1, <2>6 DEF Inserted
  <2>10. \A p \in Remittances : cash'[p].status = None => cash'[p].site = None
    BY <2>5, <2>6 DEF Books
  <2>11. IsFiniteSet(Present')
    <3>1. Present' = Present \cup {r}
      BY <2>5, <2>6 DEF Present
    <3> QED
      BY <3>1, FS_AddElement DEF Books
  <2>12. /\ site' \in [SiteRemittances -> SiteRow]
         /\ \A x \in SiteRemittances : /\ site'[x].total = site[x].total
                                       /\ site'[x].status = None => site[x].status = None
    BY <2>2 DEF Books
  <2>13. Moves(w, "insert", d)
    BY <2>1, <2>3
  <2> QED
    BY <2>7, <2>8, <2>9, <2>10, <2>11, <2>12, <2>13, BooksKept
<1> QED
  BY <1>2, <1>3, <1>4

\* A request about a remittance holds the site remittance it is linked to already.
LEMMA JudgingHolds ==
    ASSUME IInv, NEW r \in Remittances, NEW verdict \in Verdicts
    PROVE  /\ BooksOf(Judging(r, verdict))
           /\ \A x \in SiteRemittances : \A p \in Remittances :
                  Holds(Judging(r, verdict), p, x) => p \in Covered(x)
<1> DEFINE c == Judging(r, verdict)
<1>1. cash[r] \in CashRow
  BY DEF IInv, Types
<1>2. /\ DOMAIN c.links = {} /\ c.r = r /\ c.at \in {"session", "loadcash"}
      /\ c.image.site = cash[r].site
  BY <1>1, IdleType DEF Judging, Request, CashRow
<1> HIDE DEF c
<1>3. BooksOf(c)
  BY <1>2 DEF BooksOf
<1>4. \A x \in SiteRemittances : \A p \in Remittances : Holds(c, p, x) => p \in Covered(x)
  BY <1>2 DEF Holds, Covered
<1> QED
  BY <1>3, <1>4 DEF c

\* A manager's verdict on a remittance.
LEMMA JudgementBooks ==
    ASSUME IInv, IInv', Books, NEW w \in Workers,
           \/ \E r \in Remittances : AcknowledgeCash(w, r) \/ DisputeCash(w, r)
           \/ AutoAcknowledge(w)
    PROVE  Books'
<1>1. ASSUME NEW r \in Remittances, NEW verdict \in Verdicts, NEW at,
             Moves(w, at, Judging(r, verdict)), UNCHANGED <<cash, site>>
      PROVE  Books'
  <2>1. /\ BooksOf(Judging(r, verdict))
        /\ \A x \in SiteRemittances : \A p \in Remittances :
               Holds(Judging(r, verdict), p, x) => p \in Covered(x)
    BY JudgingHolds
  <2> QED
    BY <1>1, <2>1, BooksRead
<1>2. "ACKNOWLEDGED" \in Verdicts /\ "DISPUTED" \in Verdicts
  BY DEF Verdicts
<1>3. ASSUME NEW r \in Remittances, AcknowledgeCash(w, r) \/ DisputeCash(w, r)
      PROVE  Books'
  BY <1>1, <1>2, <1>3 DEF AcknowledgeCash, DisputeCash, tables
<1>4. CASE AutoAcknowledge(w)
  <2>1. req[w].r \in Remittances
    BY <1>4 DEF AutoAcknowledge, IInv, RequestOK, OnCash
  <2> QED
    BY <1>1, <1>2, <1>4, <2>1 DEF AutoAcknowledge, tables
<1> QED
  BY <1>3, <1>4

\* The session of a judged remittance: no site remittance is concerned.
LEMMA SessionBooks ==
    ASSUME IInv, IInv', Books, NEW w \in Workers,
           ReadSession(w) \/ LoadSession(w) \/ WriteSession(w)
    PROVE  Books'
<1>1. req[w] \in Request
  BY DEF IInv, Types
<1>2. PICK at \in {"session", "loadsession", "writesession"}, d \in Steps, s \in SUBSET {"status", "site"} :
          /\ Moves(w, at, [req[w] EXCEPT !.at = d, !.dirty = s])
          /\ d \in {"loadsession", "writesession", "loadcash"}
  <2>1. CASE ReadSession(w)
    <3>1. [req[w] EXCEPT !.at = "loadsession"] =
              [req[w] EXCEPT !.at = "loadsession", !.dirty = req[w].dirty]
      BY <1>1 DEF Request
    <3>2. req[w].dirty \in SUBSET {"status", "site"}
      BY <1>1 DEF Request
    <3> QED
      BY <2>1, <3>1, <3>2 DEF ReadSession, Steps
  <2>2. CASE LoadSession(w)
    <3> DEFINE s == IF session[req[w].k] = "REMITTED" THEN {} ELSE {"status"}
    <3>1. s \in SUBSET {"status", "site"}
      OBVIOUS
    <3>2. Moves(w, "loadsession", [req[w] EXCEPT !.at = "writesession", !.dirty = s])
      BY <2>2 DEF LoadSession
    <3> HIDE DEF s
    <3> QED
      BY <3>1, <3>2 DEF Steps
  <2>3. CASE WriteSession(w)
    <3>1. Moves(w, "writesession", [req[w] EXCEPT !.at = "loadcash", !.dirty = {}])
      BY <2>3 DEF WriteSession
    <3> "loadcash" \in Steps
      BY DEF Steps
    <3> WITNESS "writesession" \in {"session", "loadsession", "writesession"},
                "loadcash" \in Steps, {} \in SUBSET {"status", "site"}
    <3> QED
      BY <3>1
  <2> QED
    BY <2>1, <2>2, <2>3
<1>3. UNCHANGED <<cash, site>>
  BY DEF ReadSession, LoadSession, WriteSession, tables
<1> DEFINE c == [req[w] EXCEPT !.at = d, !.dirty = s]
<1>4. /\ c.at = d /\ c.links = req[w].links /\ c.x = req[w].x /\ c.r = req[w].r
      /\ c.image = req[w].image
  BY <1>1 DEF Request
<1>5. req[w].at \in Saving /\ Moves(w, at, c)
  BY <1>2 DEF Moves, Saving
<1> HIDE DEF c
<1>6. /\ BooksOf(c)
      /\ \A x \in SiteRemittances : \A r \in Remittances : Holds(c, r, x) => r \in Covered(x)
  BY <1>2, <1>4, <1>5, GoesOn
<1> QED
  BY <1>3, <1>5, <1>6, BooksRead

\* A save writes the site remittance its image holds, or leaves the row's own.
LEMMA SaveBooks ==
    ASSUME IInv, IInv', Books, NEW w \in Workers, LoadCash(w) \/ WriteCash(w)
    PROVE  Books'
<1>1. /\ req[w] \in Request /\ cash \in [Remittances -> CashRow]
      /\ cash' \in [Remittances -> CashRow] /\ RequestOK(req[w])
  BY DEF IInv, Types
<1>2. CASE LoadCash(w)
  <2>1. PICK s : Moves(w, "loadcash", [req[w] EXCEPT !.at = "writecash", !.dirty = s])
    BY <1>2 DEF LoadCash
  <2>2. req[w].at \in Saving /\ UNCHANGED <<cash, site>>
    BY <1>2 DEF LoadCash, Moves, tables, Saving
  <2> DEFINE c == [req[w] EXCEPT !.at = "writecash", !.dirty = s]
  <2>3. /\ c.at = "writecash" /\ c.links = req[w].links /\ c.x = req[w].x /\ c.r = req[w].r
        /\ c.image = req[w].image
    BY <1>1 DEF Request
  <2>4. Moves(w, "loadcash", c)
    BY <2>1
  <2> HIDE DEF c
  <2>5. /\ BooksOf(c)
        /\ \A x \in SiteRemittances : \A r \in Remittances : Holds(c, r, x) => r \in Covered(x)
    BY <2>2, <2>3, GoesOn
  <2> QED
    BY <2>2, <2>4, <2>5, BooksRead
<1>3. CASE WriteCash(w)
  <2>1. PICK r, image, dirty : r = req[w].r /\ image = req[w].image /\ dirty = req[w].dirty
    OBVIOUS
  <2>2. /\ r \in Remittances /\ Inserted(r) /\ image.status # None
        /\ req[w].at = "writecash"
    <3>1. req[w].at = "writecash"
      BY <1>3 DEF WriteCash, Moves
    <3>2. OnCash(req[w])
      BY <1>1 DEF RequestOK
    <3>3. req[w].r \in Remittances /\ Inserted(req[w].r) /\ req[w].image.status # None
      BY <3>1, <3>2 DEF OnCash
    <3> QED
      BY <2>1, <3>1, <3>3
  <2>3. PICK c : /\ Moves(w, "writecash", c)
                 /\ \/ c = Idle
                    \/ c = [req[w] EXCEPT !.at = "nextlink", !.dirty = {}]
    BY <1>3 DEF WriteCash
  <2>4. c.at \notin Saving /\ c.at \notin {"loadsite", "writesite"}
    <3>1. c.at \in {"idle", "nextlink"}
      BY <1>1, <2>3, IdleType DEF Request
    <3> QED
      BY <3>1 DEF Saving
  <2>5. /\ BooksOf(c)
        /\ \A x \in SiteRemittances : \A p \in Remittances : Holds(c, p, x) => p \in Covered(x)
    <3>1. CASE c = Idle
      BY <2>4, <3>1, IdleType, HoldsNothing
    <3>2. CASE c # Idle
      <4>1. c.links = req[w].links /\ c.x = req[w].x
        BY <1>1, <2>3, <3>2 DEF Request
      <4> QED
        BY <2>4, <4>1, GoesOn
    <3> QED
      BY <3>1, <3>2
  <2>6. DOMAIN cash[r] = {"status", "session", "amount", "site"}
    BY <1>1, <2>2 DEF CashRow
  <2>7. /\ dirty \subseteq {"status", "site"}
        /\ cash' = [cash EXCEPT ![r] =
                       [f \in DOMAIN cash[r] |-> IF f \in dirty THEN image[f] ELSE cash[r][f]]]
    BY <1>1, <1>3, <2>1 DEF WriteCash, Request
  <2>8. /\ \A p \in Remittances \ {r} : cash'[p] = cash[p]
        /\ cash'[r].amount = cash[r].amount
        /\ cash'[r].site = cash[r].site \/ cash'[r].site = image.site
        /\ cash'[r].status = cash[r].status \/ cash'[r].status = image.status
    BY <1>1, <2>2, <2>6, <2>7
  <2>9. site' = site
    BY <1>3 DEF WriteCash
  <2>10. \A x \in SiteRemittances : image.site = x => r \in Covered(x)
    BY <2>1, <2>2 DEF Covered, Holds, Saving
  <2>11. \A x \in SiteRemittances : \A p \in Remittances :
             cash'[p].site = x \/ Holds(c, p, x) => p \in Covered(x)
    BY <2>5, <2>8, <2>10 DEF Covered
  <2>12. \A p \in Remittances : Inserted(p) => cash'[p].amount = cash[p].amount
    BY <2>8
  <2>13. \A p \in Remittances : cash'[p].status = None <=> cash[p].status = None
    BY <2>2, <2>8 DEF Inserted
  <2>14. \A p \in Remittances : cash'[p].status = None => cash'[p].site = None
    BY <2>2, <2>8, <2>13 DEF Books, Inserted
  <2>15. IsFiniteSet(Present')
    <3>1. Present' = Present
      BY <2>13 DEF Present
    <3> QED
      BY <3>1 DEF Books
  <2>16. /\ site' \in [SiteRemittances -> SiteRow]
         /\ \A x \in SiteRemittances : /\ site'[x].total = site[x].total
                                       /\ site'[x].status = None => site[x].status = None
    BY <2>9 DEF Books
  <2>17. BooksOf(c)'
    <3>1. c \in Request
      BY <2>3 DEF IInv, Types, Moves
    <3>2. \A p \in DOMAIN c.links : p \in Remittances
      BY <3>1 DEF Request, Links
    <3> QED
      BY <2>5, <2>8, <3>2 DEF BooksOf
  <2> QED
    BY <2>3, <2>11, <2>12, <2>14, <2>15, <2>16, <2>17, BooksKept
<1> QED
  BY <1>2, <1>3

\* What is gathered is not linked yet; a link to come is linked next.
LEMMA GatheringBooks ==
    ASSUME IInv, IInv', Books, NEW w \in Workers,
           (\E period \in SUBSET Remittances : Aggregate(w, period)) \/ NextLink(w)
    PROVE  Books'
<1>1. req[w] \in Request /\ BooksOf(req[w])
  BY DEF IInv, Types, Books
<1>2. ASSUME NEW period \in SUBSET Remittances, Aggregate(w, period)
      PROVE  Books'
  <2> DEFINE links == [r \in {r \in period : cash[r].status = "ACKNOWLEDGED"} |-> cash[r]]
             c == [Idle EXCEPT !.at = "insertsite", !.links = links]
  <2>1. Moves(w, "idle", c) /\ UNCHANGED <<cash, site>>
    BY <1>2 DEF Aggregate, tables
  <2>2. \A p \in DOMAIN links : links[p].amount = cash[p].amount
    OBVIOUS
  <2> HIDE DEF links
  <2>3. c.at = "insertsite" /\ c.links = links /\ c.x = None
    BY DEF Idle
  <2> HIDE DEF c
  <2>4. BooksOf(c)
    BY <2>2, <2>3 DEF BooksOf
  <2>5. \A x \in SiteRemittances : \A r \in Remittances : ~ Holds(c, r, x)
    BY <2>3 DEF Holds, Saving
  <2> QED
    BY <2>1, <2>4, <2>5, BooksRead
<1>3. CASE NextLink(w)
  <2> DEFINE links == req[w].links
             image(r) == [links[r] EXCEPT !.site = req[w].x]
             rest(r) == [p \in DOMAIN links \ {r} |-> links[p]]
             c(r) == [req[w] EXCEPT !.at = "loadcash", !.r = r, !.image = image(r),
                                    !.links = rest(r)]
  <2>1. PICK r \in DOMAIN links : Moves(w, "nextlink", c(r))
    BY <1>3 DEF NextLink
  <2>2. UNCHANGED <<cash, site>>
    BY <1>3 DEF NextLink, tables
  <2>3. links[r] \in CashRow
    BY <1>1 DEF Request, Links
  <2>4. image(r).site = req[w].x
    BY <2>3 DEF CashRow
  <2>5. \A p \in DOMAIN rest(r) : p \in DOMAIN links /\ rest(r)[p] = links[p]
    OBVIOUS
  <2> HIDE DEF image, rest
  <2>6. PICK d : d = c(r)
    OBVIOUS
  <2>7. /\ d.at = "loadcash" /\ d.r = r /\ d.image = image(r) /\ d.links = rest(r)
        /\ d.x = req[w].x
    BY <1>1, <2>6 DEF Request
  <2>8. Moves(w, "nextlink", d)
    BY <2>1, <2>6
  <2>9. BooksOf(d)
    BY <1>1, <2>5, <2>7 DEF BooksOf
  <2>10. \A x \in SiteRemittances : \A p \in Remittances : Holds(d, p, x) => p \in Covered(x)
    BY <2>1, <2>4, <2>5, <2>7 DEF Holds, Covered
  <2> QED
    BY <2>2, <2>8, <2>9, <2>10, BooksRead
<1> QED
  BY <1>2, <1>3

\* The insert of a site remittance is worth what its request is going to link.
LEMMA InsertBooks ==
    ASSUME IInv, IInv', Books, NEW w \in Workers, InsertSite(w)
    PROVE  Books'
<1>1. req[w] \in Request /\ BooksOf(req[w]) /\ RequestOK(req[w])
  BY DEF IInv, Types, Books
<1>2. PICK links : links = req[w].links
  OBVIOUS
<1>3. PICK x \in SiteRemittances :
          /\ site[x].status = None
          /\ site' = [site EXCEPT ![x] = [status |-> "PENDING", total |-> Total(links)]]
          /\ Moves(w, "insertsite", [req[w] EXCEPT !.at = "nextlink", !.x = x])
  BY <1>2 DEF InsertSite
<1>4. PICK c : c = [req[w] EXCEPT !.at = "nextlink", !.x = x]
  OBVIOUS
<1>5. c.at = "nextlink" /\ c.x = x /\ c.links = links
  BY <1>1, <1>2, <1>4 DEF Request
<1>6. cash' = cash /\ req \in [Workers -> Request]
  BY DEF InsertSite, IInv, Types
<1>7. req'[w] = c /\ \A v \in Workers \ {w} : req'[v] = req[v]
  BY <1>3, <1>4, <1>6 DEF Moves
<1>8. /\ DOMAIN links \in SUBSET Remittances
      /\ \A p \in DOMAIN links : links[p] \in CashRow /\ links[p].amount = cash[p].amount
      /\ \A p \in DOMAIN links : Inserted(p)
  BY <1>1, <1>2 DEF BooksOf, Request, Links, RequestOK, OnLinks, Released
<1>9. IsFiniteSet(DOMAIN links)
  <2>1. DOMAIN links \subseteq Present
    BY <1>8 DEF Present, Inserted
  <2> QED
    BY <2>1, FS_Subset DEF Books
<1>10. Covered(x) = {}
  BY <1>3 DEF Books
<1>11. Covered(x)' = DOMAIN links
  <2>1. \A r \in Remittances : cash[r].site # x /\ \A v \in Workers : ~ Holds(req[v], r, x)
    BY <1>10 DEF Covered
  <2>2. \A r : Holds(c, r, x) <=> r \in DOMAIN links
    BY <1>5 DEF Holds, Saving
  <2>3. \A r \in Remittances : (\E v \in Workers : Holds(req'[v], r, x)) <=> r \in DOMAIN links
    BY <1>7, <2>1, <2>2
  <2> QED
    BY <1>6, <1>8, <2>1, <2>3 DEF Covered, Holds
<1>12. ASSUME NEW y \in SiteRemittances, y # x
       PROVE  Covered(y)' \subseteq Covered(y)
  <2>1. \A r : ~ Holds(c, r, y)
    BY <1>5, <1>12 DEF Holds, Saving
  <2>2. \A r \in Remittances : \A v \in Workers : Holds(req'[v], r, y) => Holds(req[v], r, y)
    BY <1>7, <2>1
  <2> QED
    BY <1>6, <2>2 DEF Covered, Holds
<1>13. /\ Total(links) \in Nat
       /\ Total([r \in DOMAIN links |-> cash[r]]) \in Nat
       /\ Total([r \in DOMAIN links |-> cash[r]]) <= Total(links)
  <2> DEFINE D == DOMAIN links
             n == Total(links)
             m == Total([r \in D |-> cash[r]])
             c1 == [r \in D |-> links[r].amount]
             d1 == [r \in D |-> [p \in D |-> cash[p]][r].amount]
  <2>1. IsSum(n, c1, D) /\ IsSum(m, d1, D)
    BY <1>9, TotalIs
  <2>2. \A r \in D : c1[r] \in Nat /\ d1[r] = c1[r]
    BY <1>8 DEF CashRow
  <2> HIDE DEF n, m, c1, d1, D
  <2>3. IsFiniteSet(D) /\ D \in SUBSET D
    BY <1>9 DEF D
  <2>4. m <= n
    BY <2>1, <2>2, <2>3, SumOfFewer
  <2>5. n \in Nat
    BY <2>1, <2>2, <2>3, SumIsNat
  <2>6. \A r \in D : d1[r] \in Nat
    BY <2>2
  <2>7. m \in Nat
    BY <2>1, <2>3, <2>6, SumIsNat
  <2> QED
    BY <2>4, <2>5, <2>7 DEF n, m, D
<1> DEFINE row == [status |-> "PENDING", total |-> Total(links)]
<1>14. /\ row \in SiteRow /\ row.total = Total(links)
       /\ row.status # None
  BY <1>13 DEF SiteRow, RemittanceStatus
<1> HIDE DEF row
<1>15. /\ site' \in [SiteRemittances -> SiteRow]
       /\ site'[x] = row /\ \A y \in SiteRemittances \ {x} : site'[y] = site[y]
  <2>1. site \in [SiteRemittances -> SiteRow] /\ site' = [site EXCEPT ![x] = row]
    BY <1>3 DEF Books, row
  <2> QED
    BY <1>14, <2>1
<1>16. ASSUME NEW y \in SiteRemittances
       PROVE  Worth(Covered(y))' <= site'[y].total
  <2>1. CASE y = x
    <3>1. Worth(Covered(x))' = Total([r \in DOMAIN links |-> cash[r]])
      BY <1>6, <1>11 DEF Worth
    <3> QED
      BY <1>13, <1>14, <1>15, <2>1, <3>1
  <2>2. CASE y # x
    <3> DEFINE m == Total([r \in Covered(y)' |-> cash'[r]])
               n == Worth(Covered(y))
    <3>1. cash' \in [Remittances -> CashRow]
      BY DEF IInv, Types
    <3>2. m \in Nat /\ m <= n
      BY <1>6, <1>12, <2>2, <3>1, FewerAreWorthLess
    <3>3. n <= site[y].total /\ site[y].total \in Nat /\ site'[y] = site[y]
      BY <1>15, <2>2 DEF Books, SiteRow
    <3>4. n \in Nat
      <4>1. Covered(y) \in SUBSET Remittances /\ IsFiniteSet(Covered(y))
        BY CoveredIs
      <4> QED
        BY <4>1, WorthIs DEF IInv, Types
    <3>5. Worth(Covered(y))' = m
      BY DEF Worth
    <3> HIDE DEF m, n
    <3> QED
      BY <3>2, <3>3, <3>4, <3>5
  <2> QED
    BY <2>1, <2>2
<1>17. \A y \in SiteRemittances : site'[y].status = None => Covered(y)' = {}
  BY <1>12, <1>14, <1>15 DEF Books
<1>18. BooksOf(c)'
  BY <1>5, <1>6, <1>8 DEF BooksOf
<1>19. ASSUME NEW v \in Workers PROVE BooksOf(req[v])'
  <2>1. CASE v = w
    BY <1>7, <1>18, <2>1 DEF BooksOf
  <2>2. CASE v # w
    BY <1>6, <1>7, <2>2 DEF BooksOf, Books
  <2> QED
    BY <2>1, <2>2
<1>20. /\ IsFiniteSet(Present')
       /\ \A r \in Remittances : cash'[r].status = None => cash'[r].site = None
  BY <1>6 DEF Books, Present
<1> QED
  BY <1>15, <1>16, <1>17, <1>19, <1>20 DEF Books

\* A verdict on a site remittance, and a request that dies.
LEMMA SiteBooks ==
    ASSUME IInv, IInv', Books, NEW w \in Workers,
           \/ \E x \in SiteRemittances, verdict \in Verdicts : JudgeSite(w, x, verdict)
           \/ LoadSite(w) \/ WriteSite(w) \/ Abort(w)
    PROVE  Books'
<1>1. req[w] \in Request /\ BooksOf(req[w])
  BY DEF IInv, Types, Books
<1>2. ASSUME NEW x \in SiteRemittances, NEW verdict \in Verdicts, JudgeSite(w, x, verdict)
      PROVE  Books'
  <2> DEFINE c == [Idle EXCEPT !.at = "loadsite", !.x = x, !.verdict = verdict]
  <2>1. Moves(w, "idle", c) /\ UNCHANGED <<cash, site>>
    BY <1>2 DEF JudgeSite, tables
  <2>2. c.at = "loadsite" /\ c.x = x /\ c.verdict = verdict /\ DOMAIN c.links = {}
    BY IdleType DEF Request
  <2> HIDE DEF c
  <2>3. BooksOf(c) /\ \A y : \A r : ~ Holds(c, r, y)
    BY <2>2 DEF BooksOf, Holds, Saving
  <2> QED
    BY <2>1, <2>3, BooksRead
<1>3. CASE LoadSite(w)
  <2>1. PICK s : Moves(w, "loadsite", [req[w] EXCEPT !.at = "writesite", !.dirty = s])
    BY <1>3 DEF LoadSite
  <2>2. UNCHANGED <<cash, site>> /\ req[w].at = "loadsite"
    BY <1>3 DEF LoadSite, tables, Moves
  <2> DEFINE c == [req[w] EXCEPT !.at = "writesite", !.dirty = s]
  <2>3. /\ c.at = "writesite" /\ c.links = req[w].links /\ c.x = req[w].x
        /\ c.verdict = req[w].verdict
    BY <1>1 DEF Request
  <2>4. Moves(w, "loadsite", c)
    BY <2>1
  <2> HIDE DEF c
  <2>5. BooksOf(c)
    BY <1>1, <2>2, <2>3 DEF BooksOf
  <2>6. \A x \in SiteRemittances : \A r \in Remittances : Holds(c, r, x) => r \in Covered(x)
    BY <2>3 DEF Holds, Covered, Saving
  <2> QED
    BY <2>2, <2>4, <2>5, <2>6, BooksRead
<1>4. Idle.at = "idle" /\ DOMAIN Idle.links = {}
  BY IdleType
<1>5. BooksOf(Idle) /\ \A x : \A r : ~ Holds(Idle, r, x)
  BY <1>4, HoldsNothing DEF Saving
<1>6. CASE Abort(w)
  <2>1. UNCHANGED <<cash, site>> /\ Moves(w, req[w].at, Idle)
    BY <1>6 DEF Abort, Moves, tables
  <2> QED
    BY <1>5, <2>1, BooksRead
<1>7. CASE WriteSite(w)
  <2>1. Moves(w, "writesite", Idle) /\ cash' = cash
    BY <1>7 DEF WriteSite
  <2>2. PICK x, verdict : x = req[w].x /\ verdict = req[w].verdict
    OBVIOUS
  <2>3. x \in SiteRemittances /\ verdict \in Verdicts /\ verdict # None
    BY <1>1, <2>1, <2>2 DEF BooksOf, Moves, Verdicts, RemittanceStatus
  <2>4. site' = site \/ site' = [site EXCEPT ![x] = [site[x] EXCEPT !.status = verdict]]
    BY <1>7, <2>2 DEF WriteSite
  <2>5. site[x] \in SiteRow /\ [site[x] EXCEPT !.status = verdict] \in SiteRow
    BY <2>3 DEF Books, SiteRow, Verdicts, RemittanceStatus
  <2>6. /\ [site[x] EXCEPT !.status = verdict].total = site[x].total
        /\ [site[x] EXCEPT !.status = verdict].status = verdict
    BY <2>5 DEF SiteRow
  <2>7. PICK row : row = [site[x] EXCEPT !.status = verdict]
    OBVIOUS
  <2>8. /\ site' \in [SiteRemittances -> SiteRow]
        /\ \A y \in SiteRemittances : /\ site'[y].total = site[y].total
                                      /\ site'[y].status = None => site[y].status = None
    <3>1. site \in [SiteRemittances -> SiteRow]
      BY DEF Books
    <3> QED
      BY <2>3, <2>4, <2>5, <2>6, <2>7, <3>1
  <2>9. BooksOf(Idle)'
    BY <1>4 DEF BooksOf
  <2>10. \A y \in SiteRemittances : \A r \in Remittances :
             cash'[r].site = y \/ Holds(Idle, r, y) => r \in Covered(y)
    BY <1>5, <2>1 DEF Covered
  <2>11. /\ \A r \in Remittances : Inserted(r) => cash'[r].amount = cash[r].amount
         /\ \A r \in Remittances : cash'[r].status = None => cash'[r].site = None
         /\ IsFiniteSet(Present')
    BY <2>1 DEF Books, Present
  <2> QED
    BY <2>1, <2>8, <2>9, <2>10, <2>11, BooksKept
<1> QED
  BY <1>2, <1>3, <1>6, <1>7

\* The books are right in every state.
LEMMA BooksInvariant == Spec => []Books
<1>1. Init => Books
  <2> SUFFICES ASSUME Init PROVE Books
    OBVIOUS
  <2>1. /\ cash = [r \in Remittances |-> NoCash] /\ NoCash.status = None /\ NoCash.site = None
        /\ site = [x \in SiteRemittances |-> NoSiteRow] /\ NoSiteRow \in SiteRow
        /\ NoSiteRow.total = 0
        /\ \A w \in Workers : req[w] = Idle
    BY DEF Init, NoCash, NoSiteRow, SiteRow
  <2>2. Idle.at = "idle" /\ DOMAIN Idle.links = {}
    BY IdleType
  <2>3. BooksOf(Idle) /\ \A x : \A r : ~ Holds(Idle, r, x)
    BY <2>2, HoldsNothing DEF Saving
  <2>4. \A x \in SiteRemittances : Covered(x) = {}
    BY <2>1, <2>3 DEF Covered
  <2>5. Worth({}) = 0
    <3>1. IsSum(Worth({}), [r \in {} |-> [p \in {} |-> cash[p]][r].amount], {})
      BY TotalIs, FS_EmptySet DEF Worth
    <3> QED
      BY <3>1, SumOfZeros, FS_EmptySet
  <2>6. Present = {}
    BY <2>1 DEF Present
  <2>7. site \in [SiteRemittances -> SiteRow] /\ \A x \in SiteRemittances : site[x].total = 0
    BY <2>1
  <2>8. \A x \in SiteRemittances : Worth(Covered(x)) <= site[x].total
    BY <2>4, <2>5, <2>7
  <2>9. IsFiniteSet(Present)
    BY <2>6, FS_EmptySet
  <2>10. /\ \A r \in Remittances : cash[r].status = None => cash[r].site = None
         /\ \A w \in Workers : BooksOf(req[w])
    BY <2>1, <2>3
  <2> QED
    BY <2>4, <2>7, <2>8, <2>9, <2>10 DEF Books
<1>2. IInv /\ IInv' /\ Books /\ [Next]_vars => Books'
  <2>1. ASSUME IInv, IInv', Books, NEW w \in Workers,
               NewRequest(w) \/ NextStatement(w) \/ Abort(w)
        PROVE  Books'
    BY <2>1, CreationBooks, JudgementBooks, SessionBooks, SaveBooks, GatheringBooks,
       InsertBooks, SiteBooks DEF NewRequest, NextStatement
  <2>2. Books /\ UNCHANGED vars => Books'
    BY DEF vars, tables, Books, BooksOf, Covered, Holds, Present, Worth
  <2>3. QED
    BY <2>1, <2>2 DEF Next
<1>3. QED
  BY <1>1, <1>2, Invariant, PTL DEF Spec

\* A site remittance is worth at least the cash remittances linked to it, though
\* the total is inserted first, the links follow one by one, and a later site
\* remittance or a crash may take over or leave out any of them.
THEOREM SiteTotalAlwaysCovers == Spec => []SiteTotalCoversLinks
<1>1. ASSUME IInv, Books PROVE SiteTotalCoversLinks
  <2>1. TypeOK
    BY <1>1 DEF IInv, Types, Books, TypeOK, Request
  <2>2. ASSUME NEW x \in SiteRemittances
        PROVE  Total([r \in {p \in Remittances : cash[p].site = x} |-> cash[r]]) <= site[x].total
    <3> DEFINE linked == {p \in Remittances : cash[p].site = x}
               m == Total([r \in linked |-> cash[r]])
               n == Worth(Covered(x))
    <3>1. linked \subseteq Covered(x)
      BY DEF Covered
    <3>2. m \in Nat /\ m <= n
      BY <1>1, <3>1, FewerAreWorthLess
    <3>3. n <= site[x].total /\ site[x].total \in Nat
      BY <1>1 DEF Books, SiteRow
    <3>4. n \in Nat
      <4>1. Covered(x) \in SUBSET Remittances /\ IsFiniteSet(Covered(x))
        BY <1>1, CoveredIs
      <4> QED
        BY <1>1, <4>1, WorthIs DEF IInv, Types
    <3> HIDE DEF m, n
    <3>5. m <= site[x].total
      BY <3>2, <3>3, <3>4
    <3> QED
      BY <3>5 DEF m, linked
  <2> QED
    BY <2>1, <2>2 DEF SiteTotalCoversLinks
<1>2. QED
  BY <1>1, Invariant, BooksInvariant, PTL

=============================================================================

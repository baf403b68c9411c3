----------------------------- MODULE WorkForms -----------------------------
(***************************************************************************)
(* What happens to the work of a user in the forms of the web application, *)
(* between typing it and its arrival in the database.  A save is a request *)
(* without a transaction of the browser's own: while it runs the form may  *)
(* be closed, opened for another record, or typed into again, and its      *)
(* answer closes, clears or refills whatever the form holds by then.  The  *)
(* forms differ in a few habits, and a form is here the set of its habits: *)
(*   panel     always open on one record (else a dialog or a page that is  *)
(*             opened for a record and left when its save has succeeded)   *)
(*   fresh     the draft is set from the record whenever the form opens    *)
(*   tidies    the draft is emptied when the user closes the form          *)
(*   lingers   but for one input, a choice from a list, which keeps its    *)
(*             value when the form is left, by closing or by a success     *)
(*   clears    a panel for new records: a success empties the draft        *)
(*   remounts  each opening is a form of its own, with its own busy flag   *)
(*   holds     the form cannot be closed while it saves                    *)
(*   locks     the inputs are disabled or hidden while it saves            *)
(*   repeats   the save button works while it saves                        *)
(*   unchecked a panel whose save button works without a change            *)
(*   uploads   a file is uploaded first; its address goes into the draft   *)
(*   awaits    the file shows at once, and saving waits for the upload     *)
(*   adopts    the answer of a save refills the draft                      *)
(*   follows   after a save the record is loaded and refills the draft     *)
(*   rerenders an unrelated act of the user refills the draft              *)
(*   swallows  a save that failed is treated like one that succeeded       *)
(*   blind     a failed load leaves defaults, which can be saved           *)
(***************************************************************************)
EXTENDS Naturals

CONSTANTS
    Records,     \* what a form can be opened for
    Saves,       \* slots for the requests of the form in flight (bound)
    MaxOpenings, \* bound: how often a form is opened
    MaxEdits,    \* bound: what the user types
    Blank

ASSUME FormsAssumption ==
    /\ MaxOpenings \in Nat \ {0} /\ MaxEdits \in Nat
    /\ Blank \notin Records \cup Saves

-----------------------------------------------------------------------------
(* The forms. *)

AgencyForm     == {"fresh", "uploads", "awaits", "follows"}
InviteForm     == {"fresh"}
EditUserForm   == {"fresh"}
InviteAdmin    == {"fresh", "holds"}
ArticleDialog  == {"fresh", "swallows"}
ServiceDialog  == {"fresh", "swallows"}
SlotForm       == {}
ClientForm     == {"fresh", "remounts"}
TenantDialog   == {"fresh", "remounts"}
TenantCreation == {"fresh", "remounts"}
ServiceTabForm == {"fresh"}
ArticleTabForm == {"fresh"}
ExpenseForm    == {"tidies", "lingers", "uploads"}
SettingsForm   == {"panel", "uploads", "awaits", "follows", "blind"}
AgencySettings == {"panel", "repeats", "unchecked", "blind"}
ExpressForm    == {"panel", "unchecked", "locks", "follows", "rerenders", "swallows", "blind"}
PriceGrid      == {"panel", "locks"}
LimitsEditor   == {"panel", "locks", "adopts", "rerenders", "swallows"}
PlanIdentity   == {"panel", "locks", "adopts", "rerenders"}
PlanCreation   == {"panel", "clears"}
TypeCreation   == {"panel", "clears"}
LocalityForm   == {"panel", "clears"}

Forms ==
    { AgencyForm, InviteForm, EditUserForm, InviteAdmin, ArticleDialog, ServiceDialog,
      SlotForm, ClientForm, TenantDialog, TenantCreation, ServiceTabForm, ArticleTabForm,
      ExpenseForm, SettingsForm, AgencySettings, ExpressForm, PriceGrid, LimitsEditor,
      PlanIdentity, PlanCreation, TypeCreation, LocalityForm }

-----------------------------------------------------------------------------
VARIABLES
    form,      \* the habits of the form
    open,      \* the record it is open for, Blank if it is closed
    opening,   \* which opening this is
    draft,     \* what is in its inputs
    upload,    \* the opening whose file is on its way, 0 if none
    saves,     \* requests in flight: what the draft was, and for what
    reloading, \* the record is being loaded after a save
    madeIn,    \* history: the opening in which each text was typed, or chosen
    kept,      \* history: the texts that have reached the database
    edits      \* how many texts have been typed or chosen

formVars == <<form, open, opening, draft, upload, saves, reloading, madeIn, kept, edits>>

Openings == 1..MaxOpenings
Edits    == 1..MaxEdits

\* The record whose values the inputs got, the text typed over them, what was
\* chosen in the input that lingers, the opening of the file (0: those of the
\* record), and whether the form holds the text unsaved.
Draft == [from: Records \cup {Blank}, text: 0..MaxEdits, choice: 0..MaxEdits,
          file: 0..MaxOpenings, dirty: BOOLEAN]
Save  == [rec: Records, opening: Openings, draft: Draft, at: {"asked", "served"}]

ASSUME BlankAssumption == Blank \notin Save

Of(r)   == [from |-> r, text |-> 0, choice |-> 0, file |-> 0, dirty |-> FALSE]
Panel   == "panel" \in form
InSave  == {s \in Saves : saves[s] # Blank}

\* The busy flag of the form on the screen.
Busy ==
    \/ \E s \in InSave : "remounts" \in form => saves[s].opening = opening
    \/ Panel /\ reloading

FormInit ==
    /\ form \in Forms
    /\ open = Blank /\ opening = 0
    /\ draft = Of(Blank)
    /\ upload = 0
    /\ saves = [s \in Saves |-> Blank]
    /\ reloading = FALSE
    /\ madeIn = [e \in Edits |-> 0]
    /\ kept = {} /\ edits = 0

-----------------------------------------------------------------------------
(* The user. *)

\* Mutated form: the inputs keep what they held when the form was left.
MutantOpened(r) == IF open = Blank /\ opening > 0 THEN draft ELSE Of(r)

\* The inputs of a form that opens for r.
Opened(r) == IF form \cap {"fresh", "panel"} # {} THEN Of(r) ELSE [draft EXCEPT !.from = r]

\* A panel opens once, when its record is loaded.
Open(r) ==
    /\ open = Blank /\ opening < MaxOpenings
    /\ Panel => opening = 0
    /\ open' = r
    /\ opening' = opening + 1
    /\ draft' = Opened(r)
    /\ UNCHANGED <<form, upload, saves, reloading, madeIn, kept, edits>>

\* The load of the panel has failed: its inputs hold defaults.
OpenBlind(r) ==
    /\ "blind" \in form /\ open = Blank /\ opening = 0
    /\ open' = r /\ opening' = 1
    /\ draft' = Of(Blank)
    /\ UNCHANGED <<form, upload, saves, reloading, madeIn, kept, edits>>

Type ==
    /\ open # Blank /\ edits < MaxEdits
    /\ "locks" \in form => InSave = {}
    /\ edits' = edits + 1
    /\ draft' = [draft EXCEPT !.text = edits', !.dirty = TRUE]
    /\ madeIn' = [madeIn EXCEPT ![edits'] = opening]
    /\ UNCHANGED <<form, open, opening, upload, saves, reloading, kept>>

\* The select of the categories.
Choose ==
    /\ open # Blank /\ "lingers" \in form /\ edits < MaxEdits
    /\ edits' = edits + 1
    /\ draft' = [draft EXCEPT !.choice = edits']
    /\ madeIn' = [madeIn EXCEPT ![edits'] = opening]
    /\ UNCHANGED <<form, open, opening, upload, saves, reloading, kept>>

PickFile ==
    /\ open # Blank /\ "uploads" \in form /\ upload = 0
    /\ upload' = opening
    /\ draft' = IF "awaits" \in form THEN [draft EXCEPT !.file = opening] ELSE draft
    /\ UNCHANGED <<form, open, opening, saves, reloading, madeIn, kept, edits>>

SubmitForm(s) ==
    /\ open # Blank /\ saves[s] = Blank
    /\ Busy => "repeats" \in form
    /\ "awaits" \in form => upload = 0
    /\ Panel => draft.dirty \/ draft.file # 0 \/ "unchecked" \in form
    /\ saves' = [saves EXCEPT ![s] =
                     [rec |-> open, opening |-> opening, draft |-> draft, at |-> "asked"]]
    /\ UNCHANGED <<form, open, opening, draft, upload, reloading, madeIn, kept, edits>>

\* The inputs after they were emptied for r: resetForm leaves the select alone,
\* and the other forms choose nothing.
Emptied(r) == [Of(r) EXCEPT !.choice = IF "lingers" \in form THEN draft.choice ELSE 0]

\* The user gives up what is in the form: a dialog closes, a panel reverts.
Close ==
    /\ open # Blank
    /\ "holds" \in form => ~Busy
    /\ open' = IF Panel THEN open ELSE Blank
    /\ draft' = IF Panel \/ "tidies" \in form THEN Emptied(draft.from)
                ELSE [draft EXCEPT !.dirty = FALSE]
    /\ UNCHANGED <<form, opening, upload, saves, reloading, madeIn, kept, edits>>

\* Typing into the search box of the catalogue, or changing another part of the
\* plan, gives the form a record object of a new identity; 'Actualiser' mounts
\* the cards of the plans anew.
Rerender ==
    /\ "rerenders" \in form /\ open # Blank
    /\ draft' = Of(draft.from)
    /\ UNCHANGED <<form, open, opening, upload, saves, reloading, madeIn, kept, edits>>

-----------------------------------------------------------------------------
(* Answers. *)

\* setFormData(prev => ...) and setReceiptUrl: into whatever the form holds now.
UploadAnswered ==
    /\ upload # 0
    /\ draft' = [draft EXCEPT !.file = upload]
    /\ upload' = 0
    /\ UNCHANGED <<form, open, opening, saves, reloading, madeIn, kept, edits>>

\* Where the file already shows, the handler puts back the one it replaced.
UploadFails ==
    /\ upload # 0
    /\ draft' = IF "awaits" \in form
                THEN [draft EXCEPT !.file = IF upload = opening THEN 0 ELSE upload]
                ELSE draft
    /\ upload' = 0
    /\ UNCHANGED <<form, open, opening, saves, reloading, madeIn, kept, edits>>

\* External: the API writes the record.
ServeSave(s) ==
    /\ s \in InSave /\ saves[s].at = "asked"
    /\ saves' = [saves EXCEPT ![s].at = "served"]
    /\ kept' = IF saves[s].draft.text = 0 THEN kept ELSE kept \cup {saves[s].draft.text}
    /\ UNCHANGED <<form, open, opening, draft, upload, reloading, madeIn, edits>>

\* The draft of a panel whose save d has succeeded.
Refilled(d) ==
    IF form \cap {"clears", "adopts"} # {} THEN Of(draft.from)
    ELSE [draft EXCEPT !.dirty = draft.dirty /\ draft.text # d.text]

\* The answer runs the end of the handler, which names no opening.
SaveAnswered(s) ==
    /\ s \in InSave /\ saves[s].at = "served"
    /\ IF Panel
       THEN draft' = Refilled(saves[s].draft) /\ UNCHANGED open
       ELSE draft' = Emptied(Blank) /\ open' = Blank
    /\ reloading' = (reloading \/ "follows" \in form)
    /\ saves' = [saves EXCEPT ![s] = Blank]
    /\ UNCHANGED <<form, opening, upload, madeIn, kept, edits>>

\* Mutated form: the dialog closes in a finally clause.
MutantSaveFails(s) ==
    /\ s \in InSave
    /\ IF Panel THEN UNCHANGED <<open, draft>> ELSE draft' = Emptied(Blank) /\ open' = Blank
    /\ saves' = [saves EXCEPT ![s] = Blank]
    /\ UNCHANGED <<form, opening, upload, reloading, madeIn, kept, edits>>

\* The save fails on the way there or back: a message, and the draft stays.
SaveFails(s) ==
    /\ s \in InSave
    /\ \/ "swallows" \notin form /\ UNCHANGED <<open, draft>>
       \/ "swallows" \in form /\ Panel /\ draft' = [draft EXCEPT !.dirty = FALSE] /\ UNCHANGED open
       \/ "swallows" \in form /\ ~Panel /\ draft' = Of(Blank) /\ open' = Blank
    /\ saves' = [saves EXCEPT ![s] = Blank]
    /\ UNCHANGED <<form, opening, upload, reloading, madeIn, kept, edits>>

\* The record has been loaded again (a failed load leaves the inputs alone).
Reloaded ==
    /\ reloading
    /\ draft' \in {draft, IF open = Blank THEN draft ELSE Of(open)}
    /\ reloading' = FALSE
    /\ UNCHANGED <<form, open, opening, upload, saves, madeIn, kept, edits>>

-----------------------------------------------------------------------------
FormNext ==
    \/ \E r \in Records : Open(r) \/ OpenBlind(r)
    \/ Type \/ Choose \/ PickFile \/ Close \/ Rerender
    \/ \E s \in Saves : SubmitForm(s) \/ ServeSave(s) \/ SaveAnswered(s) \/ SaveFails(s)
    \/ UploadAnswered \/ UploadFails \/ Reloaded

-----------------------------------------------------------------------------
(* Properties. *)

FormTypeOK ==
    /\ form \in Forms /\ open \in Records \cup {Blank} /\ draft \in Draft
    /\ saves \in [Saves -> Save \cup {Blank}]
    /\ upload <= opening /\ kept \subseteq 1..edits

\* What is sent for a record was loaded for that record, or typed and uploaded
\* while the form was open for it, in the opening that sends it.  The exceptions,
\* each only on the forms with that habit: the file of an earlier opening that
\* arrived late; a draft that a cancelled opening left in the inputs; defaults of
\* a panel whose load has failed; the category chosen in an earlier opening for an
\* expense, cancelled or saved.
SavedAsMeant ==
    /\ FormTypeOK
    /\ \A s \in InSave :
        LET d == saves[s].draft
        IN  /\ d.from # saves[s].rec => "blind" \in form /\ d.from = Blank
            /\ d.file \notin {0, saves[s].opening} => "uploads" \in form /\ ~Panel
            /\ (d.text > 0 /\ madeIn[d.text] # saves[s].opening) => form = SlotForm
            /\ (d.choice > 0 /\ madeIn[d.choice] # saves[s].opening) => form = ExpenseForm

\* The text in the form that no database has.
Unsaved(e) == open # Blank /\ draft.dirty /\ draft.text = e /\ e \notin kept

\* The requests that settle in this step.
Settles(s) == s \in InSave /\ saves'[s] = Blank

\* How the text e may leave the form unsaved.
Excuses(e) ==
    \/ e \in kept' \/ Type \/ Close
    \/ \E s \in Saves : Settles(s) /\
          \/ saves[s].opening # opening /\ ~Panel /\ "holds" \notin form
          \/ saves[s].opening = opening /\ saves[s].draft.text < e /\ "locks" \notin form
          \/ "swallows" \in form
    \/ reloading /\ ~reloading' /\ "follows" \in form
    \/ Rerender

\* Unsaved work leaves a form only when the user goes on typing or gives it up.
\* The exceptions, each only on the forms with that habit: the answer to the save
\* of an earlier opening closes this one; a success clears what was typed while
\* it was on its way; a failure is taken for a success; the record is loaded
\* again, or rendered again, over the draft.
WorkIsKept == [][\A e \in Edits : Unsaved(e) /\ ~Unsaved(e)' => Excuses(e)]_formVars

=============================================================================

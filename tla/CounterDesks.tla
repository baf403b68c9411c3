---------------------------- MODULE CounterDesks ----------------------------
(***************************************************************************)
(* The desks of the web application at which a clerk takes one order after *)
(* another: the order is chosen, its card shown, and one button runs a     *)
(* chain of requests on it.  The API does each step of an order once and   *)
(* in turn and refuses any other.  The card does not follow the steps; the *)
(* end of a chain takes away whatever card is there by then.  A desk is    *)
(* here the set of its habits:                                             *)
(*   looks   the order is looked up in the API; lookups overtake           *)
(*   lists   it is chosen from the rows of a list                          *)
(*   modal   the card covers the list                                      *)
(*   shares  lookups and steps share one busy flag (else the flag belongs  *)
(*           to the slot picker on the card, and goes when that goes)      *)
(*   forgets a failed lookup takes the card away                           *)
(*   awaits  the flag stays up until the last step                         *)
(*   leaves  a failure between the steps takes the card away               *)
(***************************************************************************)
EXTENDS Naturals

CONSTANTS
    Orders,    \* the orders of the clerk
    Lookups,   \* slots for lookups in flight (bound)
    Chains,    \* slots for chains of steps in flight (bound)
    MaxClicks, \* bound: what the clerk does
    Nothing

ASSUME DesksAssumption == MaxClicks \in Nat /\ Nothing \notin Orders \cup Lookups \cup Chains

-----------------------------------------------------------------------------
(* The desks, and the steps each takes an order through: payment and handover; *)
(* assignment of a slot; assignment of a slot and start of the work.           *)

HandoverDesk   == {"looks", "shares", "forgets", "awaits"}
ShelvingDesk   == {"looks", "lists"}
WorkflowPicker == {"lists", "modal", "leaves"}

Desks == {HandoverDesk, ShelvingDesk, WorkflowPicker}

VARIABLES
    desk,      \* the habits of the desk
    done,      \* external: how many of its steps each order has had
    card,      \* the order on the screen and the steps its card knows of
    lookups,   \* lookups in flight: order, stage, the steps read
    chains,    \* chains in flight: order, first step, this step, stage, picker
    busy,      \* the flag that disables the button
    behind,    \* history: orders with a step whose success the card was not told
    readEarly, \* history: the card was read before a step was done
    clicks     \* history: what the clerk has done

deskVars == <<desk, done, card, lookups, chains, busy, behind, readEarly, clicks>>

LastStep  == IF desk = ShelvingDesk THEN 1 ELSE 2
Looking   == {l \in Lookups : lookups[l] # Nothing}
Running   == {c \in Chains : chains[c] # Nothing}
Shares    == "shares" \in desk

Card   == [order: Orders, knows: 0..2]
Lookup == [order: Orders, at: {"asked", "served"}, knows: 0..2]
Chain  == [order: Orders, first: 1..2, step: 1..2, at: {"asked", "done", "refused"},
           here: BOOLEAN]

ASSUME NothingAssumption == Nothing \notin Card \cup Lookup \cup Chain

DeskInit ==
    /\ desk \in Desks
    /\ done \in [Orders -> 0..(LastStep - 1)]
    /\ card = Nothing
    /\ lookups = [l \in Lookups |-> Nothing]
    /\ chains = [c \in Chains |-> Nothing]
    /\ busy = FALSE /\ behind = {} /\ readEarly = FALSE /\ clicks = 0

-----------------------------------------------------------------------------
(* The clerk. *)

Click == clicks < MaxClicks /\ clicks' = clicks + 1

\* The slot picker under the card is unmounted, and its flag with it.
PickerGone ==
    /\ busy' = (Shares /\ busy)
    /\ chains' = [c \in Chains |->
                     IF chains[c] = Nothing \/ Shares THEN chains[c]
                     ELSE [chains[c] EXCEPT !.here = FALSE]]

\* A scan, a search or the queue: possible at any time.  On ShelvingDesk a loader
\* takes the place of the card.
LookUpOrder(l, o) ==
    /\ "looks" \in desk /\ lookups[l] = Nothing
    /\ Click
    /\ lookups' = [lookups EXCEPT ![l] = [order |-> o, at |-> "asked", knows |-> 0]]
    /\ IF Shares THEN busy' = TRUE /\ UNCHANGED chains ELSE PickerGone
    /\ UNCHANGED <<desk, done, card, behind, readEarly>>

\* A card that knows k steps of o.
Shown(o, k) ==
    /\ card' = [order |-> o, knows |-> k]
    /\ readEarly' = (k # done[o])
    /\ behind' = behind \ {o}

\* The list has orders that still need the first step of ShelvingDesk.
ChooseOrder(o) ==
    /\ "lists" \in desk /\ done[o] < LastStep
    /\ "modal" \in desk => card = Nothing
    /\ Click
    /\ Shown(o, done[o])
    /\ UNCHANGED <<desk, done, lookups, chains, busy>>

Deselect ==
    /\ card # Nothing
    /\ Click
    /\ card' = Nothing
    /\ PickerGone
    /\ UNCHANGED <<desk, done, lookups, behind, readEarly>>

\* The button: the first step the card does not know of.
RunChain(c) ==
    /\ card # Nothing /\ ~busy /\ chains[c] = Nothing /\ card.knows < LastStep
    /\ Click
    /\ chains' = [chains EXCEPT ![c] =
                      [order |-> card.order, first |-> card.knows + 1, step |-> card.knows + 1,
                       at |-> "asked", here |-> TRUE]]
    /\ busy' = TRUE
    /\ UNCHANGED <<desk, done, card, lookups, behind, readEarly>>

-----------------------------------------------------------------------------
(* External: the API. *)

ServeLookup(l) ==
    /\ l \in Looking /\ lookups[l].at = "asked"
    /\ lookups' = [lookups EXCEPT ![l].at = "served", ![l].knows = done[lookups[l].order]]
    /\ UNCHANGED <<desk, done, card, chains, busy, behind, readEarly, clicks>>

ServeStep(c) ==
    /\ c \in Running /\ chains[c].at = "asked"
    /\ LET o == chains[c].order
       IN  IF done[o] = chains[c].step - 1
           THEN /\ done' = [done EXCEPT ![o] = @ + 1]
                /\ chains' = [chains EXCEPT ![c].at = "done"]
           ELSE chains' = [chains EXCEPT ![c].at = "refused"] /\ UNCHANGED done
    /\ UNCHANGED <<desk, card, lookups, busy, behind, readEarly, clicks>>

-----------------------------------------------------------------------------
(* Answers. *)

\* The end of a lookup lowers the shared flag, whoever has raised it.
LookupEnds(l) ==
    /\ lookups' = [lookups EXCEPT ![l] = Nothing]
    /\ busy' = (busy /\ ~Shares)
    /\ UNCHANGED <<desk, done, chains, clicks>>

\* ShelvingDesk takes only orders that are READY.
LookupAnswered(l) ==
    /\ l \in Looking /\ lookups[l].at = "served"
    /\ IF "lists" \in desk /\ lookups[l].knows > 0
       THEN UNCHANGED <<card, behind, readEarly>>
       ELSE Shown(lookups[l].order, lookups[l].knows)
    /\ LookupEnds(l)

LookupFails(l) ==
    /\ l \in Looking
    /\ card' = IF "forgets" \in desk THEN Nothing ELSE card
    /\ LookupEnds(l)
    /\ UNCHANGED <<behind, readEarly>>

Lowered(c) == busy' = (busy /\ ~Shares /\ ~chains[c].here)

\* Mutated form: the last step leaves the card.
MutantStepAnswered(c) ==
    /\ c \in Running /\ chains[c].at = "done"
    /\ IF chains[c].step < LastStep
       THEN /\ chains' = [chains EXCEPT ![c].step = @ + 1, ![c].at = "asked"]
            /\ IF "awaits" \in desk THEN busy' = TRUE ELSE Lowered(c)
       ELSE chains' = [chains EXCEPT ![c] = Nothing] /\ Lowered(c)
    /\ UNCHANGED <<desk, done, card, lookups, behind, readEarly, clicks>>

\* The next step of the chain, or the end of it.
StepAnswered(c) ==
    /\ c \in Running /\ chains[c].at = "done"
    /\ IF chains[c].step < LastStep
       THEN /\ chains' = [chains EXCEPT ![c].step = @ + 1, ![c].at = "asked"]
            /\ IF "awaits" \in desk THEN busy' = TRUE ELSE Lowered(c)
            /\ UNCHANGED card
       ELSE /\ chains' = [chains EXCEPT ![c] = Nothing]
            /\ Lowered(c)
            /\ card' = Nothing
    /\ UNCHANGED <<desk, done, lookups, behind, readEarly, clicks>>

\* A step is refused, or fails on the way there or back: a message.
StepFails(c) ==
    /\ c \in Running
    /\ LET t == chains[c]
       IN  /\ behind' = IF t.at = "done" \/ t.step > t.first THEN behind \cup {t.order}
                        ELSE behind
           /\ card' = IF "leaves" \in desk /\ t.step = LastStep THEN Nothing ELSE card
    /\ chains' = [chains EXCEPT ![c] = Nothing]
    /\ Lowered(c)
    /\ UNCHANGED <<desk, done, lookups, readEarly, clicks>>

-----------------------------------------------------------------------------
DeskNext ==
    \/ \E o \in Orders : ChooseOrder(o) \/ \E l \in Lookups : LookUpOrder(l, o)
    \/ Deselect
    \/ \E c \in Chains : RunChain(c) \/ ServeStep(c) \/ StepAnswered(c) \/ StepFails(c)
    \/ \E l \in Lookups : ServeLookup(l) \/ LookupAnswered(l) \/ LookupFails(l)

-----------------------------------------------------------------------------
(* Properties. *)

DeskTypeOK ==
    /\ desk \in Desks /\ done \in [Orders -> 0..2]
    /\ card \in Card \cup {Nothing}
    /\ lookups \in [Lookups -> Lookup \cup {Nothing}]
    /\ chains \in [Chains -> Chain \cup {Nothing}]
    /\ behind \subseteq Orders

\* A desk at rest offers for its order the step that the API will take, although
\* lookups and chains overlap and take each other's cards away.  The exceptions:
\* a step of the order was done and the chain failed after it, or its answer was
\* lost; on a desk that looks up, an answer that was read before a step was done.
\* At the handover such a card asks for the money again, is refused, and stays.
CardOffersNextStep ==
    /\ DeskTypeOK
    /\ (Looking = {} /\ Running = {} /\ card # Nothing) =>
        \/ card.knows = done[card.order]
        \/ card.order \in behind
        \/ readEarly /\ "looks" \in desk

=============================================================================

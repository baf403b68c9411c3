----------------------------- MODULE BrowserTab ------------------------------
(***************************************************************************)
(* One tab of the web application, and its user: a page of rows that is    *)
(* loading, or a form or a counter desk opened on a page that is at rest,  *)
(* or the pages he goes through by menu, link and address. Their requests  *)
(* run under one browser, whose timers and handlers go on whatever the     *)
(* user does.                                                              *)
(***************************************************************************)
EXTENDS WorkPages, WorkForms, CounterDesks, Navigation

VARIABLE tab \* what the user works with

tabVars == <<tab, pageVars, formVars, deskVars, navVars>>

\* A page whose load has been answered; no form, and no desk, is open.
PageAtRest ==
    /\ page = ArticlePicker
    /\ query = [filter |-> CHOOSE f \in Filters : TRUE, page |-> 1]
    /\ loads = [s \in Loads |-> None] /\ newest = None /\ loading = FALSE
    /\ shown = [q |-> query, v |-> 0]
    /\ saving = [w \in Handlers |-> None] /\ version = 0 /\ own = 0 /\ moves = 0
    /\ failed = FALSE /\ overtaken = FALSE /\ outdated = FALSE /\ echoed = FALSE
NoForm == FormInit /\ form = SlotForm
NoDesk == DeskInit /\ desk = ShelvingDesk /\ done = [o \in Orders |-> 0]
NoNavigation == NavInit /\ who = Manager

TabInit ==
    \/ tab = "page" /\ PageInit /\ NoForm /\ NoDesk /\ NoNavigation
    \/ tab = "form" /\ FormInit /\ PageAtRest /\ NoDesk /\ NoNavigation
    \/ tab = "desk" /\ DeskInit /\ PageAtRest /\ NoForm /\ NoNavigation
    \/ tab = "menu" /\ NavInit /\ PageAtRest /\ NoForm /\ NoDesk

OnPage(A) == tab = "page" /\ A /\ UNCHANGED <<tab, formVars, deskVars, navVars>>
OnMenu(A) == tab = "menu" /\ A /\ UNCHANGED <<tab, pageVars, formVars, deskVars>>

TabNext ==
    \/ OnPage(PageNext)
    \/ tab = "form" /\ FormNext /\ UNCHANGED <<tab, pageVars, deskVars, navVars>>
    \/ tab = "desk" /\ DeskNext /\ UNCHANGED <<tab, pageVars, formVars, navVars>>
    \/ OnMenu(NavNext)

\* While the page has requests out, one of them is served, answered or times out;
\* then its handler runs.
Fairness == WF_tabVars(OnPage((\E s \in Loads : LoadStep(s)) \/ \E w \in Handlers : SaveStep(w)))

TabSpec == TabInit /\ [][TabNext]_tabVars /\ Fairness

=============================================================================

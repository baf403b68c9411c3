----------------------------- MODULE BackOffice ------------------------------
(***************************************************************************)
(* The back office as one process serves it: the client book with its      *)
(* search cache, the notifications and the registers.  Their calls share   *)
(* the workers, and one restart stops them all.                            *)
(***************************************************************************)
EXTENDS ClientBook, Notifications, Registers

\* The calls of each component; an idle worker runs none of them.
BookKinds == {"search", "client", "edit"}
NoticeKinds == {"price", "prefs", "ready"}
RegKinds == {"seed", "add", "relabel", "switch", "drop", "upsert", "unprice", "spend", "unspend"}
OfficeKinds == BookKinds \cup NoticeKinds \cup RegKinds

ASSUME KindAssumption == None \notin OfficeKinds

officevars == <<callvars, bookvars, noticevars, regvars>>

OfficeInit == CallsInit /\ BookInit /\ NoticeInit /\ RegInit

Restart == Crash /\ BookRestart /\ NoticeRestart /\ UNCHANGED regvars

OfficeNext ==
    \/ /\ \/ \E w \in Workers : BookRequest(w) \/ BookStep(w)
          \/ \E q \in Queries : Expire(q)
       /\ UNCHANGED <<noticevars, regvars>>
    \/ /\ \E w \in Workers : NoticeRequest(w) \/ NoticeStep(w)
       /\ UNCHANGED <<bookvars, regvars>>
    \/ /\ \E w \in Workers : RegRequest(w) \/ RegStep(w)
       /\ UNCHANGED <<bookvars, noticevars>>
    \/ Restart

\* Entries of the cache expire, and the event loop goes on with an announcement
\* that was begun.  No other call is bound to go on.
Fairness ==
    /\ \A q \in Queries : WF_officevars(Expire(q) /\ UNCHANGED <<noticevars, regvars>>)
    /\ \A w \in Workers : WF_officevars(NoticeGoesOn(w) /\ UNCHANGED <<bookvars, regvars>>)

OfficeSpec == OfficeInit /\ [][OfficeNext]_officevars /\ Fairness

-----------------------------------------------------------------------------
\* The type invariant of the three components; labels are unique, references lead
\* to rows.
OfficeTypeOK ==
    /\ \A w \in Workers : /\ DOMAIN call[w] = DOMAIN Idle /\ call[w].mixed \in BOOLEAN
                          /\ call[w].at = "idle" <=> call[w] = Idle
    /\ calls \in 0 .. MaxCalls /\ faults \in 0 .. MaxFaults
    /\ BookTypeOK /\ NoticeTypeOK /\ RegTypeOK

\* A cached search shows the clients as they are, unless a write is about to
\* clear the cache, the process stopped just before that, or the entry was put by
\* a search that had read the table before a write (ClientService search, create,
\* update).
StaleOnlyWhenOvertaken ==
    Clearing = {} => \A q \in Queries \ late : cache[q] # None => cache[q] = Matches(q)

\* When the clients no longer change, every cached search comes to show them as
\* they are and stays so, whatever was put late (the expiry of search).
SearchesSettle ==
    <>[][UNCHANGED book]_book => \A q \in Queries : <>[](cache[q] # None => cache[q] = Matches(q))

\* Two clients share a printed code only if one was inserted between the check and
\* the insert of the other (generateUniqueCode; no unique index stands behind it).
SharedCodeOnlyByOverlap ==
    \A i, j \in Known : i # j /\ book[i].code = book[j].code => {i, j} \cap twins # {}

\* Every reader of the settings gets the SMS price that was set last, however many
\* rows first readers inserted, unless the one who set it inserted a row himself
\* after another had (getPlatformSettings, updatePlatformSettings).
ConfiguredPriceIsRead ==
    settings # <<>> /\ ~stray => settings[RowRead] = wanted

\* A client is told once per channel that the order is ready, unless two calls
\* found it IN_PROGRESS (updateStatus, notify).
OneAnnouncement ==
    \A o \in CounterOrders \ double, c \in Channels : log[o][c] <= 1

\* An order that became READY is announced on every channel the tenant had on by
\* which the client could be reached, unless the process stopped, a read failed or
\* a log row could not be saved (the announcement nobody waits for).
ReadyIsAnnounced ==
    \A o \in CounterOrders : status[o] = "READY" ~>
        \/ o \in missed
        \/ owed[o] # None /\ \A c \in owed[o] : log[o][c] > 0

\* A change alters what it means to and nothing else, a deleted row stays deleted,
\* unless another change of the row came between its read and its save (update,
\* delete and the seeds, all of which save the whole row).
ChangesKeepTheRest == rows = decided

\* A seeded register keeps its default row, under its name and marked as built-in,
\* unless a change had read the row before the seed marked it.
DefaultStays ==
    \A g \in sown : \E r \in Of(g) : rows[r] # None /\ rows[r].system /\ rows[r].label = Default

\* No expense is entered under a type that was inactive before and throughout
\* (createExpense, deactivateType).
NoExpenseOnInactiveType == strange = {}

\* The back office takes no locks.  What its calls can do to one another is exactly
\* what the exceptions of these properties name, and undisturbed calls do no harm
\* (client.service.ts, notification.service.ts, the three registers).
OnlyOverlapsHarm ==
    /\ OfficeTypeOK
    /\ StaleOnlyWhenOvertaken
    /\ SharedCodeOnlyByOverlap
    /\ ConfiguredPriceIsRead
    /\ OneAnnouncement
    /\ ChangesKeepTheRest
    /\ DefaultStays
    /\ NoExpenseOnInactiveType

\* What is begun in the background is finished: cached searches expire, and an
\* announcement nobody waits for is made (search, notifyOrderReadyPickup).
BackgroundWorkEnds == SearchesSettle /\ ReadyIsAnnounced

=============================================================================

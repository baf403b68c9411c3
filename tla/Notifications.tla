---------------------------- MODULE Notifications ----------------------------
(***************************************************************************)
(* NotificationService and the announcement of a READY order: the settings *)
(* of the platform, whose row the first reader inserts, the channels a     *)
(* tenant has switched on, and the message OrdersService.updateStatus      *)
(* sends without waiting for it.  The providers are external: each call    *)
(* ends with a verdict, and either verdict is logged.                      *)
(***************************************************************************)
EXTENDS OfficeCalls, Sequences

CONSTANTS
    CounterOrders, \* orders in work, to be picked up at the counter
    SmsPrices      \* prices the platform may set

Channels == {"email", "sms"}

\* Where a client can be reached: nowhere when it is not found, by SMS when it has
\* left no address, or both ways.
Contacts == {{}, {"sms"}, Channels}

VARIABLES
    settings,  \* platform_notification_settings: the price of each row, oldest first
    channels,  \* the channels the tenant has switched on
    status,    \* of each order
    log,       \* notification_logs: rows per order and channel
    wanted,    \* history: the price set last
    stray,     \* history: it was set on a row that another first reader preceded
    owed,      \* history: the channels that were on, and reached the client, at the announcement
    missed,    \* history: orders whose announcement was cut short
    double     \* history: orders two calls found IN_PROGRESS

noticevars == <<settings, channels, status, log, wanted, stray, owed, missed, double>>

NoticeInit ==
    /\ settings = <<>>
    /\ channels = {"email"}                 \* the defaults of the columns
    /\ status = [o \in CounterOrders |-> "IN_PROGRESS"]
    /\ log = [o \in CounterOrders |-> [c \in Channels |-> 0]]
    /\ wanted = None /\ stray = FALSE
    /\ owed = [o \in CounterOrders |-> None]
    /\ missed = {} /\ double = {}

-----------------------------------------------------------------------------
(* getPlatformSettings, on behalf of the call w: find, and insert a row    *)
(* without a price when there is none.  saw is the row it returns.         *)

RowRead == 1

\* How the call c goes on with row n: a price is saved to it; SMS may be switched
\* on if it has a price; an announcement goes out.
WithSettings(c, n, price) ==
    CASE c.kind = "price" -> [c EXCEPT !.at = "put", !.saw = n]
      [] c.kind = "prefs" -> IF price = None THEN Idle ELSE [c EXCEPT !.at = "save"]
      [] c.kind = "ready" -> [c EXCEPT !.at = "send"]

FindSettings(w, kind) ==
    /\ IF settings = <<>> THEN Goes(w, kind, "settings", "seed")
       ELSE Moves(w, kind, "settings", WithSettings(call[w], RowRead, settings[RowRead]))
    /\ NoFault /\ UNCHANGED noticevars

InsertSettings(w, kind) ==
    /\ Moves(w, kind, "seed", WithSettings(call[w], Len(settings) + 1, None))
    /\ settings' = Append(settings, None)
    /\ NoFault /\ UNCHANGED <<channels, status, log, wanted, stray, owed, missed, double>>

\* updatePlatformSettings saves the row it was given.
PutPrice(w) ==
    LET c == call[w]
    IN /\ Ends(w, "price", "put")
       /\ settings' = [settings EXCEPT ![c.saw] = c.arg]
       /\ wanted' = c.arg
       /\ stray' = (c.saw > 1)
       /\ NoFault /\ UNCHANGED <<channels, status, log, owed, missed, double>>

\* updateTenantNotificationPrefs.
SavePrefs(w) ==
    /\ Ends(w, "prefs", "save")
    /\ channels' = call[w].arg
    /\ NoFault /\ UNCHANGED <<settings, status, log, wanted, stray, owed, missed, double>>

-----------------------------------------------------------------------------
(* updateStatus to READY, and the announcement.                            *)

MayBeReady(o) == status[o] = "IN_PROGRESS"

FindOrder(w) ==
    /\ At(w, "ready", "order")
    /\ IF MayBeReady(call[w].on) THEN Goes(w, "ready", "order", "save") ELSE Ends(w, "ready", "order")
    /\ NoFault /\ UNCHANGED noticevars

Readying(o) == {v \in InFlight({"ready"}) : call[v].on = o /\ call[v].at = "save"}

\* A bug: the order is saved and its announcement is never begun.
MutantSaveReady(w) ==
    LET o == call[w].on
    IN /\ Ends(w, "ready", "save")
       /\ status' = [status EXCEPT ![o] = "READY"]
       /\ double' = IF Readying(o) = {w} THEN double ELSE double \cup {o}
       /\ NoFault /\ UNCHANGED <<settings, channels, log, wanted, stray, owed, missed>>

SaveReady(w) ==
    LET o == call[w].on
    IN /\ Goes(w, "ready", "save", "prefs")
       /\ status' = [status EXCEPT ![o] = "READY"]
       /\ double' = IF Readying(o) = {w} THEN double ELSE double \cup {o}
       /\ NoFault /\ UNCHANGED <<settings, channels, log, wanted, stray, owed, missed>>

\* notifyOrderReadyPickup reads the client, notify the tenant and then the
\* settings.  A channel is used if it is on and the client can be reached by it.
ReadTenant(w) ==
    \E reach \in Contacts :
        /\ Moves(w, "ready", "prefs", [call[w] EXCEPT !.at = "settings", !.arg = channels \cap reach])
        /\ owed' = [owed EXCEPT ![call[w].on] = channels \cap reach]
        /\ NoFault /\ UNCHANGED <<settings, channels, status, log, wanted, stray, missed, double>>

\* A read, or the insert of the settings, fails: that is caught, and nothing is
\* announced.
ReadFails(w) ==
    /\ \E at \in {"prefs", "settings", "seed"} : Ends(w, "ready", at)
    /\ missed' = missed \cup {call[w].on}
    /\ Fault /\ UNCHANGED <<settings, channels, status, log, wanted, stray, owed, double>>

NothingLeft(w) ==
    /\ At(w, "ready", "send")
    /\ call[w].arg = {}
    /\ Ends(w, "ready", "send")
    /\ NoFault /\ UNCHANGED noticevars

Logged(o, channel) == log' = [log EXCEPT ![o][channel] = @ + 1]

\* One channel, mail first: what the provider answered (or SKIPPED, for an SMS
\* without a price) becomes a log row.  A row that cannot be saved ends it all.
Announce(w) ==
    LET c == call[w]
        channel == IF "email" \in c.arg THEN "email" ELSE "sms"
    IN /\ At(w, "ready", "send")
       /\ c.arg # {}
       /\ \/ /\ Moves(w, "ready", "send", [c EXCEPT !.arg = @ \ {channel}])
             /\ Logged(c.on, channel)
             /\ NoFault /\ UNCHANGED missed
          \/ /\ Ends(w, "ready", "send")
             /\ missed' = missed \cup {c.on}
             /\ Fault /\ UNCHANGED log
       /\ UNCHANGED <<settings, channels, status, wanted, stray, owed, double>>

-----------------------------------------------------------------------------
\* What a restart does: nobody goes on with an announcement.
NoticeRestart ==
    /\ missed' = missed \cup {o \in CounterOrders : \E w \in InFlight({"ready"}) :
                                   call[w].on = o /\ call[w].at \notin {"order", "save"}}
    /\ UNCHANGED <<settings, channels, status, log, wanted, stray, owed, double>>

NoticeRequest(w) ==
    /\ \/ \E p \in SmsPrices \cup {None} : Begin(w, "price", "settings", None, p)
       \/ \E c \in SUBSET Channels : Begin(w, "prefs", IF "sms" \in c THEN "settings" ELSE "save", None, c)
       \/ \E o \in CounterOrders : Begin(w, "ready", "order", o, None)
    /\ UNCHANGED noticevars

\* The rest of an announcement, which no client waits for.
NoticeGoesOn(w) ==
    \/ ReadTenant(w) \/ FindSettings(w, "ready") \/ InsertSettings(w, "ready")
    \/ ReadFails(w) \/ NothingLeft(w) \/ Announce(w)

NoticeStep(w) ==
    \/ NoticeGoesOn(w) \/ FindOrder(w) \/ SaveReady(w)
    \/ \E kind \in {"price", "prefs"} : FindSettings(w, kind) \/ InsertSettings(w, kind)
    \/ PutPrice(w) \/ SavePrefs(w)

NoticeTypeOK ==
    /\ settings \in Seq(SmsPrices \cup {None})
    /\ channels \subseteq Channels
    /\ status \in [CounterOrders -> {"IN_PROGRESS", "READY"}]
    /\ log \in [CounterOrders -> [Channels -> Nat]]
    /\ wanted \in SmsPrices \cup {None} /\ stray \in BOOLEAN
    /\ missed \subseteq CounterOrders /\ double \subseteq CounterOrders

=============================================================================

------------------------- MODULE DeskOffice_proofs --------------------------
(***************************************************************************)
(* Two components with no table in common.  BackOffice: the calls of the   *)
(* back office harm one another only where the exceptions of its           *)
(* properties say so, for every set of workers, clients, orders and rows.  *)
(* OrderDesk keeps its promises for every set of orders, slots, operators, *)
(* sessions, prices and amounts; each invariant has a section there: the   *)
(* steps that preserve it, one per request, then the theorem.              *)
(***************************************************************************)
EXTENDS OrderDesk, BackOffice, TLAPS

-----------------------------------------------------------------------------
(* The back office: its inductive invariant.                               *)

\* What a call may be about, be given and have read, and where it may be.
Subjects == Queries \cup ClientIds \cup CounterOrders \cup Rows \cup {None}
Arguments == Names \cup SmsPrices \cup (SUBSET Channels) \cup Registers \cup Labels \cup BOOLEAN \cup {None}
Readings == Nat \cup (SUBSET (ClientIds \X Row)) \cup Codes \cup Row \cup Entry \cup BOOLEAN \cup {None}

Statements == {"idle", "cache", "query", "put", "code", "insert", "clear", "find", "save", "settings",
               "seed", "order", "prefs", "send", "write", "clash", "delete"}

Call == [kind : OfficeKinds \cup {None}, at : Statements, on : Subjects, arg : Arguments,
         saw : Readings, mixed : BOOLEAN]

CallsOK ==
    /\ call \in [Workers -> Call]
    /\ \A w \in Workers : call[w].at = "idle" => call[w] = Idle
    /\ calls \in 0 .. MaxCalls /\ faults \in 0 .. MaxFaults

\* A search that no write overtook has read the clients as they are; a client to be
\* inserted is not there yet, and no insertion came since its code was checked; the
\* client that is edited is there, under the code that was read.
BookCallOK(c) ==
    /\ c.kind = "search" =>
           /\ c.on \in Queries
           /\ c.at = "put" => /\ c.saw \subseteq ClientIds \X Row
                              /\ c.mixed \/ c.saw = Matches(c.on)
    /\ c.kind = "client" =>
           /\ c.on \in ClientIds /\ c.arg \in Names
           /\ c.at \in {"code", "insert"} => book[c.on] = None
           /\ c.at = "insert" => c.saw \in Codes /\ (c.mixed \/ Unused(c.saw))
    /\ c.kind = "edit" =>
           /\ c.on \in ClientIds /\ c.arg \in Names
           /\ c.at = "save" => c.saw \in Row /\ book[c.on] \in Row /\ book[c.on].code = c.saw.code

\* Two clients being created have different identifiers.
Apart ==
    \A v, w \in Workers :
        call[v].kind = "client" /\ call[w].kind = "client" /\ call[v].on = call[w].on => v = w

BookInv ==
    /\ BookTypeOK
    /\ DOMAIN cache = Queries /\ cache = [q \in Queries |-> cache[q]]
    /\ \A w \in Workers : BookCallOK(call[w])
    /\ Apart
    /\ StaleOnlyWhenOvertaken
    /\ SharedCodeOnlyByOverlap

NoticeCallOK(c) ==
    /\ c.kind = "price" => /\ c.arg \in SmsPrices \cup {None}
                           /\ c.at = "put" => c.saw \in 1 .. Len(settings)
    /\ c.kind = "prefs" => c.arg \subseteq Channels
    /\ c.kind = "ready" =>
           /\ c.on \in CounterOrders
           /\ c.at \in {"settings", "seed", "send"} => c.arg \subseteq Channels

\* Call c is about to save that o is ready, or announces it.
Saving(c, o) == c.kind = "ready" /\ c.on = o /\ c.at = "save"
Announcing(c, o) == c.kind = "ready" /\ c.on = o /\ c.at \in {"prefs", "settings", "seed", "send"}

\* An order that no two calls found IN_PROGRESS has one announcement, made after
\* it became READY, and no channel is told twice.
AnnouncedOnce(o) ==
    /\ \A c \in Channels : log[o][c] <= 1
    /\ status[o] = "IN_PROGRESS" =>
           /\ \A c \in Channels : log[o][c] = 0
           /\ \A w \in Workers : ~Announcing(call[w], o)
    /\ status[o] = "READY" => \A w \in Workers : ~Saving(call[w], o)
    /\ \A v, w \in Workers : Announcing(call[v], o) /\ Announcing(call[w], o) => v = w
    /\ \A w \in Workers : Announcing(call[w], o) =>
           \A c \in Channels : (call[w].at = "send" => c \in call[w].arg) => log[o][c] = 0

NoticeInv ==
    /\ NoticeTypeOK
    /\ \A w \in Workers : NoticeCallOK(call[w])
    /\ settings = <<>> => wanted = None /\ ~stray
    /\ ConfiguredPriceIsRead
    /\ \A o \in CounterOrders \ double : AnnouncedOnce(o)

RegCallOK(c) ==
    /\ c.kind = "seed" =>
           /\ c.arg \in Registers
           /\ c.at = "write" => /\ c.on \in Of(c.arg)
                                /\ c.saw \in Entry \cup {None}
                                /\ c.saw # None => c.saw.label = Default
                                /\ c.mixed \/ rows[c.on] = c.saw
    /\ c.kind = "add" => c.on \in Rows /\ c.arg \in Labels
    /\ c.kind = "relabel" => c.arg \in Labels
    /\ c.kind = "switch" => c.arg \in BOOLEAN
    /\ c.kind \in {"relabel", "switch"} =>
           /\ c.on \in Rows
           /\ c.at \in {"clash", "save"} =>
                  /\ c.saw \in Entry
                  /\ \/ c.mixed
                     \/ /\ rows[c.on] \in Entry
                        /\ c.saw = Changed(rows[c.on], c)
                        /\ rows[c.on].system => c.saw.label = rows[c.on].label
    /\ c.kind = "drop" =>
           /\ c.on \in Rows \ Of("expense")
           /\ c.at = "delete" => c.mixed \/ (rows[c.on] \in Entry /\ ~rows[c.on].system)
    /\ c.kind \in {"upsert", "unprice"} => c.on \in Rows
    /\ c.kind = "spend" =>
           /\ c.on \in Of("expense")
           /\ c.at = "insert" => rows[c.on] \in Entry /\ (c.mixed \/ rows[c.on].active)

RegInv ==
    /\ RegTypeOK
    /\ spent \subseteq Of("expense")
    /\ \A w \in Workers : RegCallOK(call[w])
    /\ ChangesKeepTheRest
    /\ DefaultStays
    /\ NoExpenseOnInactiveType

OfficeInv == CallsOK /\ BookInv /\ NoticeInv /\ RegInv

-----------------------------------------------------------------------------
(* Turns of the workers. *)

\* Worker w goes on with call c, and the calls of `others` learn of it.
Turn(w, c, others) ==
    /\ call' \in [Workers -> Call]
    /\ call'[w] = c
    /\ \A v \in Workers \ {w} :
          call'[v] = IF v \in others THEN [call[v] EXCEPT !.mixed = TRUE] ELSE call[v]

\* Only calls of these kinds have moved.
Within(kinds) ==
    \A v \in Workers :
        \/ call'[v] = call[v]
        \/ call[v].kind \in kinds \cup {None} /\ call'[v].kind \in kinds \cup {None}

\* The record of an idle worker.
LEMMA IdleCall ==
    /\ Idle \in Call
    /\ Idle.kind = None /\ Idle.at = "idle" /\ Idle.on = None /\ Idle.mixed = FALSE
<1>1. None \in Subjects /\ None \in Arguments /\ None \in Readings
  BY DEF Subjects, Arguments, Readings
<1>2. Idle.kind = None /\ Idle.at = "idle" /\ Idle.on = None /\ Idle.mixed = FALSE
  BY DEF Idle
<1>3. Idle \in Call
  BY <1>1 DEF Idle, Call, Statements
<1>4. QED
  BY <1>2, <1>3

\* Where a call may be.
LEMMA AtFacts ==
    /\ "query" \in Statements /\ "put" \in Statements /\ "insert" \in Statements
    /\ "clear" \in Statements /\ "save" \in Statements /\ "settings" \in Statements
    /\ "seed" \in Statements /\ "prefs" \in Statements /\ "send" \in Statements
    /\ "write" \in Statements /\ "clash" \in Statements /\ "delete" \in Statements
    /\ "cache" \in Statements /\ "code" \in Statements /\ "find" \in Statements
    /\ "order" \in Statements
BY DEF Statements

\* Learning of another call changes nothing else of a call.
LEMMA Marked ==
    \A c \in Call :
        LET d == [c EXCEPT !.mixed = TRUE]
        IN /\ d \in Call
           /\ d.kind = c.kind /\ d.at = c.at /\ d.on = c.on /\ d.arg = c.arg /\ d.saw = c.saw
           /\ d.mixed = TRUE
BY DEF Call

\* Moving to another statement.
LEMMA Gone ==
    \A c \in Call, at \in Statements :
        LET d == [c EXCEPT !.at = at]
        IN /\ d \in Call
           /\ d.kind = c.kind /\ d.at = at /\ d.on = c.on /\ d.arg = c.arg /\ d.saw = c.saw
           /\ d.mixed = c.mixed
BY DEF Call

\* A call that moves on alone.
LEMMA MovesTurn ==
    ASSUME CallsOK, NEW w \in Workers, NEW kind, NEW at, NEW c \in Call, Moves(w, kind, at, c)
    PROVE  /\ Turn(w, c, {})
           /\ call[w] \in Call /\ call[w].kind = kind /\ call[w].at = at
           /\ calls' = calls
<1>1. call' = [call EXCEPT ![w] = c] /\ call[w].kind = kind /\ call[w].at = at /\ calls' = calls
  BY DEF Moves, At
<1>2. call' \in [Workers -> Call] /\ call[w] \in Call
  BY <1>1 DEF CallsOK
<1>3. call'[w] = c /\ \A v \in Workers \ {w} : call'[v] = call[v]
  BY <1>1 DEF CallsOK
<1>4. QED
  BY <1>1, <1>2, <1>3 DEF Turn

\* A call that ends.
LEMMA EndsTurn ==
    ASSUME CallsOK, NEW w \in Workers, NEW kind, NEW at, Ends(w, kind, at)
    PROVE  /\ Turn(w, Idle, {})
           /\ call[w] \in Call /\ call[w].kind = kind /\ call[w].at = at
           /\ calls' = calls
BY MovesTurn, IdleCall DEF Ends

\* A call that moves on, and that other calls learn of.
LEMMA AmidTurn ==
    ASSUME CallsOK, NEW w \in Workers, NEW kind, NEW at, NEW c \in Call, NEW others,
           MovesAmid(w, kind, at, c, others)
    PROVE  /\ Turn(w, c, others)
           /\ call[w] \in Call /\ call[w].kind = kind /\ call[w].at = at
           /\ calls' = calls
<1>1. /\ call' = [v \in Workers |-> IF v = w THEN c
                                  ELSE IF v \in others THEN [call[v] EXCEPT !.mixed = TRUE]
                                  ELSE call[v]]
      /\ call[w].kind = kind /\ call[w].at = at /\ calls' = calls
  BY DEF MovesAmid, At
<1>2. \A v \in Workers : call[v] \in Call
  BY DEF CallsOK
<1>3. \A v \in Workers : [call[v] EXCEPT !.mixed = TRUE] \in Call
  BY <1>2, Marked
<1>4. call' \in [Workers -> Call]
  BY <1>1, <1>2, <1>3, Zenon
<1>5. /\ call'[w] = c
      /\ \A v \in Workers \ {w} :
            call'[v] = IF v \in others THEN [call[v] EXCEPT !.mixed = TRUE] ELSE call[v]
  BY <1>1
<1>6. QED
  BY <1>1, <1>2, <1>4, <1>5 DEF Turn

\* A new call.
NewCall(kind, at, on, arg) == [Idle EXCEPT !.kind = kind, !.at = at, !.on = on, !.arg = arg]

LEMMA NewCallFacts ==
    \A kind \in OfficeKinds, at \in Statements, on \in Subjects, arg \in Arguments :
        LET c == NewCall(kind, at, on, arg)
        IN /\ c \in Call
           /\ c.kind = kind /\ c.at = at /\ c.on = on /\ c.arg = arg /\ c.mixed = FALSE
<1> SUFFICES ASSUME NEW kind \in OfficeKinds, NEW at \in Statements,
                    NEW on \in Subjects, NEW arg \in Arguments
             PROVE  LET c == [Idle EXCEPT !.kind = kind, !.at = at, !.on = on, !.arg = arg]
                    IN /\ c \in Call
                       /\ c.kind = kind /\ c.at = at /\ c.on = on /\ c.arg = arg
                       /\ c.mixed = FALSE
  BY DEF NewCall
<1> QED
  BY IdleCall DEF Call

LEMMA BeginTurn ==
    ASSUME CallsOK, NEW w \in Workers, NEW kind, NEW at, NEW on, NEW arg, NEW c \in Call,
           c = NewCall(kind, at, on, arg), Begin(w, kind, at, on, arg)
    PROVE  /\ Turn(w, c, {})
           /\ call[w] = Idle
           /\ calls' \in 0 .. MaxCalls /\ faults' = faults
<1>1. /\ call' = [call EXCEPT ![w] = c]
      /\ calls' = calls + 1 /\ calls < MaxCalls /\ call[w] = Idle /\ faults' = faults
  BY DEF Begin, NewCall
<1>2. call' \in [Workers -> Call]
  BY <1>1 DEF CallsOK
<1>3. call'[w] = c /\ \A v \in Workers \ {w} : call'[v] = call[v]
  BY <1>1 DEF CallsOK
<1>4. Turn(w, c, {})
  BY <1>2, <1>3 DEF Turn
<1>5. calls' \in 0 .. MaxCalls
  BY <1>1, CallsAssumption DEF CallsOK
<1>6. QED
  BY <1>1, <1>4, <1>5

\* What a turn leaves of the calls.
LEMMA TurnFacts ==
    ASSUME CallsOK, NEW w \in Workers, NEW c \in Call, NEW others, Turn(w, c, others)
    PROVE  \A v \in Workers \ {w} :
              /\ call[v] \in Call /\ call'[v] \in Call
              /\ call'[v].kind = call[v].kind /\ call'[v].at = call[v].at
              /\ call'[v].on = call[v].on /\ call'[v].arg = call[v].arg
              /\ call'[v].saw = call[v].saw
              /\ v \in others => call'[v].mixed = TRUE
              /\ v \notin others => call'[v] = call[v]
<1>1. SUFFICES ASSUME NEW v \in Workers \ {w}
               PROVE  /\ call[v] \in Call /\ call'[v] \in Call
                      /\ call'[v].kind = call[v].kind /\ call'[v].at = call[v].at
                      /\ call'[v].on = call[v].on /\ call'[v].arg = call[v].arg
                      /\ call'[v].saw = call[v].saw
                      /\ v \in others => call'[v].mixed = TRUE
                      /\ v \notin others => call'[v] = call[v]
  OBVIOUS
<1>2. call[v] \in Call
  BY DEF CallsOK
<1>3. CASE v \in others
  <2>1. call'[v] = [call[v] EXCEPT !.mixed = TRUE]
    BY <1>3 DEF Turn
  <2>2. QED
    BY <1>2, <1>3, <2>1, Marked
<1>4. CASE v \notin others
  BY <1>2, <1>4 DEF Turn
<1>5. QED
  BY <1>3, <1>4

\* A turn of a call of these kinds, known to calls of these kinds, is well formed
\* and concerns no others.
LEMMA TurnOK ==
    ASSUME CallsOK, NEW w \in Workers, NEW c \in Call, NEW others, NEW kinds \in SUBSET OfficeKinds,
           Turn(w, c, others),
           call[w].kind \in kinds \cup {None}, c.kind \in kinds \cup {None},
           c.at = "idle" => c = Idle,
           others \subseteq {v \in Workers : call[v].kind \in kinds},
           calls' \in 0 .. MaxCalls, faults' \in 0 .. MaxFaults
    PROVE  CallsOK' /\ Within(kinds)
<1>1. \A v \in Workers \ {w} :
         /\ call'[v].kind = call[v].kind /\ call'[v].at = call[v].at
         /\ v \notin others => call'[v] = call[v]
  BY TurnFacts, ZenonT(60)
<1>2. call' \in [Workers -> Call] /\ call'[w] = c
  BY DEF Turn
<1>3. ASSUME NEW v \in Workers, call'[v].at = "idle"
      PROVE  call'[v] = Idle
  <2>1. CASE v = w
    BY <1>2, <1>3, <2>1
  <2>2. CASE v # w
    <3>1. call[v].at = "idle"
      BY <1>1, <1>3, <2>2
    <3>2. call[v].kind = None
      BY <3>1, IdleCall DEF CallsOK
    <3>3. v \notin others
      BY <3>2, KindAssumption
    <3>4. QED
      BY <1>1, <2>2, <3>1, <3>3 DEF CallsOK
  <2>3. QED
    BY <2>1, <2>2
<1>4. Within(kinds)
  <2> SUFFICES ASSUME NEW v \in Workers
               PROVE  \/ call'[v] = call[v]
                      \/ call[v].kind \in kinds \cup {None} /\ call'[v].kind \in kinds \cup {None}
    BY DEF Within
  <2>1. CASE v = w
    BY <1>2, <2>1
  <2>2. CASE v # w /\ v \notin others
    BY <1>1, <2>2
  <2>3. CASE v # w /\ v \in others
    BY <1>1, <2>3
  <2>4. QED
    BY <2>1, <2>2, <2>3
<1>5. QED
  BY <1>2, <1>3, <1>4 DEF CallsOK

\* Which kinds there are.
LEMMA KindFacts ==
    /\ BookKinds \in SUBSET OfficeKinds /\ NoticeKinds \in SUBSET OfficeKinds
    /\ RegKinds \in SUBSET OfficeKinds
    /\ "search" \in BookKinds /\ "client" \in BookKinds /\ "edit" \in BookKinds
    /\ "price" \in NoticeKinds /\ "prefs" \in NoticeKinds /\ "ready" \in NoticeKinds
    /\ \A k \in BookKinds : k \notin NoticeKinds \cup RegKinds
    /\ \A k \in NoticeKinds : k \notin RegKinds
    /\ \A k \in OfficeKinds : k # None
BY KindAssumption DEF OfficeKinds, BookKinds, NoticeKinds, RegKinds

\* Faults stay within their bound.
LEMMA FaultsBounded ==
    ASSUME CallsOK, NoFault \/ Fault
    PROVE  faults' \in 0 .. MaxFaults
BY CallsAssumption DEF CallsOK, NoFault, Fault

\* A call of a component that moves on keeps the calls well formed and concerns
\* that component only; the same for one that ends, and for one others learn of.
LEMMA MovesOK ==
    ASSUME CallsOK, NEW kinds \in SUBSET OfficeKinds, NEW kind \in kinds, NEW at,
           NEW w \in Workers, NEW c \in Call, Moves(w, kind, at, c), c.kind = kind,
           c.at # "idle", NoFault \/ Fault
    PROVE  /\ CallsOK' /\ Within(kinds) /\ Turn(w, c, {})
           /\ call[w] \in Call /\ call[w].kind = kind /\ call[w].at = at
<1>1. faults' \in 0 .. MaxFaults
  BY FaultsBounded
<1>2. /\ Turn(w, c, {}) /\ call[w] \in Call /\ call[w].kind = kind /\ call[w].at = at
      /\ calls' \in 0 .. MaxCalls
  BY MovesTurn DEF CallsOK
<1>3. QED
  BY <1>1, <1>2, TurnOK

LEMMA EndsOK ==
    ASSUME CallsOK, NEW kinds \in SUBSET OfficeKinds, NEW kind \in kinds, NEW at,
           NEW w \in Workers, Ends(w, kind, at), NoFault \/ Fault
    PROVE  /\ CallsOK' /\ Within(kinds) /\ Turn(w, Idle, {})
           /\ call[w] \in Call /\ call[w].kind = kind /\ call[w].at = at
<1>1. faults' \in 0 .. MaxFaults
  BY FaultsBounded
<1>2. /\ Turn(w, Idle, {}) /\ call[w] \in Call /\ call[w].kind = kind /\ call[w].at = at
      /\ calls' \in 0 .. MaxCalls
  BY EndsTurn DEF CallsOK
<1>3. QED
  BY <1>1, <1>2, IdleCall, TurnOK

LEMMA AmidOK ==
    ASSUME CallsOK, NEW kinds \in SUBSET OfficeKinds, NEW kind \in kinds, NEW at,
           NEW w \in Workers, NEW c \in Call, NEW others,
           MovesAmid(w, kind, at, c, others), c.kind \in {kind, None},
           c.at = "idle" => c = Idle,
           others \subseteq {v \in Workers : call[v].kind \in kinds}, NoFault \/ Fault
    PROVE  /\ CallsOK' /\ Within(kinds) /\ Turn(w, c, others)
           /\ call[w] \in Call /\ call[w].kind = kind /\ call[w].at = at
<1>1. faults' \in 0 .. MaxFaults
  BY FaultsBounded
<1>2. /\ Turn(w, c, others) /\ call[w] \in Call /\ call[w].kind = kind /\ call[w].at = at
      /\ calls' \in 0 .. MaxCalls
  BY AmidTurn DEF CallsOK
<1>3. QED
  BY <1>1, <1>2, TurnOK

\* A new call of a component.
LEMMA BeginOK ==
    ASSUME CallsOK, NEW kinds \in SUBSET OfficeKinds, NEW kind \in kinds,
           NEW at, NEW w \in Workers, NEW on, NEW arg, NEW c \in Call,
           c = NewCall(kind, at, on, arg), c.kind = kind, c.at # "idle",
           Begin(w, kind, at, on, arg)
    PROVE  CallsOK' /\ Within(kinds) /\ call[w] = Idle /\ Turn(w, c, {})
<1>1. /\ Turn(w, c, {})
      /\ call[w] = Idle
      /\ calls' \in 0 .. MaxCalls /\ faults' = faults
  BY BeginTurn
<1>2. faults' \in 0 .. MaxFaults
  BY <1>1 DEF CallsOK
<1>3. QED
  BY <1>1, <1>2, IdleCall, TurnOK

-----------------------------------------------------------------------------
(* The client book. *)

\* An idle worker owes the book nothing.
LEMMA BookIdle == BookCallOK(Idle)
<1>1. None \notin BookKinds
  BY KindAssumption DEF OfficeKinds
<1>2. QED
  BY <1>1, IdleCall DEF BookCallOK, BookKinds

\* Calls that read what they need, or end, disturb nothing.
LEMMA BookQuiet ==
    ASSUME CallsOK, BookInv, NEW w \in Workers, NEW c \in Call, Turn(w, c, {}),
           UNCHANGED bookvars, BookCallOK(c), call[w].at # "clear",
           c.kind = "client" => call[w].kind = "client" /\ call[w].on = c.on
    PROVE  BookInv'
<1>1. \A v \in Workers : call'[v] = IF v = w THEN c ELSE call[v]
  BY TurnFacts DEF Turn
<1>2. UNCHANGED <<book, cache, late, twins>>
  BY DEF bookvars
<1>3. \A v \in Workers : BookCallOK(call[v])'
  <2> SUFFICES ASSUME NEW v \in Workers
               PROVE  BookCallOK(call[v])'
    OBVIOUS
  <2>1. BookCallOK(IF v = w THEN c ELSE call[v])
    BY DEF BookInv
  <2>2. QED
    BY <1>1, <1>2, <2>1 DEF BookCallOK, Matches, Unused, Known
<1>4. Apart'
  BY <1>1 DEF BookInv, Apart
<1>5. StaleOnlyWhenOvertaken'
  <2>1. Clearing \subseteq Clearing'
    BY <1>1 DEF Clearing, InFlight
  <2>2. QED
    BY <1>2, <2>1 DEF BookInv, StaleOnlyWhenOvertaken, Matches, Known
<1>6. SharedCodeOnlyByOverlap' /\ BookTypeOK'
  BY <1>2 DEF BookInv, SharedCodeOnlyByOverlap, BookTypeOK, Known
<1>7. QED
  BY <1>2, <1>3, <1>4, <1>5, <1>6 DEF BookInv

LEMMA BookMovesOn ==
    ASSUME CallsOK, BookInv, NEW w \in Workers, NEW c \in Call,
           NEW kind \in BookKinds, NEW at, at # "clear", Moves(w, kind, at, c),
           c.kind = kind, c.at # "idle", c.on = call[w].on, BookCallOK(c),
           NoFault, UNCHANGED bookvars
    PROVE  CallsOK' /\ Within(BookKinds) /\ BookInv'
<1>1. /\ CallsOK' /\ Within(BookKinds) /\ Turn(w, c, {})
      /\ call[w].at = at /\ call[w].kind = kind
  BY MovesOK, KindFacts
<1>2. BookInv'
  BY <1>1, BookQuiet
<1>3. QED
  BY <1>1, <1>2

LEMMA BookEnds ==
    ASSUME CallsOK, BookInv, NEW w \in Workers,
           NEW kind \in BookKinds, NEW at, at # "clear", Ends(w, kind, at),
           NoFault, UNCHANGED bookvars
    PROVE  CallsOK' /\ Within(BookKinds) /\ BookInv'
<1>1. /\ CallsOK' /\ Within(BookKinds) /\ Turn(w, Idle, {})
      /\ call[w].at = at
  BY EndsOK, KindFacts
<1>2. BookInv'
  BY <1>1, IdleCall, BookIdle, BookQuiet, KindFacts
<1>3. QED
  BY <1>1, <1>2

\* search finds its entry, or goes on to the table.
LEMMA LookUpStep ==
    ASSUME CallsOK, BookInv, NEW w \in Workers, LookUp(w)
    PROVE  CallsOK' /\ Within(BookKinds) /\ BookInv'
<1>1. NoFault /\ UNCHANGED bookvars
  BY DEF LookUp
<1>2. CASE Ends(w, "search", "cache")
  BY <1>1, <1>2, BookEnds, KindFacts
<1>3. CASE Goes(w, "search", "cache", "query")
  <2>1. PICK d : d = call[w]
    OBVIOUS
  <2>2. PICK c : c = [d EXCEPT !.at = "query"]
    OBVIOUS
  <2>3. d \in Call /\ BookCallOK(d)
    BY <2>1 DEF CallsOK, BookInv
  <2>4. Moves(w, "search", "cache", c) /\ d.kind = "search"
    BY <1>3, <2>1, <2>2 DEF Goes, Moves, At
  <2>5. c \in Call /\ c.kind = "search" /\ c.at = "query" /\ c.on = d.on
    BY <2>2, <2>3, <2>4, Gone, AtFacts
  <2>6. BookCallOK(c)
    BY <2>3, <2>4, <2>5 DEF BookCallOK
  <2>7. c.on = call[w].on /\ c.at # "idle"
    BY <2>1, <2>5
  <2>8. QED
    BY <1>1, <2>4, <2>5, <2>6, <2>7, BookMovesOn, KindFacts
<1>4. QED
  BY <1>2, <1>3 DEF LookUp

\* What the table has for a name.
LEMMA MatchesType ==
    ASSUME BookInv
    PROVE  \A q : Matches(q) \in SUBSET (ClientIds \X Row)
<1>1. \A i \in Known : i \in ClientIds /\ book[i] \in Row
  BY DEF BookInv, BookTypeOK, Known
<1>2. QED
  BY <1>1 DEF Matches

\* search reads the table.
LEMMA QueryStep ==
    ASSUME CallsOK, BookInv, NEW w \in Workers, Query(w)
    PROVE  CallsOK' /\ Within(BookKinds) /\ BookInv'
<1>1. PICK d : d = call[w]
  OBVIOUS
<1>2. PICK hits : hits = Matches(d.on)
  OBVIOUS
<1>3. PICK c : c = [d EXCEPT !.at = "put", !.saw = hits]
  OBVIOUS
<1>4. d \in Call /\ BookCallOK(d)
  BY <1>1 DEF CallsOK, BookInv
<1>5. hits \in SUBSET (ClientIds \X Row) /\ hits \in Readings
  BY <1>2, MatchesType DEF Readings
<1>6. /\ Moves(w, "search", "query", c) /\ d.kind = "search" /\ d.at = "query"
      /\ NoFault /\ UNCHANGED bookvars
  BY <1>1, <1>2, <1>3 DEF Query, Moves, At
<1>7. c \in Call /\ c.kind = "search" /\ c.at = "put" /\ c.on = d.on /\ c.saw = hits
  BY <1>3, <1>4, <1>5, <1>6, AtFacts DEF Call
<1>8. BookCallOK(c)
  BY <1>2, <1>4, <1>5, <1>6, <1>7 DEF BookCallOK
<1>9. c.on = call[w].on /\ c.at # "idle"
  BY <1>1, <1>7
<1>10. QED
  BY <1>6, <1>7, <1>8, <1>9, BookMovesOn, KindFacts

\* search fills the cache with what it has read, if no write came since it is the
\* table's answer.
LEMMA PutCacheStep ==
    ASSUME CallsOK, BookInv, NEW w \in Workers, PutCache(w)
    PROVE  CallsOK' /\ Within(BookKinds) /\ BookInv'
<1>1. PICK d : d = call[w]
  OBVIOUS
<1>2. d \in Call /\ BookCallOK(d)
  BY <1>1 DEF CallsOK, BookInv
<1>3. /\ Ends(w, "search", "put") /\ NoFault
      /\ cache' = [cache EXCEPT ![d.on] = d.saw]
      /\ late' = IF d.mixed THEN late \cup {d.on} ELSE late \ {d.on}
      /\ book' = book /\ twins' = twins
  BY <1>1 DEF PutCache
<1>4. /\ CallsOK' /\ Within(BookKinds) /\ Turn(w, Idle, {})
      /\ d.kind = "search" /\ d.at = "put"
  BY <1>1, <1>3, EndsOK, KindFacts
<1>5. /\ d.on \in Queries /\ d.saw \subseteq ClientIds \X Row
      /\ d.mixed \/ d.saw = Matches(d.on)
  BY <1>2, <1>4 DEF BookCallOK
<1>6. \A v \in Workers : call'[v] = IF v = w THEN Idle ELSE call[v]
  BY <1>4, IdleCall, TurnFacts DEF Turn
<1>7. \A v \in Workers : BookCallOK(call[v])'
  <2> SUFFICES ASSUME NEW v \in Workers
               PROVE  BookCallOK(call[v])'
    OBVIOUS
  <2>1. BookCallOK(IF v = w THEN Idle ELSE call[v])
    BY BookIdle DEF BookInv
  <2>2. QED
    BY <1>3, <1>6, <2>1 DEF BookCallOK, Matches, Unused, Known
<1>8. Apart'
  BY <1>6, IdleCall, KindFacts DEF BookInv, Apart
<1>9. BookTypeOK' /\ DOMAIN cache' = Queries /\ (cache = [q \in Queries |-> cache[q]])'
  BY <1>3, <1>5 DEF BookInv, BookTypeOK
<1>10. StaleOnlyWhenOvertaken'
  <2>1. Clearing \subseteq Clearing'
    BY <1>1, <1>4, <1>6 DEF Clearing, InFlight
  <2>2. \A q : Matches(q)' = Matches(q)
    BY <1>3 DEF Matches, Known
  <2>3. ASSUME Clearing' = {}, NEW q \in Queries \ late', cache'[q] # None
        PROVE  cache'[q] = Matches(q)
    <3>1. CASE q = d.on
      BY <1>3, <1>5, <2>3, <3>1 DEF BookInv
    <3>2. CASE q # d.on
      BY <1>3, <2>1, <2>3, <3>2 DEF BookInv, StaleOnlyWhenOvertaken
    <3>3. QED
      BY <3>1, <3>2
  <2>4. QED
    BY <2>2, <2>3 DEF StaleOnlyWhenOvertaken
<1>11. SharedCodeOnlyByOverlap'
  BY <1>3 DEF BookInv, SharedCodeOnlyByOverlap, Known
<1>12. QED
  BY <1>4, <1>7, <1>8, <1>9, <1>10, <1>11 DEF BookInv

\* create finds an unused code, or gives up.
LEMMA GenerateCodeStep ==
    ASSUME CallsOK, BookInv, NEW w \in Workers, GenerateCode(w)
    PROVE  CallsOK' /\ Within(BookKinds) /\ BookInv'
<1>1. NoFault /\ UNCHANGED bookvars
  BY DEF GenerateCode
<1>2. CASE Ends(w, "client", "code")
  BY <1>1, <1>2, BookEnds, KindFacts
<1>3. ASSUME NEW code \in Codes, Unused(code),
             Moves(w, "client", "code", [call[w] EXCEPT !.at = "insert", !.saw = code])
      PROVE  CallsOK' /\ Within(BookKinds) /\ BookInv'
  <2>1. PICK d : d = call[w]
    OBVIOUS
  <2>2. PICK c : c = [d EXCEPT !.at = "insert", !.saw = code]
    OBVIOUS
  <2>3. d \in Call /\ BookCallOK(d) /\ code \in Readings
    BY <2>1 DEF CallsOK, BookInv, Readings
  <2>4. Moves(w, "client", "code", c) /\ d.kind = "client" /\ d.at = "code"
    BY <1>3, <2>1, <2>2 DEF Moves, At
  <2>5. /\ c \in Call /\ c.kind = "client" /\ c.at = "insert" /\ c.on = d.on
        /\ c.arg = d.arg /\ c.saw = code
    BY <2>2, <2>3, <2>4, AtFacts DEF Call
  <2>6. BookCallOK(c)
    BY <1>3, <2>3, <2>4, <2>5 DEF BookCallOK
  <2>7. c.on = call[w].on /\ c.at # "idle"
    BY <2>1, <2>5
  <2>8. QED
    BY <1>1, <2>4, <2>5, <2>6, <2>7, BookMovesOn, KindFacts
<1>4. QED
  BY <1>2, <1>3 DEF GenerateCode

\* update loads the client.
LEMMA FindClientStep ==
    ASSUME CallsOK, BookInv, NEW w \in Workers, FindClient(w)
    PROVE  CallsOK' /\ Within(BookKinds) /\ BookInv'
<1>1. NoFault /\ UNCHANGED bookvars
  BY DEF FindClient
<1>2. PICK d : d = call[w]
  OBVIOUS
<1>3. PICK row : row = book[d.on]
  OBVIOUS
<1>4. d \in Call /\ BookCallOK(d)
  BY <1>2 DEF CallsOK, BookInv
<1>5. CASE row = None
  <2>1. Ends(w, "edit", "find")
    BY <1>2, <1>3, <1>5 DEF FindClient
  <2>2. QED
    BY <1>1, <2>1, BookEnds, KindFacts
<1>6. CASE row # None
  <2>1. PICK c : c = [d EXCEPT !.at = "save", !.saw = row]
    OBVIOUS
  <2>2. Moves(w, "edit", "find", c) /\ d.kind = "edit" /\ d.at = "find"
    BY <1>2, <1>3, <1>6, <2>1 DEF FindClient, Moves, At
  <2>3. d.on \in ClientIds /\ d.arg \in Names
    BY <1>4, <2>2 DEF BookCallOK
  <2>4. row \in Row /\ row \in Readings
    BY <1>3, <1>6, <2>3 DEF BookInv, BookTypeOK, Readings
  <2>5. /\ c \in Call /\ c.kind = "edit" /\ c.at = "save" /\ c.on = d.on
        /\ c.arg = d.arg /\ c.saw = row
    BY <1>4, <2>1, <2>2, <2>4, AtFacts DEF Call
  <2>6. BookCallOK(c)
    BY <1>3, <2>3, <2>4, <2>5 DEF BookCallOK
  <2>7. c.on = call[w].on /\ c.at # "idle"
    BY <1>2, <2>5
  <2>8. QED
    BY <1>1, <2>2, <2>5, <2>6, <2>7, BookMovesOn, KindFacts
<1>7. QED
  BY <1>5, <1>6


\* A write marks the searches that have read the table, and will clear the cache.
LEMMA WriteKeepsSearches ==
    ASSUME CallsOK, BookInv, NEW w \in Workers, NEW c \in Call, NEW others,
           Turn(w, c, others), Searches("put") \subseteq others,
           c.kind \in {"client", "edit"}, c.at = "clear",
           c.kind = call[w].kind, c.on = call[w].on,
           cache' = cache, late' = late
    PROVE  /\ \A v \in Workers \ {w} : call[v].kind = "search" => BookCallOK(call[v])'
           /\ Apart' /\ StaleOnlyWhenOvertaken'
<1>1. call'[w] = c
  BY DEF Turn
<1>2. \A v \in Workers \ {w} :
         /\ call'[v].kind = call[v].kind /\ call'[v].at = call[v].at
         /\ call'[v].on = call[v].on /\ call'[v].saw = call[v].saw
         /\ v \in others => call'[v].mixed = TRUE
  BY TurnFacts, ZenonT(60)
<1>3. ASSUME NEW v \in Workers \ {w}, call[v].kind = "search"
      PROVE  BookCallOK(call[v])'
  <2>1. call[v].on \in Queries /\ (call[v].at = "put" => call[v].saw \subseteq ClientIds \X Row)
    BY <1>3 DEF BookInv, BookCallOK
  <2>2. call[v].at = "put" => v \in others
    BY <1>3 DEF Searches, InFlight
  <2>3. /\ call'[v].kind = "search" /\ call'[v].on \in Queries
        /\ call'[v].at = "put" => call'[v].saw \subseteq ClientIds \X Row /\ call'[v].mixed = TRUE
    BY <1>2, <1>3, <2>1, <2>2
  <2>4. QED
    BY <2>3 DEF BookCallOK
<1>4. Apart'
  BY <1>1, <1>2 DEF BookInv, Apart
<1>5. w \in Clearing'
  BY <1>1 DEF Clearing, InFlight
<1>6. StaleOnlyWhenOvertaken'
  BY <1>5 DEF StaleOnlyWhenOvertaken
<1>7. QED
  BY <1>3, <1>4, <1>6

\* create inserts the client: the calls whose code was checked before learn of it.
LEMMA InsertClientStep ==
    ASSUME CallsOK, BookInv, NEW w \in Workers, InsertClient(w)
    PROVE  CallsOK' /\ Within(BookKinds) /\ BookInv'
<1>1. PICK d : d = call[w]
  OBVIOUS
<1>2. PICK c : c = [d EXCEPT !.at = "clear"]
  OBVIOUS
<1>3. PICK row : row = [name |-> d.arg, code |-> d.saw]
  OBVIOUS
<1> DEFINE others == Rivals(w) \cup Searches("put")
<1>4. /\ MovesAmid(w, "client", "insert", c, others) /\ NoFault
      /\ book' = [book EXCEPT ![d.on] = row]
      /\ twins' = IF d.mixed THEN twins \cup {d.on} ELSE twins
      /\ cache' = cache /\ late' = late
  BY <1>1, <1>2, <1>3 DEF InsertClient
<1>5. d \in Call /\ BookCallOK(d) /\ d.kind = "client" /\ d.at = "insert"
  BY <1>1, <1>4 DEF CallsOK, BookInv, MovesAmid, At
<1>6. /\ d.on \in ClientIds /\ d.arg \in Names /\ book[d.on] = None
      /\ d.saw \in Codes /\ (d.mixed \/ Unused(d.saw))
  BY <1>5 DEF BookCallOK
<1>7. row \in Row /\ row # None /\ row.code = d.saw
  BY <1>3, <1>6, BookAssumption DEF Row
<1>8. c \in Call /\ c.kind = "client" /\ c.at = "clear" /\ c.on = d.on /\ c.arg = d.arg
  BY <1>2, <1>5, Gone, AtFacts
<1>9. others \subseteq {v \in Workers : call[v].kind \in BookKinds}
  BY DEF Rivals, Searches, InFlight, BookKinds
<1>10. Searches("put") \subseteq others
  OBVIOUS
<1>11. \A v \in Workers \ {w} : call[v].kind = "client" /\ call[v].at = "insert" => v \in others
  BY DEF Rivals, InFlight
<1> HIDE DEF others
<1>12. CallsOK' /\ Within(BookKinds) /\ Turn(w, c, others)
  BY <1>4, <1>8, <1>9, AmidOK, KindFacts
<1>13. \A v \in Workers \ {w} :
         /\ call'[v].kind = call[v].kind /\ call'[v].at = call[v].at
         /\ call'[v].on = call[v].on /\ call'[v].arg = call[v].arg /\ call'[v].saw = call[v].saw
         /\ v \in others => call'[v].mixed = TRUE
  BY <1>8, <1>12, TurnFacts, ZenonT(60)
<1>14. book \in [ClientIds -> Row \cup {None}] /\ twins \subseteq ClientIds
  BY DEF BookInv, BookTypeOK
<1>15. book' \in [ClientIds -> Row \cup {None}] /\ twins' \subseteq ClientIds
  BY <1>4, <1>6, <1>7, <1>14
<1>16. book'[d.on] = row /\ \A i \in ClientIds \ {d.on} : book'[i] = book[i]
  BY <1>4, <1>6, <1>14
<1>17. /\ \A v \in Workers \ {w} : call[v].kind = "search" => BookCallOK(call[v])'
       /\ Apart' /\ StaleOnlyWhenOvertaken'
  BY <1>1, <1>4, <1>5, <1>8, <1>10, <1>12, WriteKeepsSearches
<1>18. \A v \in Workers : BookCallOK(call[v])'
  <2> SUFFICES ASSUME NEW v \in Workers
               PROVE  BookCallOK(call[v])'
    OBVIOUS
  <2>1. CASE v = w
    <3>1. call'[v] = c
      BY <1>12, <2>1 DEF Turn
    <3>2. QED
      BY <1>6, <1>8, <3>1 DEF BookCallOK
  <2>2. CASE v # w /\ call[v].kind = "client"
    <3>1. /\ call[v].on \in ClientIds /\ call[v].arg \in Names
          /\ call[v].at \in {"code", "insert"} => book[call[v].on] = None
          /\ call[v].at = "insert" => call[v].saw \in Codes
      BY <2>2 DEF BookInv, BookCallOK
    <3>2. call[v].on # d.on
      BY <1>1, <1>5, <2>2 DEF BookInv, Apart
    <3>3. QED
      BY <1>11, <1>13, <1>16, <2>2, <3>1, <3>2 DEF BookCallOK
  <2>3. CASE v # w /\ call[v].kind = "edit"
    <3>1. /\ call[v].on \in ClientIds /\ call[v].arg \in Names
          /\ call[v].at = "save" => /\ call[v].saw \in Row /\ book[call[v].on] \in Row
                                    /\ book[call[v].on].code = call[v].saw.code
      BY <2>3 DEF BookInv, BookCallOK
    <3>2. call[v].at = "save" => call[v].on # d.on
      BY <1>6, <3>1, BookAssumption
    <3>3. QED
      BY <1>13, <1>16, <2>3, <3>1, <3>2 DEF BookCallOK
  <2>4. CASE v # w /\ call[v].kind = "search"
    BY <1>17, <2>4
  <2>5. CASE v # w /\ call[v].kind \notin BookKinds
    BY <1>13, <2>5 DEF BookCallOK, BookKinds
  <2>6. QED
    BY <2>1, <2>2, <2>3, <2>4, <2>5 DEF BookKinds
<1>19. SharedCodeOnlyByOverlap'
  <2>1. Known' = Known \cup {d.on}
    BY <1>6, <1>7, <1>14, <1>16 DEF Known
  <2>2. d.on \notin Known
    BY <1>6 DEF Known
  <2>3. \A i \in Known : book'[i] = book[i]
    BY <1>16, <2>2 DEF Known
  <2>4. d.on \in twins' \/ \A i \in Known : book[i].code # d.saw
    BY <1>4, <1>6 DEF Unused
  <2>5. twins \subseteq twins'
    BY <1>4
  <2>6. QED
    BY <1>7, <1>16, <2>1, <2>2, <2>3, <2>4, <2>5 DEF BookInv, SharedCodeOnlyByOverlap
<1>20. BookTypeOK' /\ (DOMAIN cache = Queries /\ cache = [q \in Queries |-> cache[q]])'
  BY <1>4, <1>15 DEF BookInv, BookTypeOK
<1>21. QED
  BY <1>12, <1>17, <1>18, <1>19, <1>20 DEF BookInv

\* update saves the row it has read, under the code it had.
LEMMA SaveClientStep ==
    ASSUME CallsOK, BookInv, NEW w \in Workers, SaveClient(w)
    PROVE  CallsOK' /\ Within(BookKinds) /\ BookInv'
<1>1. PICK d : d = call[w]
  OBVIOUS
<1>2. PICK c : c = [d EXCEPT !.at = "clear"]
  OBVIOUS
<1>3. PICK row : row = [d.saw EXCEPT !.name = d.arg]
  OBVIOUS
<1> DEFINE others == Searches("put")
<1>4. /\ MovesAmid(w, "edit", "save", c, others) /\ NoFault
      /\ book' = [book EXCEPT ![d.on] = row]
      /\ twins' = twins /\ cache' = cache /\ late' = late
  BY <1>1, <1>2, <1>3 DEF SaveClient
<1>5. d \in Call /\ BookCallOK(d) /\ d.kind = "edit" /\ d.at = "save"
  BY <1>1, <1>4 DEF CallsOK, BookInv, MovesAmid, At
<1>6. /\ d.on \in ClientIds /\ d.arg \in Names /\ d.saw \in Row
      /\ book[d.on] \in Row /\ book[d.on].code = d.saw.code
  BY <1>5 DEF BookCallOK
<1>7. row \in Row /\ row # None /\ row.code = book[d.on].code
  BY <1>3, <1>6, BookAssumption DEF Row
<1>8. c \in Call /\ c.kind = "edit" /\ c.at = "clear" /\ c.on = d.on /\ c.arg = d.arg
  BY <1>2, <1>5, Gone, AtFacts
<1>9. others \subseteq {v \in Workers : call[v].kind \in BookKinds}
  BY DEF Searches, InFlight, BookKinds
<1>10. Searches("put") \subseteq others
  OBVIOUS
<1> HIDE DEF others
<1>11. CallsOK' /\ Within(BookKinds) /\ Turn(w, c, others)
  BY <1>4, <1>8, <1>9, AmidOK, KindFacts
<1>12. \A v \in Workers \ {w} :
         /\ call'[v].kind = call[v].kind /\ call'[v].at = call[v].at
         /\ call'[v].on = call[v].on /\ call'[v].arg = call[v].arg /\ call'[v].saw = call[v].saw
         /\ v \in others \/ call'[v].mixed = call[v].mixed
  BY <1>8, <1>11, TurnFacts, ZenonT(60)
<1>13. book \in [ClientIds -> Row \cup {None}]
  BY DEF BookInv, BookTypeOK
<1>14. book' \in [ClientIds -> Row \cup {None}]
  BY <1>4, <1>6, <1>7, <1>13
<1>15. book'[d.on] = row /\ \A i \in ClientIds \ {d.on} : book'[i] = book[i]
  BY <1>4, <1>6, <1>13
<1>16. Known' = Known /\ \A i \in Known : book'[i].code = book[i].code
  BY <1>6, <1>7, <1>13, <1>14, <1>15, BookAssumption DEF Known
<1>17. /\ \A v \in Workers \ {w} : call[v].kind = "search" => BookCallOK(call[v])'
       /\ Apart' /\ StaleOnlyWhenOvertaken'
  BY <1>1, <1>4, <1>5, <1>8, <1>10, <1>11, WriteKeepsSearches
<1>18. \A v \in Workers : BookCallOK(call[v])'
  <2> SUFFICES ASSUME NEW v \in Workers
               PROVE  BookCallOK(call[v])'
    OBVIOUS
  <2>1. CASE v = w
    <3>1. call'[v] = c
      BY <1>11, <2>1 DEF Turn
    <3>2. QED
      BY <1>6, <1>8, <3>1 DEF BookCallOK
  <2>2. CASE v # w /\ call[v].kind = "client"
    <3>1. /\ call[v].on \in ClientIds /\ call[v].arg \in Names
          /\ call[v].at \in {"code", "insert"} => book[call[v].on] = None
          /\ call[v].at = "insert" => call[v].saw \in Codes /\ (call[v].mixed \/ Unused(call[v].saw))
      BY <2>2 DEF BookInv, BookCallOK
    <3>2. call[v].at \in {"code", "insert"} => call[v].on # d.on
      BY <1>6, <3>1, BookAssumption
    <3>3. \A x : Unused(x) => \A i \in Known' : book'[i].code # x
      BY <1>16 DEF Unused
    <3>4. v \notin others
      BY <2>2 DEF others, Searches, InFlight
    <3>5. /\ call'[v].kind = "client" /\ call'[v].on \in ClientIds /\ call'[v].arg \in Names
          /\ call'[v].at \in {"code", "insert"} => book'[call'[v].on] = None
      BY <1>12, <1>15, <2>2, <3>1, <3>2
    <3>6. call'[v].at = "insert" =>
             /\ call'[v].saw \in Codes
             /\ call'[v].mixed \/ \A i \in Known' : book'[i].code # call'[v].saw
      BY <1>12, <2>2, <3>1, <3>3, <3>4
    <3>7. QED
      BY <3>5, <3>6 DEF BookCallOK, Unused
  <2>3. CASE v # w /\ call[v].kind = "edit"
    <3>1. /\ call[v].on \in ClientIds /\ call[v].arg \in Names
          /\ call[v].at = "save" => /\ call[v].saw \in Row /\ book[call[v].on] \in Row
                                    /\ book[call[v].on].code = call[v].saw.code
      BY <2>3 DEF BookInv, BookCallOK
    <3>2. call[v].at = "save" => /\ book'[call[v].on] \in Row
                                 /\ book'[call[v].on].code = call[v].saw.code
      BY <1>7, <1>15, <3>1
    <3>3. QED
      BY <1>12, <2>3, <3>1, <3>2 DEF BookCallOK
  <2>4. CASE v # w /\ call[v].kind = "search"
    BY <1>17, <2>4
  <2>5. CASE v # w /\ call[v].kind \notin BookKinds
    BY <1>12, <2>5 DEF BookCallOK, BookKinds
  <2>6. QED
    BY <2>1, <2>2, <2>3, <2>4, <2>5 DEF BookKinds
<1>19. SharedCodeOnlyByOverlap'
  BY <1>4, <1>16 DEF BookInv, SharedCodeOnlyByOverlap
<1>20. BookTypeOK' /\ (DOMAIN cache = Queries /\ cache = [q \in Queries |-> cache[q]])'
  BY <1>4, <1>14 DEF BookInv, BookTypeOK
<1>21. QED
  BY <1>11, <1>17, <1>18, <1>19, <1>20 DEF BookInv

\* A write ends by clearing the cache.
LEMMA ClearCacheStep ==
    ASSUME CallsOK, BookInv, NEW w \in Workers, ClearCache(w)
    PROVE  CallsOK' /\ Within(BookKinds) /\ BookInv'
<1>1. /\ NoFault /\ book' = book /\ twins' = twins
      /\ cache' = [q \in Queries |-> None] /\ late' = {}
  BY DEF ClearCache
<1>2. CallsOK' /\ Within(BookKinds) /\ Turn(w, Idle, {})
  <2>1. CASE Ends(w, "client", "clear")
    BY <1>1, <2>1, EndsOK, KindFacts
  <2>2. CASE Ends(w, "edit", "clear")
    BY <1>1, <2>2, EndsOK, KindFacts
  <2>3. QED
    BY <2>1, <2>2 DEF ClearCache
<1>3. \A v \in Workers : call'[v] = IF v = w THEN Idle ELSE call[v]
  BY <1>2, IdleCall, TurnFacts DEF Turn
<1>4. \A v \in Workers : BookCallOK(call[v])'
  <2> SUFFICES ASSUME NEW v \in Workers
               PROVE  BookCallOK(call[v])'
    OBVIOUS
  <2>1. BookCallOK(IF v = w THEN Idle ELSE call[v])
    BY BookIdle DEF BookInv
  <2>2. QED
    BY <1>1, <1>3, <2>1 DEF BookCallOK, Matches, Unused, Known
<1>5. Apart'
  BY <1>3, IdleCall, KindFacts DEF BookInv, Apart
<1>6. BookTypeOK' /\ (DOMAIN cache = Queries /\ cache = [q \in Queries |-> cache[q]])'
  BY <1>1 DEF BookInv, BookTypeOK
<1>7. StaleOnlyWhenOvertaken' /\ SharedCodeOnlyByOverlap'
  BY <1>1 DEF BookInv, StaleOnlyWhenOvertaken, SharedCodeOnlyByOverlap, Known
<1>8. QED
  BY <1>2, <1>4, <1>5, <1>6, <1>7 DEF BookInv

\* An entry of the cache expires.
LEMMA ExpireStep ==
    ASSUME CallsOK, BookInv, NEW q \in Queries, Expire(q)
    PROVE  CallsOK' /\ Within(BookKinds) /\ BookInv'
<1>1. /\ call' = call /\ calls' = calls /\ faults' = faults
      /\ cache' = [cache EXCEPT ![q] = None] /\ late' = late \ {q}
      /\ book' = book /\ twins' = twins
  BY DEF Expire, callvars
<1>2. CallsOK' /\ Within(BookKinds)
  BY <1>1 DEF CallsOK, Within
<1>3. (\A v \in Workers : BookCallOK(call[v]))' /\ Apart'
  BY <1>1 DEF BookInv, BookCallOK, Apart, Matches, Unused, Known
<1>4. BookTypeOK' /\ (DOMAIN cache = Queries /\ cache = [x \in Queries |-> cache[x]])'
  BY <1>1 DEF BookInv, BookTypeOK
<1>5. StaleOnlyWhenOvertaken'
  <2>1. Clearing' = Clearing /\ \A x : Matches(x)' = Matches(x)
    BY <1>1 DEF Clearing, InFlight, Matches, Known
  <2>2. \A x \in Queries \ late' : cache'[x] # None => x \in Queries \ late /\ cache'[x] = cache[x]
    BY <1>1 DEF BookInv
  <2>3. QED
    BY <2>1, <2>2 DEF BookInv, StaleOnlyWhenOvertaken
<1>6. SharedCodeOnlyByOverlap'
  BY <1>1 DEF BookInv, SharedCodeOnlyByOverlap, Known
<1>7. QED
  BY <1>2, <1>3, <1>4, <1>5, <1>6 DEF BookInv

\* A request begins a call of the book; no two calls create the same client.
LEMMA BookRequestStep ==
    ASSUME CallsOK, BookInv, NEW w \in Workers, BookRequest(w)
    PROVE  CallsOK' /\ Within(BookKinds) /\ BookInv'
<1>1. UNCHANGED bookvars
  BY DEF BookRequest
<1>2. ASSUME NEW kind \in BookKinds, NEW at \in {"cache", "code", "find"},
             NEW on \in Subjects, NEW arg \in Arguments, Begin(w, kind, at, on, arg),
             kind = "search" => on \in Queries /\ at = "cache",
             kind = "client" => /\ on \in ClientIds /\ arg \in Names /\ book[on] = None
                                /\ \A v \in InFlight({"client"}) : call[v].on # on,
             kind = "edit" => on \in ClientIds /\ arg \in Names
      PROVE  CallsOK' /\ Within(BookKinds) /\ BookInv'
  <2>1. PICK c : c = NewCall(kind, at, on, arg)
    OBVIOUS
  <2>2. kind \in OfficeKinds /\ at \in Statements
    BY <1>2, AtFacts DEF OfficeKinds
  <2>3. c \in Call /\ c.kind = kind /\ c.at = at /\ c.on = on /\ c.arg = arg
    BY <1>2, <2>1, <2>2, NewCallFacts
  <2>4. CallsOK' /\ Within(BookKinds) /\ call[w] = Idle /\ Turn(w, c, {})
    BY <1>2, <2>1, <2>3, BeginOK, KindFacts
  <2>5. BookCallOK(c)
    BY <1>2, <2>3 DEF BookCallOK
  <2>6. \A v \in Workers : call'[v] = IF v = w THEN c ELSE call[v]
    BY <2>3, <2>4, TurnFacts DEF Turn
  <2>7. UNCHANGED <<book, cache, late, twins>>
    BY <1>1 DEF bookvars
  <2>8. \A v \in Workers : BookCallOK(call[v])'
    <3> SUFFICES ASSUME NEW v \in Workers
                 PROVE  BookCallOK(call[v])'
      OBVIOUS
    <3>1. BookCallOK(IF v = w THEN c ELSE call[v])
      BY <2>5 DEF BookInv
    <3>2. QED
      BY <2>6, <2>7, <3>1 DEF BookCallOK, Matches, Unused, Known
  <2>9. Apart'
    <3>1. kind = "client" => \A v \in Workers : call[v].kind = "client" => call[v].on # on
      BY <1>2 DEF InFlight
    <3>2. QED
      BY <2>3, <2>6, <3>1 DEF BookInv, Apart
  <2>10. StaleOnlyWhenOvertaken'
    <3>1. Clearing \subseteq Clearing'
      BY <2>4, <2>6, IdleCall DEF Clearing, InFlight
    <3>2. QED
      BY <2>7, <3>1 DEF BookInv, StaleOnlyWhenOvertaken, Matches, Known
  <2>11. SharedCodeOnlyByOverlap' /\ BookTypeOK'
    BY <2>7 DEF BookInv, SharedCodeOnlyByOverlap, BookTypeOK, Known
  <2>12. QED
    BY <2>4, <2>7, <2>8, <2>9, <2>10, <2>11 DEF BookInv
<1>3. None \in Subjects /\ None \in Arguments
  BY DEF Subjects, Arguments
<1>4. ASSUME NEW q \in Queries, Begin(w, "search", "cache", q, None)
      PROVE  CallsOK' /\ Within(BookKinds) /\ BookInv'
  <2>1. q \in Subjects
    BY DEF Subjects
  <2>2. QED
    BY <1>2, <1>3, <1>4, <2>1, KindFacts
<1>5. ASSUME NEW i \in ClientIds, NEW n \in Names,
             \/ /\ book[i] = None /\ \A v \in InFlight({"client"}) : call[v].on # i
                /\ Begin(w, "client", "code", i, n)
             \/ Begin(w, "edit", "find", i, n)
      PROVE  CallsOK' /\ Within(BookKinds) /\ BookInv'
  <2>1. i \in Subjects /\ n \in Arguments
    BY DEF Subjects, Arguments
  <2>2. QED
    BY <1>2, <1>5, <2>1, KindFacts
<1>6. QED
  BY <1>4, <1>5 DEF BookRequest

\* Every step of the book.
LEMMA BookSteps ==
    ASSUME CallsOK, BookInv, NEW w \in Workers, BookRequest(w) \/ BookStep(w)
    PROVE  CallsOK' /\ Within(BookKinds) /\ BookInv'
BY BookRequestStep, LookUpStep, QueryStep, PutCacheStep, GenerateCodeStep, InsertClientStep,
   FindClientStep, SaveClientStep, ClearCacheStep DEF BookStep

\* The calls of the other components leave the book alone.
LEMMA BookRests ==
    ASSUME CallsOK, BookInv, UNCHANGED bookvars, NEW kinds, Within(kinds),
           \A k \in BookKinds : k \notin kinds
    PROVE  BookInv'
<1>1. UNCHANGED <<book, cache, late, twins>>
  BY DEF bookvars
<1>2. \A v \in Workers : \/ call'[v] = call[v]
                         \/ call[v].kind \notin BookKinds /\ call'[v].kind \notin BookKinds
  BY KindFacts DEF Within
<1>3. \A v \in Workers : BookCallOK(call[v])'
  <2> SUFFICES ASSUME NEW v \in Workers
               PROVE  BookCallOK(call[v])'
    OBVIOUS
  <2>1. CASE call'[v] = call[v]
    <3>1. BookCallOK(call[v])
      BY DEF BookInv
    <3>2. QED
      BY <1>1, <2>1, <3>1 DEF BookCallOK, Matches, Unused, Known
  <2>2. CASE call'[v].kind \notin BookKinds
    BY <2>2 DEF BookCallOK, BookKinds
  <2>3. QED
    BY <1>2, <2>1, <2>2
<1>4. Apart'
  BY <1>2 DEF BookInv, Apart, BookKinds
<1>5. StaleOnlyWhenOvertaken'
  <2>1. Clearing \subseteq Clearing'
    BY <1>2 DEF Clearing, InFlight, BookKinds
  <2>2. QED
    BY <1>1, <2>1 DEF BookInv, StaleOnlyWhenOvertaken, Matches, Known
<1>6. SharedCodeOnlyByOverlap' /\ BookTypeOK'
  BY <1>1 DEF BookInv, SharedCodeOnlyByOverlap, BookTypeOK, Known
<1>7. QED
  BY <1>1, <1>3, <1>4, <1>5, <1>6 DEF BookInv

\* A restart loses the calls; a write that had not cleared the cache leaves it stale.
LEMMA BookRestarts ==
    ASSUME CallsOK, BookInv, Crash, BookRestart
    PROVE  BookInv'
<1>1. \A v \in Workers : call'[v] = Idle
  BY DEF Crash
<1>2. book' = book /\ twins' = twins
  BY DEF BookRestart
<1>3. (\A v \in Workers : BookCallOK(call[v]))' /\ Apart'
  BY <1>1, IdleCall, KindFacts DEF BookCallOK, Apart, BookKinds
<1>4. BookTypeOK' /\ (DOMAIN cache = Queries /\ cache = [q \in Queries |-> cache[q]])'
  BY <1>2 DEF BookInv, BookTypeOK, BookRestart
<1>5. StaleOnlyWhenOvertaken'
  <2>1. \A q : Matches(q)' = Matches(q)
    BY <1>2 DEF Matches, Known
  <2>2. CASE Clearing = {}
    BY <2>1, <2>2 DEF BookInv, StaleOnlyWhenOvertaken, BookRestart
  <2>3. CASE Clearing # {}
    BY <2>3 DEF StaleOnlyWhenOvertaken, BookRestart
  <2>4. QED
    BY <2>2, <2>3
<1>6. SharedCodeOnlyByOverlap'
  BY <1>2 DEF BookInv, SharedCodeOnlyByOverlap, Known
<1>7. QED
  BY <1>3, <1>4, <1>5, <1>6 DEF BookInv

-----------------------------------------------------------------------------
(* The notifications. *)

\* The rows of the settings, and the prices in them.
LEMMA SettingsType ==
    ASSUME NoticeInv
    PROVE  /\ settings \in Seq(SmsPrices \cup {None}) /\ Len(settings) \in Nat
           /\ settings # <<>> => Len(settings) >= 1
BY DEF NoticeInv, NoticeTypeOK

\* The calls stay well formed while no row of the settings goes.
LEMMA NoticeCallsKept ==
    ASSUME CallsOK, NoticeInv, NEW w \in Workers, NEW c \in Call, Turn(w, c, {}),
           NoticeCallOK(c)', Len(settings') \in Nat, Len(settings) <= Len(settings')
    PROVE  (\A v \in Workers : NoticeCallOK(call[v]))'
<1>1. \A v \in Workers : call'[v] = IF v = w THEN c ELSE call[v]
  BY TurnFacts DEF Turn
<1>2. SUFFICES ASSUME NEW v \in Workers
               PROVE  NoticeCallOK(call[v])'
  OBVIOUS
<1>3. CASE v = w
  BY <1>1, <1>3 DEF NoticeCallOK
<1>4. CASE v # w
  <2>1. NoticeCallOK(call[v])
    BY DEF NoticeInv
  <2>2. call'[v] = call[v]
    BY <1>1, <1>4
  <2>3. \A n : n \in 1 .. Len(settings) => n \in 1 .. Len(settings')
    BY SettingsType
  <2>4. QED
    BY <2>1, <2>2, <2>3 DEF NoticeCallOK
<1>5. QED
  BY <1>3, <1>4

\* The orders stay announced once while the log does not change, nobody begins to
\* save an order that is READY, and the only announcement of an order goes on.
LEMMA OrdersKept ==
    ASSUME CallsOK, NoticeInv, NEW w \in Workers, NEW c \in Call, Turn(w, c, {}),
           log' = log, status' = status, double' = double,
           \A o \in CounterOrders \ double : Saving(c, o) => status[o] # "READY",
           \A o \in CounterOrders \ double : Announcing(c, o) =>
               /\ Announcing(call[w], o)
               /\ c.at = "send" => \A m \in c.arg : m \in Channels => log[o][m] = 0
               /\ c.at # "send" => \A m \in Channels : log[o][m] = 0
    PROVE  (\A o \in CounterOrders \ double : AnnouncedOnce(o))'
<1>1. \A v \in Workers : call'[v] = IF v = w THEN c ELSE call[v]
  BY TurnFacts DEF Turn
<1>2. SUFFICES ASSUME NEW o \in CounterOrders \ double
               PROVE  AnnouncedOnce(o)'
  OBVIOUS
<1>3. AnnouncedOnce(o)
  BY DEF NoticeInv
<1>4. \A v \in Workers : Announcing(call'[v], o) => Announcing(call[v], o)
  BY <1>1
<1>5. \A v \in Workers : Saving(call'[v], o) => Saving(call[v], o) \/ status[o] # "READY"
  BY <1>1
<1>6. ASSUME NEW v \in Workers, Announcing(call'[v], o), NEW m \in Channels,
             call'[v].at = "send" => m \in call'[v].arg
      PROVE  log'[o][m] = 0
  <2>1. CASE v = w
    BY <1>1, <1>6, <2>1
  <2>2. CASE v # w
    BY <1>1, <1>3, <1>6, <2>2 DEF AnnouncedOnce
  <2>3. QED
    BY <2>1, <2>2
<1>7. /\ (\A m \in Channels : log[o][m] <= 1)'
      /\ status'[o] = "IN_PROGRESS" => /\ \A m \in Channels : log'[o][m] = 0
                                       /\ \A v \in Workers : ~Announcing(call'[v], o)
  BY <1>3, <1>4 DEF AnnouncedOnce
<1>8. status'[o] = "READY" => \A v \in Workers : ~Saving(call'[v], o)
  BY <1>3, <1>5 DEF AnnouncedOnce
<1>9. \A u, v \in Workers : Announcing(call'[u], o) /\ Announcing(call'[v], o) => u = v
  BY <1>3, <1>4 DEF AnnouncedOnce
<1>10. QED
  BY <1>6, <1>7, <1>8, <1>9 DEF AnnouncedOnce, Announcing, Saving

\* An idle worker owes the notifications nothing.
LEMMA NoticeIdle ==
    /\ NoticeCallOK(Idle) /\ NoticeCallOK(Idle)'
    /\ \A o : ~Saving(Idle, o) /\ ~Announcing(Idle, o)
<1>1. None \notin NoticeKinds
  BY KindFacts
<1>2. QED
  BY <1>1, IdleCall DEF NoticeCallOK, NoticeKinds, Saving, Announcing

\* A call that moves on without a change of the tables, or with one of its own.
LEMMA NoticeQuiet ==
    ASSUME CallsOK, NoticeInv, NEW w \in Workers, NEW c \in Call, Turn(w, c, {}),
           NoticeCallOK(c)', settings' = settings,
           channels' = channels, wanted' = wanted, stray' = stray,
           log' = log, status' = status, double' = double, missed' = missed,
           \A o \in CounterOrders \ double : Saving(c, o) => status[o] # "READY",
           \A o \in CounterOrders \ double : Announcing(c, o) =>
               /\ Announcing(call[w], o)
               /\ c.at = "send" => \A m \in c.arg : m \in Channels => log[o][m] = 0
               /\ c.at # "send" => \A m \in Channels : log[o][m] = 0
    PROVE  NoticeInv'
<1>1. Len(settings') \in Nat /\ Len(settings) <= Len(settings')
  BY SettingsType
<1>2. (\A v \in Workers : NoticeCallOK(call[v]))'
  BY <1>1, NoticeCallsKept
<1>3. (\A o \in CounterOrders \ double : AnnouncedOnce(o))'
  BY OrdersKept
<1>4. NoticeTypeOK' /\ ConfiguredPriceIsRead' /\ (settings = <<>> => wanted = None /\ ~stray)'
  BY DEF NoticeInv, NoticeTypeOK, ConfiguredPriceIsRead, RowRead
<1>5. QED
  BY <1>2, <1>3, <1>4 DEF NoticeInv

\* A call that ends without a change of the tables.
LEMMA NoticeEnds ==
    ASSUME CallsOK, NoticeInv, NEW w \in Workers, NEW kind \in NoticeKinds, NEW at,
           Ends(w, kind, at), NoFault, UNCHANGED noticevars
    PROVE  CallsOK' /\ Within(NoticeKinds) /\ NoticeInv'
<1>1. CallsOK' /\ Within(NoticeKinds) /\ Turn(w, Idle, {})
  BY EndsOK, KindFacts
<1>2. UNCHANGED <<settings, channels, status, log, wanted, stray, owed, missed, double>>
  BY DEF noticevars
<1>3. NoticeInv'
  BY <1>1, <1>2, IdleCall, NoticeIdle, NoticeQuiet
<1>4. QED
  BY <1>1, <1>3

\* How a call goes on with a row of the settings.
LEMMA Onward ==
    ASSUME NEW d \in Call, d.kind \in NoticeKinds, NEW n \in Nat, NEW price,
           NEW c, c = WithSettings(d, n, price)
    PROVE  /\ c \in Call
           /\ c = Idle \/ (c.kind = d.kind /\ c.at # "idle" /\ c.on = d.on /\ c.arg = d.arg)
           /\ c.kind = "price" => c.saw = n
           /\ c.kind = "ready" => c.at = "send"
           /\ c.at # "save" \/ c.kind = "prefs"
<1>1. CASE d.kind = "price"
  <2>1. c = [d EXCEPT !.at = "put", !.saw = n]
    BY <1>1 DEF WithSettings
  <2>2. n \in Readings
    BY DEF Readings
  <2>3. /\ c \in Call /\ c.kind = "price" /\ c.at = "put" /\ c.on = d.on /\ c.arg = d.arg
        /\ c.saw = n
    BY <1>1, <2>1, <2>2, AtFacts DEF Call
  <2>4. QED
    BY <1>1, <2>3
<1>2. CASE d.kind = "prefs"
  <2>1. c = IF price = None THEN Idle ELSE [d EXCEPT !.at = "save"]
    BY <1>2 DEF WithSettings
  <2>2. CASE price = None
    BY <2>1, <2>2, IdleCall, KindFacts
  <2>3. CASE price # None
    <3>1. c \in Call /\ c.kind = "prefs" /\ c.at = "save" /\ c.on = d.on /\ c.arg = d.arg
      BY <1>2, <2>1, <2>3, Gone, AtFacts
    <3>2. QED
      BY <1>2, <3>1
  <2>4. QED
    BY <2>2, <2>3
<1>3. CASE d.kind = "ready"
  <2>1. c = [d EXCEPT !.at = "send"]
    BY <1>3 DEF WithSettings
  <2>2. c \in Call /\ c.kind = "ready" /\ c.at = "send" /\ c.on = d.on /\ c.arg = d.arg
    BY <1>3, <2>1, Gone, AtFacts
  <2>3. QED
    BY <1>3, <2>2
<1>4. QED
  BY <1>1, <1>2, <1>3 DEF NoticeKinds

\* A call of a component that has read the settings moves on, or ends.
LEMMA OnwardOK ==
    ASSUME CallsOK, NEW kind \in NoticeKinds, NEW at, NEW w \in Workers, NEW c \in Call,
           Moves(w, kind, at, c), c = Idle \/ (c.kind = kind /\ c.at # "idle"), NoFault
    PROVE  /\ CallsOK' /\ Within(NoticeKinds) /\ Turn(w, c, {})
           /\ call[w] \in Call /\ call[w].kind = kind /\ call[w].at = at
<1>1. CASE c = Idle
  <2>1. Ends(w, kind, at)
    BY <1>1 DEF Ends
  <2>2. QED
    BY <1>1, <2>1, EndsOK, KindFacts
<1>2. CASE c.kind = kind /\ c.at # "idle"
  BY <1>2, MovesOK, KindFacts
<1>3. QED
  BY <1>1, <1>2

\* getPlatformSettings finds the first row, or sees that there is none.
LEMMA FindSettingsStep ==
    ASSUME CallsOK, NoticeInv, NEW w \in Workers, NEW kind \in NoticeKinds,
           FindSettings(w, kind)
    PROVE  CallsOK' /\ Within(NoticeKinds) /\ NoticeInv'
<1>1. /\ NoFault
      /\ UNCHANGED <<settings, channels, status, log, wanted, stray, owed, missed, double>>
  BY DEF FindSettings, noticevars
<1>2. PICK d : d = call[w]
  OBVIOUS
<1>3. d \in Call /\ NoticeCallOK(d)
  BY <1>2 DEF CallsOK, NoticeInv
<1>4. ASSUME NEW c \in Call, Moves(w, kind, "settings", c),
             \/ c = Idle
             \/ c.kind = kind /\ c.at # "idle" /\ c.at # "save" /\ c.on = d.on /\ c.arg = d.arg
             \/ c.kind = "prefs" /\ kind = "prefs" /\ c.at # "idle" /\ c.on = d.on /\ c.arg = d.arg,
             c.kind = "price" /\ c.at = "put" => c.saw \in 1 .. Len(settings)
      PROVE  CallsOK' /\ Within(NoticeKinds) /\ NoticeInv'
  <2>1. /\ CallsOK' /\ Within(NoticeKinds) /\ Turn(w, c, {})
        /\ d.kind = kind /\ d.at = "settings"
    BY <1>1, <1>2, <1>4, OnwardOK
  <2>2. CASE c = Idle
    BY <1>1, <2>1, <2>2, NoticeIdle, NoticeQuiet
  <2>3. CASE c # Idle
    <3>1. c.kind = d.kind /\ c.on = d.on /\ c.arg = d.arg /\ (c.kind = "ready" => c.at # "save")
      BY <1>4, <2>1, <2>3
    <3>2. c.kind = "price" /\ c.at = "put" => c.saw \in 1 .. Len(settings')
      BY <1>1, <1>4
    <3>3. NoticeCallOK(c)'
      BY <1>3, <2>1, <3>1, <3>2 DEF NoticeCallOK
    <3>4. \A o \in CounterOrders \ double : ~Saving(c, o)
      BY <3>1 DEF Saving
    <3>5. ASSUME NEW o \in CounterOrders \ double, Announcing(c, o)
          PROVE  Announcing(call[w], o) /\ \A m \in Channels : log[o][m] = 0
      <4>1. Announcing(call[w], o) /\ call[w].at # "send"
        BY <1>2, <2>1, <3>1, <3>5 DEF Announcing
      <4>2. QED
        BY <4>1 DEF NoticeInv, AnnouncedOnce
    <3>6. NoticeInv'
      BY <1>1, <2>1, <3>3, <3>4, <3>5, NoticeQuiet
    <3>7. QED
      BY <2>1, <3>6
  <2>4. QED
    BY <2>2, <2>3
<1>5. CASE settings = <<>>
  <2>1. PICK c : c = [d EXCEPT !.at = "seed"]
    OBVIOUS
  <2>2. Moves(w, kind, "settings", c) /\ d.kind = kind
    BY <1>2, <1>5, <2>1 DEF FindSettings, Goes, Moves, At
  <2>3. c \in Call /\ c.kind = kind /\ c.at = "seed" /\ c.on = d.on /\ c.arg = d.arg
    BY <1>3, <2>1, <2>2, Gone, AtFacts
  <2>4. QED
    BY <1>4, <2>2, <2>3
<1>6. CASE settings # <<>>
  <2>1. PICK c : c = WithSettings(d, RowRead, settings[RowRead])
    OBVIOUS
  <2>2. Moves(w, kind, "settings", c) /\ d.kind = kind
    BY <1>2, <1>6, <2>1 DEF FindSettings, Moves, At
  <2>3. /\ c \in Call
        /\ c = Idle \/ (c.kind = d.kind /\ c.at # "idle" /\ c.on = d.on /\ c.arg = d.arg)
        /\ c.kind = "price" => c.saw = 1
        /\ c.at # "save" \/ c.kind = "prefs"
    BY <1>3, <2>1, <2>2, Onward DEF RowRead
  <2>4. 1 \in 1 .. Len(settings)
    BY <1>6, SettingsType
  <2>5. QED
    BY <1>4, <2>2, <2>3, <2>4
<1>7. QED
  BY <1>5, <1>6

\* getPlatformSettings inserts a row, behind those that others inserted meanwhile.
LEMMA InsertSettingsStep ==
    ASSUME CallsOK, NoticeInv, NEW w \in Workers, NEW kind \in NoticeKinds,
           InsertSettings(w, kind)
    PROVE  CallsOK' /\ Within(NoticeKinds) /\ NoticeInv'
<1>1. /\ NoFault /\ settings' = Append(settings, None)
      /\ UNCHANGED <<channels, status, log, wanted, stray, owed, missed, double>>
  BY DEF InsertSettings
<1>2. PICK d : d = call[w]
  OBVIOUS
<1>3. PICK n : n = Len(settings) + 1
  OBVIOUS
<1>4. PICK c : c = WithSettings(d, n, None)
  OBVIOUS
<1>5. d \in Call /\ NoticeCallOK(d)
  BY <1>2 DEF CallsOK, NoticeInv
<1>6. Moves(w, kind, "seed", c) /\ d.kind = kind
  BY <1>2, <1>3, <1>4 DEF InsertSettings, Moves, At
<1>7. /\ n \in Nat /\ n >= 1 /\ settings' \in Seq(SmsPrices \cup {None}) /\ Len(settings') = n
      /\ settings'[1] = IF settings = <<>> THEN None ELSE settings[1]
      /\ settings' # <<>>
  <2>1. settings \in Seq(SmsPrices \cup {None}) /\ None \in SmsPrices \cup {None}
    BY SettingsType
  <2>2. settings = <<>> \/ Len(settings) >= 1
    BY SettingsType
  <2>3. QED
    BY <1>1, <1>3, <2>1, <2>2
<1>8. /\ c \in Call
      /\ c = Idle \/ (c.kind = d.kind /\ c.at # "idle" /\ c.on = d.on /\ c.arg = d.arg)
      /\ c.kind = "price" => c.saw = n
      /\ c.at # "save" \/ c.kind = "prefs"
  BY <1>4, <1>5, <1>6, <1>7, Onward
<1>9. /\ CallsOK' /\ Within(NoticeKinds) /\ Turn(w, c, {}) /\ d.at = "seed"
  BY <1>1, <1>2, <1>6, <1>8, OnwardOK
<1>10. NoticeCallOK(c)'
  <2>1. CASE c = Idle
    BY <2>1, NoticeIdle
  <2>2. CASE c # Idle
    <3>1. c.kind = "price" => c.saw \in 1 .. Len(settings')
      BY <1>7, <1>8
    <3>2. QED
      BY <1>5, <1>8, <1>9, <2>2, <3>1 DEF NoticeCallOK
  <2>3. QED
    BY <2>1, <2>2
<1>11. (\A v \in Workers : NoticeCallOK(call[v]))'
  <2>1. Len(settings') \in Nat /\ Len(settings) <= Len(settings')
    BY <1>3, <1>7, SettingsType
  <2>2. QED
    BY <1>8, <1>9, <1>10, <2>1, NoticeCallsKept
<1>12. (\A o \in CounterOrders \ double : AnnouncedOnce(o))'
  <2>1. \A o \in CounterOrders \ double : ~Saving(c, o)
    BY <1>8 DEF Saving
  <2>2. ASSUME NEW o \in CounterOrders \ double, Announcing(c, o)
        PROVE  Announcing(call[w], o) /\ \A m \in Channels : log[o][m] = 0
    <3>1. Announcing(call[w], o) /\ call[w].at # "send"
      BY <1>2, <1>8, <1>9, <2>2, IdleCall, KindFacts DEF Announcing
    <3>2. QED
      BY <3>1 DEF NoticeInv, AnnouncedOnce
  <2>3. QED
    BY <1>1, <1>8, <1>9, <2>1, <2>2, OrdersKept
<1>13. NoticeTypeOK'
  BY <1>1, <1>7 DEF NoticeInv, NoticeTypeOK
<1>14. ConfiguredPriceIsRead' /\ (settings = <<>> => wanted = None /\ ~stray)'
  BY <1>1, <1>7 DEF NoticeInv, ConfiguredPriceIsRead, RowRead
<1>15. QED
  BY <1>9, <1>11, <1>12, <1>13, <1>14 DEF NoticeInv

\* updatePlatformSettings saves the price on the row it was given.
LEMMA PutPriceStep ==
    ASSUME CallsOK, NoticeInv, NEW w \in Workers, PutPrice(w)
    PROVE  CallsOK' /\ Within(NoticeKinds) /\ NoticeInv'
<1>1. PICK d : d = call[w]
  OBVIOUS
<1>2. /\ Ends(w, "price", "put") /\ NoFault
      /\ settings' = [settings EXCEPT ![d.saw] = d.arg]
      /\ wanted' = d.arg /\ stray' = (d.saw > 1)
      /\ channels' = channels /\ status' = status /\ log' = log
      /\ missed' = missed /\ double' = double
  BY <1>1 DEF PutPrice
<1>3. /\ CallsOK' /\ Within(NoticeKinds) /\ Turn(w, Idle, {})
      /\ d.kind = "price" /\ d.at = "put"
  BY <1>1, <1>2, EndsOK, KindFacts
<1>4. d.arg \in SmsPrices \cup {None} /\ d.saw \in 1 .. Len(settings)
  BY <1>1, <1>3 DEF NoticeInv, NoticeCallOK
<1>5. /\ settings' \in Seq(SmsPrices \cup {None}) /\ Len(settings') = Len(settings)
      /\ settings' # <<>>
      /\ d.saw = 1 => settings'[1] = d.arg
  <2>1. settings \in Seq(SmsPrices \cup {None}) /\ Len(settings) \in Nat
    BY SettingsType
  <2>2. settings' \in Seq(SmsPrices \cup {None}) /\ Len(settings') = Len(settings)
    BY <1>2, <1>4, <2>1
  <2>3. d.saw = 1 => settings'[1] = d.arg
    BY <1>2, <1>4, <2>1
  <2>4. settings' # <<>>
    BY <1>4, <2>1, <2>2
  <2>5. QED
    BY <2>2, <2>3, <2>4
<1>6. (\A v \in Workers : NoticeCallOK(call[v]))'
  BY <1>3, <1>5, IdleCall, NoticeIdle, NoticeCallsKept, SettingsType
<1>7. (\A o \in CounterOrders \ double : AnnouncedOnce(o))'
  BY <1>2, <1>3, IdleCall, NoticeIdle, OrdersKept
<1>8. stray' \in BOOLEAN /\ (stray' \/ d.saw = 1)
  <2>1. d.saw \in Nat /\ (d.saw > 1 \/ d.saw = 1)
    BY <1>4, SettingsType
  <2>2. stray' = (d.saw > 1)
    BY <1>2
  <2>3. stray' \in BOOLEAN
    BY <2>1, <2>2
  <2>4. d.saw > 1 => stray'
    BY <2>2, Zenon
  <2>5. QED
    BY <2>1, <2>3, <2>4
<1>9. NoticeTypeOK'
  BY <1>2, <1>4, <1>5, <1>8 DEF NoticeInv, NoticeTypeOK
<1>10. ConfiguredPriceIsRead' /\ (settings = <<>> => wanted = None /\ ~stray)'
  BY <1>2, <1>5, <1>8 DEF ConfiguredPriceIsRead, RowRead
<1>11. QED
  BY <1>3, <1>6, <1>7, <1>9, <1>10 DEF NoticeInv

\* updateTenantNotificationPrefs saves the channels.
LEMMA SavePrefsStep ==
    ASSUME CallsOK, NoticeInv, NEW w \in Workers, SavePrefs(w)
    PROVE  CallsOK' /\ Within(NoticeKinds) /\ NoticeInv'
<1>1. PICK d : d = call[w]
  OBVIOUS
<1>2. /\ Ends(w, "prefs", "save") /\ NoFault
      /\ channels' = d.arg
      /\ settings' = settings /\ wanted' = wanted /\ stray' = stray /\ status' = status
      /\ log' = log /\ missed' = missed /\ double' = double
  BY <1>1 DEF SavePrefs
<1>3. CallsOK' /\ Within(NoticeKinds) /\ Turn(w, Idle, {}) /\ d.kind = "prefs"
  BY <1>1, <1>2, EndsOK, KindFacts
<1>4. d.arg \subseteq Channels
  BY <1>1, <1>3 DEF NoticeInv, NoticeCallOK
<1>5. (\A v \in Workers : NoticeCallOK(call[v]))'
  BY <1>2, <1>3, IdleCall, NoticeIdle, NoticeCallsKept, SettingsType
<1>6. (\A o \in CounterOrders \ double : AnnouncedOnce(o))'
  BY <1>2, <1>3, IdleCall, NoticeIdle, OrdersKept
<1>7. NoticeTypeOK' /\ ConfiguredPriceIsRead' /\ (settings = <<>> => wanted = None /\ ~stray)'
  BY <1>2, <1>4 DEF NoticeInv, NoticeTypeOK, ConfiguredPriceIsRead, RowRead
<1>8. QED
  BY <1>3, <1>5, <1>6, <1>7 DEF NoticeInv

\* updateStatus finds the order IN_PROGRESS, or refuses.
LEMMA FindOrderStep ==
    ASSUME CallsOK, NoticeInv, NEW w \in Workers, FindOrder(w)
    PROVE  CallsOK' /\ Within(NoticeKinds) /\ NoticeInv'
<1>1. PICK d : d = call[w]
  OBVIOUS
<1>2. /\ NoFault /\ UNCHANGED noticevars
      /\ UNCHANGED <<settings, channels, status, log, wanted, stray, owed, missed, double>>
  BY DEF FindOrder, noticevars
<1>3. CASE ~MayBeReady(d.on)
  <2>1. Ends(w, "ready", "order")
    BY <1>1, <1>3 DEF FindOrder
  <2>2. QED
    BY <1>2, <2>1, NoticeEnds, KindFacts
<1>4. CASE MayBeReady(d.on)
  <2>1. PICK c : c = [d EXCEPT !.at = "save"]
    OBVIOUS
  <2>2. Moves(w, "ready", "order", c) /\ d.kind = "ready"
    BY <1>1, <1>4, <2>1 DEF FindOrder, Goes, Moves, At
  <2>3. d \in Call /\ d.on \in CounterOrders
    BY <1>1, <2>2 DEF CallsOK, NoticeInv, NoticeCallOK
  <2>4. c \in Call /\ c.kind = "ready" /\ c.at = "save" /\ c.on = d.on
    BY <2>1, <2>2, <2>3, Gone, AtFacts
  <2>5. CallsOK' /\ Within(NoticeKinds) /\ Turn(w, c, {})
    BY <1>2, <2>2, <2>4, MovesOK, KindFacts
  <2>6. NoticeCallOK(c)'
    BY <2>3, <2>4 DEF NoticeCallOK
  <2>7. \A o \in CounterOrders \ double : Saving(c, o) => status[o] # "READY"
    BY <1>4, <2>4 DEF Saving, MayBeReady
  <2>8. \A o \in CounterOrders \ double : ~Announcing(c, o)
    BY <2>4 DEF Announcing
  <2>9. NoticeInv'
    BY <1>2, <2>4, <2>5, <2>6, <2>7, <2>8, NoticeQuiet
  <2>10. QED
    BY <2>5, <2>9
<1>5. QED
  BY <1>3, <1>4

\* updateStatus saves READY and announces it; an order that another call was about
\* to save as well is one that two calls found IN_PROGRESS.
LEMMA SaveReadyStep ==
    ASSUME CallsOK, NoticeInv, NEW w \in Workers, SaveReady(w)
    PROVE  CallsOK' /\ Within(NoticeKinds) /\ NoticeInv'
<1>1. PICK d : d = call[w]
  OBVIOUS
<1>2. PICK c : c = [d EXCEPT !.at = "prefs"]
  OBVIOUS
<1>3. /\ Moves(w, "ready", "save", c) /\ d.kind = "ready" /\ d.at = "save" /\ NoFault
      /\ status' = [status EXCEPT ![d.on] = "READY"]
      /\ double' = IF Readying(d.on) = {w} THEN double ELSE double \cup {d.on}
      /\ settings' = settings /\ channels' = channels /\ wanted' = wanted /\ stray' = stray
      /\ log' = log /\ missed' = missed
  BY <1>1, <1>2 DEF SaveReady, Goes, Moves, At
<1>4. d \in Call /\ d.on \in CounterOrders
  BY <1>1, <1>3 DEF CallsOK, NoticeInv, NoticeCallOK
<1>5. c \in Call /\ c.kind = "ready" /\ c.at = "prefs" /\ c.on = d.on
  BY <1>2, <1>3, <1>4, Gone, AtFacts
<1>6. CallsOK' /\ Within(NoticeKinds) /\ Turn(w, c, {})
  BY <1>3, <1>5, MovesOK, KindFacts
<1>7. \A v \in Workers : call'[v] = IF v = w THEN c ELSE call[v]
  BY <1>5, <1>6, TurnFacts DEF Turn
<1>8. /\ status \in [CounterOrders -> {"IN_PROGRESS", "READY"}]
      /\ double \subseteq CounterOrders
  BY DEF NoticeInv, NoticeTypeOK
<1>9. NoticeCallOK(c)'
  BY <1>4, <1>5 DEF NoticeCallOK
<1>10. (\A v \in Workers : NoticeCallOK(call[v]))'
  BY <1>3, <1>5, <1>6, <1>9, NoticeCallsKept, SettingsType
<1>11. ASSUME NEW o \in CounterOrders \ double'
       PROVE  AnnouncedOnce(o)'
  <2>1. o \in CounterOrders \ double /\ AnnouncedOnce(o)
    BY <1>3, <1>11 DEF NoticeInv
  <2>2. CASE o = d.on
    <3>1. Readying(o) = {w}
      BY <1>3, <1>11, <2>2
    <3>2. \A v \in Workers \ {w} : ~Saving(call[v], o)
      BY <3>1 DEF Readying, InFlight, Saving
    <3>3. status[o] # "READY"
      BY <1>1, <1>3, <2>1, <2>2 DEF AnnouncedOnce, Saving
    <3>4. status[o] = "IN_PROGRESS"
      BY <1>8, <3>3
    <3>5. /\ \A m \in Channels : log[o][m] = 0
          /\ \A v \in Workers : ~Announcing(call[v], o)
      BY <2>1, <3>4 DEF AnnouncedOnce
    <3>6. status'[o] = "READY"
      BY <1>3, <1>8, <2>2
    <3>7. \A v \in Workers : Announcing(call'[v], o) => v = w
      BY <1>7, <3>5
    <3>8. \A v \in Workers : ~Saving(call'[v], o)
      BY <1>5, <1>7, <3>2 DEF Saving
    <3>9. \A m \in Channels : log'[o][m] = 0
      BY <1>3, <3>5
    <3>10. status'[o] # "IN_PROGRESS"
      BY <3>6
    <3>11. /\ \A m \in Channels : log'[o][m] <= 1
           /\ \A u, v \in Workers : Announcing(call'[u], o) /\ Announcing(call'[v], o) => u = v
      BY <3>7, <3>9
    <3>12. QED
      BY <3>8, <3>9, <3>10, <3>11 DEF AnnouncedOnce, Announcing, Saving
  <2>3. CASE o # d.on
    <3>1. status'[o] = status[o] /\ log' = log
      BY <1>3, <1>8, <2>3
    <3>2. ~Announcing(c, o) /\ ~Saving(c, o)
      BY <1>5, <2>3 DEF Announcing, Saving
    <3>3. \A v \in Workers : /\ Announcing(call'[v], o) => call'[v] = call[v]
                             /\ Saving(call'[v], o) => call'[v] = call[v]
      BY <1>7, <3>2
    <3>4. /\ \A m \in Channels : log'[o][m] <= 1
          /\ status'[o] = "IN_PROGRESS" => /\ \A m \in Channels : log'[o][m] = 0
                                           /\ \A v \in Workers : ~Announcing(call'[v], o)
          /\ status'[o] = "READY" => \A v \in Workers : ~Saving(call'[v], o)
      BY <2>1, <3>1, <3>3 DEF AnnouncedOnce
    <3>5. /\ \A u, v \in Workers : Announcing(call'[u], o) /\ Announcing(call'[v], o) => u = v
          /\ \A v \in Workers : Announcing(call'[v], o) =>
                \A m \in Channels : (call'[v].at = "send" => m \in call'[v].arg) => log'[o][m] = 0
      BY <2>1, <3>1, <3>3 DEF AnnouncedOnce
    <3>6. QED
      BY <3>4, <3>5 DEF AnnouncedOnce, Announcing, Saving
  <2>4. QED
    BY <2>2, <2>3
<1>12. NoticeTypeOK' /\ ConfiguredPriceIsRead' /\ (settings = <<>> => wanted = None /\ ~stray)'
  BY <1>3, <1>4, <1>8 DEF NoticeInv, NoticeTypeOK, ConfiguredPriceIsRead, RowRead
<1>13. QED
  BY <1>6, <1>10, <1>11, <1>12 DEF NoticeInv

\* notify reads the channels of the tenant.
LEMMA ReadTenantStep ==
    ASSUME CallsOK, NoticeInv, NEW w \in Workers, ReadTenant(w)
    PROVE  CallsOK' /\ Within(NoticeKinds) /\ NoticeInv'
<1>1. PICK d : d = call[w]
  OBVIOUS
<1>2. PICK on : /\ on \subseteq channels
                /\ Moves(w, "ready", "prefs", [call[w] EXCEPT !.at = "settings", !.arg = on])
                /\ NoFault
                /\ settings' = settings /\ channels' = channels /\ wanted' = wanted
                /\ stray' = stray /\ log' = log /\ status' = status /\ missed' = missed
                /\ double' = double
  <2>1. PICK reach \in Contacts :
            /\ Moves(w, "ready", "prefs",
                     [call[w] EXCEPT !.at = "settings", !.arg = channels \cap reach])
            /\ NoFault /\ UNCHANGED <<settings, channels, status, log, wanted, stray, missed, double>>
    BY DEF ReadTenant
  <2>2. PICK on : on = channels \cap reach
    OBVIOUS
  <2>3. on \subseteq channels
    BY <2>2
  <2>4. QED
    BY <2>1, <2>2, <2>3
<1>3. PICK c : c = [d EXCEPT !.at = "settings", !.arg = on]
  OBVIOUS
<1>4. /\ Moves(w, "ready", "prefs", c) /\ d.kind = "ready" /\ d.at = "prefs" /\ NoFault
      /\ settings' = settings /\ channels' = channels /\ wanted' = wanted /\ stray' = stray
      /\ log' = log /\ status' = status /\ missed' = missed /\ double' = double
  BY <1>1, <1>2, <1>3 DEF Moves, At
<1>5. d \in Call /\ d.on \in CounterOrders
  BY <1>1, <1>4 DEF CallsOK, NoticeInv, NoticeCallOK
<1>6. on \subseteq Channels /\ on \in Arguments
  BY <1>2 DEF NoticeInv, NoticeTypeOK, Arguments
<1>7. c \in Call /\ c.kind = "ready" /\ c.at = "settings" /\ c.on = d.on /\ c.arg = on
  BY <1>3, <1>4, <1>5, <1>6, AtFacts DEF Call
<1>8. CallsOK' /\ Within(NoticeKinds) /\ Turn(w, c, {})
  BY <1>4, <1>7, MovesOK, KindFacts
<1>9. NoticeCallOK(c)'
  BY <1>5, <1>6, <1>7 DEF NoticeCallOK
<1>10. \A o \in CounterOrders \ double : ~Saving(c, o)
  BY <1>7 DEF Saving
<1>11. ASSUME NEW o \in CounterOrders \ double, Announcing(c, o)
       PROVE  Announcing(call[w], o) /\ \A m \in Channels : log[o][m] = 0
  <2>1. Announcing(call[w], o) /\ call[w].at # "send"
    BY <1>1, <1>4, <1>7, <1>11 DEF Announcing
  <2>2. QED
    BY <2>1 DEF NoticeInv, AnnouncedOnce
<1>12. NoticeInv'
  BY <1>4, <1>7, <1>8, <1>9, <1>10, <1>11, NoticeQuiet
<1>13. QED
  BY <1>8, <1>12

\* A read of notify fails, or its insert: nothing is announced.
LEMMA ReadFailsStep ==
    ASSUME CallsOK, NoticeInv, NEW w \in Workers, ReadFails(w)
    PROVE  CallsOK' /\ Within(NoticeKinds) /\ NoticeInv'
<1>1. PICK at \in {"prefs", "settings", "seed"} : Ends(w, "ready", at)
  BY DEF ReadFails
<1>2. /\ missed' = missed \cup {call[w].on} /\ Fault
      /\ settings' = settings /\ channels' = channels /\ wanted' = wanted /\ stray' = stray
      /\ log' = log /\ status' = status /\ double' = double
  BY DEF ReadFails
<1>3. call[w].kind = "ready"
  BY <1>1 DEF Ends, Moves, At
<1>4. call[w].on \in CounterOrders
  BY <1>3 DEF CallsOK, NoticeInv, NoticeCallOK
<1>5. CallsOK' /\ Within(NoticeKinds) /\ Turn(w, Idle, {})
  BY <1>1, <1>2, EndsOK, KindFacts
<1>6. (\A v \in Workers : NoticeCallOK(call[v]))'
  BY <1>2, <1>5, IdleCall, NoticeIdle, NoticeCallsKept, SettingsType
<1>7. (\A o \in CounterOrders \ double : AnnouncedOnce(o))'
  BY <1>2, <1>5, IdleCall, NoticeIdle, OrdersKept
<1>8. NoticeTypeOK' /\ ConfiguredPriceIsRead' /\ (settings = <<>> => wanted = None /\ ~stray)'
  BY <1>2, <1>4 DEF NoticeInv, NoticeTypeOK, ConfiguredPriceIsRead, RowRead
<1>9. QED
  BY <1>5, <1>6, <1>7, <1>8 DEF NoticeInv

\* One channel is told, and its log row saved; or the row cannot be saved, which
\* ends the announcement.
LEMMA AnnounceStep ==
    ASSUME CallsOK, NoticeInv, NEW w \in Workers, Announce(w)
    PROVE  CallsOK' /\ Within(NoticeKinds) /\ NoticeInv'
<1>1. PICK d : d = call[w]
  OBVIOUS
<1>2. PICK n : n = IF "email" \in d.arg THEN "email" ELSE "sms"
  OBVIOUS
<1>3. PICK c : c = [d EXCEPT !.arg = @ \ {n}]
  OBVIOUS
<1>4. /\ d.kind = "ready" /\ d.at = "send" /\ d.arg # {}
      /\ \/ Moves(w, "ready", "send", c) /\ Logged(d.on, n) /\ NoFault /\ missed' = missed
         \/ Ends(w, "ready", "send") /\ missed' = missed \cup {d.on} /\ Fault /\ log' = log
      /\ settings' = settings /\ channels' = channels /\ wanted' = wanted /\ stray' = stray
      /\ status' = status /\ double' = double
  BY <1>1, <1>2, <1>3 DEF Announce, At
<1>5. d \in Call /\ d.on \in CounterOrders /\ d.arg \subseteq Channels
  BY <1>1, <1>4 DEF CallsOK, NoticeInv, NoticeCallOK
<1>6. n \in d.arg /\ n \in Channels
  BY <1>2, <1>4, <1>5 DEF Channels
<1>7. /\ log \in [CounterOrders -> [Channels -> Nat]] /\ missed \subseteq CounterOrders
  BY DEF NoticeInv, NoticeTypeOK
<1>8. CASE Ends(w, "ready", "send") /\ missed' = missed \cup {d.on} /\ Fault /\ log' = log
  <2>1. CallsOK' /\ Within(NoticeKinds) /\ Turn(w, Idle, {})
    BY <1>8, EndsOK, KindFacts
  <2>2. (\A v \in Workers : NoticeCallOK(call[v]))'
    BY <1>4, <2>1, IdleCall, NoticeIdle, NoticeCallsKept, SettingsType
  <2>3. (\A o \in CounterOrders \ double : AnnouncedOnce(o))'
    BY <1>4, <1>8, <2>1, IdleCall, NoticeIdle, OrdersKept
  <2>4. NoticeTypeOK' /\ ConfiguredPriceIsRead' /\ (settings = <<>> => wanted = None /\ ~stray)'
    BY <1>4, <1>5, <1>8 DEF NoticeInv, NoticeTypeOK, ConfiguredPriceIsRead, RowRead
  <2>5. QED
    BY <2>1, <2>2, <2>3, <2>4 DEF NoticeInv
<1>9. CASE Moves(w, "ready", "send", c) /\ Logged(d.on, n) /\ NoFault /\ missed' = missed
  <2>1. (d.arg \ {n}) \in Arguments
    BY <1>5 DEF Arguments
  <2>2. /\ c \in Call /\ c.kind = "ready" /\ c.at = "send" /\ c.on = d.on
        /\ c.arg = d.arg \ {n}
    BY <1>3, <1>4, <1>5, <2>1 DEF Call
  <2>3. CallsOK' /\ Within(NoticeKinds) /\ Turn(w, c, {})
    BY <1>9, <2>2, MovesOK, KindFacts
  <2>4. \A v \in Workers : call'[v] = IF v = w THEN c ELSE call[v]
    BY <2>2, <2>3, TurnFacts DEF Turn
  <2>5. NoticeCallOK(c)'
    BY <1>5, <2>2 DEF NoticeCallOK
  <2>6. (\A v \in Workers : NoticeCallOK(call[v]))'
    BY <1>4, <2>2, <2>3, <2>5, NoticeCallsKept, SettingsType
  <2>7. /\ log' \in [CounterOrders -> [Channels -> Nat]]
        /\ log'[d.on][n] = log[d.on][n] + 1
        /\ \A m \in Channels \ {n} : log'[d.on][m] = log[d.on][m]
        /\ \A o \in CounterOrders \ {d.on} : log'[o] = log[o]
    BY <1>5, <1>6, <1>7, <1>9 DEF Logged
  <2>8. ASSUME NEW o \in CounterOrders \ double'
        PROVE  AnnouncedOnce(o)'
    <3>1. o \in CounterOrders \ double /\ AnnouncedOnce(o)
      BY <1>4, <2>8 DEF NoticeInv
    <3>2. \A v \in Workers : /\ Announcing(call'[v], o) => Announcing(call[v], o)
                             /\ Saving(call'[v], o) => Saving(call[v], o)
      BY <1>1, <1>4, <2>2, <2>4 DEF Announcing, Saving
    <3>3. /\ status'[o] = "READY" => \A v \in Workers : ~Saving(call'[v], o)
          /\ \A u, v \in Workers : Announcing(call'[u], o) /\ Announcing(call'[v], o) => u = v
      BY <1>4, <3>1, <3>2 DEF AnnouncedOnce
    <3>4. CASE o = d.on
      <4>1. Announcing(call[w], o)
        BY <1>1, <1>4, <3>4 DEF Announcing
      <4>2. status[o] # "IN_PROGRESS"
        BY <3>1, <4>1 DEF AnnouncedOnce
      <4>3. \A m \in d.arg : log[o][m] = 0
        BY <1>1, <1>4, <1>5, <3>1, <4>1 DEF AnnouncedOnce
      <4>4. \A m \in Channels : log'[o][m] <= 1
        BY <1>6, <2>7, <3>1, <3>4, <4>3 DEF AnnouncedOnce
      <4>5. \A m \in Channels : m \in c.arg => log'[o][m] = 0
        BY <2>2, <2>7, <3>4, <4>3
      <4>6. \A v \in Workers : Announcing(call'[v], o) => call'[v] = c
        BY <2>4, <3>1, <3>2, <4>1 DEF AnnouncedOnce
      <4>7. \A v \in Workers : Announcing(call'[v], o) =>
               \A m \in Channels : (call'[v].at = "send" => m \in call'[v].arg) => log'[o][m] = 0
        BY <2>2, <4>5, <4>6
      <4>8. status'[o] # "IN_PROGRESS"
        BY <1>4, <4>2
      <4>9. QED
        BY <3>3, <4>4, <4>7, <4>8 DEF AnnouncedOnce, Announcing, Saving
    <3>5. CASE o # d.on
      <4>1. log'[o] = log[o]
        BY <2>7, <3>1, <3>5
      <4>2. ~Announcing(c, o)
        BY <2>2, <3>5 DEF Announcing
      <4>3. \A v \in Workers : Announcing(call'[v], o) => call'[v] = call[v]
        BY <2>4, <4>2
      <4>4. /\ \A m \in Channels : log'[o][m] <= 1
            /\ status'[o] = "IN_PROGRESS" => /\ \A m \in Channels : log'[o][m] = 0
                                             /\ \A v \in Workers : ~Announcing(call'[v], o)
        BY <1>4, <3>1, <3>2, <4>1 DEF AnnouncedOnce
      <4>5. \A v \in Workers : Announcing(call'[v], o) =>
               \A m \in Channels : (call'[v].at = "send" => m \in call'[v].arg) => log'[o][m] = 0
        BY <3>1, <4>1, <4>3 DEF AnnouncedOnce
      <4>6. QED
        BY <3>3, <4>4, <4>5 DEF AnnouncedOnce, Announcing, Saving
    <3>6. QED
      BY <3>4, <3>5
  <2>9. NoticeTypeOK' /\ ConfiguredPriceIsRead' /\ (settings = <<>> => wanted = None /\ ~stray)'
    BY <1>4, <1>9, <2>7 DEF NoticeInv, NoticeTypeOK, ConfiguredPriceIsRead, RowRead
  <2>10. QED
    BY <2>3, <2>6, <2>8, <2>9 DEF NoticeInv
<1>10. QED
  BY <1>4, <1>8, <1>9

\* A request begins a call of the notifications.
LEMMA NoticeRequestStep ==
    ASSUME CallsOK, NoticeInv, NEW w \in Workers, NoticeRequest(w)
    PROVE  CallsOK' /\ Within(NoticeKinds) /\ NoticeInv'
<1>1. UNCHANGED <<settings, channels, status, log, wanted, stray, owed, missed, double>>
  BY DEF NoticeRequest, noticevars
<1>2. ASSUME NEW kind \in NoticeKinds, NEW at \in {"settings", "save", "order"},
             NEW on \in Subjects, NEW arg \in Arguments, Begin(w, kind, at, on, arg),
             kind = "price" => arg \in SmsPrices \cup {None} /\ at = "settings",
             kind = "prefs" => arg \subseteq Channels,
             kind = "ready" => on \in CounterOrders /\ at = "order"
      PROVE  CallsOK' /\ Within(NoticeKinds) /\ NoticeInv'
  <2>1. PICK c : c = NewCall(kind, at, on, arg)
    OBVIOUS
  <2>2. kind \in OfficeKinds /\ at \in Statements
    BY <1>2, AtFacts DEF OfficeKinds
  <2>3. c \in Call /\ c.kind = kind /\ c.at = at /\ c.on = on /\ c.arg = arg
    BY <1>2, <2>1, <2>2, NewCallFacts
  <2>4. CallsOK' /\ Within(NoticeKinds) /\ Turn(w, c, {})
    BY <1>2, <2>1, <2>3, BeginOK, KindFacts
  <2>5. NoticeCallOK(c)'
    BY <1>2, <2>3 DEF NoticeCallOK
  <2>6. \A o \in CounterOrders \ double : ~Saving(c, o) /\ ~Announcing(c, o)
    BY <1>2, <2>3 DEF Saving, Announcing
  <2>7. NoticeInv'
    BY <1>1, <2>3, <2>4, <2>5, <2>6, NoticeQuiet
  <2>8. QED
    BY <2>4, <2>7
<1>3. None \in Subjects /\ None \in Arguments
  BY DEF Subjects, Arguments
<1>4. ASSUME NEW p \in SmsPrices \cup {None}, Begin(w, "price", "settings", None, p)
      PROVE  CallsOK' /\ Within(NoticeKinds) /\ NoticeInv'
  <2>1. p \in Arguments
    BY DEF Arguments
  <2>2. QED
    BY <1>2, <1>3, <1>4, <2>1, KindFacts
<1>5. ASSUME NEW on \in SUBSET Channels,
             Begin(w, "prefs", IF "sms" \in on THEN "settings" ELSE "save", None, on)
      PROVE  CallsOK' /\ Within(NoticeKinds) /\ NoticeInv'
  <2>1. on \in Arguments
    BY DEF Arguments
  <2>2. PICK at : at = IF "sms" \in on THEN "settings" ELSE "save"
    OBVIOUS
  <2>3. at \in {"settings", "save", "order"} /\ Begin(w, "prefs", at, None, on)
    BY <1>5, <2>2
  <2>4. QED
    BY <1>2, <1>3, <2>1, <2>3, KindFacts
<1>6. ASSUME NEW o \in CounterOrders, Begin(w, "ready", "order", o, None)
      PROVE  CallsOK' /\ Within(NoticeKinds) /\ NoticeInv'
  <2>1. o \in Subjects
    BY DEF Subjects
  <2>2. QED
    BY <1>2, <1>3, <1>6, <2>1, KindFacts
<1>7. QED
  BY <1>4, <1>5, <1>6 DEF NoticeRequest

\* Every step of the notifications.
LEMMA NoticeSteps ==
    ASSUME CallsOK, NoticeInv, NEW w \in Workers, NoticeRequest(w) \/ NoticeStep(w)
    PROVE  CallsOK' /\ Within(NoticeKinds) /\ NoticeInv'
<1>1. ASSUME NothingLeft(w)
      PROVE  CallsOK' /\ Within(NoticeKinds) /\ NoticeInv'
  <2>1. Ends(w, "ready", "send") /\ NoFault /\ UNCHANGED noticevars
    BY <1>1 DEF NothingLeft
  <2>2. QED
    BY <2>1, NoticeEnds, KindFacts
<1>2. ASSUME NEW kind \in NoticeKinds, FindSettings(w, kind) \/ InsertSettings(w, kind)
      PROVE  CallsOK' /\ Within(NoticeKinds) /\ NoticeInv'
  BY <1>2, FindSettingsStep, InsertSettingsStep
<1>3. CASE NoticeGoesOn(w)
  BY <1>1, <1>2, <1>3, KindFacts, ReadTenantStep, ReadFailsStep, AnnounceStep DEF NoticeGoesOn
<1>4. QED
  BY <1>2, <1>3, KindFacts, NoticeRequestStep, FindOrderStep, SaveReadyStep, PutPriceStep,
     SavePrefsStep DEF NoticeStep

\* The calls of the other components leave the notifications alone.
LEMMA NoticeRests ==
    ASSUME CallsOK, NoticeInv, UNCHANGED noticevars, NEW kinds, Within(kinds),
           \A k \in NoticeKinds : k \notin kinds
    PROVE  NoticeInv'
<1>1. UNCHANGED <<settings, channels, status, log, wanted, stray, owed, missed, double>>
  BY DEF noticevars
<1>2. \A v \in Workers : call'[v] = call[v] \/ call'[v].kind \notin NoticeKinds
  BY KindFacts DEF Within
<1>3. \A v \in Workers : NoticeCallOK(call[v])'
  <2> SUFFICES ASSUME NEW v \in Workers
               PROVE  NoticeCallOK(call[v])'
    OBVIOUS
  <2>1. NoticeCallOK(call[v])
    BY DEF NoticeInv
  <2>2. QED
    BY <1>1, <1>2, <2>1 DEF NoticeCallOK, NoticeKinds
<1>4. ASSUME NEW o \in CounterOrders \ double'
      PROVE  AnnouncedOnce(o)'
  <2>1. AnnouncedOnce(o)
    BY <1>1, <1>4 DEF NoticeInv
  <2>2. \A v \in Workers : /\ Announcing(call'[v], o) => call'[v] = call[v]
                           /\ Saving(call'[v], o) => call'[v] = call[v]
    BY <1>2 DEF Announcing, Saving, NoticeKinds
  <2>3. /\ \A m \in Channels : log'[o][m] <= 1
        /\ status'[o] = "IN_PROGRESS" => /\ \A m \in Channels : log'[o][m] = 0
                                         /\ \A v \in Workers : ~Announcing(call'[v], o)
        /\ status'[o] = "READY" => \A v \in Workers : ~Saving(call'[v], o)
    BY <1>1, <2>1, <2>2 DEF AnnouncedOnce
  <2>4. /\ \A u, v \in Workers : Announcing(call'[u], o) /\ Announcing(call'[v], o) => u = v
        /\ \A v \in Workers : Announcing(call'[v], o) =>
              \A m \in Channels : (call'[v].at = "send" => m \in call'[v].arg) => log'[o][m] = 0
    BY <1>1, <2>1, <2>2 DEF AnnouncedOnce
  <2>5. QED
    BY <2>3, <2>4 DEF AnnouncedOnce, Announcing, Saving
<1>5. NoticeTypeOK' /\ ConfiguredPriceIsRead' /\ (settings = <<>> => wanted = None /\ ~stray)'
  BY <1>1 DEF NoticeInv, NoticeTypeOK, ConfiguredPriceIsRead, RowRead
<1>6. QED
  BY <1>3, <1>4, <1>5 DEF NoticeInv

\* A restart cuts announcements short.
LEMMA NoticeRestarts ==
    ASSUME CallsOK, NoticeInv, Crash, NoticeRestart
    PROVE  NoticeInv'
<1>1. \A v \in Workers : call'[v] = Idle
  BY DEF Crash
<1>2. /\ UNCHANGED <<settings, channels, status, log, wanted, stray, owed, double>>
      /\ missed' \subseteq missed \cup CounterOrders
  BY DEF NoticeRestart
<1>3. (\A v \in Workers : NoticeCallOK(call[v]))'
  BY <1>1, IdleCall, KindFacts DEF NoticeCallOK, NoticeKinds
<1>4. ASSUME NEW o \in CounterOrders \ double'
      PROVE  AnnouncedOnce(o)'
  <2>1. AnnouncedOnce(o)
    BY <1>2, <1>4 DEF NoticeInv
  <2>2. \A v \in Workers : ~Announcing(call'[v], o) /\ ~Saving(call'[v], o)
    BY <1>1, NoticeIdle
  <2>3. QED
    BY <1>2, <2>1, <2>2 DEF AnnouncedOnce, Announcing, Saving
<1>5. NoticeTypeOK' /\ ConfiguredPriceIsRead' /\ (settings = <<>> => wanted = None /\ ~stray)'
  BY <1>2 DEF NoticeInv, NoticeTypeOK, ConfiguredPriceIsRead, RowRead
<1>6. QED
  BY <1>3, <1>4, <1>5 DEF NoticeInv

-----------------------------------------------------------------------------
(* The registers. *)

LEMMA RegKindFacts ==
    /\ "seed" \in RegKinds /\ "add" \in RegKinds /\ "relabel" \in RegKinds
    /\ "switch" \in RegKinds /\ "drop" \in RegKinds /\ "upsert" \in RegKinds
    /\ "unprice" \in RegKinds /\ "spend" \in RegKinds /\ "unspend" \in RegKinds
    /\ None \notin RegKinds
BY KindFacts DEF RegKinds

\* Rows, and what a change makes of one.
LEMMA EntryFacts ==
    ASSUME NEW row \in Entry
    PROVE  /\ row.label \in Labels /\ row.active \in BOOLEAN /\ row.system \in BOOLEAN
           /\ row # None
           /\ \A l \in Labels : LET n == [row EXCEPT !.label = l]
                                IN n \in Entry /\ n.label = l /\ n.system = row.system
           /\ \A b \in BOOLEAN : LET n == [row EXCEPT !.active = b]
                                 IN n \in Entry /\ n.label = row.label /\ n.system = row.system
           /\ LET n == [row EXCEPT !.system = TRUE]
              IN n \in Entry /\ n.label = row.label /\ n.system = TRUE
<1>1. row # None
  BY RegisterAssumption
<1>2. QED
  BY <1>1 DEF Entry

LEMMA ChangedFacts ==
    ASSUME NEW row \in Entry, NEW c,
           c.kind = "relabel" => c.arg \in Labels,
           c.kind = "switch" => c.arg \in BOOLEAN,
           c.kind \in {"relabel", "switch"}
    PROVE  /\ Changed(row, c) \in Entry
           /\ Changed(row, c).system = row.system
           /\ Changed(row, c).label = IF c.kind = "relabel" THEN c.arg ELSE row.label
<1>1. CASE c.kind = "relabel"
  <2>1. Changed(row, c) = [row EXCEPT !.label = c.arg]
    BY <1>1 DEF Changed
  <2>2. PICK l : l = c.arg
    OBVIOUS
  <2>3. Changed(row, c) \in Entry /\ Changed(row, c).label = l /\ Changed(row, c).system = row.system
    BY <1>1, <2>1, <2>2 DEF Entry
  <2>4. QED
    BY <1>1, <2>2, <2>3
<1>2. CASE c.kind = "switch"
  <2>1. Changed(row, c) = [row EXCEPT !.active = c.arg]
    BY <1>2 DEF Changed
  <2>2. PICK b : b = c.arg
    OBVIOUS
  <2>3. /\ Changed(row, c) \in Entry /\ Changed(row, c).label = row.label
        /\ Changed(row, c).system = row.system
    BY <1>2, <2>1, <2>2 DEF Entry
  <2>4. QED
    BY <1>2, <2>3
<1>3. QED
  BY <1>1, <1>2

\* The rows of a register.
LEMMA RowFacts ==
    ASSUME RegInv
    PROVE  /\ rows \in [Rows -> Entry \cup {None}]
           /\ \A r \in Rows : r \in There <=> rows[r] # None
           /\ \A r \in Rows : rows[r] # None => rows[r] \in Entry
           /\ decided = rows
BY DEF RegInv, RegTypeOK, There, ChangesKeepTheRest

\* An idle worker owes the registers nothing.
LEMMA RegIdle == RegCallOK(Idle) /\ RegCallOK(Idle)'
BY RegKindFacts, IdleCall DEF RegCallOK, RegKinds

\* What the rows, as they are, let the invariant say.
LEMMA RowsUnchanged ==
    ASSUME RegInv, UNCHANGED <<rows, decided>>,
           priced' \subseteq There, spent' \subseteq There \cap Of("expense"),
           sown' \subseteq Registers, strange' = {},
           \A g \in sown' : \E r \in Of(g) : rows[r] # None /\ rows[r].system /\ rows[r].label = Default,
           (\A v \in Workers : RegCallOK(call[v]))'
    PROVE  RegInv'
<1>1. RegTypeOK'
  BY DEF RegInv, RegTypeOK, There
<1>2. (spent \subseteq Of("expense"))' /\ ChangesKeepTheRest' /\ DefaultStays' /\ NoExpenseOnInactiveType'
  BY DEF RegInv, ChangesKeepTheRest, DefaultStays, NoExpenseOnInactiveType, Of
<1>3. QED
  BY <1>1, <1>2 DEF RegInv

\* A call that moves on while the rows stay as they are.
LEMMA RegCallsKept ==
    ASSUME CallsOK, RegInv, NEW w \in Workers, NEW c \in Call, Turn(w, c, {}), rows' = rows,
           RegCallOK(c)
    PROVE  (\A v \in Workers : RegCallOK(call[v]))'
<1>1. \A v \in Workers : call'[v] = IF v = w THEN c ELSE call[v]
  BY TurnFacts DEF Turn
<1>2. \A v \in Workers : RegCallOK(call[v])
  BY DEF RegInv
<1>3. SUFFICES ASSUME NEW v \in Workers
               PROVE  RegCallOK(call[v])'
  OBVIOUS
<1>4. PICK e : e = IF v = w THEN c ELSE call[v]
  OBVIOUS
<1>5. RegCallOK(e) /\ call'[v] = e
  BY <1>1, <1>2, <1>4
<1>6. QED
  BY <1>5 DEF RegCallOK, Of, Changed

LEMMA RegQuiet ==
    ASSUME CallsOK, RegInv, NEW w \in Workers, NEW c \in Call, Turn(w, c, {}), RegCallOK(c),
           UNCHANGED regvars
    PROVE  RegInv'
<1>1. UNCHANGED <<rows, priced, spent, decided, sown, strange>>
  BY DEF regvars
<1>2. (\A v \in Workers : RegCallOK(call[v]))'
  BY <1>1, RegCallsKept
<1>3. /\ priced' \subseteq There /\ spent' \subseteq There \cap Of("expense")
      /\ sown' \subseteq Registers /\ strange' = {}
      /\ \A g \in sown' : \E r \in Of(g) : rows[r] # None /\ rows[r].system /\ rows[r].label = Default
  BY <1>1 DEF RegInv, RegTypeOK, DefaultStays, NoExpenseOnInactiveType
<1>4. QED
  BY <1>1, <1>2, <1>3, RowsUnchanged

\* A call that ends, moves to another statement, or goes on with record c, and
\* changes nothing.
LEMMA RegEnds ==
    ASSUME CallsOK, RegInv, NEW w \in Workers, NEW kind \in RegKinds, NEW at,
           Ends(w, kind, at), NoFault, UNCHANGED regvars
    PROVE  CallsOK' /\ Within(RegKinds) /\ RegInv'
<1>1. CallsOK' /\ Within(RegKinds) /\ Turn(w, Idle, {})
  BY EndsOK, KindFacts
<1>2. RegInv'
  BY <1>1, IdleCall, RegIdle, RegQuiet
<1>3. QED
  BY <1>1, <1>2

LEMMA RegMoves ==
    ASSUME CallsOK, RegInv, NEW w \in Workers, NEW kind \in RegKinds, NEW at, NEW c \in Call,
           Moves(w, kind, at, c), c.kind = kind, c.at # "idle", RegCallOK(c),
           NoFault, UNCHANGED regvars
    PROVE  CallsOK' /\ Within(RegKinds) /\ RegInv'
<1>1. CallsOK' /\ Within(RegKinds) /\ Turn(w, c, {})
  BY MovesOK, KindFacts
<1>2. RegInv'
  BY <1>1, RegQuiet
<1>3. QED
  BY <1>1, <1>2

\* What a call that ends leaves of the others.
LEMMA EndedFacts ==
    ASSUME CallsOK, NEW w \in Workers, NEW others, Turn(w, Idle, others), NEW v \in Workers \ {w}
    PROVE  /\ call'[v].kind = call[v].kind /\ call'[v].at = call[v].at
           /\ call'[v].on = call[v].on /\ call'[v].arg = call[v].arg
           /\ call'[v].saw = call[v].saw
           /\ v \in others => call'[v].mixed = TRUE
           /\ v \notin others => call'[v] = call[v]
<1>1. PICK c \in Call : c = Idle
  BY IdleCall
<1>2. Turn(w, c, others)
  BY <1>1
<1>3. QED
  BY <1>2, TurnFacts

\* Calls that hold an image of a row learn that it was written; of the others, none
\* depends on it.
LEMMA HoldersLearn ==
    ASSUME CallsOK, RegInv, NEW w \in Workers, NEW r \in Rows, NEW others,
           others = Holding(r, w), Turn(w, Idle, others),
           NEW new \in Entry \cup {None}, new = None => r \notin Of("expense"),
           rows' = [rows EXCEPT ![r] = new]
    PROVE  (\A v \in Workers : RegCallOK(call[v]))'
<1>1. rows'[r] = new /\ \A s \in Rows \ {r} : rows'[s] = rows[s]
  BY RowFacts
<1>2. call'[w] = Idle
  BY DEF Turn
<1>3. \A v \in Workers \ {w} :
         /\ call'[v].kind = call[v].kind /\ call'[v].at = call[v].at
         /\ call'[v].on = call[v].on /\ call'[v].arg = call[v].arg
         /\ call'[v].saw = call[v].saw
         /\ v \in others => call'[v].mixed = TRUE
         /\ v \notin others => call'[v] = call[v]
  BY EndedFacts, ZenonT(60)
<1>4. SUFFICES ASSUME NEW v \in Workers
               PROVE  RegCallOK(call[v])'
  OBVIOUS
<1>5. CASE v = w
  BY <1>2, <1>5, RegIdle DEF RegCallOK, Of, Changed
<1>6. CASE v # w
  <2>1. PICK c : c = call[v]
    OBVIOUS
  <2>2. PICK d : d = call'[v]
    OBVIOUS
  <2>3. /\ d.kind = c.kind /\ d.at = c.at /\ d.on = c.on /\ d.arg = c.arg /\ d.saw = c.saw
        /\ v \in Holding(r, w) => d.mixed = TRUE
        /\ v \notin Holding(r, w) => d = c
    BY <1>3, <1>6, <2>1, <2>2
  <2>4. RegCallOK(c)
    BY <2>1 DEF RegInv
  <2>5. \/ d.mixed = TRUE
        \/ d = c /\ (c.on # r \/ c.at = "find" \/ c.kind \in {"add", "upsert", "unprice"}
                     \/ c.kind \notin RegKinds)
        \/ d = c /\ c.kind = "unspend"
    BY <1>6, <2>1, <2>3 DEF Holding, InFlight, RegKinds
  <2>6. \A row : Changed(row, d) = Changed(row, c)
    BY <2>3 DEF Changed
  <2>7. c.kind = "spend" => c.on \in Of("expense")
    BY <2>4 DEF RegCallOK
  <2>8. \A s \in Of("expense") : rows[s] \in Entry => rows'[s] \in Entry
    BY <1>1 DEF Of
  <2>9. d.kind = "seed" =>
           /\ d.arg \in Registers
           /\ d.at = "write" => /\ d.on \in Of(d.arg)
                                /\ d.saw \in Entry \cup {None}
                                /\ d.saw # None => d.saw.label = Default
                                /\ d.mixed \/ rows'[d.on] = d.saw
    BY <1>1, <2>3, <2>4, <2>5 DEF RegCallOK, RegKinds, Of
  <2>10. d.kind \in {"relabel", "switch"} =>
           /\ d.on \in Rows
           /\ d.at \in {"clash", "save"} =>
                  /\ d.saw \in Entry
                  /\ \/ d.mixed
                     \/ /\ rows'[d.on] \in Entry
                        /\ d.saw = Changed(rows'[d.on], d)
                        /\ rows'[d.on].system => d.saw.label = rows'[d.on].label
    BY <1>1, <2>3, <2>4, <2>5, <2>6 DEF RegCallOK, RegKinds
  <2>11. d.kind = "drop" =>
           /\ d.on \in Rows \ Of("expense")
           /\ d.at = "delete" => d.mixed \/ (rows'[d.on] \in Entry /\ ~rows'[d.on].system)
    BY <1>1, <2>3, <2>4, <2>5 DEF RegCallOK, RegKinds
  <2>12. d.kind = "spend" =>
           /\ d.on \in Of("expense")
           /\ d.at = "insert" => rows'[d.on] \in Entry /\ (d.mixed \/ rows'[d.on].active)
    BY <1>1, <2>3, <2>4, <2>5, <2>8 DEF RegCallOK, RegKinds, Of
  <2>13. /\ d.kind = "add" => d.on \in Rows /\ d.arg \in Labels
         /\ d.kind = "relabel" => d.arg \in Labels
         /\ d.kind = "switch" => d.arg \in BOOLEAN
         /\ d.kind \in {"upsert", "unprice"} => d.on \in Rows
    BY <2>3, <2>4 DEF RegCallOK
  <2>14. QED
    BY <2>2, <2>9, <2>10, <2>11, <2>12, <2>13 DEF RegCallOK, Of, Changed
<1>7. QED
  BY <1>5, <1>6

\* A row is written, under a label no other row of its register has.  It is what
\* was meant unless others came in between, and the default row of a register that
\* stays seeded is still there.
LEMMA WritesKeep ==
    ASSUME CallsOK, RegInv, NEW w \in Workers, NEW kind \in RegKinds, NEW at, NEW r \in Rows,
           NEW new \in Entry \cup {None}, NEW meant, Writes(w, kind, at, r, new, meant),
           call[w].mixed \/ meant = new,
           new # None => ~Taken(r, new.label) /\ priced' = priced,
           new = None => r \notin Of("expense") /\ priced' = priced \ {r},
           spent' = spent, strange' = strange, sown' \subseteq Registers,
           \A g \in sown' :
               \/ g = RegisterOf[r] /\ new # None /\ new.system /\ new.label = Default
               \/ /\ g \in sown
                  /\ g = RegisterOf[r] /\ rows[r] # None /\ rows[r].system /\ rows[r].label = Default
                         => new # None /\ new.system /\ new.label = Default
    PROVE  CallsOK' /\ Within(RegKinds) /\ RegInv'
<1>1. /\ MovesAmid(w, kind, at, Idle, Holding(r, w))
      /\ rows' = [rows EXCEPT ![r] = new] /\ NoFault
      /\ decided' = [decided EXCEPT ![r] = new]
  BY DEF Writes
<1>2. Holding(r, w) \subseteq {v \in Workers : call[v].kind \in RegKinds}
  BY DEF Holding, InFlight, RegKinds
<1>3. PICK others : others = Holding(r, w)
  OBVIOUS
<1>4. (\A v \in Workers : RegCallOK(call[v]))' /\ CallsOK' /\ Within(RegKinds)
  <2>1. /\ MovesAmid(w, kind, at, Idle, others)
        /\ others \subseteq {v \in Workers : call[v].kind \in RegKinds}
    BY <1>1, <1>2, <1>3
  <2>2. CallsOK' /\ Within(RegKinds) /\ Turn(w, Idle, others)
    BY <1>1, <2>1, AmidOK, IdleCall, KindFacts
  <2>3. QED
    BY <1>1, <1>3, <2>2, HoldersLearn
<1>5. /\ rows' \in [Rows -> Entry \cup {None}] /\ rows'[r] = new
      /\ \A s \in Rows \ {r} : rows'[s] = rows[s]
      /\ decided' = rows'
  BY <1>1, RowFacts
<1>6. There' = IF new = None THEN There \ {r} ELSE There \cup {r}
  BY <1>5 DEF There
<1>7. priced' \subseteq There' /\ spent' \subseteq There' /\ spent' \subseteq Of("expense")
  BY <1>6 DEF RegInv, RegTypeOK
<1>8. \A s, t \in There' : RegisterOf[s] = RegisterOf[t] /\ rows'[s].label = rows'[t].label => s = t
  <2> SUFFICES ASSUME NEW s \in There', NEW t \in There', s # t,
                      RegisterOf[s] = RegisterOf[t], rows'[s].label = rows'[t].label
               PROVE  FALSE
    OBVIOUS
  <2>1. s \in Rows /\ t \in Rows
    BY <1>5 DEF There
  <2>2. ASSUME NEW u \in Rows, u # r, u \in There', RegisterOf[u] = RegisterOf[r], r \in There',
               rows'[u].label = rows'[r].label
        PROVE  FALSE
    <3>1. new # None /\ u \in There /\ rows[u].label = new.label
      BY <1>5, <1>6, <2>2
    <3>2. u \in Takers(RegisterOf[r], new.label) \ {r}
      BY <2>2, <3>1 DEF Takers, Of
    <3>3. QED
      BY <3>1, <3>2 DEF Taken
  <2>3. CASE s = r
    BY <2>1, <2>2, <2>3
  <2>4. CASE t = r
    BY <2>1, <2>2, <2>4
  <2>5. CASE s # r /\ t # r
    BY <1>5, <1>6, <2>1, <2>5 DEF RegInv, RegTypeOK
  <2>6. QED
    BY <2>3, <2>4, <2>5
<1>9. RegTypeOK'
  BY <1>5, <1>7, <1>8 DEF RegInv, RegTypeOK
<1>10. DefaultStays'
  <2> SUFFICES ASSUME NEW g \in sown'
               PROVE  \E s \in Of(g) : rows'[s] # None /\ rows'[s].system /\ rows'[s].label = Default
    BY DEF DefaultStays, Of
  <2>1. CASE g = RegisterOf[r] /\ new # None /\ new.system /\ new.label = Default
    BY <1>5, <2>1 DEF Of
  <2>2. CASE /\ g \in sown
             /\ g = RegisterOf[r] /\ rows[r] # None /\ rows[r].system /\ rows[r].label = Default
                    => new # None /\ new.system /\ new.label = Default
    <3>1. PICK s \in Of(g) : rows[s] # None /\ rows[s].system /\ rows[s].label = Default
      BY <2>2 DEF RegInv, DefaultStays
    <3>2. s \in Rows /\ RegisterOf[s] = g
      BY <3>1 DEF Of
    <3>3. QED
      BY <1>5, <2>2, <3>1, <3>2
  <2>3. QED
    BY <2>1, <2>2
<1>11. ChangesKeepTheRest' /\ NoExpenseOnInactiveType'
  BY <1>5 DEF RegInv, ChangesKeepTheRest, NoExpenseOnInactiveType
<1>12. QED
  BY <1>4, <1>7, <1>9, <1>10, <1>11 DEF RegInv, Of

\* A seed marks the row it has found, or one to be inserted, unless it is marked.
LEMMA FindDefaultStep ==
    ASSUME CallsOK, RegInv, NEW w \in Workers, NEW r \in Rows, FindDefault(w, r)
    PROVE  CallsOK' /\ Within(RegKinds) /\ RegInv'
<1>1. PICK d : d = call[w]
  OBVIOUS
<1>2. d \in Call /\ d.kind = "seed" /\ d.at = "find" /\ d.arg \in Registers
  BY <1>1 DEF CallsOK, RegInv, RegCallOK, FindDefault, At
<1>3. /\ NoFault /\ UNCHANGED <<rows, priced, spent, decided, strange>>
      /\ r \in IF Takers(d.arg, Default) = {} THEN Of(d.arg) \ There ELSE Takers(d.arg, Default)
  BY <1>1 DEF FindDefault
<1>4. r \in Of(d.arg) /\ (rows[r] # None => rows[r].label = Default)
  BY <1>3 DEF Takers, There
<1>5. CASE rows[r] # None /\ rows[r].system
  <2>1. Ends(w, "seed", "find") /\ sown' = sown \cup {d.arg}
    BY <1>1, <1>5 DEF FindDefault
  <2>2. CallsOK' /\ Within(RegKinds) /\ Turn(w, Idle, {})
    BY <1>3, <2>1, EndsOK, KindFacts, RegKindFacts
  <2>3. (\A v \in Workers : RegCallOK(call[v]))'
    BY <1>3, <2>2, IdleCall, RegIdle, RegCallsKept
  <2>4. /\ priced' \subseteq There /\ spent' \subseteq There \cap Of("expense")
        /\ sown' \subseteq Registers /\ strange' = {}
        /\ \A g \in sown' : \E s \in Of(g) : rows[s] # None /\ rows[s].system /\ rows[s].label = Default
    BY <1>2, <1>3, <1>4, <1>5, <2>1 DEF RegInv, RegTypeOK, DefaultStays, NoExpenseOnInactiveType
  <2>5. RegInv'
    BY <1>3, <2>3, <2>4, RowsUnchanged
  <2>6. QED
    BY <2>2, <2>5
<1>6. CASE ~(rows[r] # None /\ rows[r].system)
  <2>1. PICK c : c = [d EXCEPT !.at = "write", !.on = r, !.saw = rows[r]]
    OBVIOUS
  <2>2. Moves(w, "seed", "find", c) /\ UNCHANGED regvars
    BY <1>1, <1>3, <1>6, <2>1 DEF FindDefault, regvars
  <2>3. r \in Subjects /\ rows[r] \in Readings /\ rows[r] \in Entry \cup {None}
    BY RowFacts DEF Subjects, Readings
  <2>4. /\ c \in Call /\ c.kind = "seed" /\ c.at = "write" /\ c.on = r /\ c.saw = rows[r]
        /\ c.arg = d.arg
    BY <1>2, <2>1, <2>3, AtFacts DEF Call
  <2>5. RegCallOK(c)
    BY <1>2, <1>4, <2>3, <2>4 DEF RegCallOK
  <2>6. QED
    BY <1>3, <2>2, <2>4, <2>5, RegMoves, RegKindFacts
<1>7. QED
  BY <1>5, <1>6

\* A seed saves the row as it found it, marked, or inserts it; the index on labels
\* may refuse either.
LEMMA SowDefaultStep ==
    ASSUME CallsOK, RegInv, NEW w \in Workers, SowDefault(w)
    PROVE  CallsOK' /\ Within(RegKinds) /\ RegInv'
<1>1. PICK d : d = call[w]
  OBVIOUS
<1>2. d \in Call /\ d.kind = "seed" /\ d.at = "write" /\ RegCallOK(d)
  BY <1>1 DEF CallsOK, RegInv, SowDefault, At
<1>3. /\ d.arg \in Registers /\ d.on \in Of(d.arg) /\ d.saw \in Entry \cup {None}
      /\ d.saw # None => d.saw.label = Default
      /\ d.mixed \/ rows[d.on] = d.saw
  BY <1>2 DEF RegCallOK
<1>4. PICK r : r = d.on
  OBVIOUS
<1>5. r \in Rows /\ RegisterOf[r] = d.arg
  BY <1>3, <1>4 DEF Of
<1>6. PICK fresh : fresh = [label |-> Default, active |-> TRUE, system |-> TRUE]
  OBVIOUS
<1>7. PICK new : new = IF d.saw = None THEN fresh ELSE [d.saw EXCEPT !.system = TRUE]
  OBVIOUS
<1>8. fresh \in Entry /\ fresh.label = Default /\ fresh.system
  BY <1>6, RegisterAssumption DEF Entry
<1>9. new \in Entry /\ new.label = Default /\ new.system
  <2>1. CASE d.saw = None
    BY <1>7, <1>8, <2>1
  <2>2. CASE d.saw # None
    <3>1. d.saw \in Entry
      BY <1>3, <2>2
    <3>2. new = [d.saw EXCEPT !.system = TRUE]
      BY <1>7, <2>2
    <3>3. QED
      BY <1>3, <2>2, <3>1, <3>2 DEF Entry
  <2>3. QED
    BY <2>1, <2>2
<1>10. PICK meant : meant = IF decided[r] = None THEN new ELSE [decided[r] EXCEPT !.system = TRUE]
  OBVIOUS
<1>11. UNCHANGED <<priced, spent, strange>>
  BY DEF SowDefault
<1>12. CASE Taken(r, new.label) \/ (d.saw = None /\ rows[r] # None)
  <2>1. Ends(w, "seed", "write") /\ NoFault /\ UNCHANGED regvars
    BY <1>1, <1>4, <1>6, <1>7, <1>11, <1>12 DEF SowDefault, regvars
  <2>2. QED
    BY <2>1, RegEnds, RegKindFacts
<1>13. CASE ~(Taken(r, new.label) \/ (d.saw = None /\ rows[r] # None))
  <2>1. /\ Writes(w, "seed", "write", r, new, meant)
        /\ sown' = IF new.label = Default THEN sown \cup {d.arg} ELSE sown
    BY <1>1, <1>4, <1>6, <1>7, <1>10, <1>13 DEF SowDefault
  <2>2. call[w].mixed \/ meant = new
    <3>1. SUFFICES ASSUME ~d.mixed
                   PROVE  meant = new
      BY <1>1
    <3>2. decided[r] = d.saw
      BY <1>3, <1>4, <3>1, RowFacts
    <3>3. QED
      BY <1>7, <1>10, <3>2
  <2>3. sown' = sown \cup {RegisterOf[r]} /\ sown' \subseteq Registers
    BY <1>3, <1>5, <1>9, <2>1 DEF RegInv, RegTypeOK
  <2>4. new # None
    BY <1>9, RegisterAssumption
  <2>5. \A g \in sown' :
           \/ g = RegisterOf[r] /\ new # None /\ new.system /\ new.label = Default
           \/ /\ g \in sown
              /\ g = RegisterOf[r] /\ rows[r] # None /\ rows[r].system /\ rows[r].label = Default
                     => new # None /\ new.system /\ new.label = Default
    BY <1>9, <2>3, <2>4
  <2>6. QED
    BY <1>5, <1>9, <1>11, <1>13, <2>1, <2>2, <2>3, <2>4, <2>5, RegKindFacts, WritesKeep
<1>14. QED
  BY <1>12, <1>13

\* create: the label is checked, then the row inserted.
LEMMA CheckLabelStep ==
    ASSUME CallsOK, RegInv, NEW w \in Workers, CheckLabel(w)
    PROVE  CallsOK' /\ Within(RegKinds) /\ RegInv'
<1>1. PICK d : d = call[w]
  OBVIOUS
<1>2. d \in Call /\ d.kind = "add" /\ RegCallOK(d) /\ NoFault /\ UNCHANGED regvars
  BY <1>1 DEF CallsOK, RegInv, CheckLabel, At
<1>3. CASE Taken(d.on, d.arg)
  <2>1. Ends(w, "add", "find")
    BY <1>1, <1>3 DEF CheckLabel
  <2>2. QED
    BY <1>2, <2>1, RegEnds, RegKindFacts
<1>4. CASE ~Taken(d.on, d.arg)
  <2>1. PICK c : c = [d EXCEPT !.at = "insert"]
    OBVIOUS
  <2>2. Moves(w, "add", "find", c)
    BY <1>1, <1>4, <2>1 DEF CheckLabel, Goes
  <2>3. c \in Call /\ c.kind = "add" /\ c.at = "insert" /\ c.on = d.on /\ c.arg = d.arg
    BY <1>2, <2>1, Gone, AtFacts
  <2>4. RegCallOK(c)
    BY <1>2, <2>3 DEF RegCallOK
  <2>5. QED
    BY <1>2, <2>2, <2>3, <2>4, RegMoves, RegKindFacts
<1>5. QED
  BY <1>3, <1>4

LEMMA InsertRowStep ==
    ASSUME CallsOK, RegInv, NEW w \in Workers, InsertRow(w)
    PROVE  CallsOK' /\ Within(RegKinds) /\ RegInv'
<1>1. PICK d : d = call[w]
  OBVIOUS
<1>2. PICK r : r = d.on
  OBVIOUS
<1>3. d \in Call /\ d.kind = "add" /\ r \in Rows /\ d.arg \in Labels
  BY <1>1, <1>2 DEF CallsOK, RegInv, RegCallOK, InsertRow, At
<1>4. PICK new : new = [label |-> d.arg, active |-> TRUE, system |-> FALSE]
  OBVIOUS
<1>5. new \in Entry /\ new.label = d.arg /\ new # None
  <2>1. new \in Entry
    BY <1>3, <1>4 DEF Entry
  <2>2. new.label = d.arg
    BY <1>4
  <2>3. QED
    BY <2>1, <2>2, EntryFacts
<1>6. UNCHANGED <<priced, spent, sown, strange>>
  BY DEF InsertRow
<1>7. CASE Taken(r, d.arg) \/ rows[r] # None
  <2>1. Ends(w, "add", "insert") /\ NoFault /\ UNCHANGED regvars
    BY <1>1, <1>2, <1>6, <1>7 DEF InsertRow, regvars
  <2>2. QED
    BY <2>1, RegEnds, RegKindFacts
<1>8. CASE ~(Taken(r, d.arg) \/ rows[r] # None)
  <2>1. Writes(w, "add", "insert", r, new, new)
    BY <1>1, <1>2, <1>4, <1>8 DEF InsertRow
  <2>2. /\ sown' \subseteq Registers
        /\ \A g \in sown' : g \in sown /\ rows[r] = None
    BY <1>6, <1>8 DEF RegInv, RegTypeOK
  <2>3. QED
    BY <1>3, <1>5, <1>6, <1>8, <2>1, <2>2, RegKindFacts, WritesKeep
<1>9. QED
  BY <1>7, <1>8

\* update and delete find the row, and may refuse.
LEMMA FindRowStep ==
    ASSUME CallsOK, RegInv, NEW w \in Workers, NEW kind \in Changes, FindRow(w, kind)
    PROVE  CallsOK' /\ Within(RegKinds) /\ RegInv'
<1>1. PICK d : d = call[w]
  OBVIOUS
<1>2. PICK row : row = rows[d.on]
  OBVIOUS
<1>3. PICK refused : refused = (\/ row = None
                                \/ kind = "relabel" /\ ~MayRelabel(row, d.arg)
                                \/ kind = "drop" /\ row.system)
  OBVIOUS
<1>4. /\ d \in Call /\ d.kind = kind /\ d.at = "find" /\ RegCallOK(d)
      /\ NoFault /\ UNCHANGED regvars
  BY <1>1 DEF CallsOK, RegInv, FindRow, At
<1>5. kind \in RegKinds /\ kind \in {"relabel", "switch", "drop"}
  BY RegKindFacts DEF Changes
<1>6. d.on \in Rows /\ row \in Entry \cup {None}
  BY <1>2, <1>4, <1>5, RowFacts DEF RegCallOK
<1>7. CASE refused
  <2>1. Ends(w, kind, "find")
    BY <1>1, <1>2, <1>3, <1>7 DEF FindRow
  <2>2. QED
    BY <1>4, <1>5, <2>1, RegEnds
<1>8. CASE ~refused /\ kind = "drop"
  <2>1. PICK c : c = [d EXCEPT !.at = "delete"]
    OBVIOUS
  <2>2. Moves(w, kind, "find", c) /\ row \in Entry /\ ~row.system
    BY <1>1, <1>2, <1>3, <1>6, <1>8, <2>1 DEF FindRow, Goes
  <2>3. c \in Call /\ c.kind = "drop" /\ c.at = "delete" /\ c.on = d.on
    BY <1>4, <1>8, <2>1, Gone, AtFacts
  <2>4. RegCallOK(c)
    BY <1>2, <1>4, <1>8, <2>2, <2>3 DEF RegCallOK
  <2>5. QED
    BY <1>4, <1>5, <1>8, <2>2, <2>3, <2>4, RegMoves
<1>9. CASE ~refused /\ kind # "drop"
  <2>1. PICK new : new = Changed(row, d)
    OBVIOUS
  <2>2. PICK at : at = IF kind = "relabel" /\ d.arg # row.label THEN "clash" ELSE "save"
    OBVIOUS
  <2>3. PICK c : c = [d EXCEPT !.saw = new, !.at = at]
    OBVIOUS
  <2>4. Moves(w, kind, "find", c) /\ row \in Entry
    BY <1>1, <1>2, <1>3, <1>6, <1>9, <2>1, <2>2, <2>3 DEF FindRow
  <2>5. /\ new \in Entry
        /\ new.label = IF kind = "relabel" THEN d.arg ELSE row.label
    <3>1. /\ d.kind = "relabel" => d.arg \in Labels
          /\ d.kind = "switch" => d.arg \in BOOLEAN
          /\ d.kind \in {"relabel", "switch"}
      BY <1>4, <1>5, <1>9 DEF RegCallOK
    <3>2. QED
      BY <1>4, <2>1, <2>4, <3>1, ChangedFacts
  <2>6. row.system => new.label = row.label
    BY <1>3, <1>9, <2>5 DEF MayRelabel
  <2>7. at \in Statements /\ at \in {"clash", "save"} /\ new \in Readings
    BY <2>2, <2>5, AtFacts DEF Readings
  <2>8. /\ c \in Call /\ c.kind = kind /\ c.at = at /\ c.on = d.on /\ c.arg = d.arg
        /\ c.saw = new
    BY <1>4, <2>3, <2>7 DEF Call
  <2>9. Changed(row, c) = new
    BY <1>4, <2>1, <2>8 DEF Changed
  <2>10. kind \in {"relabel", "switch"}
    BY <1>5, <1>9
  <2>11. RegCallOK(c)
    BY <1>2, <1>4, <1>6, <2>4, <2>5, <2>6, <2>7, <2>8, <2>9, <2>10 DEF RegCallOK
  <2>12. QED
    BY <1>4, <1>5, <2>4, <2>7, <2>8, <2>11, RegMoves
<1>10. QED
  BY <1>7, <1>8, <1>9

LEMMA CheckClashStep ==
    ASSUME CallsOK, RegInv, NEW w \in Workers, CheckClash(w)
    PROVE  CallsOK' /\ Within(RegKinds) /\ RegInv'
<1>1. PICK d : d = call[w]
  OBVIOUS
<1>2. /\ d \in Call /\ d.kind = "relabel" /\ d.at = "clash" /\ RegCallOK(d)
      /\ NoFault /\ UNCHANGED regvars
  BY <1>1 DEF CallsOK, RegInv, CheckClash, At
<1>3. CASE Taken(d.on, d.arg)
  <2>1. Ends(w, "relabel", "clash")
    BY <1>1, <1>3 DEF CheckClash
  <2>2. QED
    BY <1>2, <2>1, RegEnds, RegKindFacts
<1>4. CASE ~Taken(d.on, d.arg)
  <2>1. PICK c : c = [d EXCEPT !.at = "save"]
    OBVIOUS
  <2>2. Moves(w, "relabel", "clash", c)
    BY <1>1, <1>4, <2>1 DEF CheckClash, Goes
  <2>3. /\ c \in Call /\ c.kind = "relabel" /\ c.at = "save" /\ c.on = d.on /\ c.arg = d.arg
        /\ c.saw = d.saw /\ c.mixed = d.mixed
    BY <1>2, <2>1, Gone, AtFacts
  <2>4. Changed(rows[c.on], c) = Changed(rows[d.on], d)
    BY <1>2, <2>3 DEF Changed
  <2>5. RegCallOK(c)
    BY <1>2, <2>3, <2>4 DEF RegCallOK
  <2>6. QED
    BY <1>2, <2>2, <2>3, <2>5, RegMoves, RegKindFacts
<1>5. QED
  BY <1>3, <1>4

\* update saves the whole row it read, changed; a row that is gone is inserted
\* again, and the index on labels may refuse it.
LEMMA SaveRowStep ==
    ASSUME CallsOK, RegInv, NEW w \in Workers, NEW kind \in Changes, SaveRow(w, kind)
    PROVE  CallsOK' /\ Within(RegKinds) /\ RegInv'
<1>1. PICK d : d = call[w]
  OBVIOUS
<1>2. PICK r : r = d.on
  OBVIOUS
<1>3. PICK new : new = d.saw
  OBVIOUS
<1>4. kind \in RegKinds /\ kind \in {"relabel", "switch"}
  BY RegKindFacts DEF SaveRow
<1>5. d \in Call /\ d.kind = kind /\ d.at = "save" /\ RegCallOK(d)
  BY <1>1 DEF CallsOK, RegInv, SaveRow, At
<1>6. /\ r \in Rows /\ new \in Entry
      /\ \/ d.mixed
         \/ /\ rows[r] \in Entry /\ new = Changed(rows[r], d)
            /\ rows[r].system => new.label = rows[r].label
  BY <1>2, <1>3, <1>4, <1>5 DEF RegCallOK
<1>7. UNCHANGED <<priced, spent, strange>>
  BY DEF SaveRow
<1>8. CASE Taken(r, new.label)
  <2>1. Ends(w, kind, "save") /\ NoFault /\ UNCHANGED regvars
    BY <1>1, <1>2, <1>3, <1>7, <1>8 DEF SaveRow, Image, regvars
  <2>2. QED
    BY <1>4, <2>1, RegEnds
<1>9. CASE ~Taken(r, new.label)
  <2>1. PICK meant : meant = IF decided[r] = None THEN None ELSE Changed(decided[r], d)
    OBVIOUS
  <2>2. /\ Writes(w, kind, "save", r, new, meant)
        /\ sown' = IF d.mixed /\ rows[r] # None /\ rows[r].system
                   THEN sown \ {RegisterOf[r]} ELSE sown
    BY <1>1, <1>2, <1>3, <1>9, <2>1 DEF SaveRow, Image
  <2>3. new # None
    BY <1>6, EntryFacts
  <2>4. call[w].mixed \/ meant = new
    <3>1. SUFFICES ASSUME ~d.mixed
                   PROVE  meant = new
      BY <1>1
    <3>2. decided[r] = rows[r] /\ rows[r] # None
      BY <1>6, <3>1, RowFacts, EntryFacts
    <3>3. QED
      BY <1>6, <2>1, <3>1, <3>2
  <2>5. sown' \subseteq sown /\ sown' \subseteq Registers
    BY <2>2 DEF RegInv, RegTypeOK
  <2>6. ASSUME NEW g \in sown', g = RegisterOf[r], rows[r] # None, rows[r].system, rows[r].label = Default
        PROVE  new.system /\ new.label = Default
    <3>1. ~d.mixed
      BY <2>2, <2>6
    <3>2. new = Changed(rows[r], d) /\ rows[r] \in Entry /\ new.label = Default
      BY <1>6, <2>6, <3>1
    <3>3. /\ d.kind = "relabel" => d.arg \in Labels
          /\ d.kind = "switch" => d.arg \in BOOLEAN
          /\ d.kind \in {"relabel", "switch"}
      BY <1>4, <1>5 DEF RegCallOK
    <3>4. new.system = rows[r].system
      BY <3>2, <3>3, ChangedFacts
    <3>5. QED
      BY <2>6, <3>2, <3>4
  <2>7. \A g \in sown' :
           /\ g \in sown
           /\ g = RegisterOf[r] /\ rows[r] # None /\ rows[r].system /\ rows[r].label = Default
                  => new # None /\ new.system /\ new.label = Default
    BY <2>3, <2>5, <2>6
  <2>8. QED
    BY <1>4, <1>6, <1>7, <1>9, <2>2, <2>3, <2>4, <2>5, <2>7, WritesKeep
<1>10. QED
  BY <1>8, <1>9

\* delete removes the row, and its price with it.
LEMMA DeleteRowStep ==
    ASSUME CallsOK, RegInv, NEW w \in Workers, DeleteRow(w)
    PROVE  CallsOK' /\ Within(RegKinds) /\ RegInv'
<1>1. PICK d : d = call[w]
  OBVIOUS
<1>2. PICK r : r = d.on
  OBVIOUS
<1>3. /\ Writes(w, "drop", "delete", r, None, None)
      /\ priced' = priced \ {r}
      /\ sown' = IF d.mixed THEN sown \ {RegisterOf[r]} ELSE sown
      /\ UNCHANGED <<spent, strange>>
  BY <1>1, <1>2 DEF DeleteRow
<1>4. d.kind = "drop" /\ d.at = "delete" /\ RegCallOK(d)
  BY <1>1, <1>3 DEF RegInv, Writes, MovesAmid, At
<1>5. /\ r \in Rows \ Of("expense")
      /\ d.mixed \/ (rows[r] \in Entry /\ ~rows[r].system)
  BY <1>2, <1>4 DEF RegCallOK
<1>6. sown' \subseteq sown /\ sown' \subseteq Registers
  BY <1>3 DEF RegInv, RegTypeOK
<1>7. \A g \in sown' : g \in sown /\ (g = RegisterOf[r] => ~rows[r].system)
  BY <1>3, <1>5, <1>6
<1>8. QED
  BY <1>3, <1>5, <1>6, <1>7, RegKindFacts, WritesKeep

\* Prices and expenses: the rows stay as they are.
LEMMA ReferencesKept ==
    ASSUME CallsOK, RegInv, NEW w \in Workers, NEW kind \in RegKinds, NEW at,
           Ends(w, kind, at), NoFault, UNCHANGED <<rows, decided, sown>>,
           priced' \subseteq There, spent' \subseteq There \cap Of("expense"), strange' = {}
    PROVE  CallsOK' /\ Within(RegKinds) /\ RegInv'
<1>1. CallsOK' /\ Within(RegKinds) /\ Turn(w, Idle, {})
  BY EndsOK, KindFacts
<1>2. (\A v \in Workers : RegCallOK(call[v]))'
  BY <1>1, IdleCall, RegIdle, RegCallsKept
<1>3. /\ sown' \subseteq Registers
      /\ \A g \in sown' : \E r \in Of(g) : rows[r] # None /\ rows[r].system /\ rows[r].label = Default
  BY DEF RegInv, RegTypeOK, DefaultStays
<1>4. RegInv'
  BY <1>2, <1>3, RowsUnchanged
<1>5. QED
  BY <1>1, <1>4

LEMMA PriceSteps ==
    ASSUME CallsOK, RegInv, NEW w \in Workers, SavePrice(w) \/ DeletePrice(w)
    PROVE  CallsOK' /\ Within(RegKinds) /\ RegInv'
<1>1. /\ priced \subseteq There /\ spent \subseteq There \cap Of("expense") /\ strange = {}
  BY DEF RegInv, RegTypeOK, NoExpenseOnInactiveType
<1>2. CASE SavePrice(w)
  <2>1. /\ Ends(w, "upsert", "save") /\ NoFault /\ UNCHANGED <<rows, spent, decided, sown, strange>>
        /\ priced' \subseteq There
    BY <1>1, <1>2 DEF SavePrice
  <2>2. QED
    BY <1>1, <2>1, RegKindFacts, ReferencesKept
<1>3. CASE DeletePrice(w)
  <2>1. /\ Ends(w, "unprice", "delete") /\ NoFault /\ UNCHANGED <<rows, spent, decided, sown, strange>>
        /\ priced' \subseteq There
    BY <1>1, <1>3 DEF DeletePrice
  <2>2. QED
    BY <1>1, <2>1, RegKindFacts, ReferencesKept
<1>4. QED
  BY <1>2, <1>3

LEMMA ExpenseSteps ==
    ASSUME CallsOK, RegInv, NEW w \in Workers, InsertExpense(w) \/ DeleteExpense(w)
    PROVE  CallsOK' /\ Within(RegKinds) /\ RegInv'
<1>1. /\ priced \subseteq There /\ spent \subseteq There \cap Of("expense") /\ strange = {}
  BY DEF RegInv, RegTypeOK, NoExpenseOnInactiveType
<1>2. PICK d : d = call[w]
  OBVIOUS
<1>3. CASE InsertExpense(w)
  <2>1. /\ Ends(w, "spend", "insert") /\ NoFault /\ UNCHANGED <<rows, priced, decided, sown>>
        /\ spent' = spent \cup {d.on}
        /\ strange' = IF rows[d.on].active \/ d.mixed THEN strange ELSE strange \cup {d.on}
    BY <1>2, <1>3 DEF InsertExpense
  <2>2. d.kind = "spend" /\ d.at = "insert"
    BY <1>2, <2>1 DEF Ends, Moves, At
  <2>3. /\ d.on \in Of("expense") /\ rows[d.on] \in Entry
        /\ d.mixed \/ rows[d.on].active
    BY <1>2, <2>2 DEF RegInv, RegCallOK
  <2>4. d.on \in There
    BY <2>3, RowFacts, EntryFacts DEF Of
  <2>5. strange' = {} /\ spent' \subseteq There \cap Of("expense")
    BY <1>1, <2>1, <2>3, <2>4
  <2>6. QED
    BY <1>1, <2>1, <2>5, RegKindFacts, ReferencesKept
<1>4. CASE DeleteExpense(w)
  <2>1. /\ Ends(w, "unspend", "delete") /\ NoFault /\ UNCHANGED <<rows, priced, decided, sown, strange>>
        /\ spent' \subseteq There \cap Of("expense")
    BY <1>1, <1>4 DEF DeleteExpense
  <2>2. QED
    BY <1>1, <2>1, RegKindFacts, ReferencesKept
<1>5. QED
  BY <1>3, <1>4

\* upsert looks for the price; createExpense for the type.
LEMMA FindPriceStep ==
    ASSUME CallsOK, RegInv, NEW w \in Workers, FindPrice(w)
    PROVE  CallsOK' /\ Within(RegKinds) /\ RegInv'
<1>1. PICK d : d = call[w]
  OBVIOUS
<1>2. PICK b : b = (d.on \in priced)
  OBVIOUS
<1>3. PICK c : c = [d EXCEPT !.at = "save", !.saw = b]
  OBVIOUS
<1>4. Moves(w, "upsert", "find", c) /\ NoFault /\ UNCHANGED regvars
  BY <1>1, <1>2, <1>3 DEF FindPrice
<1>5. d \in Call /\ d.kind = "upsert" /\ RegCallOK(d)
  BY <1>1, <1>4 DEF CallsOK, RegInv, Moves, At
<1>6. b \in Readings
  BY <1>2 DEF Readings
<1>7. c \in Call /\ c.kind = "upsert" /\ c.at = "save" /\ c.on = d.on
  BY <1>3, <1>5, <1>6, AtFacts DEF Call
<1>8. RegCallOK(c)
  BY <1>5, <1>7 DEF RegCallOK
<1>9. QED
  BY <1>4, <1>7, <1>8, RegMoves, RegKindFacts

LEMMA FindTypeStep ==
    ASSUME CallsOK, RegInv, NEW w \in Workers, FindType(w)
    PROVE  CallsOK' /\ Within(RegKinds) /\ RegInv'
<1>1. PICK d : d = call[w]
  OBVIOUS
<1>2. /\ d \in Call /\ d.kind = "spend" /\ RegCallOK(d) /\ d.on \in Of("expense")
      /\ NoFault /\ UNCHANGED regvars
  BY <1>1 DEF CallsOK, RegInv, FindType, At, RegCallOK
<1>3. CASE rows[d.on] # None /\ MaySpend(rows[d.on])
  <2>1. PICK c : c = [d EXCEPT !.at = "insert"]
    OBVIOUS
  <2>2. Moves(w, "spend", "find", c)
    BY <1>1, <1>3, <2>1 DEF FindType, Goes
  <2>3. c \in Call /\ c.kind = "spend" /\ c.at = "insert" /\ c.on = d.on
    BY <1>2, <2>1, Gone, AtFacts
  <2>4. rows[d.on] \in Entry /\ rows[d.on].active
    BY <1>2, <1>3, RowFacts DEF Of, MaySpend
  <2>5. RegCallOK(c)
    BY <1>2, <2>3, <2>4 DEF RegCallOK
  <2>6. QED
    BY <1>2, <2>2, <2>3, <2>5, RegMoves, RegKindFacts
<1>4. CASE ~(rows[d.on] # None /\ MaySpend(rows[d.on]))
  <2>1. Ends(w, "spend", "find")
    BY <1>1, <1>4 DEF FindType
  <2>2. QED
    BY <1>2, <2>1, RegEnds, RegKindFacts
<1>5. QED
  BY <1>3, <1>4

\* A request begins a call of a register.
LEMMA RegRequestStep ==
    ASSUME CallsOK, RegInv, NEW w \in Workers, RegRequest(w)
    PROVE  CallsOK' /\ Within(RegKinds) /\ RegInv'
<1>1. UNCHANGED regvars
  BY DEF RegRequest
<1>2. ASSUME NEW kind \in RegKinds, NEW at \in {"find", "delete"},
             NEW on \in Subjects, NEW arg \in Arguments, Begin(w, kind, at, on, arg),
             kind # "unprice" /\ kind # "unspend" => at = "find",
             kind = "seed" => arg \in Registers,
             kind \in {"add", "relabel", "switch", "upsert", "unprice"} => on \in Rows,
             kind \in {"add", "relabel"} => arg \in Labels,
             kind = "switch" => arg \in BOOLEAN,
             kind = "drop" => on \in Rows \ Of("expense"),
             kind = "spend" => on \in Of("expense")
      PROVE  CallsOK' /\ Within(RegKinds) /\ RegInv'
  <2>1. PICK c : c = NewCall(kind, at, on, arg)
    OBVIOUS
  <2>2. kind \in OfficeKinds /\ at \in Statements
    BY <1>2, AtFacts DEF OfficeKinds
  <2>3. c \in Call /\ c.kind = kind /\ c.at = at /\ c.on = on /\ c.arg = arg
    BY <1>2, <2>1, <2>2, NewCallFacts
  <2>4. CallsOK' /\ Within(RegKinds) /\ Turn(w, c, {})
    BY <1>2, <2>1, <2>3, BeginOK, KindFacts
  <2>5. RegCallOK(c)
    BY <1>2, <2>3 DEF RegCallOK
  <2>6. RegInv'
    BY <1>1, <2>3, <2>4, <2>5, RegQuiet
  <2>7. QED
    BY <2>4, <2>6
<1>3. None \in Subjects /\ None \in Arguments /\ Rows \subseteq Subjects
  BY DEF Subjects, Arguments
<1>4. Labels \subseteq Arguments /\ BOOLEAN \subseteq Arguments /\ Registers \subseteq Arguments
  BY DEF Arguments
<1>5. {"service", "expense"} \subseteq Registers /\ Of("expense") \subseteq Rows
  BY DEF Registers, Of
<1>6. ASSUME NEW register \in {"service", "expense"}, Begin(w, "seed", "find", None, register)
      PROVE  CallsOK' /\ Within(RegKinds) /\ RegInv'
  BY <1>2, <1>3, <1>4, <1>5, <1>6, RegKindFacts
<1>7. ASSUME NEW r \in Rows, NEW l \in Labels,
             Begin(w, "add", "find", r, l) \/ Begin(w, "relabel", "find", r, l)
      PROVE  CallsOK' /\ Within(RegKinds) /\ RegInv'
  BY <1>2, <1>3, <1>4, <1>7, RegKindFacts
<1>8. ASSUME NEW r \in Rows, NEW active \in BOOLEAN, Begin(w, "switch", "find", r, active)
      PROVE  CallsOK' /\ Within(RegKinds) /\ RegInv'
  BY <1>2, <1>3, <1>4, <1>8, RegKindFacts
<1>9. ASSUME NEW r \in Rows \ Of("expense"),
             \/ Begin(w, "drop", "find", r, None)
             \/ Begin(w, "upsert", "find", r, None)
             \/ Begin(w, "unprice", "delete", r, None)
      PROVE  CallsOK' /\ Within(RegKinds) /\ RegInv'
  BY <1>2, <1>3, <1>9, RegKindFacts
<1>10. ASSUME NEW r \in Of("expense"),
              Begin(w, "spend", "find", r, None) \/ Begin(w, "unspend", "delete", r, None)
       PROVE  CallsOK' /\ Within(RegKinds) /\ RegInv'
  BY <1>2, <1>3, <1>5, <1>10, RegKindFacts
<1>11. QED
  BY <1>6, <1>7, <1>8, <1>9, <1>10 DEF RegRequest

\* Every step of the registers.
LEMMA RegSteps ==
    ASSUME CallsOK, RegInv, NEW w \in Workers, RegRequest(w) \/ RegStep(w)
    PROVE  CallsOK' /\ Within(RegKinds) /\ RegInv'
<1>1. CASE RegRequest(w)
  BY <1>1, RegRequestStep
<1>2. ASSUME NEW r \in Rows, FindDefault(w, r)
      PROVE  CallsOK' /\ Within(RegKinds) /\ RegInv'
  BY <1>2, FindDefaultStep
<1>3. ASSUME NEW kind \in Changes, FindRow(w, kind) \/ SaveRow(w, kind)
      PROVE  CallsOK' /\ Within(RegKinds) /\ RegInv'
  BY <1>3, FindRowStep, SaveRowStep
<1>4. QED
  BY <1>1, <1>2, <1>3, SowDefaultStep, CheckLabelStep, InsertRowStep, CheckClashStep,
     DeleteRowStep, FindPriceStep, PriceSteps, FindTypeStep, ExpenseSteps DEF RegStep

\* The calls of the other components leave the registers alone.
LEMMA RegRests ==
    ASSUME CallsOK, RegInv, UNCHANGED regvars, NEW kinds, Within(kinds),
           \A k \in RegKinds : k \notin kinds
    PROVE  RegInv'
<1>1. UNCHANGED <<rows, priced, spent, decided, sown, strange>>
  BY DEF regvars
<1>2. \A v \in Workers : call'[v] = call[v] \/ call'[v].kind \notin RegKinds
  BY RegKindFacts DEF Within
<1>3. (\A v \in Workers : RegCallOK(call[v]))'
  <2> SUFFICES ASSUME NEW v \in Workers
               PROVE  RegCallOK(call[v])'
    OBVIOUS
  <2>1. RegCallOK(call[v])
    BY DEF RegInv
  <2>2. CASE call'[v] = call[v]
    BY <1>1, <2>1, <2>2 DEF RegCallOK, Of, Changed
  <2>3. CASE call'[v].kind \notin RegKinds
    BY <2>3 DEF RegCallOK, RegKinds
  <2>4. QED
    BY <1>2, <2>2, <2>3
<1>4. /\ priced' \subseteq There /\ spent' \subseteq There \cap Of("expense")
      /\ sown' \subseteq Registers /\ strange' = {}
      /\ \A g \in sown' : \E r \in Of(g) : rows[r] # None /\ rows[r].system /\ rows[r].label = Default
  BY <1>1 DEF RegInv, RegTypeOK, DefaultStays, NoExpenseOnInactiveType
<1>5. QED
  BY <1>1, <1>3, <1>4, RowsUnchanged

\* A restart forgets the calls and changes no row.
LEMMA RegRestarts ==
    ASSUME CallsOK, RegInv, Crash, UNCHANGED regvars
    PROVE  RegInv'
<1>1. \A v \in Workers : call'[v] = Idle
  BY DEF Crash
<1>2. UNCHANGED <<rows, priced, spent, decided, sown, strange>>
  BY DEF regvars
<1>3. (\A v \in Workers : RegCallOK(call[v]))'
  BY <1>1, IdleCall, RegKindFacts DEF RegCallOK, RegKinds
<1>4. /\ priced' \subseteq There /\ spent' \subseteq There \cap Of("expense")
      /\ sown' \subseteq Registers /\ strange' = {}
      /\ \A g \in sown' : \E r \in Of(g) : rows[r] # None /\ rows[r].system /\ rows[r].label = Default
  BY <1>2 DEF RegInv, RegTypeOK, DefaultStays, NoExpenseOnInactiveType
<1>5. QED
  BY <1>2, <1>3, <1>4, RowsUnchanged

-----------------------------------------------------------------------------
(* The back office. *)

\* One step of one component.
LEMMA BookTurns ==
    ASSUME OfficeInv, NEW w \in Workers, BookRequest(w) \/ BookStep(w),
           UNCHANGED <<noticevars, regvars>>
    PROVE  OfficeInv'
<1>1. CallsOK /\ BookInv /\ NoticeInv /\ RegInv /\ UNCHANGED noticevars /\ UNCHANGED regvars
  BY DEF OfficeInv
<1>2. CallsOK' /\ Within(BookKinds) /\ BookInv'
  BY <1>1, BookSteps
<1>3. NoticeInv' /\ RegInv'
  BY <1>1, <1>2, NoticeRests, RegRests, KindFacts
<1>4. QED
  BY <1>2, <1>3 DEF OfficeInv

LEMMA EntriesExpire ==
    ASSUME OfficeInv, NEW q \in Queries, Expire(q), UNCHANGED <<noticevars, regvars>>
    PROVE  OfficeInv'
<1>1. CallsOK /\ BookInv /\ NoticeInv /\ RegInv /\ UNCHANGED noticevars /\ UNCHANGED regvars
  BY DEF OfficeInv
<1>2. CallsOK' /\ Within(BookKinds) /\ BookInv'
  BY <1>1, ExpireStep
<1>3. NoticeInv' /\ RegInv'
  BY <1>1, <1>2, NoticeRests, RegRests, KindFacts
<1>4. QED
  BY <1>2, <1>3 DEF OfficeInv

LEMMA NoticeTurns ==
    ASSUME OfficeInv, NEW w \in Workers, NoticeRequest(w) \/ NoticeStep(w),
           UNCHANGED <<bookvars, regvars>>
    PROVE  OfficeInv'
<1>1. CallsOK /\ BookInv /\ NoticeInv /\ RegInv /\ UNCHANGED bookvars /\ UNCHANGED regvars
  BY DEF OfficeInv
<1>2. CallsOK' /\ Within(NoticeKinds) /\ NoticeInv'
  BY <1>1, NoticeSteps
<1>3. BookInv' /\ RegInv'
  BY <1>1, <1>2, BookRests, RegRests, KindFacts
<1>4. QED
  BY <1>2, <1>3 DEF OfficeInv

LEMMA RegTurns ==
    ASSUME OfficeInv, NEW w \in Workers, RegRequest(w) \/ RegStep(w),
           UNCHANGED <<bookvars, noticevars>>
    PROVE  OfficeInv'
<1>1. CallsOK /\ BookInv /\ NoticeInv /\ RegInv /\ UNCHANGED bookvars /\ UNCHANGED noticevars
  BY DEF OfficeInv
<1>2. CallsOK' /\ Within(RegKinds) /\ RegInv'
  BY <1>1, RegSteps
<1>3. BookInv' /\ NoticeInv'
  BY <1>1, <1>2, BookRests, NoticeRests, KindFacts
<1>4. QED
  BY <1>2, <1>3 DEF OfficeInv

\* The process stops and starts again.
LEMMA RestartStep ==
    ASSUME OfficeInv, Restart
    PROVE  OfficeInv'
<1>1. CallsOK /\ BookInv /\ NoticeInv /\ RegInv
  BY DEF OfficeInv
<1>2. Crash /\ BookRestart /\ NoticeRestart /\ UNCHANGED regvars
  BY DEF Restart
<1>3. BookInv' /\ NoticeInv' /\ RegInv'
  BY <1>1, <1>2, BookRestarts, NoticeRestarts, RegRestarts
<1>4. CallsOK'
  <2>1. call' = [w \in Workers |-> Idle] /\ calls' = calls /\ Fault
    BY <1>2 DEF Crash
  <2>2. call' \in [Workers -> Call]
    BY <2>1, IdleCall
  <2>3. faults' \in 0 .. MaxFaults
    BY <1>1, <2>1, FaultsBounded
  <2>4. QED
    BY <1>1, <2>1, <2>2, <2>3 DEF CallsOK
<1>5. QED
  BY <1>3, <1>4 DEF OfficeInv

\* The empty back office.
LEMMA OfficeStarts ==
    ASSUME OfficeInit
    PROVE  OfficeInv
<1>1. /\ call = [w \in Workers |-> Idle] /\ calls = 0 /\ faults = 0
      /\ BookInit /\ NoticeInit /\ RegInit
  BY DEF OfficeInit, CallsInit
<1>2. CallsOK
  BY <1>1, IdleCall, CallsAssumption DEF CallsOK
<1>3. \A w \in Workers : call[w] = Idle
  BY <1>1
<1>4. BookInv
  <2>1. BookTypeOK
    BY <1>1 DEF BookInit, BookTypeOK
  <2>2. DOMAIN cache = Queries /\ cache = [q \in Queries |-> cache[q]]
    BY <1>1 DEF BookInit
  <2>3. \A w \in Workers : BookCallOK(call[w])
    BY <1>3, IdleCall, KindFacts DEF BookCallOK
  <2>4. Apart
    BY <1>3, IdleCall, KindFacts DEF Apart
  <2>5. StaleOnlyWhenOvertaken /\ SharedCodeOnlyByOverlap
    BY <1>1 DEF BookInit, StaleOnlyWhenOvertaken, SharedCodeOnlyByOverlap, Known
  <2>6. QED
    BY <2>1, <2>2, <2>3, <2>4, <2>5 DEF BookInv
<1>5. NoticeInv
  <2>1. NoticeTypeOK
    <3>1. /\ settings = <<>> /\ channels = {"email"} /\ wanted = None /\ stray = FALSE
          /\ missed = {} /\ double = {}
          /\ status = [o \in CounterOrders |-> "IN_PROGRESS"]
          /\ log = [o \in CounterOrders |-> [c \in Channels |-> 0]]
      BY <1>1 DEF NoticeInit
    <3>2. settings \in Seq(SmsPrices \cup {None})
      BY <3>1
    <3>3. log \in [CounterOrders -> [Channels -> Nat]]
      BY <3>1
    <3>4. status \in [CounterOrders -> {"IN_PROGRESS", "READY"}]
      BY <3>1
    <3>5. channels \subseteq Channels
      BY <3>1 DEF Channels
    <3>6. wanted \in SmsPrices \cup {None} /\ stray \in BOOLEAN
      BY <3>1
    <3>7. QED
      BY <3>1, <3>2, <3>3, <3>4, <3>5, <3>6 DEF NoticeTypeOK
  <2>2. \A w \in Workers : NoticeCallOK(call[w])
    BY <1>3, NoticeIdle
  <2>3. settings = <<>> /\ wanted = None /\ ~stray
    BY <1>1 DEF NoticeInit
  <2>4. ConfiguredPriceIsRead
    BY <2>3 DEF ConfiguredPriceIsRead
  <2>5. \A o \in CounterOrders : AnnouncedOnce(o)
    BY <1>1, <1>3, NoticeIdle DEF NoticeInit, AnnouncedOnce
  <2>6. QED
    BY <2>1, <2>2, <2>3, <2>4, <2>5 DEF NoticeInv
<1>6. RegInv
  <2>1. /\ rows = [r \in Rows |-> None] /\ decided = rows
        /\ priced = {} /\ spent = {} /\ sown = {} /\ strange = {}
    BY <1>1 DEF RegInit
  <2>2. RegTypeOK
    BY <2>1 DEF RegTypeOK, There
  <2>3. \A w \in Workers : RegCallOK(call[w])
    BY <1>3, RegIdle
  <2>4. QED
    BY <2>1, <2>2, <2>3 DEF RegInv, ChangesKeepTheRest, DefaultStays, NoExpenseOnInactiveType
<1>7. QED
  BY <1>2, <1>4, <1>5, <1>6 DEF OfficeInv

\* What the invariant says of the properties.
LEMMA OfficeInvImplies ==
    ASSUME OfficeInv
    PROVE  OnlyOverlapsHarm
<1>1. CallsOK /\ BookInv /\ NoticeInv /\ RegInv
  BY DEF OfficeInv
<1>2. ASSUME NEW w \in Workers
      PROVE  /\ DOMAIN call[w] = DOMAIN Idle /\ call[w].mixed \in BOOLEAN
             /\ call[w].at = "idle" <=> call[w] = Idle
  <2>1. call[w] \in Call
    BY <1>1 DEF CallsOK
  <2>2. DOMAIN call[w] = DOMAIN Idle /\ call[w].mixed \in BOOLEAN
    BY <2>1, IdleCall DEF Call
  <2>3. call[w].at = "idle" <=> call[w] = Idle
    BY <1>1, IdleCall DEF CallsOK
  <2>4. QED
    BY <2>2, <2>3
<1>3. OfficeTypeOK
  BY <1>1, <1>2 DEF OfficeTypeOK, CallsOK, BookInv, NoticeInv, RegInv
<1>4. OneAnnouncement
  BY <1>1 DEF OneAnnouncement, NoticeInv, AnnouncedOnce
<1>5. QED
  BY <1>1, <1>3, <1>4 DEF OnlyOverlapsHarm, BookInv, NoticeInv, RegInv

\* The calls of the back office harm one another only where the exceptions of its
\* properties say that they overlapped: a search is stale only when it was overtaken,
\* a code shared only by clients inserted between check and insert, a price lost only
\* by a second row, an order announced twice only when two calls found it IN_PROGRESS,
\* and a register loses a change, its default row or its guard on expenses only to
\* another change of the row (client.service.ts, notification.service.ts, the three
\* registers).
THEOREM OverlapsOnly == OfficeSpec => []OnlyOverlapsHarm
<1>1. OfficeInit => OfficeInv
  BY OfficeStarts
<1>2. OfficeInv /\ [OfficeNext]_officevars => OfficeInv'
  <2>1. SUFFICES ASSUME OfficeInv, [OfficeNext]_officevars
                 PROVE  OfficeInv'
    OBVIOUS
  <2>2. CASE OfficeNext
    BY <2>1, <2>2, BookTurns, EntriesExpire, NoticeTurns, RegTurns, RestartStep DEF OfficeNext
  <2>3. CASE UNCHANGED officevars
    <3>1. /\ UNCHANGED <<call, calls, faults>> /\ UNCHANGED bookvars
          /\ UNCHANGED noticevars /\ UNCHANGED regvars
      BY <2>3 DEF officevars, callvars
    <3>2. CallsOK /\ BookInv /\ NoticeInv /\ RegInv
      BY <2>1 DEF OfficeInv
    <3>3. CallsOK' /\ Within({})
      BY <3>1, <3>2 DEF CallsOK, Within
    <3>4. BookInv' /\ NoticeInv' /\ RegInv'
      BY <3>1, <3>2, <3>3, BookRests, NoticeRests, RegRests
    <3>5. QED
      BY <3>3, <3>4 DEF OfficeInv
  <2>4. QED
    BY <2>1, <2>2, <2>3
<1>3. OfficeInv => OnlyOverlapsHarm
  BY OfficeInvImplies
<1>4. QED
  BY <1>1, <1>2, <1>3, PTL DEF OfficeSpec


-----------------------------------------------------------------------------
(* The order desk. *)

USE CentAssumption, ShelfAssumption, SessionAssumption, MoneyAssumption

-----------------------------------------------------------------------------
(* Types. *)

\* A price capped by what is handed over is an amount of money.
LEMMA CappedAmountType ==
    ASSUME NEW a \in Nat, NEW b \in Nat
    PROVE  CappedAmount(a, b) \in Nat /\ CappedAmount(a, b) <= b
BY DEF CappedAmount

\* Booking a payment keeps the three tables well typed.
LEMMA BookType ==
    ASSUME TypeOK, NEW o \in Orders, NEW k \in Sessions, NEW amount \in Nat,
           NEW cash \in BOOLEAN, Book(o, k, amount, cash)
    PROVE  /\ session' \in [Sessions -> SessionRow]
           /\ collected' \in [Orders -> Nat]
           /\ drawer' \in [Sessions -> Nat]
<1> DEFINE inDrawer == IF cash THEN amount ELSE 0
<1>1. inDrawer \in Nat
  OBVIOUS
<1>2. /\ collected' = [collected EXCEPT ![o] = @ + amount]
      /\ drawer' = [drawer EXCEPT ![k] = @ + inDrawer]
      /\ session' = [session EXCEPT ![k].expected = @ + inDrawer]
  BY DEF Book
<1> HIDE DEF inDrawer
<1>3. QED
  BY <1>1, <1>2 DEF TypeOK, SessionRow

\* The initial state and every request keep the tables well typed.
THEOREM TypeCorrect == Spec => []TypeOK
<1>1. Init => TypeOK
  BY DEF Init, TypeOK, OrderRow, SessionRow, NoOrder, PaymentStatus, SessionStatus,
         SlotStatus
<1>2. TypeOK /\ [Next]_vars => TypeOK'
  <2> SUFFICES ASSUME TypeOK, [Next]_vars
               PROVE  TypeOK'
    OBVIOUS
  <2> USE DEF TypeOK, OrderRow
  <2>1. ASSUME NEW o \in Orders, NEW price \in Prices, CreateOrder(o, price)
        PROVE  TypeOK'
    BY <2>1 DEF CreateOrder, OrderStatus, PaymentStatus
  <2>2. ASSUME NEW o \in Orders, NEW price \in Prices, NEW k \in Sessions,
               NEW initial \in Amounts, NEW cash \in Cash,
               CreateOrderPaying(o, price, k, initial, cash)
        PROVE  TypeOK'
    <3> DEFINE amount == CappedAmount(initial, price)
    <3>1. amount \in Nat
      BY CappedAmountType
    <3>2. SettledStatus(price, amount) \in PaymentStatus
      BY DEF SettledStatus, PaymentStatus
    <3>3. Book(o, k, amount, cash)
      BY <2>2 DEF CreateOrderPaying
    <3>4. /\ order' = [order EXCEPT ![o] =
                 [status |-> "CREATED", total |-> price, paid |-> amount,
                  pay |-> SettledStatus(price, amount)]]
          /\ UNCHANGED <<slot, stored>>
      BY <2>2 DEF CreateOrderPaying
    <3> HIDE DEF amount
    <3>5. order' \in [Orders -> OrderRow]
      BY <3>1, <3>2, <3>4 DEF OrderStatus
    <3>6. QED
      BY <3>1, <3>3, <3>4, <3>5, BookType
  <2>3. ASSUME NEW o \in Orders, NEW k \in Sessions, NEW amount \in Amounts,
               NEW cash \in Cash, Pay(o, k, amount, cash)
        PROVE  TypeOK'
    <3> DEFINE verdict == SettledStatus(order[o].total, order[o].paid + amount)
    <3>1. verdict \in PaymentStatus
      BY DEF SettledStatus, PaymentStatus
    <3> DEFINE row == [order[o] EXCEPT !.paid = order[o].paid + amount, !.pay = verdict]
    <3>2. /\ order' = [order EXCEPT ![o] = row]
          /\ Book(o, k, amount, cash)
          /\ UNCHANGED <<slot, stored>>
      BY <2>3 DEF Pay
    <3> HIDE DEF verdict
    <3>3. row \in OrderRow
      <4>1. order[o] \in OrderRow
        OBVIOUS
      <4>2. order[o].paid + amount \in Nat
        BY <4>1
      <4>3. QED
        BY <3>1, <4>1, <4>2
    <3> HIDE DEF row
    <3>4. order' \in [Orders -> OrderRow]
      BY <3>2, <3>3
    <3>5. QED
      BY <3>2, <3>3, <3>4, BookType
  <2>4. ASSUME NEW o \in Orders, StartProcessing(o)
        PROVE  TypeOK'
    BY <2>4 DEF StartProcessing, EmptyShelves, OrderStatus, SlotStatus
  <2>5. ASSUME NEW o \in Orders, NEW new \in OrderStatus, UpdateStatus(o, new)
        PROVE  TypeOK'
    BY <2>5 DEF UpdateStatus
  <2>6. ASSUME NEW o \in Orders, NEW s \in Slots, AssignOrderToSlot(o, s)
        PROVE  TypeOK'
    BY <2>6 DEF AssignOrderToSlot, SlotStatus, OrderStatus
  <2>7. ASSUME NEW o \in Orders, ReleaseOrder(o)
        PROVE  TypeOK'
    BY <2>7 DEF ReleaseOrder, EmptyShelves, SlotStatus
  <2>8. ASSUME NEW o \in Orders, ProcessDelivery(o)
        PROVE  TypeOK'
    BY <2>8 DEF ProcessDelivery, EmptyShelves, OrderStatus, SlotStatus
  <2>9. ASSUME NEW k \in Sessions, SessionRequest(k)
        PROVE  TypeOK'
    <3>1. UNCHANGED <<order, slot, stored, collected, drawer>>
      BY <2>9 DEF SessionRequest, OpenSession, CloseSession, RemitSession
    <3>2. session' \in [Sessions -> SessionRow]
      <4>1. PICK row \in SessionRow : session' = [session EXCEPT ![k] = row]
        <5> USE DEF SessionRow, SessionStatus
        <5>1. session[k] \in SessionRow /\ drawer[k] \in Nat
          OBVIOUS
        <5>2. CASE OpenSession(k)
          BY <5>2 DEF OpenSession
        <5>3. CASE CloseSession(k)
          <6> DEFINE row == [session[k] EXCEPT !.status = "CLOSED", !.expected = drawer[k]]
          <6>1. row \in SessionRow
            BY <5>1
          <6>2. session' = [session EXCEPT ![k] = row]
            BY <5>3 DEF CloseSession
          <6> HIDE DEF row
          <6>3. QED
            BY <6>1, <6>2
        <5>4. CASE RemitSession(k)
          <6> DEFINE row == [session[k] EXCEPT !.status = "REMITTED"]
          <6>1. row \in SessionRow
            BY <5>1
          <6>2. session' = [session EXCEPT ![k] = row]
            BY <5>4 DEF RemitSession
          <6>3. QED
            BY <6>1, <6>2
        <5>5. QED
          BY <2>9, <5>2, <5>3, <5>4 DEF SessionRequest
      <4>2. QED
        BY <4>1
    <3>3. QED
      BY <3>1, <3>2
  <2>10. CASE UNCHANGED vars
    BY <2>10 DEF vars
  <2>11. QED
    BY <2>1, <2>2, <2>3, <2>4, <2>5, <2>6, <2>7, <2>8, <2>9, <2>10
       DEF Next, OrderRequest
<1>3. QED
  BY <1>1, <1>2, PTL DEF Spec

-----------------------------------------------------------------------------
(* Shelves. *)

\* The four requests that move linen are the only ones that touch the shelves.
LEMMA ShelfMoves ==
    ASSUME [Next]_vars
    PROVE  \/ UNCHANGED <<slot, stored>>
           \/ \E o \in Orders : EmptyShelves(o)
           \/ \E o \in Orders, s \in Slots : AssignOrderToSlot(o, s)
<1>1. ASSUME NEW o \in Orders, OrderRequest(o)
      PROVE  \/ UNCHANGED <<slot, stored>>
             \/ EmptyShelves(o)
             \/ \E s \in Slots : AssignOrderToSlot(o, s)
  BY <1>1 DEF OrderRequest, CreateOrder, CreateOrderPaying, Pay, StartProcessing,
              UpdateStatus, ReleaseOrder, ProcessDelivery
<1>2. ASSUME NEW k \in Sessions, SessionRequest(k)
      PROVE  UNCHANGED <<slot, stored>>
  BY <1>2 DEF SessionRequest, OpenSession, CloseSession, RemitSession
<1>3. CASE UNCHANGED vars
  BY <1>3 DEF vars
<1>4. QED
  BY <1>1, <1>2, <1>3 DEF Next

\* Slot statuses mirror the records, one order to a slot and one slot to an
\* order: emptying removes both sides, an assignment adds a pair of free sides.
THEOREM ShelvesConsistent == Spec => []ShelfConsistent
<1>1. Init => ShelfConsistent
  BY DEF Init, ShelfConsistent, SlotMirrorsRecords, OneToOneShelves
<1>2. TypeOK /\ ShelfConsistent /\ [Next]_vars => ShelfConsistent'
  <2> SUFFICES ASSUME TypeOK, ShelfConsistent, [Next]_vars
               PROVE  ShelfConsistent'
    OBVIOUS
  <2>1. CASE UNCHANGED <<slot, stored>>
    BY <2>1 DEF ShelfConsistent, SlotMirrorsRecords, OneToOneShelves
  <2>2. ASSUME NEW o \in Orders, EmptyShelves(o)
        PROVE  ShelfConsistent'
    <3>1. \A p \in Orders, s \in Slots :
             <<p, s>> \in stored' <=> <<p, s>> \in stored /\ p # o
      BY <2>2 DEF EmptyShelves
    <3>2. stored' \subseteq stored
      BY <2>2 DEF EmptyShelves
    <3>3. OneToOneShelves'
      BY <3>2 DEF ShelfConsistent, OneToOneShelves
    <3>4. ASSUME NEW s \in Slots
          PROVE  slot'[s] = "OCCUPIED" <=> \E p \in Orders : <<p, s>> \in stored'
      <4>1. CASE <<o, s>> \in stored
        <5>1. slot'[s] = "FREE"
          BY <2>2, <4>1 DEF EmptyShelves, ShelvesOf
        <5>2. \A p \in Orders : <<p, s>> \in stored => p = o
          BY <4>1 DEF ShelfConsistent, OneToOneShelves
        <5>3. QED
          BY <3>1, <5>1, <5>2
      <4>2. CASE <<o, s>> \notin stored
        <5>1. slot'[s] = slot[s]
          BY <2>2, <4>2 DEF EmptyShelves, ShelvesOf
        <5>2. QED
          BY <3>1, <4>2, <5>1 DEF ShelfConsistent, SlotMirrorsRecords
      <4>3. QED
        BY <4>1, <4>2
    <3>5. QED
      BY <3>3, <3>4 DEF ShelfConsistent, SlotMirrorsRecords
  <2>3. ASSUME NEW o \in Orders, NEW s \in Slots, AssignOrderToSlot(o, s)
        PROVE  ShelfConsistent'
    <3>1. /\ slot[s] = "FREE"
          /\ s \notin ShelvesOf(o)
          /\ slot' = [t \in Slots |-> IF t = s THEN "OCCUPIED"
                          ELSE IF t \in ShelvesOf(o) THEN "FREE" ELSE slot[t]]
          /\ stored' = (stored \ {<<o, t>> : t \in Slots}) \cup {<<o, s>>}
      BY <2>3 DEF AssignOrderToSlot
    <3>2. \A p \in Orders : <<p, s>> \notin stored
      BY <3>1 DEF ShelfConsistent, SlotMirrorsRecords
    <3>3. \A p \in Orders, t \in Slots :
             <<p, t>> \in stored' <=> \/ <<p, t>> \in stored /\ p # o
                                      \/ p = o /\ t = s
      BY <3>1
    <3>4. OneToOneShelves'
      <4>1. \A a, b \in stored :
               /\ a \in Orders \X Slots /\ b \in Orders \X Slots
               /\ (a[1] = b[1] <=> a[2] = b[2])
        BY DEF ShelfConsistent, OneToOneShelves, TypeOK
      <4>2. \A a \in stored' :
               \/ a \in stored /\ a \in Orders \X Slots /\ a[1] # o /\ a[2] # s
               \/ a = <<o, s>>
        <5> SUFFICES ASSUME NEW a \in stored', a # <<o, s>>
                     PROVE  a \in stored /\ a \in Orders \X Slots /\ a[1] # o /\ a[2] # s
          OBVIOUS
        <5>1. a \in stored /\ a \notin {<<o, t>> : t \in Slots}
          BY <3>1
        <5>2. PICK p \in Orders, t \in Slots : a = <<p, t>>
          BY <4>1, <5>1
        <5>3. QED
          BY <3>2, <5>1, <5>2
      <4>3. QED
        BY <4>1, <4>2 DEF OneToOneShelves
    <3>5. ASSUME NEW t \in Slots
          PROVE  slot'[t] = "OCCUPIED" <=> \E p \in Orders : <<p, t>> \in stored'
      <4>1. CASE t = s
        BY <3>1, <3>3, <4>1
      <4>2. CASE t # s /\ <<o, t>> \in stored
        <5>1. slot'[t] = "FREE"
          BY <3>1, <4>2 DEF ShelvesOf
        <5>2. \A p \in Orders : <<p, t>> \in stored => p = o
          BY <4>2 DEF ShelfConsistent, OneToOneShelves
        <5>3. QED
          BY <3>3, <4>2, <5>1, <5>2
      <4>3. CASE t # s /\ <<o, t>> \notin stored
        <5>1. slot'[t] = slot[t]
          BY <3>1, <4>3 DEF ShelvesOf
        <5>2. QED
          BY <3>3, <4>3, <5>1 DEF ShelfConsistent, SlotMirrorsRecords
      <4>4. QED
        BY <4>1, <4>2, <4>3
    <3>6. QED
      BY <3>4, <3>5 DEF ShelfConsistent, SlotMirrorsRecords
  <2>4. QED
    BY <2>1, <2>2, <2>3, ShelfMoves
<1>3. QED
  BY <1>1, <1>2, TypeCorrect, PTL DEF Spec

-----------------------------------------------------------------------------
(* The shelf an order is on and its status. *)

\* A request on one order changes the status and the shelf of no other order.
LEMMA OtherOrders ==
    ASSUME TypeOK, NEW o \in Orders, OrderRequest(o), NEW p \in Orders, p # o
    PROVE  /\ order'[p] = order[p]
           /\ \A s \in Slots : <<p, s>> \in stored' <=> <<p, s>> \in stored
BY DEF OrderRequest, TypeOK, CreateOrder, CreateOrderPaying, Pay, StartProcessing,
       UpdateStatus, AssignOrderToSlot, ReleaseOrder, ProcessDelivery, EmptyShelves

\* Every request leaves its order on a shelf its new status calls for: the two
\* that leave CREATED or STORED for a status without shelf empty it themselves.
THEOREM ShelfFitsStatusAlways == Spec => []ShelfFitsStatus
<1>1. Init => ShelfFitsStatus
  BY DEF Init, ShelfFitsStatus
<1>2. TypeOK /\ ShelfFitsStatus /\ [Next]_vars => ShelfFitsStatus'
  <2> SUFFICES ASSUME TypeOK, ShelfFitsStatus, [Next]_vars
               PROVE  ShelfFitsStatus'
    OBVIOUS
  <2> DEFINE Fits(was, s) == \/ was = "CREATED" /\ SlotTypeOf[s] = "RECEPTION"
                             \/ was = "STORED" /\ SlotTypeOf[s] = "DELIVERY"
                             \/ was = "CANCELLED"
  <2>1. ASSUME NEW o \in Orders, OrderRequest(o), NEW s \in Slots,
               <<o, s>> \in stored'
        PROVE  Fits(order'[o].status, s)
    <3> USE <2>1 DEF TypeOK, OrderRow
    <3>1. <<o, s>> \in stored => Fits(order[o].status, s)
      BY DEF ShelfFitsStatus
    <3>2. ASSUME NEW price \in Prices, CreateOrder(o, price)
          PROVE  Fits(order'[o].status, s)
      BY <3>1, <3>2 DEF CreateOrder, Exists, NoOrder
    <3>3. ASSUME NEW price \in Prices, NEW k \in Sessions, NEW initial \in Amounts,
                 NEW cash \in Cash, CreateOrderPaying(o, price, k, initial, cash)
          PROVE  Fits(order'[o].status, s)
      BY <3>1, <3>3 DEF CreateOrderPaying, Exists, NoOrder
    <3>4. ASSUME NEW k \in Sessions, NEW amount \in Amounts, NEW cash \in Cash,
                 Pay(o, k, amount, cash)
          PROVE  Fits(order'[o].status, s)
      <4>1. order'[o].status = order[o].status
        BY <3>4 DEF Pay
      <4>2. QED
        BY <3>1, <3>4, <4>1 DEF Pay
    <3>5. ASSUME NEW new \in OrderStatus, UpdateStatus(o, new)
          PROVE  Fits(order'[o].status, s)
      BY <3>1, <3>5 DEF UpdateStatus, AllowedTransitions
    <3>6. ASSUME NEW t \in Slots, AssignOrderToSlot(o, t)
          PROVE  Fits(order'[o].status, s)
      <4>1. s = t
        BY <3>6 DEF AssignOrderToSlot
      <4>2. QED
        BY <3>6, <4>1 DEF AssignOrderToSlot, ShelfPairing
    <3>7. CASE StartProcessing(o) \/ ReleaseOrder(o) \/ ProcessDelivery(o)
      BY <3>7 DEF StartProcessing, ReleaseOrder, ProcessDelivery, EmptyShelves
    <3>8. QED
      BY <3>2, <3>3, <3>4, <3>5, <3>6, <3>7 DEF OrderRequest
  <2>2. ASSUME NEW o \in Orders, OrderRequest(o)
        PROVE  ShelfFitsStatus'
    BY <2>1, <2>2, OtherOrders DEF ShelfFitsStatus
  <2>3. ASSUME NEW k \in Sessions, SessionRequest(k)
        PROVE  ShelfFitsStatus'
    BY <2>3 DEF ShelfFitsStatus, SessionRequest, OpenSession, CloseSession, RemitSession
  <2>4. CASE UNCHANGED vars
    BY <2>4 DEF ShelfFitsStatus, vars
  <2>5. QED
    BY <2>2, <2>3, <2>4 DEF Next
<1>3. QED
  BY <1>1, <1>2, TypeCorrect, PTL DEF Spec

-----------------------------------------------------------------------------
(* Money. *)

\* BooksBalance is inductive once it also says that nothing has been taken for an
\* order that does not exist, whose row creation will overwrite.
BooksInv ==
    /\ BooksBalance
    /\ \A o \in Orders : ~Exists(o) => order[o].paid = 0

\* An order whose books a request leaves as they are stays balanced.
LEMMA SameBooks ==
    ASSUME NEW o \in Orders, TypeOK, BooksInv,
           order'[o].paid = order[o].paid, order'[o].pay = order[o].pay,
           order'[o].total = order[o].total, collected'[o] = collected[o],
           Exists(o) <=> Exists(o)'
    PROVE  /\ order'[o].paid = collected'[o]
           /\ Exists(o)' => WithinBalance(order'[o].total, order'[o].paid, 0)
           /\ order'[o].pay = "PAID" => order'[o].paid + Cent >= order'[o].total
           /\ order'[o].pay = "PARTIAL" => order'[o].paid + Cent < order'[o].total
           /\ order'[o].pay = "UNPAID" => order'[o].paid = 0
           /\ ~Exists(o)' => order'[o].paid = 0
BY DEF BooksInv, BooksBalance

\* A payment within the balance leaves the three columns in agreement.
LEMMA PaidBooks ==
    ASSUME NEW total \in Nat, NEW paid \in Nat, WithinBalance(total, paid, 0)
    PROVE  /\ SettledStatus(total, paid) = "PAID" => paid + Cent >= total
           /\ SettledStatus(total, paid) = "PARTIAL" => paid + Cent < total
           /\ SettledStatus(total, paid) # "UNPAID"
BY DEF SettledStatus

\* amount_paid, payment_status and the payments table agree after every request.
THEOREM BooksAlwaysBalance == Spec => []BooksBalance
<1>1. Init => BooksInv
  BY DEF Init, BooksInv, BooksBalance, Exists
<1>2. TypeOK /\ TypeOK' /\ BooksInv /\ [Next]_vars => BooksInv'
  <2> SUFFICES ASSUME TypeOK, TypeOK', BooksInv, [Next]_vars
               PROVE  BooksInv'
    OBVIOUS
  <2> DEFINE Balanced(p) ==
        /\ order'[p].paid = collected'[p]
        /\ Exists(p)' => WithinBalance(order'[p].total, order'[p].paid, 0)
        /\ order'[p].pay = "PAID" => order'[p].paid + Cent >= order'[p].total
        /\ order'[p].pay = "PARTIAL" => order'[p].paid + Cent < order'[p].total
        /\ order'[p].pay = "UNPAID" => order'[p].paid = 0
        /\ ~Exists(p)' => order'[p].paid = 0
  <2>1. (\A p \in Orders : Balanced(p)) => BooksInv'
    BY DEF BooksInv, BooksBalance
  <2>2. ASSUME NEW o \in Orders, NEW price \in Prices, CreateOrder(o, price)
        PROVE  Balanced(o)
    <3>1. collected[o] = 0
      BY <2>2 DEF CreateOrder, BooksInv, BooksBalance, TypeOK
    <3>2. /\ order'[o] = [status |-> "CREATED", total |-> price, paid |-> 0,
                          pay |-> "UNPAID"]
          /\ collected' = collected
      BY <2>2 DEF CreateOrder, TypeOK
    <3>3. QED
      BY <3>1, <3>2 DEF WithinBalance, Exists, NoOrder
  <2>3. ASSUME NEW o \in Orders, NEW price \in Prices, NEW k \in Sessions,
               NEW initial \in Amounts, NEW cash \in Cash,
               CreateOrderPaying(o, price, k, initial, cash)
        PROVE  Balanced(o)
    <3> DEFINE amount == CappedAmount(initial, price)
    <3>1. amount \in Nat /\ amount <= price /\ price \in Nat
      BY CappedAmountType
    <3>2. collected[o] = 0
      BY <2>3 DEF CreateOrderPaying, BooksInv, BooksBalance, TypeOK
    <3>3. /\ order'[o] = [status |-> "CREATED", total |-> price, paid |-> amount,
                          pay |-> SettledStatus(price, amount)]
          /\ collected' = [collected EXCEPT ![o] = @ + amount]
      BY <2>3 DEF CreateOrderPaying, Book, TypeOK
    <3> HIDE DEF amount
    <3>4. collected'[o] = amount
      BY <3>1, <3>2, <3>3 DEF TypeOK
    <3>5. WithinBalance(price, amount, 0)
      BY <3>1 DEF WithinBalance
    <3>6. QED
      BY <3>1, <3>3, <3>4, <3>5, PaidBooks DEF Exists, NoOrder
  <2>4. ASSUME NEW o \in Orders, NEW k \in Sessions, NEW amount \in Amounts,
               NEW cash \in Cash, Pay(o, k, amount, cash)
        PROVE  Balanced(o)
    <3> DEFINE sum == order[o].paid + amount
    <3>1. order[o].total \in Nat /\ order[o].paid \in Nat /\ amount \in Nat /\ sum \in Nat
      BY DEF TypeOK, OrderRow
    <3>2. /\ order'[o].total = order[o].total
          /\ order'[o].paid = sum
          /\ order'[o].pay = SettledStatus(order[o].total, sum)
          /\ order'[o].status = order[o].status
          /\ collected'[o] = collected[o] + amount
          /\ Exists(o)
          /\ WithinBalance(order[o].total, order[o].paid, amount)
      BY <2>4 DEF Pay, Book, TypeOK, OrderRow
    <3>3. WithinBalance(order[o].total, sum, 0)
      BY <3>1, <3>2 DEF WithinBalance
    <3>4. collected'[o] = sum
      BY <3>2 DEF BooksInv, BooksBalance
    <3> HIDE DEF sum
    <3>5. QED
      BY <3>1, <3>2, <3>3, <3>4, PaidBooks DEF Exists
  <2>5. ASSUME NEW o \in Orders,
               \/ StartProcessing(o)
               \/ \E new \in OrderStatus : UpdateStatus(o, new)
               \/ \E s \in Slots : AssignOrderToSlot(o, s)
               \/ ReleaseOrder(o)
               \/ ProcessDelivery(o)
        PROVE  Balanced(o)
    <3> DEFINE StatusOnly(new) == order' = [order EXCEPT ![o].status = new]
    <3>1. collected' = collected
      BY <2>5 DEF StartProcessing, UpdateStatus, AssignOrderToSlot, ReleaseOrder,
                  ProcessDelivery
    <3>2. \/ order' = order
          \/ \E new \in OrderStatus : StatusOnly(new) /\ Exists(o)
      <4>1. ASSUME StartProcessing(o) \/ ProcessDelivery(o)
            PROVE  \E new \in OrderStatus : StatusOnly(new) /\ Exists(o)
        BY <4>1 DEF StartProcessing, ProcessDelivery, Exists, NoOrder, OrderStatus
      <4>2. ASSUME NEW new \in OrderStatus, UpdateStatus(o, new)
            PROVE  StatusOnly(new) /\ Exists(o)
        BY <4>2 DEF UpdateStatus, AllowedTransitions, Exists, NoOrder
      <4>3. ASSUME NEW s \in Slots, AssignOrderToSlot(o, s)
            PROVE  \E new \in OrderStatus : StatusOnly(new) /\ Exists(o)
        <5> DEFINE new == IF order[o].status = "READY" THEN "STORED" ELSE order[o].status
        <5>1. StatusOnly(new) /\ Exists(o)
          BY <4>3 DEF AssignOrderToSlot
        <5>2. new \in OrderStatus
          BY <5>1 DEF TypeOK, OrderRow, OrderStatus, Exists
        <5>3. QED
          BY <5>1, <5>2
      <4>4. CASE ReleaseOrder(o)
        BY <4>4 DEF ReleaseOrder
      <4>5. QED
        BY <2>5, <4>1, <4>2, <4>3, <4>4
    <3>3. CASE order' = order
      BY <3>1, <3>3, SameBooks DEF Exists
    <3>4. ASSUME NEW new \in OrderStatus, StatusOnly(new), Exists(o)
          PROVE  Balanced(o)
      <4>1. /\ order'[o].paid = order[o].paid
            /\ order'[o].pay = order[o].pay
            /\ order'[o].total = order[o].total
            /\ order'[o].status = new
        BY <3>4 DEF TypeOK, OrderRow
      <4>2. Exists(o)'
        BY <4>1 DEF Exists, NoOrder, OrderStatus
      <4>3. QED
        BY <3>1, <3>4, <4>1, <4>2, SameBooks
    <3>5. QED
      BY <3>2, <3>3, <3>4
  <2>6. ASSUME NEW o \in Orders, OrderRequest(o), NEW p \in Orders
        PROVE  Balanced(p)
    <3>1. CASE p = o
      BY <2>2, <2>3, <2>4, <2>5, <2>6, <3>1 DEF OrderRequest
    <3>2. CASE p # o
      <4>1. order'[p] = order[p]
        BY <2>6, <3>2, OtherOrders
      <4>2. collected'[p] = collected[p]
        <5>1. collected = [q \in Orders |-> collected[q]]
          BY DEF TypeOK
        <5>2. ASSUME NEW k \in Sessions, NEW amount \in Amounts, NEW cash \in Cash,
                     Pay(o, k, amount, cash)
              PROVE  collected'[p] = collected[p]
          BY <3>2, <5>1, <5>2 DEF Pay, Book
        <5>3. ASSUME NEW price \in Prices, NEW k \in Sessions, NEW initial \in Amounts,
                     NEW cash \in Cash, CreateOrderPaying(o, price, k, initial, cash)
              PROVE  collected'[p] = collected[p]
          BY <3>2, <5>1, <5>3 DEF CreateOrderPaying, Book
        <5>4. ASSUME \/ \E price \in Prices : CreateOrder(o, price)
                     \/ StartProcessing(o) \/ ReleaseOrder(o) \/ ProcessDelivery(o)
                     \/ \E new \in OrderStatus : UpdateStatus(o, new)
                     \/ \E s \in Slots : AssignOrderToSlot(o, s)
              PROVE  collected' = collected
          BY <5>4 DEF CreateOrder, StartProcessing, UpdateStatus, AssignOrderToSlot, ReleaseOrder,
                 ProcessDelivery
        <5> QED
          BY <2>6, <5>2, <5>3, <5>4 DEF OrderRequest
      <4>3. QED
        BY <4>1, <4>2, SameBooks DEF Exists
    <3>3. QED
      BY <3>1, <3>2
  <2>7. ASSUME UNCHANGED <<order, collected>>
        PROVE  \A p \in Orders : Balanced(p)
    BY <2>7, SameBooks DEF Exists
  <2>8. ASSUME NEW k \in Sessions, SessionRequest(k)
        PROVE  UNCHANGED <<order, collected>>
    BY <2>8 DEF SessionRequest, OpenSession, CloseSession, RemitSession
  <2>9. QED
    BY <2>1, <2>6, <2>7, <2>8 DEF Next, vars
<1>3. BooksInv => BooksBalance
  BY DEF BooksInv
<1>4. QED
  BY <1>1, <1>2, <1>3, TypeCorrect, PTL DEF Spec

\* A delivered order is paid for, and on no shelf: delivery asks for PAID, whose
\* meaning BooksBalance keeps, and payments only add to what was collected.
THEOREM DeliveredAlwaysSettled == Spec => []DeliveredIsSettled
<1>1. ASSUME TypeOK, TypeOK', BooksBalance, BooksBalance', ShelfFitsStatus',
             DeliveredIsSettled, [Next]_vars
      PROVE  DeliveredIsSettled'
  <2> SUFFICES ASSUME NEW o \in Orders, order'[o].status = "DELIVERED"
               PROVE  collected'[o] + Cent >= order'[o].total /\ ShelvesOf(o)' = {}
    BY DEF DeliveredIsSettled
  <2>1. ShelvesOf(o)' = {}
    BY <1>1 DEF ShelfFitsStatus, ShelvesOf
  <2>2. order'[o].pay = "PAID" => collected'[o] + Cent >= order'[o].total
    BY <1>1 DEF BooksBalance
  <2>3. ASSUME order'[o] = order[o], collected'[o] = collected[o]
        PROVE  collected'[o] + Cent >= order'[o].total
    BY <1>1, <2>3 DEF DeliveredIsSettled
  <2>4. ASSUME NEW p \in Orders, OrderRequest(p)
        PROVE  collected'[o] + Cent >= order'[o].total
    <3> USE <1>1 DEF TypeOK, OrderRow
    <3>1. CASE p # o
      <4>1. order'[o] = order[o]
        BY <2>4, <3>1, OtherOrders
      <4>2. collected'[o] = collected[o]
        BY <2>4, <3>1 DEF OrderRequest, CreateOrder, CreateOrderPaying, Pay, Book,
           StartProcessing, UpdateStatus, AssignOrderToSlot, ReleaseOrder, ProcessDelivery
      <4>3. QED
        BY <2>3, <4>1, <4>2
    <3>2. ASSUME p = o, \E price \in Prices : CreateOrder(o, price)
          PROVE  FALSE
      BY <3>2 DEF CreateOrder
    <3>3. ASSUME p = o, \E price \in Prices, k \in Sessions, initial \in Amounts,
                           cash \in Cash : CreateOrderPaying(o, price, k, initial, cash)
          PROVE  FALSE
      BY <3>3 DEF CreateOrderPaying
    <3>4. ASSUME p = o, NEW k \in Sessions, NEW amount \in Amounts, NEW cash \in Cash,
                 Pay(o, k, amount, cash)
          PROVE  collected'[o] + Cent >= order'[o].total
      <4>1. /\ order'[o].total = order[o].total
            /\ order'[o].status = order[o].status
            /\ collected'[o] = collected[o] + amount
            /\ amount \in Nat
        BY <3>4 DEF Pay, Book
      <4>2. collected[o] + Cent >= order[o].total
        BY <4>1 DEF DeliveredIsSettled
      <4>3. QED
        BY <4>1, <4>2
    <3>5. ASSUME p = o, StartProcessing(o)
          PROVE  FALSE
      BY <3>5 DEF StartProcessing
    <3>6. ASSUME p = o, NEW new \in OrderStatus, UpdateStatus(o, new)
          PROVE  FALSE
      BY <3>6 DEF UpdateStatus, AllowedTransitions
    <3>7. ASSUME p = o, NEW s \in Slots, AssignOrderToSlot(o, s)
          PROVE  FALSE
      BY <2>1, <3>7 DEF AssignOrderToSlot, ShelvesOf
    <3>8. CASE p = o /\ ReleaseOrder(o)
      BY <2>3, <3>8 DEF ReleaseOrder
    <3>9. CASE p = o /\ ProcessDelivery(o)
      BY <2>2, <3>9 DEF ProcessDelivery
    <3>10. QED
      BY <2>4, <3>1, <3>2, <3>3, <3>4, <3>5, <3>6, <3>7, <3>8, <3>9 DEF OrderRequest
  <2>5. ASSUME NEW k \in Sessions, SessionRequest(k)
        PROVE  collected'[o] + Cent >= order'[o].total
    <3>1. order' = order /\ collected' = collected
      BY <2>5 DEF SessionRequest, OpenSession, CloseSession, RemitSession
    <3>2. QED
      BY <2>3, <3>1
  <2>6. ASSUME UNCHANGED vars
        PROVE  collected'[o] + Cent >= order'[o].total
    BY <2>3, <2>6 DEF vars
  <2>7. collected'[o] + Cent >= order'[o].total
    BY <1>1, <2>4, <2>5, <2>6 DEF Next
  <2>8. QED
    BY <2>1, <2>7
<1>2. Init => DeliveredIsSettled
  BY DEF Init, DeliveredIsSettled, NoOrder
<1>3. QED
  BY <1>1, <1>2, TypeCorrect, BooksAlwaysBalance, ShelfFitsStatusAlways, PTL DEF Spec

-----------------------------------------------------------------------------
(* Cash register sessions. *)

\* DrawerBalances is inductive once a session that is not open yet has no
\* payments: opening sets expected_cash to zero.
DrawerInv ==
    /\ DrawerBalances
    /\ \A k \in Sessions : session[k].status = "NONE" => drawer[k] = 0

\* A request on an order leaves every session's status alone and moves its two
\* cash counts together, and only while it is open.
LEMMA SessionsOfOrders ==
    ASSUME TypeOK, NEW o \in Orders, OrderRequest(o), NEW k \in Sessions
    PROVE  /\ session'[k].status = session[k].status
           /\ \/ session'[k].expected = session[k].expected /\ drawer'[k] = drawer[k]
              \/ /\ session[k].status = "OPEN"
                 /\ \E amount \in Nat : /\ session'[k].expected = session[k].expected + amount
                                        /\ drawer'[k] = drawer[k] + amount
<1> DEFINE Goal ==
      /\ session'[k].status = session[k].status
      /\ \/ session'[k].expected = session[k].expected /\ drawer'[k] = drawer[k]
         \/ /\ session[k].status = "OPEN"
            /\ \E amount \in Nat : /\ session'[k].expected = session[k].expected + amount
                                   /\ drawer'[k] = drawer[k] + amount
<1>1. ASSUME NEW j \in Sessions, NEW amount \in Nat, NEW cash \in BOOLEAN,
             Book(o, j, amount, cash), session[j].status = "OPEN"
      PROVE  Goal
  <2> DEFINE inDrawer == IF cash THEN amount ELSE 0
  <2>1. inDrawer \in Nat
    OBVIOUS
  <2>2. /\ drawer' = [drawer EXCEPT ![j] = @ + inDrawer]
        /\ session' = [session EXCEPT ![j].expected = @ + inDrawer]
    BY <1>1 DEF Book
  <2> HIDE DEF inDrawer
  <2>3. QED
    BY <1>1, <2>1, <2>2 DEF TypeOK, SessionRow
<1>2. ASSUME NEW price \in Prices, NEW j \in Sessions, NEW initial \in Amounts,
             NEW cash \in Cash, CreateOrderPaying(o, price, j, initial, cash)
      PROVE  Goal
  <2>1. CappedAmount(initial, price) \in Nat
    BY CappedAmountType
  <2>2. Book(o, j, CappedAmount(initial, price), cash) /\ session[j].status = "OPEN"
    BY <1>2 DEF CreateOrderPaying
  <2>3. QED
    BY <1>1, <2>1, <2>2
<1>3. ASSUME NEW j \in Sessions, NEW amount \in Amounts, NEW cash \in Cash,
             Pay(o, j, amount, cash)
      PROVE  Goal
  BY <1>1, <1>3 DEF Pay
<1>4. CASE UNCHANGED <<session, drawer>>
  BY <1>4
<1>5. QED
  BY <1>2, <1>3, <1>4 DEF OrderRequest, CreateOrder, StartProcessing, UpdateStatus,
     AssignOrderToSlot, ReleaseOrder, ProcessDelivery

\* The running expected_cash and the sum of the cash payments are equal in every
\* session, open, closed or remitted.
THEOREM DrawerAlwaysBalances == Spec => []DrawerBalances
<1>1. Init => DrawerInv
  BY DEF Init, DrawerInv, DrawerBalances
<1>2. TypeOK /\ DrawerInv /\ [Next]_vars => DrawerInv'
  <2> SUFFICES ASSUME TypeOK, DrawerInv, [Next]_vars
               PROVE  DrawerInv'
    OBVIOUS
  <2> USE DEF DrawerInv, DrawerBalances
  <2>1. ASSUME NEW o \in Orders, OrderRequest(o)
        PROVE  DrawerInv'
    <3> SUFFICES ASSUME NEW k \in Sessions
                 PROVE  /\ session'[k].expected = drawer'[k]
                        /\ session'[k].status = "NONE" => drawer'[k] = 0
      OBVIOUS
    <3>1. QED
      BY <2>1, SessionsOfOrders
  <2>2. ASSUME NEW k \in Sessions, SessionRequest(k)
        PROVE  DrawerInv'
    <3>1. CASE OpenSession(k)
      BY <3>1 DEF TypeOK, OpenSession
    <3>2. CASE CloseSession(k)
      <4> DEFINE row == [session[k] EXCEPT !.status = "CLOSED", !.expected = drawer[k]]
      <4>1. session' = [session EXCEPT ![k] = row] /\ drawer' = drawer
        BY <3>2 DEF CloseSession
      <4>2. row.status = "CLOSED" /\ row.expected = drawer[k]
        BY DEF TypeOK, SessionRow
      <4> HIDE DEF row
      <4>3. QED
        BY <4>1, <4>2 DEF TypeOK
    <3>3. CASE RemitSession(k)
      BY <3>3 DEF TypeOK, SessionRow, RemitSession
    <3>4. QED
      BY <2>2, <3>1, <3>2, <3>3 DEF SessionRequest
  <2>3. CASE UNCHANGED vars
    BY <2>3 DEF vars
  <2>4. QED
    BY <2>1, <2>2, <2>3 DEF Next
<1>3. DrawerInv => DrawerBalances
  BY DEF DrawerInv
<1>4. QED
  BY <1>1, <1>2, <1>3, TypeCorrect, PTL DEF Spec

\* No operator ever has two sessions that are open or wait to be remitted.
THEOREM OneSessionAlways == Spec => []OneSessionPerOperator
<1>1. Init => OneSessionPerOperator
  BY DEF Init, OneSessionPerOperator
<1>2. TypeOK /\ OneSessionPerOperator /\ [Next]_vars => OneSessionPerOperator'
  <2> SUFFICES ASSUME TypeOK, OneSessionPerOperator, [Next]_vars
               PROVE  OneSessionPerOperator'
    OBVIOUS
  <2> USE DEF OneSessionPerOperator
  <2>1. ASSUME NEW o \in Orders, OrderRequest(o)
        PROVE  OneSessionPerOperator'
    <3>1. \A k \in Sessions : session'[k].status = session[k].status
      BY <2>1, SessionsOfOrders
    <3>2. QED
      BY <3>1
  <2>2. ASSUME NEW k \in Sessions, OpenSession(k)
        PROVE  OneSessionPerOperator'
    BY <2>2 DEF TypeOK, OpenSession, Pending
  <2>3. ASSUME NEW k \in Sessions, CloseSession(k) \/ RemitSession(k)
        PROVE  OneSessionPerOperator'
    BY <2>3 DEF TypeOK, SessionRow, CloseSession, RemitSession
  <2>4. CASE UNCHANGED vars
    BY <2>4 DEF vars
  <2>5. QED
    BY <2>1, <2>2, <2>3, <2>4 DEF Next, SessionRequest
<1>3. QED
  BY <1>1, <1>2, TypeCorrect, PTL DEF Spec

\* Nothing changes the status of a delivered or cancelled order.
THEOREM ClosedStaysClosed == Spec => ClosedIsFinal
<1>1. TypeOK /\ [Next]_vars =>
         [\A o \in Orders : order[o].status \in Closed =>
              order'[o].status = order[o].status]_vars
  <2> SUFFICES ASSUME TypeOK, [Next]_vars, NEW o \in Orders, order[o].status \in Closed
               PROVE  order'[o].status = order[o].status
    BY DEF vars
  <2>1. ASSUME NEW p \in Orders, OrderRequest(p), p # o
        PROVE  order'[o].status = order[o].status
    BY <2>1, OtherOrders
  <2>2. ASSUME OrderRequest(o)
        PROVE  order'[o].status = order[o].status
    <3>1. ASSUME NEW k \in Sessions, NEW amount \in Amounts, NEW cash \in Cash,
                 Pay(o, k, amount, cash)
          PROVE  order'[o].status = order[o].status
      BY <3>1 DEF Pay, TypeOK, OrderRow
    <3>2. ASSUME NEW new \in OrderStatus, UpdateStatus(o, new)
          PROVE  FALSE
      BY <3>2 DEF UpdateStatus, AllowedTransitions, Closed
    <3>3. ASSUME NEW s \in Slots, AssignOrderToSlot(o, s)
          PROVE  FALSE
      BY <3>3 DEF AssignOrderToSlot, ShelfPairing, Closed
    <3>4. QED
      BY <2>2, <3>1, <3>2, <3>3 DEF OrderRequest, CreateOrder, CreateOrderPaying, Exists,
         NoOrder, StartProcessing, ReleaseOrder, ProcessDelivery, Closed
  <2>3. ASSUME NEW k \in Sessions, SessionRequest(k)
        PROVE  order' = order
    BY <2>3 DEF SessionRequest, OpenSession, CloseSession, RemitSession
  <2>4. QED
    BY <2>1, <2>2, <2>3 DEF Next, vars
<1>2. QED
  BY <1>1, TypeCorrect, PTL DEF Spec, ClosedIsFinal

\* Nothing changes the cash counts of a session that is not open.
THEOREM ClosedDrawerStaysFrozen == Spec => ClosedDrawerIsFrozen
<1>1. TypeOK /\ DrawerBalances /\ [Next]_vars =>
         [\A k \in Sessions : session[k].status \in {"CLOSED", "REMITTED"} =>
              /\ session'[k].expected = session[k].expected
              /\ drawer'[k] = drawer[k]]_vars
  <2> SUFFICES ASSUME TypeOK, [Next]_vars, NEW k \in Sessions,
                      session[k].status \in {"CLOSED", "REMITTED"}
               PROVE  session'[k].expected = session[k].expected /\ drawer'[k] = drawer[k]
    BY DEF vars
  <2>1. ASSUME NEW o \in Orders, OrderRequest(o)
        PROVE  session'[k].expected = session[k].expected /\ drawer'[k] = drawer[k]
    BY <2>1, SessionsOfOrders
  <2>2. ASSUME NEW j \in Sessions, SessionRequest(j)
        PROVE  session'[k].expected = session[k].expected /\ drawer'[k] = drawer[k]
    BY <2>2 DEF SessionRequest, OpenSession, CloseSession, RemitSession, TypeOK, SessionRow
  <2>3. QED
    BY <2>1, <2>2 DEF Next, vars
<1>2. QED
  BY <1>1, TypeCorrect, DrawerAlwaysBalances, PTL DEF Spec, ClosedDrawerIsFrozen

=============================================================================

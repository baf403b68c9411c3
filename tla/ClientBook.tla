----------------------------- MODULE ClientBook ------------------------------
(***************************************************************************)
(* ClientService: the clients of a tenant, their printed codes and the     *)
(* cached search.  A search reads the cache, then the table, then fills    *)
(* the cache; a write saves the row, then clears the cache.  The cache is  *)
(* external: Redis keeps it over a restart, a memory store loses it.       *)
(***************************************************************************)
EXTENDS OfficeCalls

CONSTANTS
    ClientIds,
    Names,
    Codes,    \* what the code generator may return
    Queries   \* the names that are searched for

VARIABLES
    book,   \* the clients: name and code of each row
    cache,  \* external: the hits kept for each query
    late,   \* history: queries whose hits were put after a write had overtaken them
    twins   \* history: clients inserted after another one had passed their check

bookvars == <<book, cache, late, twins>>

Row == [name : Names, code : Codes]

ASSUME BookAssumption == Queries \subseteq Names /\ None \notin Row

Known == {i \in ClientIds : book[i] # None}
Matches(q) == {<<i, book[i]>> : i \in {j \in Known : book[j].name = q}}

BookInit ==
    /\ book = [i \in ClientIds |-> None]
    /\ cache = [q \in Queries |-> None]
    /\ late = {} /\ twins = {}

Searches(at) == {w \in InFlight({"search"}) : call[w].at = at}

-----------------------------------------------------------------------------
(* search.                                                                 *)

LookUp(w) ==
    /\ At(w, "search", "cache")
    /\ IF cache[call[w].on] # None THEN Ends(w, "search", "cache") ELSE Goes(w, "search", "cache", "query")
    /\ NoFault /\ UNCHANGED bookvars

Query(w) ==
    /\ Moves(w, "search", "query", [call[w] EXCEPT !.at = "put", !.saw = Matches(call[w].on)])
    /\ NoFault /\ UNCHANGED bookvars

PutCache(w) ==
    LET q == call[w].on
    IN /\ Ends(w, "search", "put")
       /\ cache' = [cache EXCEPT ![q] = call[w].saw]
       /\ late' = IF call[w].mixed THEN late \cup {q} ELSE late \ {q}
       /\ NoFault /\ UNCHANGED <<book, twins>>

\* Five minutes have passed.
Expire(q) ==
    /\ cache[q] # None
    /\ cache' = [cache EXCEPT ![q] = None]
    /\ late' = late \ {q}
    /\ UNCHANGED <<callvars, book, twins>>

-----------------------------------------------------------------------------
(* create and update.                                                      *)

\* A bug: any code will do.
MutantUnused(c) == TRUE

Unused(c) == \A i \in Known : book[i].code # c

\* generateUniqueCode: five codes at most, the first unused one is taken.
GenerateCode(w) ==
    /\ \/ \E c \in {d \in Codes : Unused(d)} :
             Moves(w, "client", "code", [call[w] EXCEPT !.at = "insert", !.saw = c])
       \/ (\E c \in Codes : ~Unused(c)) /\ Ends(w, "client", "code")
    /\ NoFault /\ UNCHANGED bookvars

Rivals(w) == {v \in InFlight({"client"}) \ {w} : call[v].at = "insert"}

\* The index on the code is not a unique one.
InsertClient(w) ==
    LET c == call[w]
    IN /\ MovesAmid(w, "client", "insert", [c EXCEPT !.at = "clear"], Rivals(w) \cup Searches("put"))
       /\ book' = [book EXCEPT ![c.on] = [name |-> c.arg, code |-> c.saw]]
       /\ twins' = IF c.mixed THEN twins \cup {c.on} ELSE twins
       /\ NoFault /\ UNCHANGED <<cache, late>>

FindClient(w) ==
    LET row == book[call[w].on]
    IN /\ At(w, "edit", "find")
       /\ IF row = None THEN Ends(w, "edit", "find")
          ELSE Moves(w, "edit", "find", [call[w] EXCEPT !.at = "save", !.saw = row])
       /\ NoFault /\ UNCHANGED bookvars

SaveClient(w) ==
    LET c == call[w]
    IN /\ MovesAmid(w, "edit", "save", [c EXCEPT !.at = "clear"], Searches("put"))
       /\ book' = [book EXCEPT ![c.on] = [c.saw EXCEPT !.name = c.arg]]
       /\ NoFault /\ UNCHANGED <<cache, late, twins>>

ClearCache(w) ==
    /\ Ends(w, "client", "clear") \/ Ends(w, "edit", "clear")
    /\ cache' = [q \in Queries |-> None]
    /\ late' = {}
    /\ NoFault /\ UNCHANGED <<book, twins>>

-----------------------------------------------------------------------------
Clearing == {w \in InFlight({"client", "edit"}) : call[w].at = "clear"}

\* What a restart does to the book.
BookRestart ==
    /\ cache' \in {cache, [q \in Queries |-> None]}
    /\ late' = IF Clearing = {} THEN late ELSE Queries
    /\ UNCHANGED <<book, twins>>

BookRequest(w) ==
    /\ \/ \E q \in Queries : Begin(w, "search", "cache", q, None)
       \/ \E i \in ClientIds, n \in Names :
             \/ /\ book[i] = None /\ \A v \in InFlight({"client"}) : call[v].on # i
                /\ Begin(w, "client", "code", i, n)
             \/ Begin(w, "edit", "find", i, n)
    /\ UNCHANGED bookvars

BookStep(w) ==
    \/ LookUp(w) \/ Query(w) \/ PutCache(w)
    \/ GenerateCode(w) \/ InsertClient(w) \/ FindClient(w) \/ SaveClient(w) \/ ClearCache(w)

BookTypeOK ==
    /\ book \in [ClientIds -> Row \cup {None}]
    /\ \A q \in Queries : cache[q] # None => cache[q] \subseteq ClientIds \X Row
    /\ late \subseteq Queries /\ twins \subseteq ClientIds

=============================================================================

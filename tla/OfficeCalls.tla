----------------------------- MODULE OfficeCalls -----------------------------
(***************************************************************************)
(* The back-office calls of one tenant: requests whose handlers are plain  *)
(* sequences of awaited statements, with no transaction around them.  A    *)
(* worker runs one call; other workers run between two of its statements.  *)
(* The modules that extend this one give the calls of one component each.  *)
(***************************************************************************)
EXTENDS Naturals

CONSTANTS
    Workers,   \* calls in flight at the same time
    MaxCalls,  \* bound: calls ever made
    MaxFaults, \* bound: restarts of the process and statements that fail
    None

ASSUME CallsAssumption == MaxCalls \in Nat /\ MaxFaults \in Nat

VARIABLES
    call,   \* the call each worker runs
    calls,  \* calls begun so far
    faults  \* restarts and failed statements so far

callvars == <<call, calls, faults>>

\* kind: the handler; at: its next statement; on: the row or query it is about;
\* arg: the value it was given; saw: what it has read; mixed: another call that
\* matters to it came in between.
Idle == [kind |-> None, at |-> "idle", on |-> None, arg |-> None, saw |-> None, mixed |-> FALSE]

CallsInit == call = [w \in Workers |-> Idle] /\ calls = 0 /\ faults = 0

InFlight(kinds) == {w \in Workers : call[w].kind \in kinds}

Begin(w, kind, at, on, arg) ==
    /\ calls < MaxCalls
    /\ call[w] = Idle
    /\ calls' = calls + 1
    /\ call' = [call EXCEPT ![w] = [Idle EXCEPT !.kind = kind, !.at = at, !.on = on, !.arg = arg]]
    /\ UNCHANGED faults

At(w, kind, at) == call[w].kind = kind /\ call[w].at = at

\* Worker w is at statement `at` of a call of that kind and goes on with record c.
Moves(w, kind, at, c) ==
    /\ At(w, kind, at)
    /\ call' = [call EXCEPT ![w] = c]
    /\ UNCHANGED calls
Goes(w, kind, at, next) == Moves(w, kind, at, [call[w] EXCEPT !.at = next])
Ends(w, kind, at) == Moves(w, kind, at, Idle)

\* As Moves; the calls of `others` learn that this one came in between.
MovesAmid(w, kind, at, c, others) ==
    /\ At(w, kind, at)
    /\ call' = [v \in Workers |-> IF v = w THEN c
                                  ELSE IF v \in others THEN [call[v] EXCEPT !.mixed = TRUE]
                                  ELSE call[v]]
    /\ UNCHANGED calls

NoFault == UNCHANGED faults
Fault == faults < MaxFaults /\ faults' = faults + 1

\* The process stops and starts again; the calls in flight are gone.
Crash == Fault /\ call' = [w \in Workers |-> Idle] /\ UNCHANGED calls

=============================================================================

-------------------------- MODULE MCCounterScreen --------------------------
(***************************************************************************)
(* CounterScreen with one client, two services of one article, an express  *)
(* multiplier that can be raised or lowered, and at most two requests.     *)
(***************************************************************************)
EXTENDS CounterScreen

\* One price can be lowered, the other raised.
MCFirstList == [o \in {"wash", "iron"} |-> IF o = "wash" THEN 3 ELSE 2]

=============================================================================

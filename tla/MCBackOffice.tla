---------------------------- MODULE MCBackOffice -----------------------------
(***************************************************************************)
(* BackOffice with two calls in flight and three in all, of any component. *)
(***************************************************************************)
EXTENDS BackOffice, TLC

CONSTANTS s1, s2, e1

MCRows == {s1, s2, e1}
MCRegisterOf == [r \in MCRows |-> IF r = e1 THEN "expense" ELSE "service"]

=============================================================================

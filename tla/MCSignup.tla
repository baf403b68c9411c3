------------------------------ MODULE MCSignup ------------------------------
(***************************************************************************)
(* Signup with two requests for the same subdomain and two calls in        *)
(* flight.                                                                 *)
(***************************************************************************)
EXTENDS Signup, TLC

MCSymmetry == Permutations(Requests) \cup Permutations(Workers)

=============================================================================

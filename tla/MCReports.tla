----------------------------- MODULE MCReports ------------------------------
(***************************************************************************)
(* Reports with two orders at one agency each, days of three hours and     *)
(* clocks an hour behind, on and ahead of UTC.  The baskets are a plain    *)
(* and an express order, with one service twice and with two services.     *)
(***************************************************************************)
EXTENDS Reports, TLC

CONSTANTS o1, o2, a1, a2, wash, iron

MCZones   == {-1, 0, 1}
MCBaskets == { [site |-> a1, express |-> FALSE, due |-> 1, lines |-> <<wash>>],
               [site |-> a1, express |-> TRUE,  due |-> 1, lines |-> <<wash, wash>>],
               [site |-> a2, express |-> FALSE, due |-> 3, lines |-> <<wash, iron>>] }
MCSymmetry == Permutations(Orders)

=============================================================================

---------------------------- MODULE MCOrderDesk -----------------------------
(***************************************************************************)
(* OrderDesk on a small instance: two orders, two reception slots and one  *)
(* delivery slot, one operator who may open two sessions one after the     *)
(* other.                                                                  *)
(***************************************************************************)
EXTENDS OrderDesk, TLC

CONSTANTS o1, o2, r1, r2, d1, k1, k2, ana

MCOrders     == {o1, o2}
MCSlots      == {r1, r2, d1}
MCSlotTypeOf == (r1 :> "RECEPTION") @@ (r2 :> "RECEPTION") @@ (d1 :> "DELIVERY")
MCOperators  == {ana}
MCSessions   == {k1, k2}
MCOperatorOf == [k \in MCSessions |-> ana]
\* A free order, and one that two payments settle.
MCPrices     == {0, 3}
MCAmounts    == {1, 2}
MCSymmetry   == Permutations(MCOrders) \cup Permutations({r1, r2})
                    \cup Permutations(MCSessions)

=============================================================================

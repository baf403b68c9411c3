------------------------- MODULE MCOrderDeskSerial --------------------------
(***************************************************************************)
(* One worker, every endpoint: two orders over one slot of each type and a *)
(* second reception slot, one operator with two sessions.                  *)
(***************************************************************************)
EXTENDS OrderDeskSerial, TLC

CONSTANTS o1, o2, r1, r2, d1, k1, k2, ana, w1

MCOrders     == {o1, o2}
MCSlots      == {r1, r2, d1}
MCSlotTypeOf == (r1 :> "RECEPTION") @@ (r2 :> "RECEPTION") @@ (d1 :> "DELIVERY")
MCOperators  == {ana}
MCSessions   == {k1, k2}
MCOperatorOf == [k \in MCSessions |-> ana]
MCPrices     == {3}
MCAmounts    == {2}
MCWorkers    == {w1}

=============================================================================

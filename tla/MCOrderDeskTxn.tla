--------------------------- MODULE MCOrderDeskTxn ---------------------------
(***************************************************************************)
(* OrderDeskTxn with two requests in flight.  Each configuration picks the *)
(* endpoints that are called and the rows they meet on.                    *)
(***************************************************************************)
EXTENDS OrderDeskTxn, TLC

CONSTANTS ana,
          Reception   \* the slots of Slots that are in reception

MCSlotTypeOf == [s \in Slots |-> IF s \in Reception THEN "RECEPTION" ELSE "DELIVERY"]
MCOperatorOf == [k \in Sessions |-> ana]
MCSymmetry   == Permutations(Workers)

=============================================================================

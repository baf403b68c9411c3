----------------------------- MODULE DeskRules ------------------------------
(***************************************************************************)
(* The rules of the laundry counter that several services share: the life  *)
(* cycle of an order, which kind of shelf an order may be put on, and the  *)
(* arithmetic of a payment.  Amounts are integers in cents.                *)
(***************************************************************************)
EXTENDS Naturals

CONSTANT Cent   \* the tolerance 0.01 of every amount comparison, in cents

ASSUME CentAssumption == Cent \in Nat

-----------------------------------------------------------------------------
(* Life cycle of an order. *)

OrderStatus ==
    {"CREATED", "IN_PROGRESS", "READY", "STORED", "DELIVERED", "CANCELLED"}

\* An order identifier whose row has not been inserted yet.
NoOrder == "NONE"

\* Mutated form: a delivered order may still be cancelled.
MutantAllowedTransitions ==
    { <<"CREATED", "IN_PROGRESS">>,   <<"CREATED", "CANCELLED">>,
      <<"IN_PROGRESS", "READY">>,     <<"IN_PROGRESS", "CANCELLED">>,
      <<"READY", "CANCELLED">>,       <<"STORED", "CANCELLED">>,
      <<"DELIVERED", "CANCELLED">> }

\* The pairs validateStatusTransition lets through: the status endpoint
\* reaches neither STORED nor DELIVERED.
AllowedTransitions ==
    { <<"CREATED", "IN_PROGRESS">>,   <<"CREATED", "CANCELLED">>,
      <<"IN_PROGRESS", "READY">>,     <<"IN_PROGRESS", "CANCELLED">>,
      <<"READY", "CANCELLED">>,       <<"STORED", "CANCELLED">> }

Closed == {"DELIVERED", "CANCELLED"}

-----------------------------------------------------------------------------
(* Shelves. *)

SlotType   == {"RECEPTION", "DELIVERY"}
SlotStatus == {"FREE", "OCCUPIED"}

\* Which shelf an order of each status is stored on; no pair: refused.
ShelfPairing ==
    { <<"CREATED", "RECEPTION">>, <<"READY", "DELIVERY">>, <<"STORED", "DELIVERY">> }

-----------------------------------------------------------------------------
(* Money. *)

PaymentStatus == {"UNPAID", "PARTIAL", "PAID"}
SessionStatus == {"NONE", "OPEN", "CLOSED", "REMITTED"}

\* amount <= total - paid + 0.01, the only bound on a later payment.
WithinBalance(total, paid, amount) == amount + paid <= total + Cent

\* Mutated form: the verdict forgets the tolerance.
MutantSettledStatus(total, paid) == IF paid >= total THEN "PAID" ELSE "PARTIAL"

\* payment_status after the paid amount has become `paid`.
SettledStatus(total, paid) ==
    IF paid + Cent >= total THEN "PAID" ELSE "PARTIAL"

\* The initial payment of an order never exceeds its price.
CappedAmount(initial, total) == IF initial <= total THEN initial ELSE total

=============================================================================

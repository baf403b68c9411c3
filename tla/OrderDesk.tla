----------------------------- MODULE OrderDesk ------------------------------
(***************************************************************************)
(* What the counter of a site promises: orders, the shelves they are put   *)
(* on, the payments taken for them and the cash register sessions those    *)
(* payments go to, when every request runs alone.  One action is one whole *)
(* request of OrdersService, StorageService, PaymentsService or            *)
(* CashRegisterService; a request that throws rolls back, hence is no step.*)
(* OrderDeskTxn is the same counter statement by statement, with several   *)
(* requests in flight.                                                     *)
(*                                                                         *)
(* The payments table is kept as the two sums the code and its reports ask *)
(* of it: collected[o], the amounts taken for an order, and drawer[k], the *)
(* CASH amounts taken in a session.                                        *)
(***************************************************************************)
EXTENDS DeskRules

CONSTANTS
    Orders,       \* order identifiers
    Slots,        \* storage slots, all created before
    SlotTypeOf,   \* the slot_type of each slot
    Operators,    \* counter staff
    Sessions,     \* cash register session identifiers
    OperatorOf,   \* the operator each session would be opened by
    Prices,       \* the totals the price list can give
    Amounts,      \* the amounts a payment request can name
    Cash          \* whether payments are in cash: some, all or none of them

ASSUME ShelfAssumption == SlotTypeOf \in [Slots -> SlotType]
ASSUME SessionAssumption == OperatorOf \in [Sessions -> Operators]
ASSUME MoneyAssumption ==
    Prices \subseteq Nat /\ Amounts \subseteq Nat \ {0} /\ Cash \subseteq BOOLEAN

VARIABLES
    order,      \* orders: status, total, paid (amount_paid), pay (payment_status)
    slot,       \* storage_slots.status
    stored,     \* order_storage, the pairs <<order_id, shelf_slot_id>>
    session,    \* cash_register_sessions: status, expected (expected_cash)
    collected,  \* SUM(payments.amount) per order
    drawer      \* SUM(payments.amount) of the CASH payments per session

vars == <<order, slot, stored, session, collected, drawer>>

OrderRow == [status : OrderStatus \cup {NoOrder}, total : Nat, paid : Nat,
             pay : PaymentStatus]
SessionRow == [status : SessionStatus, expected : Nat]

\* The slots an order is recorded in.
ShelvesOf(o) == {s \in Slots : <<o, s>> \in stored}

Exists(o) == order[o].status # NoOrder

Init ==
    /\ order = [o \in Orders |-> [status |-> NoOrder, total |-> 0, paid |-> 0,
                                  pay |-> "UNPAID"]]
    /\ slot = [s \in Slots |-> "FREE"]
    /\ stored = {}
    /\ session = [k \in Sessions |-> [status |-> "NONE", expected |-> 0]]
    /\ collected = [o \in Orders |-> 0]
    /\ drawer = [k \in Sessions |-> 0]

-----------------------------------------------------------------------------
(* Payments.  A payment is booked three times: in the payments table, in   *)
(* the order's amount_paid and, for cash, in the session's expected_cash.  *)

\* Mutated form: a refund's sign on the session's expected cash.
MutantBookRefund(o, k, amount, cash) ==
    LET inDrawer == IF cash THEN amount ELSE 0
    IN  /\ collected' = [collected EXCEPT ![o] = @ + amount]
        /\ drawer' = [drawer EXCEPT ![k] = @ + inDrawer]
        /\ session' = [session EXCEPT ![k].expected = @ - inDrawer]

\* Mutated form: every payment method counts as cash in expected_cash.
MutantBookAnyMethod(o, k, amount, cash) ==
    LET inDrawer == IF cash THEN amount ELSE 0
    IN  /\ collected' = [collected EXCEPT ![o] = @ + amount]
        /\ drawer' = [drawer EXCEPT ![k] = @ + inDrawer]
        /\ session' = [session EXCEPT ![k].expected = @ + amount]

\* The payments table and the session after `amount` is taken in session k.
Book(o, k, amount, cash) ==
    LET inDrawer == IF cash THEN amount ELSE 0
    IN  /\ collected' = [collected EXCEPT ![o] = @ + amount]
        /\ drawer' = [drawer EXCEPT ![k] = @ + inDrawer]
        /\ session' = [session EXCEPT ![k].expected = @ + inDrawer]

\* Mutated form: the session is not asked to be open.
MutantPay(o, k, amount, cash) ==
    LET row == order[o]
    IN  /\ Exists(o)
        /\ WithinBalance(row.total, row.paid, amount)
        /\ session[k].status # "NONE"
        /\ order' = [order EXCEPT ![o] =
               [row EXCEPT !.paid = row.paid + amount,
                           !.pay = SettledStatus(row.total, row.paid + amount)]]
        /\ Book(o, k, amount, cash)
        /\ UNCHANGED <<slot, stored>>

\* PaymentsService.create.  The order's status is not consulted.
Pay(o, k, amount, cash) ==
    LET row == order[o]
    IN  /\ Exists(o)
        /\ WithinBalance(row.total, row.paid, amount)
        /\ session[k].status = "OPEN"
        /\ order' = [order EXCEPT ![o] =
               [row EXCEPT !.paid = row.paid + amount,
                           !.pay = SettledStatus(row.total, row.paid + amount)]]
        /\ Book(o, k, amount, cash)
        /\ UNCHANGED <<slot, stored>>

\* OrdersService.create without an initial payment.
CreateOrder(o, price) ==
    /\ ~Exists(o)
    /\ order' = [order EXCEPT ![o] = [status |-> "CREATED", total |-> price,
                                      paid |-> 0, pay |-> "UNPAID"]]
    /\ UNCHANGED <<slot, stored, session, collected, drawer>>

\* OrdersService.create with one, taken in an open session of the operator.
CreateOrderPaying(o, price, k, initial, cash) ==
    LET amount == CappedAmount(initial, price)
    IN  /\ ~Exists(o)
        /\ session[k].status = "OPEN"
        /\ order' = [order EXCEPT ![o] = [status |-> "CREATED", total |-> price,
                                          paid |-> amount,
                                          pay |-> SettledStatus(price, amount)]]
        /\ Book(o, k, amount, cash)
        /\ UNCHANGED <<slot, stored>>

-----------------------------------------------------------------------------
(* The life cycle and the shelves. *)

\* Mutated form: the records go, the slots keep their status.
MutantEmptyShelves(o) ==
    /\ slot' = slot
    /\ stored' = stored \ {<<o, s>> : s \in Slots}

\* Every slot the order is recorded in becomes FREE and the records go.
EmptyShelves(o) ==
    /\ slot' = [s \in Slots |-> IF s \in ShelvesOf(o) THEN "FREE" ELSE slot[s]]
    /\ stored' = stored \ {<<o, s>> : s \in Slots}

\* Mutated form: work starts while the order keeps its reception shelf.
MutantStartProcessing(o) ==
    /\ order[o].status = "CREATED"
    /\ \E s \in ShelvesOf(o) : SlotTypeOf[s] = "RECEPTION"
    /\ order' = [order EXCEPT ![o].status = "IN_PROGRESS"]
    /\ UNCHANGED <<slot, stored, session, collected, drawer>>

\* OrdersService.updateStatus, the branch that starts the work: the order
\* leaves its reception shelf.
StartProcessing(o) ==
    /\ order[o].status = "CREATED"
    /\ \E s \in ShelvesOf(o) : SlotTypeOf[s] = "RECEPTION"
    /\ order' = [order EXCEPT ![o].status = "IN_PROGRESS"]
    /\ EmptyShelves(o)
    /\ UNCHANGED <<session, collected, drawer>>

\* OrdersService.updateStatus, every other transition: the shelf is kept.
UpdateStatus(o, new) ==
    /\ <<order[o].status, new>> \in AllowedTransitions
    /\ new # "IN_PROGRESS"
    /\ order' = [order EXCEPT ![o].status = new]
    /\ UNCHANGED <<slot, stored, session, collected, drawer>>

\* StorageService.assignOrderToSlot: earlier slots are freed first.
AssignOrderToSlot(o, s) ==
    /\ Exists(o)
    /\ s \notin ShelvesOf(o)
    /\ slot[s] = "FREE"
    /\ <<order[o].status, SlotTypeOf[s]>> \in ShelfPairing
    /\ slot' = [t \in Slots |-> IF t = s THEN "OCCUPIED"
                                ELSE IF t \in ShelvesOf(o) THEN "FREE" ELSE slot[t]]
    /\ stored' = (stored \ {<<o, t>> : t \in Slots}) \cup {<<o, s>>}
    /\ order' = [order EXCEPT ![o].status = IF @ = "READY" THEN "STORED" ELSE @]
    /\ UNCHANGED <<session, collected, drawer>>

\* StorageService.releaseOrder, an endpoint of its own in every status.
ReleaseOrder(o) ==
    /\ ShelvesOf(o) # {}
    /\ EmptyShelves(o)
    /\ UNCHANGED <<order, session, collected, drawer>>

\* Mutated form: the goods leave whether paid or not.
MutantProcessDelivery(o) ==
    /\ order[o].status = "STORED"
    /\ ShelvesOf(o) # {}
    /\ EmptyShelves(o)
    /\ order' = [order EXCEPT ![o].status = "DELIVERED"]
    /\ UNCHANGED <<session, collected, drawer>>

\* StorageService.processDelivery.
ProcessDelivery(o) ==
    /\ order[o].status = "STORED"
    /\ order[o].pay = "PAID"
    /\ ShelvesOf(o) # {}
    /\ EmptyShelves(o)
    /\ order' = [order EXCEPT ![o].status = "DELIVERED"]
    /\ UNCHANGED <<session, collected, drawer>>

-----------------------------------------------------------------------------
(* Cash register sessions. *)

\* Mutated form: a closed session no longer counts.
MutantPending(op) == {k \in Sessions : OperatorOf[k] = op
                                       /\ session[k].status = "OPEN"}

\* The sessions that keep an operator from opening another one.
Pending(op) == {k \in Sessions : OperatorOf[k] = op
                                 /\ session[k].status \in {"OPEN", "CLOSED"}}

\* CashRegisterService.openSession: k is the identifier of the new row.
OpenSession(k) ==
    /\ session[k].status = "NONE"
    /\ Pending(OperatorOf[k]) = {}
    /\ session' = [session EXCEPT ![k] = [status |-> "OPEN", expected |-> 0]]
    /\ UNCHANGED <<order, slot, stored, collected, drawer>>

\* CashRegisterService.closeSession: expected_cash is summed again.
CloseSession(k) ==
    /\ session[k].status = "OPEN"
    /\ session' = [session EXCEPT ![k] =
           [session[k] EXCEPT !.status = "CLOSED", !.expected = drawer[k]]]
    /\ UNCHANGED <<order, slot, stored, collected, drawer>>

\* RemittancesService.acknowledgeCashRemittance, its effect on the session.
RemitSession(k) ==
    /\ session[k].status = "CLOSED"
    /\ session' = [session EXCEPT ![k].status = "REMITTED"]
    /\ UNCHANGED <<order, slot, stored, collected, drawer>>

-----------------------------------------------------------------------------
OrderRequest(o) ==
    \/ \E price \in Prices : CreateOrder(o, price)
    \/ \E price \in Prices, k \in Sessions, initial \in Amounts, cash \in Cash :
           CreateOrderPaying(o, price, k, initial, cash)
    \/ \E k \in Sessions, amount \in Amounts, cash \in Cash : Pay(o, k, amount, cash)
    \/ StartProcessing(o)
    \/ \E new \in OrderStatus : UpdateStatus(o, new)
    \/ \E s \in Slots : AssignOrderToSlot(o, s)
    \/ ReleaseOrder(o)
    \/ ProcessDelivery(o)

SessionRequest(k) ==
    \/ OpenSession(k)
    \/ CloseSession(k)
    \/ RemitSession(k)

Next ==
    \/ \E o \in Orders : OrderRequest(o)
    \/ \E k \in Sessions : SessionRequest(k)

Spec == Init /\ [][Next]_vars

-----------------------------------------------------------------------------
(* Properties. *)

TypeOK ==
    /\ order \in [Orders -> OrderRow]
    /\ slot \in [Slots -> SlotStatus]
    /\ stored \subseteq Orders \X Slots
    /\ session \in [Sessions -> SessionRow]
    /\ collected \in [Orders -> Nat]
    /\ drawer \in [Sessions -> Nat]

\* A slot is OCCUPIED exactly while an order is recorded in it.
SlotMirrorsRecords ==
    \A s \in Slots : slot[s] = "OCCUPIED" <=> \E o \in Orders : <<o, s>> \in stored

\* Two orders are never recorded in the same slot, nor an order in two.
OneToOneShelves ==
    \A a, b \in stored : (a[1] = b[1] <=> a[2] = b[2])

\* The shelf map an operator sees is the truth: statuses and records agree, and
\* an order has one place.  Assign, release, start of work and delivery each
\* rewrite both tables; what one forgets shows after another's request.
ShelfConsistent == SlotMirrorsRecords /\ OneToOneShelves

\* An order on a shelf is on one its status calls for: linen not yet washed in
\* reception, finished linen in delivery; nothing in the workshop, ready but not
\* stored, or delivered is on a shelf.  A cancelled order keeps its place.
ShelfFitsStatus ==
    \A o \in Orders, s \in Slots : <<o, s>> \in stored =>
        \/ order[o].status = "CREATED" /\ SlotTypeOf[s] = "RECEPTION"
        \/ order[o].status = "STORED" /\ SlotTypeOf[s] = "DELIVERY"
        \/ order[o].status = "CANCELLED"

\* The order row and the payments table agree: amount_paid is the sum of the
\* payments, at most the price plus the tolerance, and payment_status is the
\* verdict on that sum.
BooksBalance ==
    \A o \in Orders :
        /\ order[o].paid = collected[o]
        /\ Exists(o) => WithinBalance(order[o].total, order[o].paid, 0)
        /\ order[o].pay = "PAID" => order[o].paid + Cent >= order[o].total
        /\ order[o].pay = "PARTIAL" => order[o].paid + Cent < order[o].total
        /\ order[o].pay = "UNPAID" => order[o].paid = 0

\* The two ways expected_cash is computed, payment by payment while the session
\* is open and as a sum when it is closed, never differ.
DrawerBalances == \A k \in Sessions : session[k].expected = drawer[k]

\* An operator has at most one session that is open or waits to be remitted.
OneSessionPerOperator ==
    \A j, k \in Sessions :
        (OperatorOf[j] = OperatorOf[k]
         /\ session[j].status \in {"OPEN", "CLOSED"}
         /\ session[k].status \in {"OPEN", "CLOSED"}) => j = k

\* A delivered order is settled, and has left its shelf.
DeliveredIsSettled ==
    \A o \in Orders : order[o].status = "DELIVERED" =>
        /\ collected[o] + Cent >= order[o].total
        /\ ShelvesOf(o) = {}

\* DELIVERED and CANCELLED are final, though payments are still accepted.
ClosedIsFinal ==
    [][\A o \in Orders : order[o].status \in Closed =>
           order'[o].status = order[o].status]_vars

\* What was counted at closing stays what was counted: no later request of any
\* kind changes the expected cash of a session that is not open.
ClosedDrawerIsFrozen ==
    [][\A k \in Sessions : session[k].status \in {"CLOSED", "REMITTED"} =>
           /\ session'[k].expected = session[k].expected
           /\ drawer'[k] = drawer[k]]_vars

=============================================================================

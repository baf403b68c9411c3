---------------------------- MODULE OrderDeskTxn ----------------------------
(***************************************************************************)
(* The counter of OrderDesk as the database sees it: several requests in   *)
(* flight, each a sequence of statements in a READ COMMITTED transaction,  *)
(* no row locked by a read and no version column.  A request              *)
(*   - reads rows, one statement a step, and keeps the images it read;     *)
(*   - saves entities: TypeORM's save loads the row again and will update  *)
(*     the columns whose image differs from what it loads (step Save, the  *)
(*     loads of one transaction taken together);                           *)
(*   - commits: its inserts, updates and deletes become visible (Commit).  *)
(* A request may end at any step without effect (Abort): it throws, the    *)
(* connection is lost, PostgreSQL picks it to break a deadlock, or the     *)
(* process dies.  Changing status to IN_PROGRESS takes two transactions.   *)
(***************************************************************************)
EXTENDS DeskRules

CONSTANTS Orders, Slots, SlotTypeOf, Operators, Sessions, OperatorOf, Prices,
          Amounts,
          Cash,      \* whether payments are in cash: some, all or none of them
          MaxReceipts, \* bound: what the payments of one order may add up to
          Workers,   \* requests that can be in flight at the same time
          Calls      \* the endpoints that are called, a subset of Endpoints

Endpoints == {"create", "pay", "status", "assign", "release", "deliver",
              "address", "open", "close"}

ASSUME DeskAssumption ==
    /\ SlotTypeOf \in [Slots -> SlotType]
    /\ OperatorOf \in [Sessions -> Operators]
    /\ Prices \subseteq Nat /\ Amounts \subseteq Nat \ {0}
    /\ Orders # {} /\ Sessions # {}
    /\ Calls \subseteq Endpoints /\ MaxReceipts \in Nat
    /\ Cash \subseteq BOOLEAN

VARIABLES
    order, slot, stored, session, collected, drawer,  \* committed, as in OrderDesk
    reached,   \* history: the statuses each order has had, SHELVED once received
    req        \* the request each worker runs

tables == <<order, slot, stored, session, collected, drawer, reached>>
vars == <<tables, req>>

OrderRow == [status : OrderStatus \cup {NoOrder}, total : Nat, paid : Nat,
             pay : PaymentStatus]
SessionRow == [status : SessionStatus, expected : Nat]
OrderColumns == {"status", "paid", "pay"}
SessionColumns == {"status", "expected"}
Milestones == OrderStatus \cup {"SHELVED"}

Request ==
    [call   : Endpoints \cup {"idle"},
     at     : {"idle", "info", "release", "shelves", "target", "session", "check",
               "insert", "sum", "save", "commit"},
     o      : Orders,                  \* the order and the session it works on
     k      : Sessions,
     amount : Nat,                     \* the payment to insert, 0 for none
     cash   : BOOLEAN,
     was    : OrderStatus \cup {NoOrder}, \* history: the order's status when it was read
     ord    : OrderRow,                \* images of the two rows
     ses    : SessionRow,
     saves  : SUBSET {"order", "session"},  \* which of them it saves
     cols   : SUBSET OrderColumns,     \* columns its UPDATE orders sets
     scols  : SUBSET SessionColumns,   \* columns its UPDATE of the session sets
     took   : SUBSET Slots,            \* order_storage rows read and deleted
     freed  : SUBSET Slots,            \* slots its UPDATE sets to FREE
     place  : SUBSET Slots,            \* order_storage row it inserts
     occupy : SUBSET Slots,            \* slot its UPDATE sets to OCCUPIED
     left   : SUBSET Slots]            \* shelves given up by its first transaction

NoRow == [status |-> NoOrder, total |-> 0, paid |-> 0, pay |-> "UNPAID"]
NoSession == [status |-> "NONE", expected |-> 0]

Idle ==
    [call |-> "idle", at |-> "idle",
     o |-> CHOOSE o \in Orders : TRUE, k |-> CHOOSE k \in Sessions : TRUE,
     amount |-> 0, cash |-> FALSE, was |-> NoOrder, ord |-> NoRow, ses |-> NoSession,
     saves |-> {}, cols |-> {}, scols |-> {}, took |-> {}, freed |-> {},
     place |-> {}, occupy |-> {}, left |-> {}]

ShelvesOf(o) == {s \in Slots : <<o, s>> \in stored}

Init ==
    /\ order = [o \in Orders |-> NoRow]
    /\ slot = [s \in Slots |-> "FREE"]
    /\ stored = {}
    /\ session = [k \in Sessions |-> NoSession]
    /\ collected = [o \in Orders |-> 0]
    /\ drawer = [k \in Sessions |-> 0]
    /\ reached = [o \in Orders |-> {}]
    /\ req = [w \in Workers |-> Idle]

-----------------------------------------------------------------------------
(* The shape of a request. *)

\* Worker w takes a new request; its first statement has been executed.
Begins(w, r) ==
    /\ req[w].at = "idle"
    /\ r.call \in Calls
    /\ req' = [req EXCEPT ![w] = r]
    /\ UNCHANGED tables

\* The request of worker w at step `at` executes a read and becomes r.
Continues(w, at, r) ==
    /\ req[w].at = at
    /\ req' = [req EXCEPT ![w] = r]
    /\ UNCHANGED tables

\* The columns of a row that a save of `image` finds different.
DirtyOrder(row, image) ==
    {c \in OrderColumns : \/ c = "status" /\ image.status # row.status
                          \/ c = "paid" /\ image.paid # row.paid
                          \/ c = "pay" /\ image.pay # row.pay}
DirtySession(row, image) ==
    {c \in SessionColumns : \/ c = "status" /\ image.status # row.status
                            \/ c = "expected" /\ image.expected # row.expected}

\* A row after an UPDATE of the columns cols to their values in image.
UpdateOrder(row, image, cols) ==
    [status |-> IF "status" \in cols THEN image.status ELSE row.status,
     total  |-> row.total,
     paid   |-> IF "paid" \in cols THEN image.paid ELSE row.paid,
     pay    |-> IF "pay" \in cols THEN image.pay ELSE row.pay]
UpdateSession(row, image, cols) ==
    [status   |-> IF "status" \in cols THEN image.status ELSE row.status,
     expected |-> IF "expected" \in cols THEN image.expected ELSE row.expected]

\* The columns whose image is a computed number: the driver loads a decimal as a
\* string, so the comparison may call them different whatever their value.
ComputedColumns(r) == IF r.call = "pay" THEN {"paid"} ELSE {}
ComputedSessionColumns(r) == IF "session" \in r.saves THEN {"expected"} ELSE {}

\* save() of every entity the transaction changed: the loads and the diffs.
Save(w) ==
    LET r == req[w]
        dirty == IF "order" \in r.saves /\ r.call # "create"
                 THEN DirtyOrder(order[r.o], r.ord) ELSE {}
        sdirty == IF "session" \in r.saves
                  THEN DirtySession(session[r.k], r.ses) ELSE {}
    IN  /\ r.at = "save"
        /\ \E cols \in {dirty, dirty \cup ComputedColumns(r)},
              scols \in {sdirty, sdirty \cup ComputedSessionColumns(r)} :
               req' = [req EXCEPT ![w] =
                   [r EXCEPT
                       !.at     = "commit",
                       !.cols   = cols,
                       !.scols  = scols,
                       !.freed  = {s \in r.took : slot[s] # "FREE"},
                       !.place  = {s \in r.place : <<r.o, s>> \notin stored},
                       !.occupy = {s \in r.place : slot[s] # "OCCUPIED"}]]
        /\ UNCHANGED tables

\* What is left of request r once its transaction has committed: the second
\* transaction of a start of work, after its release.
After(r) ==
    IF r.call = "status" /\ r.took # {}
    THEN [r EXCEPT !.at = "save", !.saves = {"order"}, !.left = r.took,
                   !.took = {}, !.freed = {}]
    ELSE Idle

Commit(w) ==
    LET r == req[w]
    IN  /\ r.at = "commit"
        \* the primary key of order_storage
        /\ \A s \in r.place : <<r.o, s>> \notin stored
        /\ order' = [order EXCEPT ![r.o] =
               IF r.call = "create" THEN r.ord ELSE UpdateOrder(@, r.ord, r.cols)]
        /\ slot' = [s \in Slots |-> IF s \in r.occupy THEN "OCCUPIED"
                                    ELSE IF s \in r.freed THEN "FREE" ELSE slot[s]]
        /\ stored' = (stored \ {<<r.o, s>> : s \in r.took})
                         \cup {<<r.o, s>> : s \in r.place}
        /\ session' = [session EXCEPT ![r.k] = UpdateSession(@, r.ses, r.scols)]
        /\ collected' = [collected EXCEPT ![r.o] = @ + r.amount]
        /\ drawer' = [drawer EXCEPT ![r.k] = @ + IF r.cash THEN r.amount ELSE 0]
        /\ reached' = [reached EXCEPT ![r.o] =
               @ \cup ({order'[r.o].status} \ {NoOrder})
                 \cup (IF \E s \in r.place : SlotTypeOf[s] = "RECEPTION"
                       THEN {"SHELVED"} ELSE {})]
        /\ req' = [req EXCEPT ![w] = After(r)]

Abort(w) ==
    /\ req[w].at # "idle"
    /\ req' = [req EXCEPT ![w] = Idle]
    /\ UNCHANGED tables

-----------------------------------------------------------------------------
(* Orders and payments. *)

\* An identifier no row and no creation in flight has.
Fresh(o) ==
    /\ order[o].status = NoOrder
    /\ \A w \in Workers : req[w].call = "create" => req[w].o # o

NewOrder(price, paid, pay) ==
    [status |-> "CREATED", total |-> price, paid |-> paid, pay |-> pay]

\* OrdersService.create without an initial payment inserts one row.
CreateOrder(w, o, price) ==
    /\ Fresh(o)
    /\ Begins(w, [Idle EXCEPT !.call = "create", !.at = "commit", !.o = o,
                              !.ord = NewOrder(price, 0, "UNPAID")])

\* With one: the order is inserted, then an open session is looked for.
CreateOrderPaying(w, o, price, initial, cash) ==
    LET amount == CappedAmount(initial, price)
    IN  /\ Fresh(o)
        /\ Begins(w, [Idle EXCEPT !.call = "create", !.at = "session", !.o = o,
                                  !.amount = amount, !.cash = cash,
                                  !.ord = NewOrder(price, amount,
                                                   SettledStatus(price, amount))])

\* PaymentsService.create: the order row, and the amount against its balance.
Pay(w, o, amount, cash) ==
    LET row == order[o]
    IN  /\ row.status # NoOrder
        /\ WithinBalance(row.total, row.paid, amount)
        /\ collected[o] + amount <= MaxReceipts
        /\ Begins(w, [Idle EXCEPT !.call = "pay", !.at = "session", !.o = o,
                                  !.amount = amount, !.cash = cash,
                                  !.saves = {"order"}, !.was = row.status,
                                  !.ord = [row EXCEPT !.paid = @ + amount,
                                           !.pay = SettledStatus(row.total,
                                                                 row.paid + amount)]])

\* The operator's open session; only cash changes it.
FindOpenSession(w, k) ==
    LET r == req[w]
    IN  /\ session[k].status = "OPEN"
        /\ Continues(w, "session",
               [r EXCEPT !.at = "save", !.k = k,
                         !.ses = [session[k] EXCEPT !.expected = @ + r.amount],
                         !.saves = @ \cup (IF r.cash THEN {"session"} ELSE {})])

-----------------------------------------------------------------------------
(* Status changes. *)

\* Mutated form: work starts without a look at the reception shelf.
MutantUpdateStatus(w, o, new) ==
    LET row == order[o]
        image == [row EXCEPT !.status = new]
    IN  /\ <<row.status, new>> \in AllowedTransitions
        /\ Begins(w, [Idle EXCEPT !.call = "status", !.at = "save", !.o = o,
                                  !.was = row.status, !.ord = image, !.saves = {"order"}])

\* OrdersService.updateStatus, with the order row it validates against.
UpdateStatus(w, o, new) ==
    LET row == order[o]
        image == [row EXCEPT !.status = new]
    IN  /\ <<row.status, new>> \in AllowedTransitions
        /\ Begins(w, IF new = "IN_PROGRESS"
                     THEN [Idle EXCEPT !.call = "status", !.at = "info", !.o = o,
                                       !.was = row.status, !.ord = image]
                     ELSE [Idle EXCEPT !.call = "status", !.at = "save", !.o = o,
                                       !.was = row.status, !.ord = image,
                                       !.saves = {"order"}])

\* getOrderStorageInfo, in its own transaction: some slot of the order.
StorageInfo(w) ==
    /\ \E s \in ShelvesOf(req[w].o) : SlotTypeOf[s] = "RECEPTION"
    /\ Continues(w, "info", [req[w] EXCEPT !.at = "release"])

\* releaseOrder, called by updateStatus: the order_storage rows it will delete.
ReleaseForWork(w) ==
    LET shelves == ShelvesOf(req[w].o)
    IN  /\ shelves # {}
        /\ Continues(w, "release", [req[w] EXCEPT !.at = "save", !.took = shelves])

\* OrdersService.updateDelivery: address, phone and locality of an open order.
UpdateDelivery(w, o) ==
    /\ order[o].status \notin Closed \cup {NoOrder}
    /\ Begins(w, [Idle EXCEPT !.call = "address", !.at = "save", !.o = o,
                              !.was = order[o].status, !.ord = order[o],
                              !.saves = {"order"}])

-----------------------------------------------------------------------------
(* Shelves. *)

\* StorageService.releaseOrder as an endpoint.
ReleaseOrder(w, o) ==
    /\ ShelvesOf(o) # {}
    /\ Begins(w, [Idle EXCEPT !.call = "release", !.at = "save", !.o = o,
                              !.took = ShelvesOf(o)])

\* StorageService.assignOrderToSlot: the order row,
AssignOrderToSlot(w, o, s) ==
    /\ order[o].status # NoOrder
    /\ Begins(w, [Idle EXCEPT !.call = "assign", !.at = "shelves", !.o = o,
                              !.was = order[o].status, !.ord = order[o], !.place = {s}])

\* its order_storage rows,
AssignShelves(w) ==
    LET r == req[w]
    IN  /\ r.call = "assign"
        /\ ShelvesOf(r.o) \cap r.place = {}
        /\ Continues(w, "shelves", [r EXCEPT !.at = "target", !.took = ShelvesOf(r.o)])

\* Mutated form: the slot's status is not looked at.
MutantAssignTarget(w) ==
    LET r == req[w]
    IN  /\ \A s \in r.place : <<r.ord.status, SlotTypeOf[s]>> \in ShelfPairing
        /\ Continues(w, "target",
               IF r.ord.status = "READY"
               THEN [r EXCEPT !.at = "save", !.saves = {"order"}, !.ord.status = "STORED"]
               ELSE [r EXCEPT !.at = "save"])

\* and the slot, which must be FREE and of the type the order's status calls for.
AssignTarget(w) ==
    LET r == req[w]
    IN  /\ \A s \in r.place : /\ slot[s] = "FREE"
                              /\ <<r.ord.status, SlotTypeOf[s]>> \in ShelfPairing
        /\ Continues(w, "target",
               IF r.ord.status = "READY"
               THEN [r EXCEPT !.at = "save", !.saves = {"order"}, !.ord.status = "STORED"]
               ELSE [r EXCEPT !.at = "save"])

\* Mutated form: payment is not asked for.
MutantProcessDelivery(w, o) ==
    /\ order[o].status = "STORED"
    /\ Begins(w, [Idle EXCEPT !.call = "deliver", !.at = "shelves", !.o = o,
                              !.was = order[o].status,
                              !.ord = [order[o] EXCEPT !.status = "DELIVERED"],
                              !.saves = {"order"}])

\* StorageService.processDelivery: the order row, stored and paid,
ProcessDelivery(w, o) ==
    /\ order[o].status = "STORED"
    /\ order[o].pay = "PAID"
    /\ Begins(w, [Idle EXCEPT !.call = "deliver", !.at = "shelves", !.o = o,
                              !.was = order[o].status,
                              !.ord = [order[o] EXCEPT !.status = "DELIVERED"],
                              !.saves = {"order"}])

\* and the shelves it is fetched from.
DeliveryShelves(w) ==
    LET r == req[w]
    IN  /\ r.call = "deliver"
        /\ ShelvesOf(r.o) # {}
        /\ Continues(w, "shelves", [r EXCEPT !.at = "save", !.took = ShelvesOf(r.o)])

-----------------------------------------------------------------------------
(* Cash register sessions. *)

OwnedBy(op, status) ==
    {k \in Sessions : OperatorOf[k] = op /\ session[k].status = status}

\* CashRegisterService.openSession: no open session,
OpenSession(w, k) ==
    /\ OwnedBy(OperatorOf[k], "OPEN") = {}
    /\ Begins(w, [Idle EXCEPT !.call = "open", !.at = "check", !.k = k])

\* then no session waiting to be remitted,
CheckUnremitted(w) ==
    /\ OwnedBy(OperatorOf[req[w].k], "CLOSED") = {}
    /\ Continues(w, "check", [req[w] EXCEPT !.at = "insert"])

\* then the insert, with an identifier of its own.
InsertSession(w) ==
    /\ req[w].at = "insert"
    /\ \E k \in OwnedBy(OperatorOf[req[w].k], "NONE") :
           session' = [session EXCEPT ![k].status = "OPEN"]
    /\ req' = [req EXCEPT ![w] = Idle]
    /\ UNCHANGED <<order, slot, stored, collected, drawer, reached>>

\* CashRegisterService.closeSession: the open session,
CloseSession(w, k) ==
    /\ session[k].status = "OPEN"
    /\ Begins(w, [Idle EXCEPT !.call = "close", !.at = "sum", !.k = k,
                              !.ses = [session[k] EXCEPT !.status = "CLOSED"]])

\* Mutated form: the sum is added to what the session already expected.
MutantSumPayments(w) ==
    LET r == req[w]
    IN  Continues(w, "sum", [r EXCEPT !.at = "save", !.saves = {"session"},
                                      !.ses.expected = @ + drawer[r.k]])

\* then the sum of its cash payments.
SumPayments(w) ==
    LET r == req[w]
    IN  Continues(w, "sum", [r EXCEPT !.at = "save", !.saves = {"session"},
                                      !.ses.expected = drawer[r.k]])

-----------------------------------------------------------------------------
NewRequest(w) ==
    \/ \E o \in Orders, price \in Prices : CreateOrder(w, o, price)
    \/ \E o \in Orders, price \in Prices, initial \in Amounts, cash \in Cash :
           CreateOrderPaying(w, o, price, initial, cash)
    \/ \E o \in Orders, amount \in Amounts, cash \in Cash : Pay(w, o, amount, cash)
    \/ \E o \in Orders, new \in OrderStatus : UpdateStatus(w, o, new)
    \/ \E o \in Orders : UpdateDelivery(w, o)
    \/ \E o \in Orders : ReleaseOrder(w, o)
    \/ \E o \in Orders, s \in Slots : AssignOrderToSlot(w, o, s)
    \/ \E o \in Orders : ProcessDelivery(w, o)
    \/ \E k \in Sessions : OpenSession(w, k)
    \/ \E k \in Sessions : CloseSession(w, k)

NextStatement(w) ==
    \/ \E k \in Sessions : FindOpenSession(w, k)
    \/ StorageInfo(w)
    \/ ReleaseForWork(w)
    \/ AssignShelves(w)
    \/ AssignTarget(w)
    \/ DeliveryShelves(w)
    \/ CheckUnremitted(w)
    \/ InsertSession(w)
    \/ SumPayments(w)
    \/ Save(w)
    \/ Commit(w)

Next == \E w \in Workers : NewRequest(w) \/ NextStatement(w) \/ Abort(w)

Spec == Init /\ [][Next]_vars

-----------------------------------------------------------------------------
(* Properties of every interleaving. *)

TypeOK ==
    /\ order \in [Orders -> OrderRow]
    /\ slot \in [Slots -> SlotStatus]
    /\ stored \subseteq Orders \X Slots
    /\ session \in [Sessions -> SessionRow]
    /\ collected \in [Orders -> Nat]
    /\ drawer \in [Sessions -> Nat]
    /\ reached \in [Orders -> SUBSET Milestones]
    /\ req \in [Workers -> Request]

\* Goods leave only against money: however requests interleave, crash or write
\* back stale rows, an order that is DELIVERED, or only marked PAID, has been
\* paid for.  processDelivery trusts payment_status, which each payment derives
\* from an amount_paid it read earlier.
GoodsLeavePaid ==
    /\ TypeOK
    /\ \A o \in Orders : (order[o].status = "DELIVERED" \/ order[o].pay = "PAID") =>
           collected[o] + Cent >= order[o].total

\* Lost updates go one way: an order never shows more paid, nor a session more
\* expected cash, than the payments table holds, so a race makes the books ask
\* for money twice but never hides a shortage of cash from a closing count.
BooksNeverExceedReceipts ==
    /\ \A o \in Orders : order[o].paid <= collected[o]
    /\ \A k \in Sessions : session[k].expected <= drawer[k]

\* No interleaving lets an order skip a stage: a delivered order has been
\* shelved in reception, worked on, made ready and stored.
NoStageSkipped ==
    \A o \in Orders :
        /\ "IN_PROGRESS" \in reached[o] => "SHELVED" \in reached[o]
        /\ "READY" \in reached[o] => "IN_PROGRESS" \in reached[o]
        /\ "STORED" \in reached[o] => "READY" \in reached[o]
        /\ "DELIVERED" \in reached[o] => "STORED" \in reached[o]

\* The status of a closed order changes only by a request that had read the order
\* in another status and writes its old image back: no request that found it
\* DELIVERED, or CANCELLED, makes it anything else.
OnlyStaleSavesReopen ==
    [][\A o \in Orders :
          order[o].status \in Closed /\ order'[o].status # order[o].status =>
              \E w \in Workers :
                  /\ req[w].o = o /\ req'[w] # req[w]
                  /\ "status" \in req[w].cols /\ req[w].was # order[o].status]_vars

=============================================================================

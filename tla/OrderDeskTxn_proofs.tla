------------------------ MODULE OrderDeskTxn_proofs -------------------------
(***************************************************************************)
(* What the counter keeps for any number of requests in flight, with their *)
(* stale reads, their aborts and every order of their statements.  The     *)
(* argument: rows only grow (an order that is there stays there, with the  *)
(* total it was created with; receipts and the statuses an order has had   *)
(* are never taken back), so what a request saw when it read a row is      *)
(* still enough when its save writes it: the money its image shows has     *)
(* been received, or comes with the request, and the status it writes is   *)
(* the next one, or one the order has had.  The second part is about one  *)
(* request in flight at a time.                                            *)
(***************************************************************************)
EXTENDS OrderDeskSerial, TLAPS

USE CentAssumption, DeskAssumption

\* What an order must have been through before it is in status st.
Reachable(o, st) ==
    /\ st = "IN_PROGRESS" => "SHELVED" \in reached[o]
    /\ st = "READY" => "IN_PROGRESS" \in reached[o]
    /\ st = "STORED" => "READY" \in reached[o]
    /\ st = "DELIVERED" => "STORED" \in reached[o]

\* The receipts of o, and amount, pay for total.
Covered(o, total, amount) == collected[o] + amount + Cent >= total

\* What the tables say of an order, and of a session.
OrderOK(o) ==
    /\ order[o].status # NoOrder => order[o].status \in reached[o]
    /\ \A st \in reached[o] : Reachable(o, st)
    /\ \A s \in Slots : <<o, s>> \in stored /\ SlotTypeOf[s] = "RECEPTION" => "SHELVED" \in reached[o]
    /\ order[o].paid <= collected[o]
    /\ order[o].status = "DELIVERED" \/ order[o].pay = "PAID" => Covered(o, order[o].total, 0)

SessionOK(k) == session[k].expected <= drawer[k]

\* The image of an order: the row it was read from is there and has its total.
ImageOK(r) ==
    /\ r.call # "create" /\ r.ord.status # NoOrder =>
           order[r.o].status # NoOrder /\ r.ord.total = order[r.o].total
    /\ r.call # "create" /\ "order" \in r.saves => r.ord.status # NoOrder
    /\ r.call = "status" => r.ord.status # NoOrder
    /\ r.call = "pay" => "order" \in r.saves
    /\ r.at = "commit" /\ r.cols # {} => r.call # "create" /\ "order" \in r.saves

\* The money the image shows has been received, or comes with the request.
MoneyOK(r) ==
    /\ r.ord.paid <= collected[r.o] + r.amount
    /\ r.ord.status = "DELIVERED" \/ r.ord.pay = "PAID" => Covered(r.o, r.ord.total, r.amount)
    /\ r.call \notin {"pay", "create"} => r.amount = 0
    /\ "session" \in r.saves =>
           r.ses.expected <= drawer[r.k] + (IF r.cash THEN r.amount ELSE 0)
    /\ r.at = "session" => "session" \notin r.saves
    /\ r.at = "commit" /\ r.scols # {} => "session" \in r.saves

\* The status the image will write is the next one, or one the order has had.
StageOK(r) ==
    /\ r.at # "info" => Reachable(r.o, r.ord.status)
    /\ r.at = "info" => r.ord.status = "IN_PROGRESS"
    /\ r.was \in Closed => r.ord.status = r.was
    /\ (r.at = "target" => r.call = "assign") /\ (r.at = "sum" => r.call = "close")
    /\ r.call = "assign" /\ r.at \in {"shelves", "target"} =>
           r.ord.status = r.was /\ r.was \in reached[r.o]

Fits(r) == ImageOK(r) /\ MoneyOK(r) /\ StageOK(r)

\* A creation is alone with its identifier.
CreationOK(w, r) ==
    r.call = "create" =>
        /\ order[r.o].status = NoOrder /\ r.ord.status = "CREATED"
        /\ r.at \in {"session", "save", "commit"}
        /\ \A v \in Workers \ {w} : req[v].call = "create" => req[v].o # r.o

IInv ==
    /\ TypeOK
    /\ \A o \in Orders : OrderOK(o)
    /\ \A k \in Sessions : SessionOK(k)
    /\ \A w \in Workers : Fits(req[w]) /\ CreationOK(w, req[w])

-----------------------------------------------------------------------------
(* Steps. *)

Put(w, r) == req' = [req EXCEPT ![w] = r]

TableTypes ==
    /\ order \in [Orders -> OrderRow]
    /\ slot \in [Slots -> SlotStatus]
    /\ stored \subseteq Orders \X Slots
    /\ session \in [Sessions -> SessionRow]
    /\ collected \in [Orders -> Nat]
    /\ drawer \in [Sessions -> Nat]
    /\ reached \in [Orders -> SUBSET Milestones]

\* The tables take back no order, no receipt and no status an order has had.
Grows ==
    /\ \A o \in Orders :
          /\ order[o].status # NoOrder =>
                 order'[o].status # NoOrder /\ order'[o].total = order[o].total
          /\ collected[o] <= collected'[o]
          /\ reached[o] \subseteq reached'[o]
    /\ \A k \in Sessions : drawer[k] <= drawer'[k]

\* Worker w, going on with request r, leaves the creations of the others alone.
Spares(w, r) ==
    \A v \in Workers \ {w} : req[v].call = "create" =>
        /\ order'[req[v].o].status = NoOrder
        /\ r.call = "create" => r.o # req[v].o

LEMMA IdleFields ==
    /\ Idle.call = "idle" /\ Idle.at = "idle" /\ Idle.amount = 0 /\ Idle.cash = FALSE
    /\ Idle.was = NoOrder /\ Idle.ord = NoRow /\ Idle.saves = {} /\ Idle.cols = {}
    /\ Idle.scols = {} /\ Idle.o \in Orders /\ Idle.k \in Sessions
BY DEF Idle

LEMMA IdleType == Idle \in Request
<1>1. NoRow \in OrderRow /\ NoSession \in SessionRow
  BY DEF NoRow, NoSession, OrderRow, SessionRow, PaymentStatus, SessionStatus
<1>2. QED
  BY <1>1 DEF Idle, Request

LEMMA IdleOK == ASSUME TypeOK, NEW w PROVE Fits(Idle) /\ CreationOK(w, Idle)
<1>1. Idle.ord.status = "NONE" /\ Idle.ord.paid = 0 /\ Idle.ord.pay = "UNPAID"
  BY IdleFields DEF NoRow, NoOrder
<1>2. collected[Idle.o] \in Nat
  BY IdleFields DEF TypeOK
<1>3. ImageOK(Idle) /\ CreationOK(w, Idle)
  BY <1>1, IdleFields DEF ImageOK, CreationOK, NoOrder
<1>4. MoneyOK(Idle)
  BY <1>1, <1>2, IdleFields DEF MoneyOK
<1>5. StageOK(Idle)
  BY <1>1, IdleFields DEF StageOK, Reachable, Closed, NoOrder
<1>6. QED
  BY <1>3, <1>4, <1>5 DEF Fits

LEMMA PutType ==
    ASSUME TypeOK, NEW w \in Workers, NEW r \in Request, Put(w, r)
    PROVE  req' \in [Workers -> Request] /\ req'[w] = r /\ \A v \in Workers \ {w} : req'[v] = req[v]
BY DEF TypeOK, Put

LEMMA TypesAre == TypeOK <=> TableTypes /\ req \in [Workers -> Request]
BY DEF TypeOK, TableTypes

\* What the image of a request promises, growing tables leave true.
LEMMA FitsStays ==
    ASSUME TableTypes, TableTypes', Grows, NEW r \in Request, Fits(r)
    PROVE  Fits(r)'
<1>1. /\ r.o \in Orders /\ r.k \in Sessions /\ r.amount \in Nat /\ r.ord \in OrderRow
      /\ r.ses \in SessionRow
  BY DEF Request
<1>2. ImageOK(r)'
  BY <1>1 DEF Fits, ImageOK, Grows
<1>3. MoneyOK(r)'
  <2>1. /\ collected[r.o] \in Nat /\ collected'[r.o] \in Nat /\ collected[r.o] <= collected'[r.o]
        /\ drawer[r.k] \in Nat /\ drawer'[r.k] \in Nat /\ drawer[r.k] <= drawer'[r.k]
    BY <1>1 DEF TableTypes, Grows
  <2>2. r.ord.paid \in Nat /\ r.ord.total \in Nat /\ r.ses.expected \in Nat
    BY <1>1 DEF OrderRow, SessionRow
  <2>3. MoneyOK(r)
    BY DEF Fits
  <2>4. r.ord.paid <= collected'[r.o] + r.amount
    BY <1>1, <2>1, <2>2, <2>3 DEF MoneyOK
  <2>5. r.ord.status = "DELIVERED" \/ r.ord.pay = "PAID" => Covered(r.o, r.ord.total, r.amount)'
    BY <1>1, <2>1, <2>2, <2>3 DEF MoneyOK, Covered
  <2>6. "session" \in r.saves =>
            r.ses.expected <= drawer'[r.k] + (IF r.cash THEN r.amount ELSE 0)
    BY <1>1, <2>1, <2>2, <2>3 DEF MoneyOK
  <2>7. QED
    BY <2>3, <2>4, <2>5, <2>6 DEF MoneyOK
<1>4. StageOK(r)'
  BY <1>1 DEF Fits, StageOK, Reachable, Grows
<1>5. QED
  BY <1>2, <1>3, <1>4 DEF Fits

\* A step of worker w keeps the invariant if the tables do and its own request does.
LEMMA StepKeeps ==
    ASSUME IInv, NEW w \in Workers, NEW r \in Request, Put(w, r), Grows, Spares(w, r), TableTypes',
           \A o \in Orders : OrderOK(o)', \A k \in Sessions : SessionOK(k)', Fits(r)',
           r.call = "create" =>
               order'[r.o].status = NoOrder /\ r.ord.status = "CREATED" /\ r.at \in {"session", "save", "commit"}
    PROVE  IInv'
<1>1. req' \in [Workers -> Request] /\ req'[w] = r /\ \A v \in Workers \ {w} : req'[v] = req[v]
  BY PutType DEF IInv
<1>2. TypeOK'
  BY <1>1, TypesAre DEF TypeOK, TableTypes
<1>3. CreationOK(w, req[w])'
  BY <1>1 DEF CreationOK, Spares
<1>4. Fits(req[w])'
  BY <1>1 DEF Fits, ImageOK, MoneyOK, StageOK
<1>5. ASSUME NEW v \in Workers \ {w}
      PROVE  Fits(req[v])' /\ CreationOK(v, req[v])'
  <2>1. PICK d \in Request : d = req[v]
    BY DEF IInv, TypeOK
  <2>2. Fits(d) /\ CreationOK(v, d) /\ TableTypes
    BY <2>1, TypesAre DEF IInv
  <2>3. Fits(d)'
    BY <2>2, FitsStays
  <2>4. Fits(req[v])'
    BY <1>1, <2>1, <2>3 DEF Fits, ImageOK, MoneyOK, StageOK
  <2>5. CreationOK(v, d)'
    BY <1>1, <2>1, <2>2 DEF CreationOK, Spares
  <2>6. QED
    BY <1>1, <2>1, <2>4, <2>5 DEF CreationOK
<1>6. QED
  BY <1>2, <1>3, <1>4, <1>5 DEF IInv

\* A read: the tables stay, and a creation goes on, or begins with a fresh identifier.
LEMMA ReadKeeps ==
    ASSUME IInv, NEW w \in Workers, NEW r \in Request, Put(w, r), UNCHANGED tables, Fits(r),
           r.call = "create" => /\ r.ord.status = "CREATED" /\ r.at \in {"session", "save", "commit"}
                                /\ Fresh(r.o) \/ (req[w].call = "create" /\ r.o = req[w].o)
    PROVE  IInv'
<1>1. /\ order' = order /\ slot' = slot /\ stored' = stored /\ session' = session
      /\ collected' = collected /\ drawer' = drawer /\ reached' = reached
  BY DEF tables
<1>2. TypeOK /\ TableTypes
  BY TypesAre DEF IInv
<1>3. TableTypes'
  BY <1>1, <1>2 DEF TableTypes
<1>4. Grows
  BY <1>1, <1>2 DEF Grows, TableTypes
<1>5. \A v \in Workers : CreationOK(v, req[v])
  BY DEF IInv
<1>6. Spares(w, r)
  BY <1>1, <1>5 DEF Spares, CreationOK, Fresh
<1>7. \A o \in Orders : OrderOK(o)'
  BY <1>1 DEF IInv, OrderOK, Reachable, Covered
<1>8. \A k \in Sessions : SessionOK(k)'
  BY <1>1 DEF IInv, SessionOK
<1>9. Fits(r)'
  BY <1>2, <1>3, <1>4, FitsStays
<1>10. r.call = "create" => order'[r.o].status = NoOrder
  BY <1>1, <1>5 DEF CreationOK, Fresh
<1>11. QED
  BY <1>3, <1>4, <1>6, <1>7, <1>8, <1>9, <1>10, StepKeeps

LEMMA BeginsPuts ==
    ASSUME NEW w, NEW r, Begins(w, r)
    PROVE  Put(w, r) /\ UNCHANGED tables
BY DEF Begins, Put

LEMMA ContinuesPuts ==
    ASSUME NEW w, NEW at, NEW r, Continues(w, at, r)
    PROVE  Put(w, r) /\ UNCHANGED tables /\ req[w].at = at
BY DEF Continues, Put

LEMMA RequestFacts ==
    ASSUME IInv, NEW w \in Workers
    PROVE  req[w] \in Request /\ Fits(req[w]) /\ CreationOK(w, req[w]) /\ TypeOK
BY DEF IInv, TypeOK

-----------------------------------------------------------------------------
(* New requests. *)

\* A row that a request has just read.
LEMMA RowFacts ==
    ASSUME IInv, NEW o \in Orders
    PROVE  /\ order[o] \in OrderRow /\ OrderOK(o) /\ reached[o] \subseteq Milestones
           /\ order[o].status \in OrderStatus \cup {NoOrder} /\ order[o].total \in Nat
           /\ order[o].paid \in Nat /\ order[o].pay \in PaymentStatus
           /\ collected[o] \in Nat /\ order[o].paid <= collected[o]
           /\ order[o].status # NoOrder =>
                  order[o].status \in reached[o] /\ Reachable(o, order[o].status)
BY DEF IInv, TypeOK, OrderRow, OrderOK

LEMMA PriceFacts ==
    ASSUME NEW a \in Nat, NEW b \in Nat
    PROVE  /\ CappedAmount(a, b) \in Nat /\ SettledStatus(a, b) \in PaymentStatus
           /\ SettledStatus(a, b) = "PAID" => b + Cent >= a
BY DEF CappedAmount, SettledStatus, PaymentStatus

\* A creation in flight: its image is a new row, covered by the payment it brings.
LEMMA CreationFits ==
    ASSUME TypeOK, NEW r \in Request, r.call = "create", r.at \in {"session", "save", "commit"},
           r.ord.status = "CREATED", r.ord.paid = r.amount, r.was = NoOrder,
           r.ord.pay = "PAID" => r.amount + Cent >= r.ord.total,
           r.saves = {}, r.cols = {}, r.scols = {}
    PROVE  Fits(r)
<1>1. r.o \in Orders /\ r.amount \in Nat /\ r.ord.total \in Nat /\ collected[r.o] \in Nat
  BY DEF Request, OrderRow, TypeOK
<1>2. ImageOK(r)
  BY DEF ImageOK
<1>3. MoneyOK(r)
  BY <1>1 DEF MoneyOK, Covered
<1>4. StageOK(r)
  BY DEF StageOK, Reachable, Closed, NoOrder
<1>5. QED
  BY <1>2, <1>3, <1>4 DEF Fits

LEMMA CreateOrderKeeps ==
    ASSUME IInv, NEW w \in Workers, NEW o \in Orders, NEW price \in Prices, CreateOrder(w, o, price)
    PROVE  IInv'
<1> DEFINE c == [Idle EXCEPT !.call = "create", !.at = "commit", !.o = o,
                             !.ord = NewOrder(price, 0, "UNPAID")]
<1>1. NewOrder(price, 0, "UNPAID") \in OrderRow
  BY DEF NewOrder, OrderRow, OrderStatus, PaymentStatus
<1>2. PICK r \in Request : r = c
  BY <1>1, IdleType DEF Request, Endpoints
<1>3. /\ r.call = "create" /\ r.at = "commit" /\ r.o = o /\ r.ord = NewOrder(price, 0, "UNPAID")
      /\ r.amount = 0 /\ r.was = NoOrder /\ r.saves = {} /\ r.cols = {} /\ r.scols = {}
  BY <1>2, IdleType, IdleFields DEF Request
<1>4. Fresh(o) /\ Put(w, r) /\ UNCHANGED tables
  BY <1>2, BeginsPuts DEF CreateOrder
<1>5. Fits(r)
  BY <1>3, CreationFits DEF NewOrder, IInv
<1>6. QED
  BY <1>3, <1>4, <1>5, ReadKeeps DEF NewOrder

LEMMA CreateOrderPayingKeeps ==
    ASSUME IInv, NEW w \in Workers, NEW o \in Orders, NEW price \in Prices, NEW initial \in Amounts,
           NEW cash \in Cash, CreateOrderPaying(w, o, price, initial, cash)
    PROVE  IInv'
<1>1. PICK amount \in Nat : amount = CappedAmount(initial, price)
  BY PriceFacts
<1>2. PICK row \in OrderRow : row = NewOrder(price, amount, SettledStatus(price, amount))
  BY PriceFacts DEF NewOrder, OrderRow, OrderStatus
<1> DEFINE c == [Idle EXCEPT !.call = "create", !.at = "session", !.o = o,
                             !.amount = amount, !.cash = cash, !.ord = row]
<1>3. PICK r \in Request : r = c
  BY IdleType DEF Request, Endpoints
<1>4. /\ r.call = "create" /\ r.at = "session" /\ r.o = o /\ r.ord = row
      /\ r.amount = amount /\ r.was = NoOrder /\ r.saves = {} /\ r.cols = {} /\ r.scols = {}
  BY <1>3, IdleType, IdleFields DEF Request
<1>5. Fresh(o) /\ Put(w, r) /\ UNCHANGED tables
  BY <1>1, <1>2, <1>3, BeginsPuts DEF CreateOrderPaying
<1>6. row.status = "CREATED" /\ row.paid = amount /\ row.total = price
      /\ (row.pay = "PAID" => amount + Cent >= price)
  BY <1>2, PriceFacts DEF NewOrder
<1>7. Fits(r)
  BY <1>4, <1>6, CreationFits DEF IInv
<1>8. QED
  BY <1>4, <1>5, <1>6, <1>7, ReadKeeps

\* A request that carries an image of the row it has just read.
LEMMA ImageFits ==
    ASSUME IInv, NEW r \in Request, NEW o \in Orders, r.o = o,
           order[o].status # NoOrder, r.ord.total = order[o].total,
           r.call \notin {"create"}, r.ord.status # NoOrder,
           r.ord.paid <= collected[o] + r.amount, r.call # "pay" => r.amount = 0,
           r.ord.pay = "PAID" => Covered(o, order[o].total, r.amount),
           r.ord.status = "DELIVERED" => r.ord.pay = "PAID" \/ r.ord.status = order[o].status,
           r.call = "pay" => r.saves = {"order"}, "session" \notin r.saves,
           r.at \notin {"commit", "target"}, r.was = order[o].status,
           r.at = "info" => r.ord.status = "IN_PROGRESS", r.at # "sum",
           r.at # "info" => Reachable(o, r.ord.status),
           r.was \in Closed => r.ord.status = r.was,
           r.call = "assign" => r.ord.status = r.was
    PROVE  Fits(r)
<1>1. ImageOK(r)
  BY DEF ImageOK
<1>2. MoneyOK(r)
  <2>1. order[o].status = "DELIVERED" => Covered(o, order[o].total, r.amount)
    BY RowFacts DEF OrderOK, Covered, Request
  <2>2. QED
    BY <2>1 DEF MoneyOK
<1>3. StageOK(r)
  BY RowFacts DEF StageOK
<1>4. QED
  BY <1>1, <1>2, <1>3 DEF Fits

LEMMA PayKeeps ==
    ASSUME IInv, NEW w \in Workers, NEW o \in Orders, NEW amount \in Amounts, NEW cash \in Cash,
           Pay(w, o, amount, cash)
    PROVE  IInv'
<1> DEFINE old == order[o]
           pay == SettledStatus(old.total, old.paid + amount)
           image == [old EXCEPT !.paid = @ + amount, !.pay = pay]
           c == [Idle EXCEPT !.call = "pay", !.at = "session", !.o = o, !.amount = amount,
                             !.cash = cash, !.saves = {"order"}, !.was = old.status, !.ord = image]
<1>1. /\ old \in OrderRow /\ old.total \in Nat /\ old.paid + amount \in Nat /\ old.paid \in Nat
      /\ old.status \in OrderStatus \cup {NoOrder} /\ collected[o] \in Nat /\ old.paid <= collected[o]
  <2>1. /\ order[o] \in OrderRow /\ order[o].total \in Nat /\ order[o].paid \in Nat
        /\ order[o].status \in OrderStatus \cup {NoOrder} /\ collected[o] \in Nat
        /\ order[o].paid <= collected[o]
    BY RowFacts
  <2>2. QED
    BY <2>1
<1>2. pay \in PaymentStatus /\ (pay = "PAID" => old.paid + amount + Cent >= old.total)
  BY <1>1, PriceFacts
<1>3. old.status # NoOrder /\ Begins(w, c)
  BY DEF Pay
<1> HIDE DEF old, pay
<1>4. PICK row \in OrderRow : row = image
  BY <1>1, <1>2 DEF OrderRow
<1>5. /\ row.status = old.status /\ row.total = old.total /\ row.paid = old.paid + amount
      /\ row.pay = pay
  BY <1>1, <1>4 DEF OrderRow
<1> HIDE DEF image
<1>6. PICK r \in Request : r = c
  BY <1>1, <1>4, IdleType DEF Request, Endpoints
<1>7. /\ r.call = "pay" /\ r.at = "session" /\ r.o = o /\ r.ord = row /\ r.amount = amount
      /\ r.saves = {"order"} /\ r.was = old.status
  BY <1>4, <1>6, IdleType DEF Request
<1>8. Put(w, r) /\ UNCHANGED tables
  BY <1>3, <1>6, BeginsPuts
<1>9. row.paid <= collected[o] + amount
  BY <1>1, <1>5
<1>10. row.pay = "PAID" => Covered(o, old.total, amount)
  <2>1. pay = "PAID" => collected[o] + amount + Cent >= old.total
    BY <1>1, <1>2
  <2>2. QED
    BY <1>5, <2>1 DEF Covered
<1>11. Fits(r)
  BY <1>3, <1>5, <1>7, <1>9, <1>10, RowFacts, ImageFits DEF old
<1>12. QED
  BY <1>3, <1>7, <1>8, <1>11, ReadKeeps

LEMMA UpdateStatusKeeps ==
    ASSUME IInv, NEW w \in Workers, NEW o \in Orders, NEW new \in OrderStatus, UpdateStatus(w, o, new)
    PROVE  IInv'
<1> DEFINE old == order[o]
           image == [old EXCEPT !.status = new]
           c == IF new = "IN_PROGRESS"
                THEN [Idle EXCEPT !.call = "status", !.at = "info", !.o = o,
                                  !.was = old.status, !.ord = image]
                ELSE [Idle EXCEPT !.call = "status", !.at = "save", !.o = o,
                                  !.was = old.status, !.ord = image, !.saves = {"order"}]
<1>1. PICK row \in OrderRow : row = image
  BY RowFacts DEF OrderRow
<1>2. row.status = new /\ row.total = old.total /\ row.paid = old.paid /\ row.pay = old.pay
  BY <1>1, RowFacts DEF OrderRow
<1>3. PICK r \in Request : r = c
  <2>1. order[o].status \in OrderStatus \cup {NoOrder}
    BY RowFacts
  <2> HIDE DEF image
  <2>2. QED
    BY <1>1, <2>1, IdleType, ZenonT(30) DEF Request, Endpoints
<1>4. /\ r.call = "status" /\ r.o = o /\ r.ord = row /\ r.amount = 0
      /\ r.saves \in {{}, {"order"}} /\ r.was = old.status
      /\ r.at \in {"info", "save"} /\ (r.at = "info" <=> new = "IN_PROGRESS")
  BY <1>1, <1>3, IdleType, IdleFields DEF Request
<1>5. Put(w, r) /\ UNCHANGED tables /\ <<old.status, new>> \in AllowedTransitions
  BY <1>3, BeginsPuts DEF UpdateStatus
<1>6. /\ old.status \notin Closed \cup {NoOrder} /\ new \notin {"DELIVERED", "STORED"} \cup {NoOrder}
      /\ new = "READY" => old.status = "IN_PROGRESS"
  BY <1>5 DEF AllowedTransitions, Closed, NoOrder
<1>7. row.paid <= collected[o] /\ collected[o] \in Nat
  BY <1>2, RowFacts
<1>8. old.pay = "PAID" => Covered(o, old.total, 0)
  BY RowFacts DEF OrderOK
<1>9. r.at # "info" => Reachable(o, new)
  BY <1>4, <1>6, RowFacts DEF Reachable
<1>10. Fits(r)
  BY <1>2, <1>4, <1>6, <1>7, <1>8, <1>9, ImageFits
<1>11. QED
  BY <1>4, <1>5, <1>10, ReadKeeps

\* An image that is the row itself, or the row marked delivered or not.
LEMMA CopyKeeps ==
    ASSUME IInv, NEW w \in Workers, NEW o \in Orders, NEW r \in Request, Put(w, r), UNCHANGED tables,
           r.o = o, order[o].status # NoOrder, r.call \in {"address", "assign", "deliver"},
           r.at \in {"save", "shelves"}, r.amount = 0, r.was = order[o].status,
           r.saves \subseteq {"order"}, r.ord.total = order[o].total, r.ord.paid = order[o].paid,
           r.ord.pay = order[o].pay,
           \/ r.ord.status = order[o].status
           \/ /\ r.call = "deliver" /\ r.ord.status = "DELIVERED"
              /\ order[o].status = "STORED" /\ order[o].pay = "PAID"
    PROVE  IInv'
<1>1. r.ord.paid <= collected[o] /\ collected[o] \in Nat
  BY RowFacts
<1>2. order[o].pay = "PAID" => Covered(o, order[o].total, 0)
  BY RowFacts DEF OrderOK
<1>3. Reachable(o, r.ord.status)
  BY RowFacts DEF Reachable
<1>4. Fits(r)
  BY <1>1, <1>2, <1>3, ImageFits DEF Closed, NoOrder
<1>5. QED
  BY <1>4, ReadKeeps

LEMMA UpdateDeliveryKeeps ==
    ASSUME IInv, NEW w \in Workers, NEW o \in Orders, UpdateDelivery(w, o)
    PROVE  IInv'
<1> DEFINE c == [Idle EXCEPT !.call = "address", !.at = "save", !.o = o,
                             !.was = order[o].status, !.ord = order[o], !.saves = {"order"}]
<1>1. PICK r \in Request : r = c
  <2>1. order[o] \in OrderRow /\ order[o].status \in OrderStatus \cup {NoOrder}
    BY RowFacts
  <2>2. QED
    BY <2>1, IdleType, ZenonT(30) DEF Request, Endpoints
<1>2. /\ r.call = "address" /\ r.at = "save" /\ r.o = o /\ r.ord = order[o] /\ r.amount = 0
      /\ r.saves = {"order"} /\ r.was = order[o].status
  BY <1>1, IdleType, IdleFields DEF Request
<1>3. Put(w, r) /\ UNCHANGED tables /\ order[o].status # NoOrder
  BY <1>1, BeginsPuts DEF UpdateDelivery
<1>4. QED
  BY <1>2, <1>3, CopyKeeps

LEMMA AssignOrderToSlotKeeps ==
    ASSUME IInv, NEW w \in Workers, NEW o \in Orders, NEW s \in Slots, AssignOrderToSlot(w, o, s)
    PROVE  IInv'
<1> DEFINE c == [Idle EXCEPT !.call = "assign", !.at = "shelves", !.o = o,
                             !.was = order[o].status, !.ord = order[o], !.place = {s}]
<1>1. PICK r \in Request : r = c
  <2>1. order[o] \in OrderRow /\ order[o].status \in OrderStatus \cup {NoOrder}
    BY RowFacts
  <2>2. QED
    BY <2>1, IdleType, ZenonT(30) DEF Request, Endpoints
<1>2. /\ r.call = "assign" /\ r.at = "shelves" /\ r.o = o /\ r.ord = order[o] /\ r.amount = 0
      /\ r.saves = {} /\ r.was = order[o].status
  BY <1>1, IdleType, IdleFields DEF Request
<1>3. Put(w, r) /\ UNCHANGED tables /\ order[o].status # NoOrder
  BY <1>1, BeginsPuts DEF AssignOrderToSlot
<1>4. QED
  BY <1>2, <1>3, CopyKeeps

LEMMA ProcessDeliveryKeeps ==
    ASSUME IInv, NEW w \in Workers, NEW o \in Orders, ProcessDelivery(w, o)
    PROVE  IInv'
<1> DEFINE image == [order[o] EXCEPT !.status = "DELIVERED"]
           c == [Idle EXCEPT !.call = "deliver", !.at = "shelves", !.o = o,
                             !.was = order[o].status, !.ord = image, !.saves = {"order"}]
<1>1. PICK row \in OrderRow : row = image
  BY RowFacts DEF OrderRow, OrderStatus
<1>2. /\ row.status = "DELIVERED" /\ row.total = order[o].total /\ row.paid = order[o].paid
      /\ row.pay = order[o].pay
  BY <1>1, RowFacts DEF OrderRow
<1>3. PICK r \in Request : r = c
  <2>1. order[o].status \in OrderStatus \cup {NoOrder}
    BY RowFacts
  <2> HIDE DEF image
  <2>2. QED
    BY <1>1, <2>1, IdleType, ZenonT(30) DEF Request, Endpoints
<1>4. /\ r.call = "deliver" /\ r.at = "shelves" /\ r.o = o /\ r.ord = row /\ r.amount = 0
      /\ r.saves = {"order"} /\ r.was = order[o].status
  BY <1>1, <1>3, IdleType, IdleFields DEF Request
<1>5. Put(w, r) /\ UNCHANGED tables /\ order[o].status = "STORED" /\ order[o].pay = "PAID"
  BY <1>3, BeginsPuts DEF ProcessDelivery
<1>6. QED
  BY <1>2, <1>4, <1>5, CopyKeeps DEF NoOrder

\* A request that carries no image of an order.
LEMMA BareKeeps ==
    ASSUME IInv, NEW w \in Workers, NEW r \in Request, Put(w, r), UNCHANGED tables,
           r.call \in {"release", "open", "close"}, r.at \in {"save", "check", "sum"}, r.at = "sum" => r.call = "close",
           r.ord = NoRow, r.was = NoOrder, r.amount = 0, r.saves = {}
    PROVE  IInv'
<1>1. r.o \in Orders /\ collected[r.o] \in Nat
  BY DEF IInv, TypeOK, Request
<1>2. ImageOK(r)
  BY DEF ImageOK, NoRow
<1>3. MoneyOK(r)
  BY <1>1 DEF MoneyOK, NoRow, NoOrder
<1>4. StageOK(r)
  BY DEF StageOK, Reachable, Closed, NoRow, NoOrder
<1>5. QED
  BY <1>2, <1>3, <1>4, ReadKeeps DEF Fits

LEMMA ReleaseOrderKeeps ==
    ASSUME IInv, NEW w \in Workers, NEW o \in Orders, ReleaseOrder(w, o)
    PROVE  IInv'
<1>1. PICK r \in Request : r = [Idle EXCEPT !.call = "release", !.at = "save", !.o = o,
                                            !.took = ShelvesOf(o)]
  BY IdleType DEF Request, Endpoints, ShelvesOf
<1>2. /\ r.call = "release" /\ r.at = "save" /\ r.ord = NoRow /\ r.was = NoOrder
      /\ r.amount = 0 /\ r.saves = {}
  BY <1>1, IdleType, IdleFields DEF Request
<1>3. QED
  BY <1>1, <1>2, BeginsPuts, BareKeeps DEF ReleaseOrder

LEMMA OpenSessionKeeps ==
    ASSUME IInv, NEW w \in Workers, NEW k \in Sessions, OpenSession(w, k)
    PROVE  IInv'
<1>1. PICK r \in Request : r = [Idle EXCEPT !.call = "open", !.at = "check", !.k = k]
  BY IdleType DEF Request, Endpoints
<1>2. /\ r.call = "open" /\ r.at = "check" /\ r.ord = NoRow /\ r.was = NoOrder
      /\ r.amount = 0 /\ r.saves = {}
  BY <1>1, IdleType, IdleFields DEF Request
<1>3. QED
  BY <1>1, <1>2, BeginsPuts, BareKeeps DEF OpenSession

LEMMA CloseSessionKeeps ==
    ASSUME IInv, NEW w \in Workers, NEW k \in Sessions, CloseSession(w, k)
    PROVE  IInv'
<1>1. PICK image \in SessionRow : image = [session[k] EXCEPT !.status = "CLOSED"]
  BY DEF IInv, TypeOK, SessionRow, SessionStatus
<1>2. PICK r \in Request : r = [Idle EXCEPT !.call = "close", !.at = "sum", !.k = k, !.ses = image]
  BY IdleType DEF Request, Endpoints
<1>3. /\ r.call = "close" /\ r.at = "sum" /\ r.ord = NoRow /\ r.was = NoOrder
      /\ r.amount = 0 /\ r.saves = {}
  BY <1>2, IdleType, IdleFields DEF Request
<1>4. QED
  BY <1>1, <1>2, <1>3, BeginsPuts, BareKeeps DEF CloseSession

-----------------------------------------------------------------------------
(* Reads of a request under way. *)

\* A request that goes on with the image it has.
LEMMA GoesOn ==
    ASSUME IInv, NEW w \in Workers, NEW d \in Request, d = req[w], NEW r \in Request, Put(w, r),
           UNCHANGED tables, r.call = d.call, r.o = d.o, r.ord = d.ord, r.amount = d.amount,
           r.was = d.was, r.saves = d.saves, d.call # "create",
           r.k = d.k /\ r.ses = d.ses /\ r.cash = d.cash,
           r.at \in {"release", "save", "target", "insert"}, r.at = "target" => d.at = "shelves" /\ d.call = "assign",
           d.at = "info" => "SHELVED" \in reached[d.o]
    PROVE  IInv'
<1>1. Fits(d)
  BY RequestFacts
<1>2. ImageOK(r)
  BY <1>1 DEF Fits, ImageOK
<1>3. MoneyOK(r)
  BY <1>1 DEF Fits, MoneyOK
<1>4. StageOK(r)
  BY <1>1 DEF Fits, StageOK, Reachable
<1>5. QED
  BY <1>2, <1>3, <1>4, ReadKeeps DEF Fits

LEMMA StorageInfoKeeps ==
    ASSUME IInv, NEW w \in Workers, StorageInfo(w)
    PROVE  IInv'
<1>1. PICK d \in Request : d = req[w]
  BY RequestFacts
<1>2. PICK r \in Request : r = [d EXCEPT !.at = "release"]
  BY DEF Request
<1>3. /\ r.at = "release" /\ r.call = d.call /\ r.o = d.o /\ r.ord = d.ord /\ r.amount = d.amount
      /\ r.was = d.was /\ r.saves = d.saves /\ r.k = d.k /\ r.ses = d.ses /\ r.cash = d.cash
  BY <1>2 DEF Request
<1>4. Put(w, r) /\ UNCHANGED tables /\ d.at = "info"
  BY <1>1, <1>2, ContinuesPuts DEF StorageInfo
<1>5. "SHELVED" \in reached[d.o]
  BY <1>1 DEF StorageInfo, ShelvesOf, IInv, OrderOK, Request
<1>6. d.call # "create"
  BY <1>1, <1>4, RequestFacts DEF CreationOK
<1>7. QED
  BY <1>1, <1>3, <1>4, <1>5, <1>6, GoesOn

LEMMA ShelvesReadKeeps ==
    ASSUME IInv, NEW w \in Workers, ReleaseForWork(w) \/ AssignShelves(w) \/ DeliveryShelves(w)
    PROVE  IInv'
<1>1. PICK d \in Request : d = req[w]
  BY RequestFacts
<1>2. PICK at \in {"save", "target"} :
          /\ Put(w, [d EXCEPT !.at = at, !.took = ShelvesOf(d.o)]) /\ UNCHANGED tables
          /\ d.at \in {"release", "shelves"} /\ (at = "target" => d.at = "shelves" /\ d.call = "assign")
  BY <1>1, ContinuesPuts DEF ReleaseForWork, AssignShelves, DeliveryShelves
<1>3. PICK r \in Request : r = [d EXCEPT !.at = at, !.took = ShelvesOf(d.o)]
  BY DEF Request, ShelvesOf
<1>4. /\ r.at = at /\ r.call = d.call /\ r.o = d.o /\ r.ord = d.ord /\ r.amount = d.amount
      /\ r.was = d.was /\ r.saves = d.saves /\ r.k = d.k /\ r.ses = d.ses /\ r.cash = d.cash
  BY <1>3 DEF Request
<1>5. d.call # "create"
  BY <1>1, <1>2, RequestFacts DEF CreationOK
<1>6. Put(w, r) /\ UNCHANGED tables /\ d.at # "info"
  BY <1>2, <1>3
<1>7. QED
  BY <1>1, <1>2, <1>4, <1>5, <1>6, GoesOn

LEMMA CheckUnremittedKeeps ==
    ASSUME IInv, NEW w \in Workers, CheckUnremitted(w)
    PROVE  IInv'
<1>1. PICK d \in Request : d = req[w]
  BY RequestFacts
<1>2. PICK r \in Request : r = [d EXCEPT !.at = "insert"]
  BY DEF Request
<1>3. /\ r.at = "insert" /\ r.call = d.call /\ r.o = d.o /\ r.ord = d.ord /\ r.amount = d.amount
      /\ r.was = d.was /\ r.saves = d.saves /\ r.k = d.k /\ r.ses = d.ses /\ r.cash = d.cash
  BY <1>2 DEF Request
<1>4. Put(w, r) /\ UNCHANGED tables /\ d.at = "check"
  BY <1>1, <1>2, ContinuesPuts DEF CheckUnremitted
<1>5. d.call # "create"
  BY <1>1, <1>4, RequestFacts DEF CreationOK
<1>6. QED
  BY <1>1, <1>3, <1>4, <1>5, GoesOn

\* The order moves from READY to STORED with the shelf, or only the shelf changes.
LEMMA AssignTargetKeeps ==
    ASSUME IInv, NEW w \in Workers, AssignTarget(w)
    PROVE  IInv'
<1>1. PICK d \in Request : d = req[w]
  BY RequestFacts
<1>2. CASE d.ord.status = "READY"
  <2>1. PICK row \in OrderRow : row = [d.ord EXCEPT !.status = "STORED"]
    BY DEF Request, OrderRow, OrderStatus
  <2>2. row.status = "STORED" /\ row.total = d.ord.total /\ row.paid = d.ord.paid /\ row.pay = d.ord.pay
    BY <2>1 DEF Request, OrderRow
  <2>3. PICK r \in Request : r = [d EXCEPT !.at = "save", !.saves = {"order"}, !.ord = row]
    BY DEF Request
  <2>4. /\ r.at = "save" /\ r.call = d.call /\ r.o = d.o /\ r.ord = row /\ r.amount = d.amount
        /\ r.was = d.was /\ r.saves = {"order"}
    BY <2>3 DEF Request
  <2>5. Continues(w, "target", [d EXCEPT !.at = "save", !.saves = {"order"}, !.ord.status = "STORED"])
    BY <1>1, <1>2 DEF AssignTarget
  <2>6. [d EXCEPT !.at = "save", !.saves = {"order"}, !.ord.status = "STORED"] = r
    BY <2>1, <2>3 DEF Request
  <2>7. Put(w, r) /\ UNCHANGED tables /\ d.at = "target"
    BY <1>1, <2>5, <2>6, ContinuesPuts
  <2>8. d.call # "create"
    BY <1>1, <2>7, RequestFacts DEF CreationOK
  <2>9. Fits(d)
    BY <1>1, RequestFacts
  <2>10. ImageOK(r)
    BY <1>2, <2>2, <2>4, <2>8, <2>9 DEF Fits, ImageOK, NoOrder
  <2>11. MoneyOK(r)
    BY <1>2, <2>2, <2>4, <2>8, <2>9 DEF Fits, MoneyOK
  <2>12. d.call = "assign"
    BY <2>7, <2>9 DEF Fits, StageOK
  <2>13. StageOK(r)
    BY <1>2, <2>2, <2>4, <2>7, <2>9, <2>12 DEF Fits, StageOK, Reachable, Closed
  <2>14. QED
    BY <2>4, <2>7, <2>8, <2>10, <2>11, <2>13, ReadKeeps DEF Fits
<1>3. CASE d.ord.status # "READY"
  <2>1. PICK r \in Request : r = [d EXCEPT !.at = "save"]
    BY DEF Request
  <2>2. /\ r.at = "save" /\ r.call = d.call /\ r.o = d.o /\ r.ord = d.ord /\ r.amount = d.amount
        /\ r.was = d.was /\ r.saves = d.saves /\ r.k = d.k /\ r.ses = d.ses /\ r.cash = d.cash
    BY <2>1 DEF Request
  <2>3. Put(w, r) /\ UNCHANGED tables /\ d.at = "target"
    BY <1>1, <1>3, <2>1, ContinuesPuts DEF AssignTarget
  <2>4. d.call # "create"
    BY <1>1, <2>3, RequestFacts DEF CreationOK
  <2>5. QED
    BY <1>1, <2>2, <2>3, <2>4, GoesOn
<1>4. QED
  BY <1>2, <1>3

LEMMA FindOpenSessionKeeps ==
    ASSUME IInv, NEW w \in Workers, NEW k \in Sessions, FindOpenSession(w, k)
    PROVE  IInv'
<1>1. PICK d \in Request : d = req[w]
  BY RequestFacts
<1>2. session[k] \in SessionRow /\ drawer[k] \in Nat /\ session[k].expected \in Nat
      /\ session[k].expected <= drawer[k]
  BY DEF IInv, TypeOK, SessionRow, SessionOK
<1>3. d.amount \in Nat /\ session[k].expected + d.amount \in Nat
  <2>1. d.amount \in Nat
    BY DEF Request
  <2>2. QED
    BY <1>2, <2>1
<1>4. PICK ses \in SessionRow : ses = [session[k] EXCEPT !.expected = @ + d.amount]
  BY <1>2, <1>3 DEF SessionRow
<1>5. ses.expected = session[k].expected + d.amount
  BY <1>2, <1>4 DEF SessionRow
<1> DEFINE more == d.saves \cup (IF d.cash THEN {"session"} ELSE {})
<1>6. PICK r \in Request : r = [d EXCEPT !.at = "save", !.k = k, !.ses = ses, !.saves = more]
  <2>1. more \in SUBSET {"order", "session"}
    BY DEF Request
  <2> HIDE DEF more
  <2>2. QED
    BY <2>1 DEF Request
<1>7. /\ r.at = "save" /\ r.call = d.call /\ r.o = d.o /\ r.ord = d.ord /\ r.amount = d.amount
      /\ r.was = d.was /\ r.saves = more /\ r.k = k /\ r.ses = ses /\ r.cash = d.cash
  BY <1>6 DEF Request
<1>8. Put(w, r) /\ UNCHANGED tables /\ d.at = "session"
  BY <1>1, <1>4, <1>6, ContinuesPuts DEF FindOpenSession
<1>9. Fits(d) /\ CreationOK(w, d)
  BY <1>1, RequestFacts
<1>10. ImageOK(r)
  BY <1>7, <1>8, <1>9 DEF Fits, ImageOK
<1>11. "session" \in r.saves =>
           r.ses.expected <= drawer[r.k] + (IF r.cash THEN r.amount ELSE 0)
  BY <1>2, <1>3, <1>5, <1>7, <1>8, <1>9 DEF Fits, MoneyOK
<1>12. MoneyOK(r)
  BY <1>7, <1>9, <1>11 DEF Fits, MoneyOK
<1>13. StageOK(r)
  BY <1>7, <1>8, <1>9 DEF Fits, StageOK, Reachable
<1>14. QED
  BY <1>1, <1>7, <1>8, <1>9, <1>10, <1>12, <1>13, ReadKeeps DEF Fits, CreationOK

LEMMA SumPaymentsKeeps ==
    ASSUME IInv, NEW w \in Workers, SumPayments(w)
    PROVE  IInv'
<1>1. PICK d \in Request : d = req[w]
  BY RequestFacts
<1>2. d.k \in Sessions /\ drawer[d.k] \in Nat /\ d.amount \in Nat
  BY DEF IInv, TypeOK, Request
<1>3. PICK ses \in SessionRow : ses = [d.ses EXCEPT !.expected = drawer[d.k]]
  BY <1>2 DEF Request, SessionRow
<1>4. ses.expected = drawer[d.k]
  BY <1>3 DEF Request, SessionRow
<1>5. PICK r \in Request : r = [d EXCEPT !.at = "save", !.saves = {"session"}, !.ses = ses]
  BY DEF Request
<1>6. /\ r.at = "save" /\ r.call = d.call /\ r.o = d.o /\ r.ord = d.ord /\ r.amount = d.amount
      /\ r.was = d.was /\ r.saves = {"session"} /\ r.k = d.k /\ r.ses = ses /\ r.cash = d.cash
  BY <1>5 DEF Request
<1>7. Continues(w, "sum", [d EXCEPT !.at = "save", !.saves = {"session"}, !.ses.expected = drawer[d.k]])
  BY <1>1 DEF SumPayments
<1>8. [d EXCEPT !.at = "save", !.saves = {"session"}, !.ses.expected = drawer[d.k]] = r
  BY <1>3, <1>5 DEF Request
<1>9. Put(w, r) /\ UNCHANGED tables /\ d.at = "sum"
  BY <1>1, <1>7, <1>8, ContinuesPuts
<1>10. Fits(d) /\ d.call = "close"
  BY <1>1, <1>9, RequestFacts DEF Fits, StageOK
<1>11. ImageOK(r)
  BY <1>6, <1>10 DEF Fits, ImageOK
<1>12. MoneyOK(r)
  BY <1>2, <1>4, <1>6, <1>10 DEF Fits, MoneyOK
<1>13. StageOK(r)
  BY <1>6, <1>9, <1>10 DEF Fits, StageOK, Reachable
<1>14. QED
  BY <1>6, <1>9, <1>10, <1>11, <1>12, <1>13, ReadKeeps DEF Fits

\* The save's own reads: which columns it will update.
LEMMA SaveKeeps ==
    ASSUME IInv, NEW w \in Workers, Save(w)
    PROVE  IInv'
<1> DEFINE d == req[w]
           dirty == IF "order" \in d.saves /\ d.call # "create"
                    THEN DirtyOrder(order[d.o], d.ord) ELSE {}
           sdirty == IF "session" \in d.saves THEN DirtySession(session[d.k], d.ses) ELSE {}
           freed == {s \in d.took : slot[s] # "FREE"}
           place == {s \in d.place : <<d.o, s>> \notin stored}
           occupy == {s \in d.place : slot[s] # "OCCUPIED"}
           new(cols, scols) == [d EXCEPT !.at = "commit", !.cols = cols, !.scols = scols,
                                         !.freed = freed, !.place = place, !.occupy = occupy]
<1>1. d \in Request
  BY RequestFacts
<1>2. PICK cols \in {dirty, dirty \cup ComputedColumns(d)},
           scols \in {sdirty, sdirty \cup ComputedSessionColumns(d)} :
               req' = [req EXCEPT ![w] = new(cols, scols)]
  BY Zenon DEF Save
<1>3. d.at = "save" /\ UNCHANGED tables
  BY DEF Save
<1>4. cols \subseteq OrderColumns /\ scols \subseteq SessionColumns
  BY DEF DirtyOrder, DirtySession, ComputedColumns, ComputedSessionColumns, OrderColumns, SessionColumns
<1>5. cols # {} => ("order" \in d.saves /\ d.call # "create") \/ d.call = "pay"
  BY DEF ComputedColumns
<1>6. scols # {} => "session" \in d.saves
  BY DEF ComputedSessionColumns
<1>7. freed \subseteq Slots /\ place \subseteq Slots /\ occupy \subseteq Slots
  BY <1>1 DEF Request
<1> HIDE DEF d, dirty, sdirty, freed, place, occupy
<1>8. PICK r \in Request : r = new(cols, scols)
  BY <1>1, <1>4, <1>7 DEF Request
<1>9. /\ r.at = "commit" /\ r.call = d.call /\ r.o = d.o /\ r.ord = d.ord /\ r.amount = d.amount
      /\ r.was = d.was /\ r.saves = d.saves /\ r.k = d.k /\ r.ses = d.ses /\ r.cash = d.cash
      /\ r.cols = cols /\ r.scols = scols
  BY <1>1, <1>8 DEF Request
<1>10. Put(w, r)
  BY <1>2, <1>8 DEF Put, new
<1>11. Fits(d) /\ CreationOK(w, d)
  BY RequestFacts DEF d
<1>12. ImageOK(r)
  BY <1>5, <1>9, <1>11 DEF Fits, ImageOK
<1>13. MoneyOK(r)
  BY <1>6, <1>9, <1>11 DEF Fits, MoneyOK
<1>14. StageOK(r)
  BY <1>3, <1>9, <1>11 DEF Fits, StageOK, Reachable
<1>15. QED
  BY <1>3, <1>9, <1>10, <1>11, <1>12, <1>13, <1>14, ReadKeeps DEF d, Fits, CreationOK

LEMMA AbortKeeps ==
    ASSUME IInv, NEW w \in Workers, Abort(w)
    PROVE  IInv'
<1>1. PICK r \in Request : r = Idle
  BY IdleType
<1>2. Put(w, r) /\ UNCHANGED tables /\ Fits(r) /\ r.call = "idle"
  BY <1>1, IdleOK, IdleFields DEF Abort, Put, IInv
<1>3. QED
  BY <1>2, ReadKeeps

-----------------------------------------------------------------------------
(* Steps that change rows. *)

LEMMA InsertSessionKeeps ==
    ASSUME IInv, NEW w \in Workers, InsertSession(w)
    PROVE  IInv'
<1>1. PICK r \in Request : r = Idle
  BY IdleType
<1>2. PICK k \in Sessions : session' = [session EXCEPT ![k].status = "OPEN"]
  BY DEF InsertSession, OwnedBy
<1>3. /\ Put(w, r) /\ order' = order /\ slot' = slot /\ stored' = stored
      /\ collected' = collected /\ drawer' = drawer /\ reached' = reached
  BY <1>1 DEF InsertSession, Put
<1>4. TypeOK /\ TableTypes
  BY TypesAre DEF IInv
<1>5. session' \in [Sessions -> SessionRow] /\ \A j \in Sessions : session'[j].expected = session[j].expected
  BY <1>2, <1>4 DEF TableTypes, SessionRow, SessionStatus
<1>6. TableTypes'
  BY <1>3, <1>4, <1>5 DEF TableTypes
<1>7. Grows
  BY <1>3, <1>4 DEF Grows, TableTypes
<1>8. Spares(w, r)
  BY <1>1, <1>3, IdleFields DEF Spares, IInv, CreationOK
<1>9. \A o \in Orders : OrderOK(o)'
  BY <1>3 DEF IInv, OrderOK, Reachable, Covered
<1>10. \A j \in Sessions : SessionOK(j)'
  BY <1>3, <1>5 DEF IInv, SessionOK
<1>11. Fits(r) /\ r.call = "idle"
  BY <1>1, <1>4, IdleOK, IdleFields
<1>12. Fits(r)'
  BY <1>4, <1>6, <1>7, <1>11, FitsStays
<1>13. QED
  BY <1>3, <1>6, <1>7, <1>8, <1>9, <1>10, <1>11, <1>12, StepKeeps

\* What is left of a request after its commit: nothing, or the save of a start of work.
LEMMA AfterFits ==
    ASSUME IInv, NEW w \in Workers, NEW d \in Request, d = req[w], d.at = "commit"
    PROVE  After(d) \in Request /\ Fits(After(d)) /\ After(d).call # "create"
<1>1. Fits(d)
  BY RequestFacts
<1>2. CASE d.call = "status" /\ d.took # {}
  <2>1. PICK r \in Request : r = [d EXCEPT !.at = "save", !.saves = {"order"}, !.left = d.took,
                                           !.took = {}, !.freed = {}]
    BY ZenonT(40) DEF Request
  <2>2. /\ r.at = "save" /\ r.call = "status" /\ r.o = d.o /\ r.ord = d.ord /\ r.amount = d.amount
        /\ r.was = d.was /\ r.saves = {"order"}
    BY <1>2, <2>1 DEF Request
  <2>3. After(d) = r
    BY <1>2, <2>1 DEF After
  <2>4. ImageOK(r)
    BY <1>1, <1>2, <2>2 DEF Fits, ImageOK
  <2>5. MoneyOK(r)
    BY <1>1, <1>2, <2>2 DEF Fits, MoneyOK
  <2>6. StageOK(r)
    BY <1>1, <2>2 DEF Fits, StageOK, Reachable
  <2>7. QED
    BY <2>2, <2>3, <2>4, <2>5, <2>6 DEF Fits
<1>3. CASE ~(d.call = "status" /\ d.took # {})
  <2>1. After(d) = Idle
    BY <1>3 DEF After
  <2>2. TypeOK
    BY DEF IInv
  <2>3. Fits(Idle)
    BY <2>2, IdleOK
  <2>4. QED
    BY <2>1, <2>3, IdleType, IdleFields
<1>4. QED
  BY <1>2, <1>3

\* The row a commit leaves.
Written(d) == IF d.call = "create" THEN d.ord ELSE UpdateOrder(order[d.o], d.ord, d.cols)

LEMMA WrittenFacts ==
    ASSUME IInv, NEW w \in Workers, NEW d \in Request, d = req[w], d.at = "commit",
           NEW row, row = Written(d)
    PROVE  /\ row \in OrderRow
           /\ order[d.o].status # NoOrder =>
                  /\ d.call # "create" /\ row.total = order[d.o].total
                  /\ row.status # NoOrder
           /\ order[d.o].status = NoOrder /\ d.call # "create" => row.status = NoOrder
           /\ row.paid <= collected[d.o] + d.amount
           /\ row.status = "DELIVERED" \/ row.pay = "PAID" => Covered(d.o, row.total, d.amount)
           /\ Reachable(d.o, row.status)
<1>1. Fits(d) /\ CreationOK(w, d)
  BY RequestFacts
<1>2. d.o \in Orders /\ d.amount \in Nat /\ d.ord \in OrderRow
  BY DEF Request
<1>3. CASE d.call = "create"
  <2>1. row = d.ord
    BY <1>3 DEF Written
  <2>2. Reachable(d.o, d.ord.status)
    BY <1>1 DEF Fits, StageOK
  <2>3. QED
    BY <1>1, <1>2, <1>3, <2>1, <2>2 DEF Fits, MoneyOK, CreationOK
<1>4. CASE d.call # "create"
  <2> DEFINE old == order[d.o]
  <2>1. old \in OrderRow
    BY <1>2, RowFacts
  <2>2. /\ row.status \in {old.status, d.ord.status} /\ row.total = old.total
        /\ row.paid \in {old.paid, d.ord.paid} /\ row.pay \in {old.pay, d.ord.pay}
        /\ row \in OrderRow
    BY <1>2, <1>4, <2>1 DEF Written, UpdateOrder, OrderRow
  <2>3. row = old \/ (d.cols # {} /\ old.status # NoOrder /\ d.ord.status # NoOrder /\ d.ord.total = old.total)
    <3>1. CASE d.cols = {}
      BY <1>4, <2>1, <3>1 DEF Written, UpdateOrder, OrderRow
    <3>2. CASE d.cols # {}
      BY <1>1, <1>4, <3>2 DEF Fits, ImageOK
    <3>3. QED
      BY <3>1, <3>2
  <2>4. old.paid <= collected[d.o] + d.amount /\ collected[d.o] \in Nat
    BY <1>2, RowFacts
  <2>5. old.status = "DELIVERED" \/ old.pay = "PAID" => Covered(d.o, old.total, d.amount)
    BY <1>2, RowFacts DEF OrderOK, Covered
  <2>6. /\ d.ord.paid <= collected[d.o] + d.amount
        /\ d.ord.status = "DELIVERED" \/ d.ord.pay = "PAID" => Covered(d.o, d.ord.total, d.amount)
        /\ Reachable(d.o, d.ord.status)
    BY <1>1 DEF Fits, MoneyOK, StageOK
  <2>7. Reachable(d.o, old.status)
    BY <1>2, RowFacts DEF Reachable, NoOrder
  <2>8. QED
    BY <1>4, <2>2, <2>3, <2>4, <2>5, <2>6, <2>7
<1>5. QED
  BY <1>3, <1>4

\* The commit: rows, shelves, receipts and the history change together.
LEMMA CommitKeeps ==
    ASSUME IInv, NEW w \in Workers, Commit(w)
    PROVE  IInv'
<1>1. PICK d \in Request : d = req[w]
  BY RequestFacts
<1>2. /\ d.o \in Orders /\ d.k \in Sessions /\ d.amount \in Nat /\ d.cash \in BOOLEAN /\ d.ses \in SessionRow
      /\ d.place \subseteq Slots /\ d.at = "commit"
  BY <1>1 DEF Request, Commit
<1>3. TypeOK /\ TableTypes /\ Fits(d) /\ CreationOK(w, d)
  BY <1>1, TypesAre, RequestFacts
<1>4. PICK row \in OrderRow : row = Written(d)
  BY <1>1, <1>2, WrittenFacts
<1>5. /\ order[d.o].status # NoOrder =>
             d.call # "create" /\ row.total = order[d.o].total /\ row.status # NoOrder
      /\ order[d.o].status = NoOrder /\ d.call # "create" => row.status = NoOrder
      /\ row.paid <= collected[d.o] + d.amount
      /\ row.status = "DELIVERED" \/ row.pay = "PAID" => Covered(d.o, row.total, d.amount)
      /\ Reachable(d.o, row.status)
  BY <1>1, <1>2, <1>4, WrittenFacts
<1>6. PICK ses \in SessionRow : ses = UpdateSession(session[d.k], d.ses, d.scols)
  BY <1>2, <1>3 DEF TableTypes, UpdateSession, SessionRow
<1>7. PICK inDrawer \in Nat : inDrawer = IF d.cash THEN d.amount ELSE 0
  BY <1>2
<1>8. /\ order' = [order EXCEPT ![d.o] = row]
      /\ session' = [session EXCEPT ![d.k] = ses]
      /\ collected' = [collected EXCEPT ![d.o] = @ + d.amount]
      /\ drawer' = [drawer EXCEPT ![d.k] = @ + inDrawer]
  BY <1>1, <1>2, <1>3, <1>4, <1>6, <1>7 DEF Commit, Written, TableTypes
<1>9. /\ stored' = (stored \ {<<d.o, s>> : s \in d.took}) \cup {<<d.o, s>> : s \in d.place}
      /\ slot' = [s \in Slots |-> IF s \in d.occupy THEN "OCCUPIED"
                                  ELSE IF s \in d.freed THEN "FREE" ELSE slot[s]]
      /\ Put(w, After(d))
  BY <1>1 DEF Commit, Put
<1> DEFINE shelved == IF \E s \in d.place : SlotTypeOf[s] = "RECEPTION" THEN {"SHELVED"} ELSE {}
<1>10. reached' = [reached EXCEPT ![d.o] = @ \cup ({order'[d.o].status} \ {NoOrder}) \cup shelved]
  BY <1>1 DEF Commit
<1>11. order'[d.o] = row /\ \A o \in Orders \ {d.o} : order'[o] = order[o]
  BY <1>2, <1>3, <1>8 DEF TableTypes
<1>12. /\ reached'[d.o] = reached[d.o] \cup ({row.status} \ {NoOrder}) \cup shelved
       /\ \A o \in Orders \ {d.o} : reached'[o] = reached[o]
  BY <1>2, <1>3, <1>10, <1>11 DEF TableTypes
<1>13. /\ collected'[d.o] = collected[d.o] + d.amount /\ collected[d.o] \in Nat
       /\ \A o \in Orders \ {d.o} : collected'[o] = collected[o]
       /\ drawer'[d.k] = drawer[d.k] + inDrawer /\ drawer[d.k] \in Nat
       /\ \A k \in Sessions \ {d.k} : drawer'[k] = drawer[k]
       /\ session'[d.k] = ses /\ \A k \in Sessions \ {d.k} : session'[k] = session[k]
  BY <1>2, <1>3, <1>8 DEF TableTypes
<1>14. TableTypes'
  <2>1. order' \in [Orders -> OrderRow] /\ session' \in [Sessions -> SessionRow]
    BY <1>2, <1>3, <1>8 DEF TableTypes
  <2>2. collected' \in [Orders -> Nat] /\ drawer' \in [Sessions -> Nat]
    BY <1>2, <1>3, <1>8, <1>13 DEF TableTypes
  <2>3. slot' \in [Slots -> SlotStatus] /\ stored' \subseteq Orders \X Slots
    BY <1>2, <1>3, <1>9 DEF TableTypes, SlotStatus
  <2>4. row.status \in OrderStatus \cup {NoOrder}
    BY <1>4 DEF OrderRow
  <2>5. {row.status} \ {NoOrder} \subseteq Milestones /\ shelved \subseteq Milestones
    BY <2>4 DEF Milestones
  <2> HIDE DEF shelved
  <2>6. reached' \in [Orders -> SUBSET Milestones]
    BY <1>2, <1>3, <1>10, <1>11, <2>5 DEF TableTypes
  <2>7. QED
    BY <2>1, <2>2, <2>3, <2>6 DEF TableTypes
<1>15. Grows
  <2>1. \A o \in Orders : order[o].status # NoOrder =>
            order'[o].status # NoOrder /\ order'[o].total = order[o].total
    BY <1>5, <1>11
  <2>2. \A o \in Orders : collected[o] <= collected'[o] /\ reached[o] \subseteq reached'[o]
    BY <1>2, <1>3, <1>12, <1>13 DEF TableTypes
  <2>3. \A k \in Sessions : drawer[k] <= drawer'[k]
    BY <1>2, <1>3, <1>13 DEF TableTypes
  <2>4. QED
    BY <2>1, <2>2, <2>3 DEF Grows
<1>16. After(d) \in Request /\ Fits(After(d)) /\ After(d).call # "create"
  BY <1>1, <1>2, AfterFits
<1>17. Fits(After(d))'
  BY <1>3, <1>14, <1>15, <1>16, FitsStays
<1>18. Spares(w, After(d))
  <2> SUFFICES ASSUME NEW v \in Workers \ {w}, req[v].call = "create"
               PROVE  order'[req[v].o].status = NoOrder
    BY <1>16 DEF Spares
  <2>1. /\ order[req[v].o].status = NoOrder /\ req[v].o \in Orders
        /\ d.call = "create" => d.o # req[v].o
    BY <1>1, <1>3, RequestFacts DEF CreationOK, Request
  <2>2. QED
    BY <1>5, <1>11, <2>1
<1>19. ASSUME NEW o \in Orders PROVE OrderOK(o)'
  <2>1. OrderOK(o) /\ o \in Orders
    BY DEF IInv
  <2>2. CASE o # d.o
    <3>1. order'[o] = order[o] /\ reached'[o] = reached[o] /\ collected'[o] = collected[o]
      BY <1>11, <1>12, <1>13, <2>2
    <3>2. \A s \in Slots : <<o, s>> \in stored' => <<o, s>> \in stored
      BY <1>9, <2>2
    <3>3. QED
      BY <2>1, <3>1, <3>2 DEF OrderOK, Reachable, Covered
  <2>3. CASE o = d.o
    <3>1. order'[o].status # NoOrder => order'[o].status \in reached'[o]
      BY <1>11, <1>12, <2>3
    <3>2. \A st \in reached'[o] : Reachable(o, st)'
      <4>1. \A st : Reachable(o, st) => Reachable(o, st)'
        BY <1>12, <2>3 DEF Reachable
      <4>2. Reachable(o, "SHELVED")'
        BY DEF Reachable
      <4>3. QED
        BY <1>5, <1>12, <2>1, <2>3, <4>1, <4>2 DEF OrderOK
    <3>3. \A s \in Slots : <<o, s>> \in stored' /\ SlotTypeOf[s] = "RECEPTION" => "SHELVED" \in reached'[o]
      BY <1>9, <1>12, <2>1, <2>3 DEF OrderOK
    <3>4. order'[o].paid <= collected'[o]
      BY <1>5, <1>11, <1>13, <2>3
    <3>5. row.total \in Nat
      BY <1>4 DEF OrderRow
    <3>6. Covered(o, row.total, d.amount) => Covered(o, row.total, 0)'
      BY <1>2, <1>13, <2>3, <3>5 DEF Covered
    <3>7. order'[o].status = "DELIVERED" \/ order'[o].pay = "PAID" =>
              collected'[o] + 0 + Cent >= order'[o].total
      BY <1>5, <1>11, <2>3, <3>6 DEF Covered
    <3>8. QED
      BY <3>1, <3>2, <3>3, <3>4, <3>7 DEF OrderOK, Covered
  <2>4. QED
    BY <2>2, <2>3
<1>20. ASSUME NEW k \in Sessions PROVE SessionOK(k)'
  <2>1. session[k].expected <= drawer[k] /\ session[k] \in SessionRow
    BY <1>3 DEF IInv, SessionOK, TableTypes
  <2>2. CASE k # d.k
    BY <1>13, <2>1, <2>2 DEF SessionOK
  <2>3. CASE k = d.k
    <3>1. ses.expected \in {session[k].expected, d.ses.expected}
          /\ (d.scols = {} => ses.expected = session[k].expected)
      BY <1>6, <2>3 DEF UpdateSession
    <3>2. d.scols # {} => d.ses.expected <= drawer[k] + inDrawer
      BY <1>2, <1>3, <1>7, <2>3 DEF Fits, MoneyOK
    <3>3. session[k].expected \in Nat /\ drawer[k] \in Nat
      BY <1>13, <2>1, <2>3 DEF SessionRow
    <3>4. ses.expected <= drawer[k] + inDrawer
      BY <1>7, <2>1, <3>1, <3>2, <3>3
    <3>5. QED
      BY <1>13, <2>3, <3>4 DEF SessionOK
  <2>4. QED
    BY <2>2, <2>3
<1>21. QED
  BY <1>9, <1>14, <1>15, <1>16, <1>17, <1>18, <1>19, <1>20, StepKeeps

-----------------------------------------------------------------------------
(* The theorems. *)

LEMMA NextKeeps == IInv /\ [Next]_vars => IInv'
<1> SUFFICES ASSUME IInv, [Next]_vars
             PROVE  IInv'
  OBVIOUS
<1>1. CASE UNCHANGED vars
  BY <1>1 DEF vars, tables, IInv, TypeOK, OrderOK, SessionOK, Fits, ImageOK, MoneyOK, StageOK,
              CreationOK, Reachable, Covered
<1>2. CASE Next
  <2>1. PICK w \in Workers : NewRequest(w) \/ NextStatement(w) \/ Abort(w)
    BY <1>2 DEF Next
  <2>2. CASE NewRequest(w)
    BY <2>2, CreateOrderKeeps, CreateOrderPayingKeeps, PayKeeps, UpdateStatusKeeps,
       UpdateDeliveryKeeps, ReleaseOrderKeeps, AssignOrderToSlotKeeps, ProcessDeliveryKeeps,
       OpenSessionKeeps, CloseSessionKeeps DEF NewRequest
  <2>3. CASE NextStatement(w)
    BY <2>3, FindOpenSessionKeeps, StorageInfoKeeps, ShelvesReadKeeps, AssignTargetKeeps,
       CheckUnremittedKeeps, InsertSessionKeeps, SumPaymentsKeeps, SaveKeeps, CommitKeeps
       DEF NextStatement
  <2>4. CASE Abort(w)
    BY <2>4, AbortKeeps
  <2>5. QED
    BY <2>1, <2>2, <2>3, <2>4
<1>3. QED
  BY <1>1, <1>2

LEMMA InitOK == Init => IInv
<1> SUFFICES ASSUME Init
             PROVE  IInv
  OBVIOUS
<1>1. TypeOK
  BY IdleType DEF Init, TypeOK, NoRow, NoSession, OrderRow, SessionRow, SlotStatus, PaymentStatus,
                  SessionStatus
<1>2. \A o \in Orders : OrderOK(o)
  BY DEF Init, OrderOK, NoRow, NoOrder
<1>3. \A k \in Sessions : SessionOK(k)
  BY DEF Init, SessionOK, NoSession
<1>4. \A w \in Workers : Fits(req[w]) /\ CreationOK(w, req[w])
  BY <1>1, IdleOK DEF Init
<1>5. QED
  BY <1>1, <1>2, <1>3, <1>4 DEF IInv

\* The counter keeps to the invariant the argument rests on.
THEOREM Invariance == Spec => []IInv
BY InitOK, NextKeeps, PTL DEF Spec

\* Every row of the counter and every image a request carries stays well typed.
THEOREM TypeCorrect == Spec => []TypeOK
<1>1. IInv => TypeOK
  BY DEF IInv
<1>2. QED
  BY <1>1, Invariance, PTL

\* Whatever the interleaving, an order that is DELIVERED, or only marked PAID,
\* has been paid for.
THEOREM GoodsAlwaysPaid == Spec => []GoodsLeavePaid
<1>1. IInv => GoodsLeavePaid
  <2> SUFFICES ASSUME IInv, NEW o \in Orders, order[o].status = "DELIVERED" \/ order[o].pay = "PAID"
               PROVE  collected[o] + Cent >= order[o].total
    BY DEF GoodsLeavePaid, IInv
  <2>1. Covered(o, order[o].total, 0)
    BY DEF IInv, OrderOK
  <2>2. collected[o] \in Nat
    BY RowFacts
  <2>3. QED
    BY <2>1, <2>2 DEF Covered
<1>2. QED
  BY <1>1, Invariance, PTL

\* No order shows more paid, no session more expected cash, than was received.
THEOREM BooksNeverExceed == Spec => []BooksNeverExceedReceipts
<1>1. IInv => BooksNeverExceedReceipts
  BY DEF IInv, OrderOK, SessionOK, BooksNeverExceedReceipts
<1>2. QED
  BY <1>1, Invariance, PTL

\* A delivered order has been stored, made ready, worked on and shelved.
THEOREM NoStageEverSkipped == Spec => []NoStageSkipped
<1>1. IInv => NoStageSkipped
  BY DEF IInv, OrderOK, Reachable, NoStageSkipped
<1>2. QED
  BY <1>1, Invariance, PTL

\* Orders change by commits only.
LEMMA OnlyCommitsWrite ==
    ASSUME Next, order' # order
    PROVE  \E w \in Workers : Commit(w)
<1>1. PICK w \in Workers : NewRequest(w) \/ NextStatement(w) \/ Abort(w)
  BY DEF Next
<1>2. ASSUME NEW r, Begins(w, r) PROVE FALSE
  BY <1>2 DEF Begins, tables
<1>3. ASSUME NEW at, NEW r, Continues(w, at, r) PROVE FALSE
  BY <1>3 DEF Continues, tables
<1>4. ~NewRequest(w)
  BY <1>2, Zenon DEF NewRequest, CreateOrder, CreateOrderPaying, Pay, UpdateStatus, UpdateDelivery,
              ReleaseOrder, AssignOrderToSlot, ProcessDelivery, OpenSession, CloseSession
<1>5. ~(\E k \in Sessions : FindOpenSession(w, k)) /\ ~StorageInfo(w) /\ ~ReleaseForWork(w)
  BY <1>3, Zenon DEF FindOpenSession, StorageInfo, ReleaseForWork
<1>6. ~AssignShelves(w) /\ ~DeliveryShelves(w) /\ ~CheckUnremitted(w)
  BY <1>3, Zenon DEF AssignShelves, DeliveryShelves, CheckUnremitted
<1>7. ~AssignTarget(w) /\ ~SumPayments(w)
  BY <1>3, Zenon DEF AssignTarget, SumPayments
<1>8. ~InsertSession(w) /\ ~Save(w) /\ ~Abort(w)
  BY Zenon DEF InsertSession, Save, Abort, tables
<1>9. QED
  BY <1>1, <1>4, <1>5, <1>6, <1>7, <1>8 DEF NextStatement

\* Only a save of an image read before the order was closed changes the status of a
\* closed order.
THEOREM ReopenedOnlyByStaleSaves == Spec => OnlyStaleSavesReopen
<1> DEFINE Stale ==
      \A o \in Orders :
          order[o].status \in Closed /\ order'[o].status # order[o].status =>
              \E w \in Workers :
                  /\ req[w].o = o /\ req'[w] # req[w]
                  /\ "status" \in req[w].cols /\ req[w].was # order[o].status
<1>1. IInv /\ [Next]_vars => [Stale]_vars
  <2> SUFFICES ASSUME IInv, Next, NEW o \in Orders,
                      order[o].status \in Closed, order'[o].status # order[o].status
               PROVE  \E w \in Workers :
                          /\ req[w].o = o /\ req'[w] # req[w]
                          /\ "status" \in req[w].cols /\ req[w].was # order[o].status
    OBVIOUS
  <2>1. PICK w \in Workers : Commit(w)
    BY OnlyCommitsWrite
  <2>2. PICK d \in Request : d = req[w]
    BY RequestFacts
  <2>3. Fits(d) /\ CreationOK(w, d) /\ d.at = "commit" /\ d.o \in Orders
    BY <2>1, <2>2, RequestFacts DEF Commit, Request
  <2>4. order' = [order EXCEPT ![d.o] = Written(d)] /\ req'[w] = After(d)
    BY <2>1, <2>2, RequestFacts DEF Commit, Written, TypeOK
  <2>5. d.o = o /\ Written(d).status # order[o].status
    BY <2>3, <2>4, RequestFacts DEF TypeOK, IInv
  <2>6. d.call # "create" /\ "status" \in d.cols /\ Written(d).status = d.ord.status
    BY <2>3, <2>5 DEF CreationOK, Closed, NoOrder, Written, UpdateOrder
  <2>7. d.was # order[o].status
    BY <2>3, <2>5, <2>6 DEF Fits, StageOK
  <2>8. req'[w] # d
    <3>1. After(d).at # "commit"
      BY IdleFields DEF After, Request
    <3>2. QED
      BY <2>3, <2>4, <3>1
  <2>9. QED
    BY <2>2, <2>5, <2>6, <2>7, <2>8
<1>2. QED
  BY <1>1, Invariance, PTL DEF Spec, OnlyStaleSavesReopen

-----------------------------------------------------------------------------
(* One request in flight at a time: OrderDeskTxn implements OrderDesk.  The *)
(* invariant Serial says what the request has read (ReadIsTrue), by call    *)
(* and by step: with nobody else to write, it is still so when it commits.  *)
(* Then each read and each save stutters, each commit is one action of      *)
(* OrderDesk, and the two transactions of a start of work are one: the      *)
(* shelf given up by the first is shown until the second has written the    *)
(* status, or, if that one never comes, is released when the request ends.  *)

\* A row with the columns that its UPDATE sets is the image, if it is saved at all.
Prepared(r) ==
    r.at = "commit" =>
        /\ r.call # "create" =>
               UpdateOrder(order[r.o], r.ord, r.cols) =
                   IF "order" \in r.saves THEN r.ord ELSE order[r.o]
        /\ UpdateSession(session[r.k], r.ses, r.scols) =
               IF "session" \in r.saves THEN r.ses ELSE session[r.k]
        /\ r.freed = {s \in r.took : slot[s] # "FREE"}
        /\ r.occupy = r.place

NoShelf(r) == r.took = {} /\ r.place = {} /\ r.left = {}
OnReception(S) == \E s \in S : SlotTypeOf[s] = "RECEPTION"

\* The payment of r goes to a session that is open.
InSession(r) ==
    /\ r.at \in {"session", "save", "commit"}
    /\ r.cash \in Cash
    /\ IF r.at = "session" THEN "session" \notin r.saves
       ELSE /\ session[r.k].status = "OPEN"
            /\ r.ses = [session[r.k] EXCEPT !.expected = @ + r.amount]
            /\ "session" \in r.saves <=> r.cash

CreateRead(r) ==
    /\ order[r.o].status = NoOrder /\ NoShelf(r)
    /\ \E price \in Prices :
          \/ /\ r.at = "commit" /\ r.amount = 0 /\ r.saves = {}
             /\ r.ord = NewOrder(price, 0, "UNPAID")
          \/ /\ \E initial \in Amounts : r.amount = CappedAmount(initial, price)
             /\ r.ord = NewOrder(price, r.amount, SettledStatus(price, r.amount))
             /\ "order" \notin r.saves /\ InSession(r)

PayRead(r) ==
    LET row == order[r.o]
    IN  /\ row.status # NoOrder /\ NoShelf(r)
        /\ r.amount \in Amounts /\ "order" \in r.saves
        /\ WithinBalance(row.total, row.paid, r.amount)
        /\ r.ord = [row EXCEPT !.paid = row.paid + r.amount,
                               !.pay = SettledStatus(row.total, row.paid + r.amount)]
        /\ InSession(r)

\* The start of work before, in and after its first transaction.
ToRelease(r) ==
    /\ r.at \in {"info", "release"} /\ r.took = {} /\ r.left = {} /\ r.saves = {}
    /\ r.at = "release" => OnReception(ShelvesOf(r.o))
Releasing(r) ==
    /\ r.at \in {"save", "commit"} /\ r.left = {} /\ r.saves = {}
    /\ r.took = ShelvesOf(r.o) /\ OnReception(r.took)
Released(r) ==
    /\ r.at \in {"save", "commit"} /\ r.took = {} /\ r.saves = {"order"}
    /\ OnReception(r.left) /\ ShelvesOf(r.o) = {} /\ \A s \in r.left : slot[s] = "FREE"

StatusRead(r) ==
    /\ r.amount = 0 /\ r.place = {}
    /\ <<order[r.o].status, r.ord.status>> \in AllowedTransitions
    /\ r.ord = [order[r.o] EXCEPT !.status = r.ord.status]
    /\ IF r.ord.status = "IN_PROGRESS"
       THEN ToRelease(r) \/ Releasing(r) \/ Released(r)
       ELSE /\ r.at \in {"save", "commit"} /\ r.saves = {"order"}
            /\ r.took = {} /\ r.left = {}

AddressRead(r) ==
    /\ r.at \in {"save", "commit"} /\ r.amount = 0 /\ NoShelf(r)
    /\ r.saves = {"order"} /\ r.ord = order[r.o]

ReleaseRead(r) ==
    /\ r.at \in {"save", "commit"} /\ r.amount = 0 /\ r.saves = {}
    /\ r.took = ShelvesOf(r.o) /\ r.took # {} /\ r.place = {} /\ r.left = {}

AssignRead(r) ==
    LET row == order[r.o]
    IN  /\ row.status # NoOrder /\ r.amount = 0 /\ r.left = {}
        /\ r.at \in {"shelves", "target", "save", "commit"}
        /\ \E s \in Slots :
              /\ r.place = {s}
              /\ IF r.at = "shelves" THEN r.took = {}
                 ELSE s \notin ShelvesOf(r.o) /\ r.took = ShelvesOf(r.o)
              /\ IF r.at \in {"shelves", "target"} THEN r.saves = {} /\ r.ord = row
                 ELSE /\ slot[s] = "FREE" /\ <<row.status, SlotTypeOf[s]>> \in ShelfPairing
                      /\ IF row.status = "READY"
                         THEN r.saves = {"order"} /\ r.ord = [row EXCEPT !.status = "STORED"]
                         ELSE r.saves = {}

DeliverRead(r) ==
    LET row == order[r.o]
    IN  /\ row.status = "STORED" /\ row.pay = "PAID"
        /\ r.amount = 0 /\ r.place = {} /\ r.left = {}
        /\ r.saves = {"order"} /\ r.ord = [row EXCEPT !.status = "DELIVERED"]
        /\ r.at \in {"shelves", "save", "commit"}
        /\ IF r.at = "shelves" THEN r.took = {}
           ELSE r.took = ShelvesOf(r.o) /\ r.took # {}

OpenRead(r) ==
    /\ r.at \in {"check", "insert"} /\ NoShelf(r)
    /\ OwnedBy(OperatorOf[r.k], "OPEN") = {}
    /\ r.at = "insert" => OwnedBy(OperatorOf[r.k], "CLOSED") = {}

CloseRead(r) ==
    /\ r.at \in {"sum", "save", "commit"} /\ r.amount = 0 /\ NoShelf(r)
    /\ session[r.k].status = "OPEN"
    /\ IF r.at = "sum"
       THEN r.saves = {} /\ r.ses = [session[r.k] EXCEPT !.status = "CLOSED"]
       ELSE /\ r.saves = {"session"}
            /\ r.ses = [session[r.k] EXCEPT !.status = "CLOSED", !.expected = drawer[r.k]]

\* What the one request in flight has read is still so.
ReadIsTrue(r) ==
    /\ r.call = "create" => CreateRead(r)
    /\ r.call = "pay" => PayRead(r)
    /\ r.call = "status" => StatusRead(r)
    /\ r.call = "address" => AddressRead(r)
    /\ r.call = "release" => ReleaseRead(r)
    /\ r.call = "assign" => AssignRead(r)
    /\ r.call = "deliver" => DeliverRead(r)
    /\ r.call = "open" => OpenRead(r)
    /\ r.call = "close" => CloseRead(r)
    /\ r.call = "idle" => r = Idle

\* A slot with an order is OCCUPIED and has no other; a session that was never
\* opened expects nothing.
TablesOK ==
    /\ \A o \in Orders, s \in Slots : <<o, s>> \in stored => slot[s] = "OCCUPIED"
    /\ \A o, p \in Orders, s \in Slots : <<o, s>> \in stored /\ <<p, s>> \in stored => o = p
    /\ \A k \in Sessions : session[k].status = "NONE" => session[k].expected = 0

Serial == TypeOK /\ TablesOK /\ \A w \in Workers : ReadIsTrue(req[w]) /\ Prepared(req[w])

-----------------------------------------------------------------------------
(* The one worker. *)

\* A request that has begun is not idle.
LEMMA IdleIsIdle ==
    ASSUME Serial, NEW w \in Workers, req[w].at = "idle"
    PROVE  req[w] = Idle
<1>1. req[w] \in Request /\ ReadIsTrue(req[w])
  BY DEF Serial, TypeOK
<1> QED
  BY <1>1 DEF ReadIsTrue, CreateRead, PayRead, InSession, StatusRead, ToRelease, Releasing,
     Released, AddressRead, ReleaseRead, AssignRead, DeliverRead, OpenRead, CloseRead,
     Request, Endpoints

\* The worker's step leaves the tables alone and a request that has read the truth.
LEMMA ReadSerial ==
    ASSUME Serial, TypeOK', NEW w, Workers = {w}, NEW c, Put(w, c), UNCHANGED tables,
           ReadIsTrue(c), Prepared(c)
    PROVE  Serial'
<1>1. req'[w] = c
  BY DEF Put, Serial, TypeOK
<1>2. /\ order' = order /\ slot' = slot /\ stored' = stored /\ session' = session
      /\ drawer' = drawer
  BY DEF tables
<1>3. ReadIsTrue(c)'
  BY <1>2 DEF ReadIsTrue, CreateRead, PayRead, InSession, StatusRead, ToRelease, Releasing,
     Released, AddressRead, ReleaseRead, AssignRead, DeliverRead, OpenRead, CloseRead,
     ShelvesOf, OwnedBy
<1>4. Prepared(c)'
  BY <1>2 DEF Prepared
<1>5. ReadIsTrue(req[w])' /\ Prepared(req[w])'
  BY <1>1, <1>3, <1>4
<1>6. TablesOK'
  BY <1>2 DEF Serial, TablesOK
<1> QED
  BY <1>5, <1>6 DEF Serial

\* What the atomic counter shows while no shelf is released ahead.
LEMMA NothingEarly ==
    ASSUME NEW w, Workers = {w}, req[w].left = {}, slot \in [Slots -> SlotStatus]
    PROVE  ShownStored = stored /\ ShownSlot = slot
  BY DEF ShownStored, ShownSlot, ReleasedEarly

\* The same after a step.
LEMMA NothingEarlyNext ==
    ASSUME NEW w, Workers = {w}, req'[w].left = {}, slot' \in [Slots -> SlotStatus]
    PROVE  ShownStored' = stored' /\ ShownSlot' = slot'
  BY DEF ShownStored, ShownSlot, ReleasedEarly

\* A read is no step of the atomic counter.
LEMMA ReadStutters ==
    ASSUME Serial, NEW w, Workers = {w}, NEW c, Put(w, c), UNCHANGED tables,
           c.left = req[w].left, c.left = {} \/ c.o = req[w].o
    PROVE  UNCHANGED Desk!vars
<1>1. req'[w] = c
  BY DEF Put, Serial, TypeOK
<1>2. ReleasedEarly' = ReleasedEarly
  <2>1. /\ ReleasedEarly = {<<req[w].o, s>> : s \in req[w].left}
        /\ ReleasedEarly' = {<<req'[w].o, s>> : s \in req'[w].left}
    BY DEF ReleasedEarly
  <2> QED
    BY <1>1, <2>1
<1> QED
  BY <1>1, <1>2 DEF tables, Desk!vars, ShownStored, ShownSlot

\* A new request, once it has read what it starts from.
LEMMA BeginSerial ==
    ASSUME Serial, TypeOK', NEW w, Workers = {w}, NEW c, Begins(w, c),
           c.left = {}, ReadIsTrue(c), Prepared(c)
    PROVE  Serial' /\ UNCHANGED Desk!vars
<1>1. req[w] = Idle /\ Idle.left = {}
  BY IdleIsIdle DEF Begins, Idle
<1> QED
  BY <1>1, ReadSerial, ReadStutters DEF Begins, Put

\* The next read of a request.
LEMMA GoOnSerial ==
    ASSUME Serial, TypeOK', NEW w, Workers = {w}, NEW at, NEW c, Continues(w, at, c),
           c.left = req[w].left, c.o = req[w].o, ReadIsTrue(c), Prepared(c)
    PROVE  Serial' /\ UNCHANGED Desk!vars
  BY ReadSerial, ReadStutters DEF Continues, Put

\* Creations and payments.
LEMMA BeginMoney ==
    ASSUME Serial, TypeOK', NEW w, Workers = {w},
           \/ \E o \in Orders, price \in Prices : CreateOrder(w, o, price)
           \/ \E o \in Orders, price \in Prices, initial \in Amounts, cash \in Cash :
                  CreateOrderPaying(w, o, price, initial, cash)
           \/ \E o \in Orders, amount \in Amounts, cash \in Cash : Pay(w, o, amount, cash)
    PROVE  Serial' /\ UNCHANGED Desk!vars
<1>0. TypeOK
  BY DEF Serial
<1>1. ASSUME NEW o \in Orders, NEW price \in Prices, CreateOrder(w, o, price)
      PROVE  Serial' /\ UNCHANGED Desk!vars
  <2> DEFINE ord == NewOrder(price, 0, "UNPAID")
             c == [Idle EXCEPT !.call = "create", !.at = "commit", !.o = o, !.ord = ord]
  <2>1. Begins(w, c) /\ order[o].status = NoOrder
    BY <1>1 DEF CreateOrder, Fresh
  <2> HIDE DEF ord
  <2>2. /\ c.call = "create" /\ c.at = "commit" /\ c.o = o /\ c.ord = ord /\ c.amount = 0
        /\ c.saves = {} /\ c.scols = {} /\ NoShelf(c) /\ c.freed = {} /\ c.occupy = {}
        /\ c.k \in Sessions
    BY DEF Idle, NoShelf
  <2> HIDE DEF c
  <2>3. CreateRead(c)
    BY <2>1, <2>2 DEF CreateRead, ord
  <2>4. ReadIsTrue(c)
    BY <2>2, <2>3 DEF ReadIsTrue
  <2>5. UpdateSession(session[c.k], c.ses, c.scols) = session[c.k]
    BY <1>0, <2>2 DEF UpdateSession, TypeOK, SessionRow
  <2>6. Prepared(c)
    BY <2>2, <2>5 DEF Prepared, NoShelf
  <2> QED
    BY <2>1, <2>2, <2>4, <2>6, BeginSerial DEF NoShelf
<1>2. ASSUME NEW o \in Orders, NEW price \in Prices, NEW initial \in Amounts, NEW cash \in Cash,
             CreateOrderPaying(w, o, price, initial, cash)
      PROVE  Serial' /\ UNCHANGED Desk!vars
  <2> DEFINE amount == CappedAmount(initial, price)
             ord == NewOrder(price, amount, SettledStatus(price, amount))
             c == [Idle EXCEPT !.call = "create", !.at = "session", !.o = o,
                               !.amount = amount, !.cash = cash, !.ord = ord]
  <2>1. Begins(w, c) /\ order[o].status = NoOrder
    BY <1>2 DEF CreateOrderPaying, Fresh
  <2> HIDE DEF ord, amount
  <2>2. /\ c.call = "create" /\ c.at = "session" /\ c.o = o /\ c.ord = ord /\ c.amount = amount
        /\ c.saves = {} /\ NoShelf(c) /\ c.cash = cash
    BY DEF Idle, NoShelf
  <2> HIDE DEF c
  <2>3. CreateRead(c)
    BY <2>1, <2>2 DEF CreateRead, ord, amount, InSession
  <2>4. ReadIsTrue(c) /\ Prepared(c)
    BY <2>2, <2>3 DEF ReadIsTrue, Prepared
  <2> QED
    BY <2>1, <2>2, <2>4, BeginSerial DEF NoShelf
<1>3. ASSUME NEW o \in Orders, NEW amount \in Amounts, NEW cash \in Cash, Pay(w, o, amount, cash)
      PROVE  Serial' /\ UNCHANGED Desk!vars
  <2> DEFINE row == order[o]
             ord == [row EXCEPT !.paid = row.paid + amount,
                                !.pay = SettledStatus(row.total, row.paid + amount)]
             c == [Idle EXCEPT !.call = "pay", !.at = "session", !.o = o,
                               !.amount = amount, !.cash = cash, !.saves = {"order"},
                               !.was = row.status, !.ord = ord]
  <2>1. /\ Begins(w, c) /\ row.status # NoOrder
        /\ WithinBalance(row.total, row.paid, amount)
    BY <1>3 DEF Pay
  <2>2. PICK d : d = c
    OBVIOUS
  <2> HIDE DEF ord
  <2>3. /\ d.call = "pay" /\ d.at = "session" /\ d.o = o /\ d.ord = ord /\ d.amount = amount
        /\ d.saves = {"order"} /\ NoShelf(d) /\ d.cash = cash
    BY <2>2 DEF Idle, NoShelf
  <2>4. Begins(w, d)
    BY <2>1, <2>2
  <2> HIDE DEF c
  <2>5. PayRead(d)
    BY <2>1, <2>3 DEF PayRead, ord, InSession
  <2>6. ReadIsTrue(d) /\ Prepared(d)
    BY <2>3, <2>5 DEF ReadIsTrue, Prepared
  <2> QED
    BY <2>3, <2>4, <2>6, BeginSerial DEF NoShelf
<1> QED
  BY <1>1, <1>2, <1>3

\* Everything else a client may ask for.
LEMMA BeginOther ==
    ASSUME Serial, TypeOK', NEW w, Workers = {w},
           \/ \E o \in Orders, new \in OrderStatus : UpdateStatus(w, o, new)
           \/ \E o \in Orders : UpdateDelivery(w, o)
           \/ \E o \in Orders : ReleaseOrder(w, o)
           \/ \E o \in Orders, s \in Slots : AssignOrderToSlot(w, o, s)
           \/ \E o \in Orders : ProcessDelivery(w, o)
           \/ \E k \in Sessions : OpenSession(w, k)
           \/ \E k \in Sessions : CloseSession(w, k)
    PROVE  Serial' /\ UNCHANGED Desk!vars
<1>0. TypeOK /\ order \in [Orders -> OrderRow]
  BY DEF Serial, TypeOK
<1>1. ASSUME NEW o \in Orders, NEW new \in OrderStatus, UpdateStatus(w, o, new)
      PROVE  Serial' /\ UNCHANGED Desk!vars
  <2> DEFINE image == [order[o] EXCEPT !.status = new]
             c == IF new = "IN_PROGRESS"
                  THEN [Idle EXCEPT !.call = "status", !.at = "info", !.o = o,
                                    !.was = order[o].status, !.ord = image]
                  ELSE [Idle EXCEPT !.call = "status", !.at = "save", !.o = o,
                                    !.was = order[o].status, !.ord = image,
                                    !.saves = {"order"}]
  <2>1. Begins(w, c) /\ <<order[o].status, new>> \in AllowedTransitions
    BY <1>1 DEF UpdateStatus
  <2>2. image.status = new
    BY <1>0 DEF OrderRow
  <2> HIDE DEF image
  <2>3. PICK d : d = c
    OBVIOUS
  <2>4. /\ d.call = "status" /\ d.o = o /\ d.ord = image /\ d.amount = 0 /\ NoShelf(d)
        /\ IF new = "IN_PROGRESS" THEN d.at = "info" /\ d.saves = {}
                                  ELSE d.at = "save" /\ d.saves = {"order"}
    BY <2>3 DEF Idle, NoShelf
  <2>5. Begins(w, d)
    BY <2>1, <2>3
  <2> HIDE DEF c
  <2>6. d.ord = [order[d.o] EXCEPT !.status = d.ord.status]
    BY <2>2, <2>4 DEF image
  <2>7. StatusRead(d)
    BY <2>1, <2>2, <2>4, <2>6 DEF StatusRead, ToRelease, NoShelf
  <2>8. ReadIsTrue(d) /\ Prepared(d)
    BY <2>4, <2>7 DEF ReadIsTrue, Prepared
  <2> QED
    BY <2>4, <2>5, <2>8, BeginSerial DEF NoShelf
<1>2. ASSUME NEW o \in Orders, UpdateDelivery(w, o)
      PROVE  Serial' /\ UNCHANGED Desk!vars
  <2> DEFINE c == [Idle EXCEPT !.call = "address", !.at = "save", !.o = o, !.was = order[o].status,
                               !.ord = order[o], !.saves = {"order"}]
  <2>1. Begins(w, c)
    BY <1>2 DEF UpdateDelivery
  <2>2. PICK d : d = c
    OBVIOUS
  <2>3. /\ d.call = "address" /\ d.at = "save" /\ d.o = o /\ d.ord = order[o] /\ d.amount = 0
        /\ d.saves = {"order"} /\ NoShelf(d)
    BY <2>2 DEF Idle, NoShelf
  <2>4. Begins(w, d)
    BY <2>1, <2>2
  <2> HIDE DEF c
  <2>5. AddressRead(d)
    BY <1>0, <2>1, <2>3 DEF AddressRead
  <2>6. ReadIsTrue(d) /\ Prepared(d)
    BY <2>3, <2>5 DEF ReadIsTrue, Prepared
  <2> QED
    BY <2>3, <2>4, <2>6, BeginSerial DEF NoShelf
<1>3. ASSUME NEW o \in Orders, ReleaseOrder(w, o)
      PROVE  Serial' /\ UNCHANGED Desk!vars
  <2> DEFINE c == [Idle EXCEPT !.call = "release", !.at = "save", !.o = o, !.took = ShelvesOf(o)]
  <2>1. Begins(w, c) /\ ShelvesOf(o) # {}
    BY <1>3 DEF ReleaseOrder
  <2>2. PICK d : d = c
    OBVIOUS
  <2>3. /\ d.call = "release" /\ d.at = "save" /\ d.o = o /\ d.amount = 0 /\ d.saves = {}
        /\ d.took = ShelvesOf(o) /\ d.place = {} /\ d.left = {}
    BY <2>2 DEF Idle, NoShelf
  <2>4. Begins(w, d)
    BY <2>1, <2>2
  <2> HIDE DEF c
  <2>5. ReleaseRead(d)
    BY <1>0, <2>1, <2>3 DEF ReleaseRead
  <2>6. ReadIsTrue(d) /\ Prepared(d)
    BY <2>3, <2>5 DEF ReadIsTrue, Prepared
  <2> QED
    BY <2>3, <2>4, <2>6, BeginSerial DEF NoShelf
<1>4. ASSUME NEW o \in Orders, NEW s \in Slots, AssignOrderToSlot(w, o, s)
      PROVE  Serial' /\ UNCHANGED Desk!vars
  <2> DEFINE c == [Idle EXCEPT !.call = "assign", !.at = "shelves", !.o = o,
                               !.was = order[o].status, !.ord = order[o], !.place = {s}]
  <2>1. Begins(w, c) /\ order[o].status # NoOrder
    BY <1>4 DEF AssignOrderToSlot
  <2>2. PICK d : d = c
    OBVIOUS
  <2>3. /\ d.call = "assign" /\ d.at = "shelves" /\ d.o = o /\ d.amount = 0 /\ d.saves = {}
        /\ d.ord = order[o] /\ d.place = {s} /\ d.took = {} /\ d.left = {}
    BY <2>2 DEF Idle, NoShelf
  <2>4. Begins(w, d)
    BY <2>1, <2>2
  <2> HIDE DEF c
  <2>5. AssignRead(d)
    BY <1>0, <2>1, <2>3 DEF AssignRead
  <2>6. ReadIsTrue(d) /\ Prepared(d)
    BY <2>3, <2>5 DEF ReadIsTrue, Prepared
  <2> QED
    BY <2>3, <2>4, <2>6, BeginSerial DEF NoShelf
<1>5. ASSUME NEW o \in Orders, ProcessDelivery(w, o)
      PROVE  Serial' /\ UNCHANGED Desk!vars
  <2> DEFINE c == [Idle EXCEPT !.call = "deliver", !.at = "shelves", !.o = o,
                               !.was = order[o].status,
                               !.ord = [order[o] EXCEPT !.status = "DELIVERED"],
                               !.saves = {"order"}]
  <2>1. Begins(w, c) /\ order[o].status = "STORED" /\ order[o].pay = "PAID"
    BY <1>5 DEF ProcessDelivery
  <2>2. PICK d : d = c
    OBVIOUS
  <2>3. /\ d.call = "deliver" /\ d.at = "shelves" /\ d.o = o /\ d.amount = 0
        /\ d.saves = {"order"} /\ d.ord = [order[o] EXCEPT !.status = "DELIVERED"]
        /\ d.place = {} /\ d.took = {} /\ d.left = {}
    BY <2>2 DEF Idle, NoShelf
  <2>4. Begins(w, d)
    BY <2>1, <2>2
  <2> HIDE DEF c
  <2>5. DeliverRead(d)
    BY <1>0, <2>1, <2>3 DEF DeliverRead
  <2>6. ReadIsTrue(d) /\ Prepared(d)
    BY <2>3, <2>5 DEF ReadIsTrue, Prepared
  <2> QED
    BY <2>3, <2>4, <2>6, BeginSerial DEF NoShelf
<1>6. ASSUME NEW k \in Sessions, OpenSession(w, k)
      PROVE  Serial' /\ UNCHANGED Desk!vars
  <2> DEFINE c == [Idle EXCEPT !.call = "open", !.at = "check", !.k = k]
  <2>1. Begins(w, c) /\ OwnedBy(OperatorOf[k], "OPEN") = {}
    BY <1>6 DEF OpenSession
  <2>2. PICK d : d = c
    OBVIOUS
  <2>3. d.call = "open" /\ d.at = "check" /\ d.k = k /\ NoShelf(d)
    BY <2>2 DEF Idle, NoShelf
  <2>4. Begins(w, d)
    BY <2>1, <2>2
  <2> HIDE DEF c
  <2>5. OpenRead(d)
    BY <1>0, <2>1, <2>3 DEF OpenRead
  <2>6. ReadIsTrue(d) /\ Prepared(d)
    BY <2>3, <2>5 DEF ReadIsTrue, Prepared
  <2> QED
    BY <2>3, <2>4, <2>6, BeginSerial DEF NoShelf
<1>7. ASSUME NEW k \in Sessions, CloseSession(w, k)
      PROVE  Serial' /\ UNCHANGED Desk!vars
  <2> DEFINE c == [Idle EXCEPT !.call = "close", !.at = "sum", !.k = k,
                               !.ses = [session[k] EXCEPT !.status = "CLOSED"]]
  <2>1. Begins(w, c) /\ session[k].status = "OPEN"
    BY <1>7 DEF CloseSession
  <2>2. PICK d : d = c
    OBVIOUS
  <2>3. /\ d.call = "close" /\ d.at = "sum" /\ d.k = k /\ d.amount = 0 /\ d.saves = {}
        /\ d.ses = [session[k] EXCEPT !.status = "CLOSED"] /\ NoShelf(d)
    BY <2>2 DEF Idle, NoShelf
  <2>4. Begins(w, d)
    BY <2>1, <2>2
  <2> HIDE DEF c
  <2>5. CloseRead(d)
    BY <1>0, <2>1, <2>3 DEF CloseRead
  <2>6. ReadIsTrue(d) /\ Prepared(d)
    BY <2>3, <2>5 DEF ReadIsTrue, Prepared
  <2> QED
    BY <2>3, <2>4, <2>6, BeginSerial DEF NoShelf
<1> QED
  BY <1>1, <1>2, <1>3, <1>4, <1>5, <1>6, <1>7

\* Which requests are at which step.
LEMMA AtStep ==
    ASSUME NEW r \in Request, ReadIsTrue(r)
    PROVE  /\ r.at = "session" => r.call \in {"create", "pay"}
           /\ r.at \in {"info", "release"} => r.call = "status"
           /\ r.at = "target" => r.call = "assign"
           /\ r.at \in {"check", "insert"} => r.call = "open"
           /\ r.at = "sum" => r.call = "close"
           /\ r.at \in {"save", "commit"} => r.call \notin {"open", "idle"}
  BY DEF ReadIsTrue, CreateRead, PayRead, InSession, StatusRead, ToRelease, Releasing,
     Released, AddressRead, ReleaseRead, AssignRead, DeliverRead, OpenRead, CloseRead,
     Request, Endpoints, Idle

\* A payment finds its session.
LEMMA FindSerial ==
    ASSUME Serial, TypeOK', NEW w, Workers = {w}, NEW k \in Sessions, FindOpenSession(w, k)
    PROVE  Serial' /\ UNCHANGED Desk!vars
<1>1. PICK r \in Request : r = req[w]
  BY DEF Serial, TypeOK
<1>2. ReadIsTrue(r) /\ r.at = "session" /\ session[k].status = "OPEN"
  BY <1>1 DEF Serial, FindOpenSession, Continues
<1>3. PICK ses : ses = [session[k] EXCEPT !.expected = @ + r.amount]
  OBVIOUS
<1>4. PICK c : c = [r EXCEPT !.at = "save", !.k = k, !.ses = ses,
                             !.saves = @ \cup (IF r.cash THEN {"session"} ELSE {})]
  OBVIOUS
<1>5. Continues(w, "session", c)
  BY <1>1, <1>3, <1>4 DEF FindOpenSession
<1>6. /\ c.call = r.call /\ c.o = r.o /\ c.ord = r.ord /\ c.amount = r.amount /\ c.cash = r.cash
      /\ c.took = r.took /\ c.place = r.place /\ c.left = r.left
      /\ c.at = "save" /\ c.k = k /\ c.ses = ses
      /\ c.saves = r.saves \cup (IF r.cash THEN {"session"} ELSE {})
  BY <1>4 DEF Request
<1>7. r.call \in {"create", "pay"} /\ r.cash \in BOOLEAN
  BY <1>2, AtStep DEF Request
<1>8. Prepared(c)
  BY <1>6 DEF Prepared
<1>9. CASE r.call = "create"
  <2>1. CreateRead(r) /\ "session" \notin r.saves /\ "order" \notin r.saves
    BY <1>2, <1>9 DEF ReadIsTrue, CreateRead, InSession
  <2>2. c.saves = IF r.cash THEN {"session"} ELSE {}
    BY <1>6, <2>1 DEF Request
  <2>3. InSession(c)
    BY <1>2, <1>3, <1>6, <1>7, <2>1, <2>2 DEF CreateRead, InSession
  <2>4. CreateRead(c)
    BY <1>2, <1>6, <2>1, <2>2, <2>3 DEF CreateRead, NoShelf
  <2>5. ReadIsTrue(c)
    BY <1>6, <1>9, <2>4 DEF ReadIsTrue
  <2> QED
    BY <1>1, <1>5, <1>6, <1>8, <2>5, GoOnSerial
<1>10. CASE r.call = "pay"
  <2>1. PayRead(r) /\ "session" \notin r.saves
    BY <1>2, <1>10 DEF ReadIsTrue, PayRead, InSession
  <2>2. ("session" \in c.saves <=> r.cash) /\ ("order" \in c.saves <=> "order" \in r.saves)
    BY <1>6, <1>7, <2>1
  <2>3. InSession(c)
    BY <1>2, <1>3, <1>6, <1>7, <2>1, <2>2 DEF PayRead, InSession
  <2>4. PayRead(c)
    BY <1>6, <2>1, <2>2, <2>3 DEF PayRead, NoShelf
  <2>5. ReadIsTrue(c)
    BY <1>6, <1>10, <2>4 DEF ReadIsTrue
  <2> QED
    BY <1>1, <1>5, <1>6, <1>8, <2>5, GoOnSerial
<1> QED
  BY <1>7, <1>9, <1>10

\* The reads of a start of work, an assignment, a delivery, an opening and a closing.
LEMMA ReadsSerial ==
    ASSUME Serial, TypeOK', NEW w, Workers = {w},
           \/ StorageInfo(w) \/ ReleaseForWork(w) \/ AssignShelves(w) \/ AssignTarget(w)
           \/ DeliveryShelves(w) \/ CheckUnremitted(w) \/ SumPayments(w)
    PROVE  Serial' /\ UNCHANGED Desk!vars
<1>1. PICK r \in Request : r = req[w]
  BY DEF Serial, TypeOK
<1>2. ReadIsTrue(r) /\ order \in [Orders -> OrderRow] /\ session \in [Sessions -> SessionRow]
  BY <1>1 DEF Serial, TypeOK
<1>3. CASE StorageInfo(w)
  <2>1. PICK c : c = [r EXCEPT !.at = "release"]
    OBVIOUS
  <2>2. /\ Continues(w, "info", c) /\ r.at = "info" /\ r.call = "status"
        /\ OnReception(ShelvesOf(r.o))
    BY <1>1, <1>2, <1>3, <2>1, AtStep DEF StorageInfo, Continues, OnReception
  <2>3. /\ c.call = r.call /\ c.o = r.o /\ c.ord = r.ord /\ c.amount = r.amount
        /\ c.took = r.took /\ c.place = r.place /\ c.left = r.left /\ c.saves = r.saves
        /\ c.at = "release"
    BY <2>1 DEF Request
  <2>4. StatusRead(c)
    BY <1>2, <2>2, <2>3 DEF ReadIsTrue, StatusRead, ToRelease, Releasing, Released
  <2>5. ReadIsTrue(c) /\ Prepared(c)
    BY <2>2, <2>3, <2>4 DEF ReadIsTrue, Prepared
  <2> QED
    BY <1>1, <2>2, <2>3, <2>5, GoOnSerial
<1>4. CASE ReleaseForWork(w)
  <2>1. PICK c : c = [r EXCEPT !.at = "save", !.took = ShelvesOf(r.o)]
    OBVIOUS
  <2>2. Continues(w, "release", c) /\ r.at = "release" /\ r.call = "status"
    BY <1>1, <1>2, <1>4, <2>1, AtStep DEF ReleaseForWork, Continues
  <2>3. /\ c.call = r.call /\ c.o = r.o /\ c.ord = r.ord /\ c.amount = r.amount
        /\ c.took = ShelvesOf(r.o) /\ c.place = r.place /\ c.left = r.left
        /\ c.saves = r.saves /\ c.at = "save"
    BY <2>1 DEF Request
  <2>4. StatusRead(c)
    BY <1>2, <2>2, <2>3 DEF ReadIsTrue, StatusRead, ToRelease, Releasing, Released
  <2>5. ReadIsTrue(c) /\ Prepared(c)
    BY <2>2, <2>3, <2>4 DEF ReadIsTrue, Prepared
  <2> QED
    BY <1>1, <2>2, <2>3, <2>5, GoOnSerial
<1>5. CASE AssignShelves(w)
  <2>1. PICK c : c = [r EXCEPT !.at = "target", !.took = ShelvesOf(r.o)]
    OBVIOUS
  <2>2. /\ Continues(w, "shelves", c) /\ r.at = "shelves" /\ r.call = "assign"
        /\ ShelvesOf(r.o) \cap r.place = {}
    BY <1>1, <1>2, <1>5, <2>1 DEF AssignShelves, Continues
  <2>3. /\ c.call = r.call /\ c.o = r.o /\ c.ord = r.ord /\ c.amount = r.amount
        /\ c.took = ShelvesOf(r.o) /\ c.place = r.place /\ c.left = r.left
        /\ c.saves = r.saves /\ c.at = "target"
    BY <2>1 DEF Request
  <2>4. AssignRead(c)
    BY <1>2, <2>2, <2>3 DEF ReadIsTrue, AssignRead
  <2>5. ReadIsTrue(c) /\ Prepared(c)
    BY <2>2, <2>3, <2>4 DEF ReadIsTrue, Prepared
  <2> QED
    BY <1>1, <2>2, <2>3, <2>5, GoOnSerial
<1>6. CASE AssignTarget(w)
  <2>0. PICK image : image = [r.ord EXCEPT !.status = "STORED"]
    OBVIOUS
  <2>1. PICK c : c = IF r.ord.status = "READY"
                     THEN [r EXCEPT !.at = "save", !.saves = {"order"}, !.ord = image]
                     ELSE [r EXCEPT !.at = "save"]
    OBVIOUS
  <2>2. /\ Continues(w, "target", c) /\ r.at = "target" /\ r.call = "assign"
        /\ \A s \in r.place : slot[s] = "FREE" /\ <<r.ord.status, SlotTypeOf[s]>> \in ShelfPairing
    BY <1>1, <1>2, <1>6, <2>0, <2>1, AtStep DEF AssignTarget, Continues
  <2>3. AssignRead(r) /\ r.ord = order[r.o] /\ r.saves = {}
    BY <1>2, <2>2 DEF ReadIsTrue, AssignRead
  <2>4. /\ c.call = r.call /\ c.o = r.o /\ c.amount = r.amount
        /\ c.took = r.took /\ c.place = r.place /\ c.left = r.left /\ c.at = "save"
        /\ IF r.ord.status = "READY" THEN c.saves = {"order"} /\ c.ord = image
                                     ELSE c.saves = r.saves /\ c.ord = r.ord
    BY <2>1 DEF Request
  <2>5. AssignRead(c)
    <3>1. PICK s \in Slots : r.place = {s} /\ s \notin ShelvesOf(r.o) /\ r.took = ShelvesOf(r.o)
      BY <2>2, <2>3 DEF AssignRead
    <3>2. slot[s] = "FREE" /\ <<order[r.o].status, SlotTypeOf[s]>> \in ShelfPairing
      BY <2>2, <2>3, <3>1
    <3>3. order[r.o].status # NoOrder /\ r.amount = 0 /\ r.left = {}
      BY <2>3 DEF AssignRead
    <3>4. IF order[r.o].status = "READY"
          THEN c.saves = {"order"} /\ c.ord = [order[r.o] EXCEPT !.status = "STORED"]
          ELSE c.saves = {}
      BY <2>0, <2>3, <2>4
    <3>5. c.at = "save" /\ c.o = r.o /\ c.place = r.place /\ c.took = r.took /\ c.left = r.left
          /\ c.amount = r.amount
      BY <2>4
    <3> QED
      BY <3>1, <3>2, <3>3, <3>4, <3>5 DEF AssignRead
  <2>6. ReadIsTrue(c) /\ Prepared(c)
    BY <2>2, <2>4, <2>5 DEF ReadIsTrue, Prepared
  <2> QED
    BY <1>1, <2>2, <2>4, <2>6, GoOnSerial
<1>7. CASE DeliveryShelves(w)
  <2>1. PICK c : c = [r EXCEPT !.at = "save", !.took = ShelvesOf(r.o)]
    OBVIOUS
  <2>2. /\ Continues(w, "shelves", c) /\ r.at = "shelves" /\ r.call = "deliver"
        /\ ShelvesOf(r.o) # {}
    BY <1>1, <1>2, <1>7, <2>1 DEF DeliveryShelves, Continues
  <2>3. /\ c.call = r.call /\ c.o = r.o /\ c.ord = r.ord /\ c.amount = r.amount
        /\ c.took = ShelvesOf(r.o) /\ c.place = r.place /\ c.left = r.left
        /\ c.saves = r.saves /\ c.at = "save"
    BY <2>1 DEF Request
  <2>4. DeliverRead(c)
    BY <1>2, <2>2, <2>3 DEF ReadIsTrue, DeliverRead
  <2>5. ReadIsTrue(c) /\ Prepared(c)
    BY <2>2, <2>3, <2>4 DEF ReadIsTrue, Prepared
  <2> QED
    BY <1>1, <2>2, <2>3, <2>5, GoOnSerial
<1>8. CASE CheckUnremitted(w)
  <2>1. PICK c : c = [r EXCEPT !.at = "insert"]
    OBVIOUS
  <2>2. /\ Continues(w, "check", c) /\ r.at = "check" /\ r.call = "open"
        /\ OwnedBy(OperatorOf[r.k], "CLOSED") = {}
    BY <1>1, <1>2, <1>8, <2>1, AtStep DEF CheckUnremitted, Continues
  <2>3. /\ c.call = r.call /\ c.o = r.o /\ c.k = r.k
        /\ c.took = r.took /\ c.place = r.place /\ c.left = r.left /\ c.at = "insert"
    BY <2>1 DEF Request
  <2>4. OpenRead(c)
    BY <1>2, <2>2, <2>3 DEF ReadIsTrue, OpenRead, NoShelf
  <2>5. ReadIsTrue(c) /\ Prepared(c)
    BY <2>2, <2>3, <2>4 DEF ReadIsTrue, Prepared
  <2> QED
    BY <1>1, <2>2, <2>3, <2>5, GoOnSerial
<1>9. CASE SumPayments(w)
  <2>0. PICK ses : ses = [r.ses EXCEPT !.expected = drawer[r.k]]
    OBVIOUS
  <2>1. PICK c : c = [r EXCEPT !.at = "save", !.saves = {"session"}, !.ses = ses]
    OBVIOUS
  <2>2. Continues(w, "sum", c) /\ r.at = "sum" /\ r.call = "close"
    BY <1>1, <1>2, <1>9, <2>0, <2>1, AtStep DEF SumPayments, Continues
  <2>3. /\ c.call = r.call /\ c.o = r.o /\ c.k = r.k /\ c.amount = r.amount
        /\ c.took = r.took /\ c.place = r.place /\ c.left = r.left
        /\ c.saves = {"session"} /\ c.at = "save" /\ c.ses = ses
    BY <2>1 DEF Request
  <2>4. CloseRead(r) /\ r.ses = [session[r.k] EXCEPT !.status = "CLOSED"]
    BY <1>2, <2>2 DEF ReadIsTrue, CloseRead
  <2>5. ses = [session[r.k] EXCEPT !.status = "CLOSED", !.expected = drawer[r.k]]
    BY <1>2, <2>0, <2>4 DEF Request, SessionRow
  <2>6. CloseRead(c)
    BY <2>3, <2>4, <2>5 DEF CloseRead, NoShelf
  <2>7. ReadIsTrue(c) /\ Prepared(c)
    BY <2>2, <2>3, <2>6 DEF ReadIsTrue, Prepared
  <2> QED
    BY <1>1, <2>2, <2>3, <2>7, GoOnSerial
<1> QED
  BY <1>3, <1>4, <1>5, <1>6, <1>7, <1>8, <1>9

\* The columns a save finds different, and any more, make the row the image.
LEMMA WrittenOrder ==
    ASSUME NEW row \in OrderRow, NEW image \in OrderRow, row.total = image.total, NEW cols,
           DirtyOrder(row, image) \subseteq cols
    PROVE  UpdateOrder(row, image, cols) = image
  BY DEF DirtyOrder, OrderColumns, UpdateOrder, OrderRow

LEMMA WrittenSession ==
    ASSUME NEW row \in SessionRow, NEW image \in SessionRow, NEW cols,
           DirtySession(row, image) \subseteq cols
    PROVE  UpdateSession(row, image, cols) = image
  BY DEF DirtySession, SessionColumns, UpdateSession, SessionRow

LEMMA NothingWritten ==
    /\ \A row \in OrderRow : \A image : UpdateOrder(row, image, {}) = row
    /\ \A row \in SessionRow : \A image : UpdateSession(row, image, {}) = row
  BY DEF UpdateOrder, UpdateSession, OrderRow, SessionRow

\* The same of an assignment.
LEMMA AssignReads ==
    ASSUME NEW r, AssignRead(r), r.at \in {"save", "commit"}
    PROVE  \E s \in Slots :
               /\ r.place = {s} /\ s \notin ShelvesOf(r.o) /\ slot[s] = "FREE"
               /\ \/ r.saves = {}
                  \/ /\ r.saves = {"order"}
                     /\ r.ord = [order[r.o] EXCEPT !.status = "STORED"]
<1>1. PICK s \in Slots :
          /\ r.place = {s} /\ s \notin ShelvesOf(r.o) /\ slot[s] = "FREE"
          /\ IF order[r.o].status = "READY"
             THEN r.saves = {"order"} /\ r.ord = [order[r.o] EXCEPT !.status = "STORED"]
             ELSE r.saves = {}
  BY DEF AssignRead
<1> QED
  BY <1>1

\* What a request about to save has read.
LEMMA SaveReads ==
    ASSUME Serial, NEW r \in Request, ReadIsTrue(r), r.at \in {"save", "commit"}
    PROVE  /\ r.call \notin {"open", "idle"}
           /\ r.call # "create" /\ "order" \in r.saves => order[r.o].total = r.ord.total
           /\ r.call = "pay" => "order" \in r.saves
           /\ \A s \in r.place : slot[s] = "FREE" /\ <<r.o, s>> \notin stored
<1>1. order \in [Orders -> OrderRow] /\ r.o \in Orders
  BY DEF Serial, TypeOK, Request
<1>2. r.call \notin {"open", "idle"}
  BY AtStep
<1>3. r.call = "pay" => "order" \in r.saves
  BY DEF ReadIsTrue, PayRead
<1>4. r.call # "create" /\ "order" \in r.saves => order[r.o].total = r.ord.total
  <2>1. CASE r.call = "pay"
    BY <1>1, <2>1 DEF ReadIsTrue, PayRead, OrderRow
  <2>2. CASE r.call = "status"
    <3>1. r.ord = [order[r.o] EXCEPT !.status = r.ord.status] /\ order[r.o] \in OrderRow
      BY <1>1, <2>2 DEF ReadIsTrue, StatusRead
    <3> QED
      BY <3>1 DEF OrderRow
  <2>3. CASE r.call \in {"address", "release", "close"}
    BY <1>1, <2>3 DEF ReadIsTrue, AddressRead, ReleaseRead, CloseRead
  <2>4. CASE r.call = "assign"
    <3>1. AssignRead(r)
      BY <2>4 DEF ReadIsTrue
    <3>2. /\ \/ "order" \notin r.saves
             \/ r.ord = [order[r.o] EXCEPT !.status = "STORED"]
          /\ order[r.o] \in OrderRow
      BY <1>1, <3>1, AssignReads
    <3> QED
      BY <3>2 DEF OrderRow
  <2>5. CASE r.call = "deliver"
    <3>1. r.ord = [order[r.o] EXCEPT !.status = "DELIVERED"] /\ order[r.o] \in OrderRow
      BY <1>1, <2>5 DEF ReadIsTrue, DeliverRead
    <3> QED
      BY <3>1 DEF OrderRow
  <2> QED
    BY <1>2, <2>1, <2>2, <2>3, <2>4, <2>5 DEF Request, Endpoints
<1>5. ASSUME NEW s \in r.place
      PROVE  slot[s] = "FREE" /\ <<r.o, s>> \notin stored
  <2>1. CASE r.call = "assign"
    <3>1. AssignRead(r)
      BY <2>1 DEF ReadIsTrue
    <3>2. PICK t \in Slots : r.place = {t} /\ t \notin ShelvesOf(r.o) /\ slot[t] = "FREE"
      BY <3>1, AssignReads
    <3>3. s = t
      BY <1>5, <3>2
    <3> QED
      BY <3>2, <3>3 DEF ShelvesOf
  <2>2. CASE r.call # "assign"
    BY <1>2, <1>5, <2>2 DEF ReadIsTrue, CreateRead, PayRead, StatusRead, AddressRead, ReleaseRead,
       DeliverRead, CloseRead, NoShelf, Request, Endpoints
  <2> QED
    BY <2>1, <2>2
<1> QED
  BY <1>2, <1>3, <1>4, <1>5

\* A save finds the rows as its request read them.
LEMMA SaveSerial ==
    ASSUME Serial, TypeOK', NEW w, Workers = {w}, Save(w)
    PROVE  Serial' /\ UNCHANGED Desk!vars
<1> DEFINE r == req[w]
<1>1. r \in Request
  BY DEF Serial, TypeOK
<1>2. /\ ReadIsTrue(r) /\ r.at = "save" /\ r.o \in Orders /\ r.k \in Sessions
      /\ order \in [Orders -> OrderRow] /\ session \in [Sessions -> SessionRow]
      /\ slot \in [Slots -> SlotStatus]
  BY <1>1 DEF Serial, TypeOK, Save, Request
<1> DEFINE dirty == IF "order" \in r.saves /\ r.call # "create"
                    THEN DirtyOrder(order[r.o], r.ord) ELSE {}
           sdirty == IF "session" \in r.saves
                     THEN DirtySession(session[r.k], r.ses) ELSE {}
           freed == {s \in r.took : slot[s] # "FREE"}
           place == {s \in r.place : <<r.o, s>> \notin stored}
           occupy == {s \in r.place : slot[s] # "OCCUPIED"}
           next(cols, scols) == [r EXCEPT !.at = "commit", !.cols = cols, !.scols = scols,
                                          !.freed = freed, !.place = place, !.occupy = occupy]
<1>3. PICK cols \in {dirty, dirty \cup ComputedColumns(r)},
           scols \in {sdirty, sdirty \cup ComputedSessionColumns(r)} :
               req' = [req EXCEPT ![w] = next(cols, scols)]
  BY Zenon DEF Save
<1>31. /\ r.call # "create" /\ "order" \in r.saves => DirtyOrder(order[r.o], r.ord) \subseteq cols
       /\ "session" \in r.saves => DirtySession(session[r.k], r.ses) \subseteq scols
  BY <1>3
<1>32. /\ "order" \notin r.saves /\ r.call # "pay" => cols = {}
       /\ "session" \notin r.saves => scols = {}
  BY <1>3 DEF ComputedColumns, ComputedSessionColumns
<1> HIDE DEF r, dirty, sdirty
<1>4. place = r.place /\ occupy = r.place
  BY <1>1, <1>2, SaveReads
<1>5. PICK c : c = next(cols, scols)
  OBVIOUS
<1> HIDE DEF freed, place, occupy
<1>6. /\ c.call = r.call /\ c.o = r.o /\ c.k = r.k /\ c.ord = r.ord /\ c.ses = r.ses
      /\ c.amount = r.amount /\ c.cash = r.cash /\ c.saves = r.saves /\ c.took = r.took
      /\ c.left = r.left /\ c.at = "commit" /\ c.cols = cols /\ c.scols = scols
      /\ c.freed = freed /\ c.place = place /\ c.occupy = occupy
  BY <1>5 DEF Request
<1>7. UNCHANGED tables /\ Put(w, c) /\ c.left = req[w].left /\ c.o = req[w].o
  BY <1>3, <1>5, <1>6 DEF Save, Put, r
<1>8. r.call # "create" =>
          UpdateOrder(order[r.o], r.ord, cols) = IF "order" \in r.saves THEN r.ord ELSE order[r.o]
  <2>1. CASE r.call # "create" /\ "order" \in r.saves
    <3>1. r.ord \in OrderRow /\ order[r.o] \in OrderRow /\ order[r.o].total = r.ord.total
      BY <1>1, <1>2, <2>1, SaveReads DEF Request
    <3> QED
      BY <1>31, <2>1, <3>1, WrittenOrder
  <2>2. CASE r.call # "create" /\ "order" \notin r.saves
    <3>1. cols = {}
      BY <1>1, <1>2, <1>32, <2>2, SaveReads
    <3> QED
      BY <1>2, <2>2, <3>1, NothingWritten
  <2> QED
    BY <2>1, <2>2
<1>9. UpdateSession(session[r.k], r.ses, scols) = IF "session" \in r.saves THEN r.ses
                                                                      ELSE session[r.k]
  <2>1. CASE "session" \in r.saves
    <3>1. r.ses \in SessionRow /\ session[r.k] \in SessionRow
      BY <1>1, <1>2 DEF Request
    <3> QED
      BY <1>31, <2>1, <3>1, WrittenSession
  <2>2. CASE "session" \notin r.saves
    <3>1. scols = {}
      BY <1>32, <2>2
    <3> QED
      BY <1>2, <2>2, <3>1, NothingWritten
  <2> QED
    BY <2>1, <2>2
<1>10. Prepared(c)
  BY <1>4, <1>6, <1>8, <1>9 DEF Prepared, freed
<1>11. ReadIsTrue(c)
  <2>1. c.place = r.place
    BY <1>4, <1>6
  <2> HIDE DEF next
  <2>2. r.call \notin {"open", "idle"}
    BY <1>1, <1>2, SaveReads
  <2>3. CASE r.call = "create"
    <3>1. CreateRead(c)
      BY <1>2, <1>6, <2>1, <2>3 DEF ReadIsTrue, CreateRead, InSession, NoShelf
    <3> QED
      BY <1>6, <2>3, <3>1 DEF ReadIsTrue
  <2>4. CASE r.call = "pay"
    <3>1. PayRead(c)
      BY <1>2, <1>6, <2>1, <2>4 DEF ReadIsTrue, PayRead, InSession, NoShelf
    <3> QED
      BY <1>6, <2>4, <3>1 DEF ReadIsTrue
  <2>5. CASE r.call = "status"
    <3>1. StatusRead(c)
      BY <1>2, <1>6, <2>1, <2>5 DEF ReadIsTrue, StatusRead, ToRelease, Releasing, Released
    <3> QED
      BY <1>6, <2>5, <3>1 DEF ReadIsTrue
  <2>6. CASE r.call = "address"
    <3>1. AddressRead(c)
      BY <1>2, <1>6, <2>1, <2>6 DEF ReadIsTrue, AddressRead, NoShelf
    <3> QED
      BY <1>6, <2>6, <3>1 DEF ReadIsTrue
  <2>7. CASE r.call = "release"
    <3>1. ReleaseRead(c)
      BY <1>2, <1>6, <2>1, <2>7 DEF ReadIsTrue, ReleaseRead
    <3> QED
      BY <1>6, <2>7, <3>1 DEF ReadIsTrue
  <2>8. CASE r.call = "assign"
    <3>1. AssignRead(c)
      BY <1>2, <1>6, <2>1, <2>8 DEF ReadIsTrue, AssignRead
    <3> QED
      BY <1>6, <2>8, <3>1 DEF ReadIsTrue
  <2>9. CASE r.call = "deliver"
    <3>1. DeliverRead(c)
      BY <1>2, <1>6, <2>1, <2>9 DEF ReadIsTrue, DeliverRead
    <3> QED
      BY <1>6, <2>9, <3>1 DEF ReadIsTrue
  <2>10. CASE r.call = "close"
    <3>1. CloseRead(c)
      BY <1>2, <1>6, <2>1, <2>10 DEF ReadIsTrue, CloseRead, NoShelf
    <3> QED
      BY <1>6, <2>10, <3>1 DEF ReadIsTrue
  <2>11. r.call \in Endpoints \cup {"idle"}
    BY <1>1 DEF Request
  <2> QED
    BY <2>2, <2>3, <2>4, <2>5, <2>6, <2>7, <2>8, <2>9, <2>10, <2>11 DEF Endpoints
<1> QED
  BY <1>7, <1>10, <1>11, ReadSerial, ReadStutters

\* The worker has finished or died: an idle request has read nothing.
LEMMA IdleSerial ==
    ASSUME TypeOK', TablesOK', NEW w, Workers = {w}, req'[w] = Idle
    PROVE  Serial'
<1>1. /\ Idle.call = "idle" /\ Idle.at = "idle"
  BY DEF Idle
<1>2. ReadIsTrue(req[w])' /\ Prepared(req[w])'
  BY <1>1 DEF ReadIsTrue, Prepared
<1> QED
  BY <1>2 DEF Serial

\* Only a start of work between its transactions has released a shelf ahead.
LEMMA EarlyIsStatus ==
    ASSUME NEW r \in Request, ReadIsTrue(r), r.left # {}
    PROVE  r.call = "status" /\ Released(r) /\ r.amount = 0 /\ StatusRead(r)
           /\ r.ord.status = "IN_PROGRESS"
<1>1. r.call \notin {"create", "pay", "address", "release", "assign", "deliver", "open", "close"}
  BY DEF ReadIsTrue, CreateRead, PayRead, AddressRead, ReleaseRead, AssignRead, DeliverRead,
     OpenRead, CloseRead, NoShelf
<1>2. r.call # "idle"
  BY DEF ReadIsTrue, Idle
<1>3. r.call \in Endpoints \cup {"idle"}
  BY DEF Request
<1>4. r.call = "status"
  BY <1>1, <1>2, <1>3 DEF Endpoints
<1>5. StatusRead(r)
  BY <1>4 DEF ReadIsTrue
<1> QED
  BY <1>4, <1>5 DEF StatusRead, ToRelease, Releasing

\* What the atomic counter shows of the one request.
LEMMA Shows ==
    ASSUME NEW w, Workers = {w}, NEW r, r = req[w]
    PROVE  /\ ShownStored = stored \cup {<<r.o, s>> : s \in r.left}
           /\ ShownSlot = [s \in Slots |-> IF s \in r.left THEN "OCCUPIED" ELSE slot[s]]
  BY DEF ShownStored, ShownSlot, ReleasedEarly

\* What a start of work released ahead, a release of the order would have emptied.
LEMMA EarlyEmptied ==
    ASSUME Serial, NEW r \in Request, NEW w, Workers = {w}, r = req[w], ReadIsTrue(r),
           r.left # {}
    PROVE  /\ Desk!ShelvesOf(r.o) = r.left
           /\ slot = [s \in Slots |-> IF s \in r.left THEN "FREE" ELSE ShownSlot[s]]
           /\ stored = ShownStored \ {<<r.o, s>> : s \in Slots}
<1>1. /\ slot \in [Slots -> SlotStatus] /\ r.o \in Orders
      /\ stored \subseteq Orders \X Slots /\ r.left \subseteq Slots
  BY DEF Serial, TypeOK, Request
<1>2. ShelvesOf(r.o) = {} /\ \A s \in r.left : slot[s] = "FREE"
  BY EarlyIsStatus DEF Released
<1>3. /\ ShownStored = stored \cup {<<r.o, s>> : s \in r.left}
      /\ ShownSlot = [s \in Slots |-> IF s \in r.left THEN "OCCUPIED" ELSE slot[s]]
  BY Shows
<1>4. Desk!ShelvesOf(r.o) = r.left
  BY <1>1, <1>2, <1>3 DEF Desk!ShelvesOf, ShelvesOf
<1>5. slot = [s \in Slots |-> IF s \in r.left THEN "FREE" ELSE ShownSlot[s]]
  BY <1>1, <1>2, <1>3
<1>6. stored = ShownStored \ {<<r.o, s>> : s \in Slots}
  BY <1>1, <1>2, <1>3 DEF ShelvesOf
<1> QED
  BY <1>4, <1>5, <1>6

\* A request that dies between its two transactions leaves what a release of
\* the order would; any other one leaves nothing.
LEMMA AbortSerial ==
    ASSUME Serial, TypeOK', NEW w, Workers = {w}, Abort(w)
    PROVE  Serial' /\ [Desk!Next]_Desk!vars
<1>1. PICK r \in Request : r = req[w]
  BY DEF Serial, TypeOK
<1>2. /\ ReadIsTrue(r) /\ Put(w, Idle) /\ UNCHANGED tables /\ req'[w] = Idle
      /\ slot \in [Slots -> SlotStatus] /\ r.o \in Orders
      /\ stored \subseteq Orders \X Slots /\ r.left \subseteq Slots
  BY <1>1 DEF Serial, TypeOK, Abort, Put, Request
<1>3. Serial'
  <2>1. TablesOK'
    BY <1>2 DEF Serial, TablesOK, tables
  <2> QED
    BY <1>2, <2>1, IdleSerial
<1>4. Idle.left = {}
  BY DEF Idle
<1>5. CASE r.left = {}
  <2>1. UNCHANGED Desk!vars
    BY <1>1, <1>2, <1>4, <1>5, ReadStutters
  <2> QED
    BY <1>3, <2>1
<1>6. CASE r.left # {}
  <2>1. /\ Desk!ShelvesOf(r.o) = r.left
        /\ slot = [s \in Slots |-> IF s \in r.left THEN "FREE" ELSE ShownSlot[s]]
        /\ stored = ShownStored \ {<<r.o, s>> : s \in Slots}
    BY <1>1, <1>2, <1>6, EarlyEmptied
  <2>2. /\ order' = order /\ slot' = slot /\ stored' = stored /\ session' = session
        /\ collected' = collected /\ drawer' = drawer
    BY <1>2 DEF tables
  <2>3. ShownStored' = stored /\ ShownSlot' = slot
    BY <1>2, <1>4, <2>2, NothingEarlyNext
  <2>4. Desk!ReleaseOrder(r.o)
    BY <1>6, <2>1, <2>2, <2>3 DEF Desk!ReleaseOrder, Desk!EmptyShelves
  <2> QED
    BY <1>2, <1>3, <2>4 DEF Desk!Next, Desk!OrderRequest
<1> QED
  BY <1>5, <1>6

\* The insert of a session finds what its two looks found.
LEMMA InsertSerial ==
    ASSUME Serial, TypeOK', NEW w, Workers = {w}, InsertSession(w)
    PROVE  Serial' /\ [Desk!Next]_Desk!vars
<1>1. PICK r \in Request : r = req[w]
  BY DEF Serial, TypeOK
<1>2. /\ ReadIsTrue(r) /\ r.at = "insert" /\ req'[w] = Idle
      /\ slot \in [Slots -> SlotStatus] /\ session \in [Sessions -> SessionRow]
  BY <1>1 DEF Serial, TypeOK, InsertSession
<1>3. /\ order' = order /\ slot' = slot /\ stored' = stored
      /\ collected' = collected /\ drawer' = drawer
  BY DEF InsertSession
<1>4. PICK k \in OwnedBy(OperatorOf[r.k], "NONE") :
          session' = [session EXCEPT ![k].status = "OPEN"]
  BY <1>1 DEF InsertSession
<1>5. OpenRead(r)
  BY <1>2 DEF ReadIsTrue, CreateRead, PayRead, InSession, StatusRead, ToRelease, Releasing,
     Released, AddressRead, ReleaseRead, AssignRead, DeliverRead, CloseRead, Request, Endpoints,
     Idle
<1>6. /\ k \in Sessions /\ OperatorOf[k] = OperatorOf[r.k]
      /\ session[k] = [status |-> "NONE", expected |-> 0]
  BY <1>2, <1>4 DEF OwnedBy, Serial, TablesOK, SessionRow
<1>7. session' = [session EXCEPT ![k] = [status |-> "OPEN", expected |-> 0]]
  <2>1. [session[k] EXCEPT !.status = "OPEN"] = [status |-> "OPEN", expected |-> 0]
    BY <1>6
  <2>2. session' = [session EXCEPT ![k] = [session[k] EXCEPT !.status = "OPEN"]]
    BY <1>4
  <2> QED
    BY <2>1, <2>2
<1>8. Serial'
  <2>1. TablesOK'
    BY <1>2, <1>3, <1>6, <1>7 DEF Serial, TablesOK
  <2> QED
    BY <1>2, <2>1, IdleSerial
<1>9. r.left = {} /\ Idle.left = {}
  BY <1>5 DEF OpenRead, NoShelf, Idle
<1>10. ShownStored' = ShownStored /\ ShownSlot' = ShownSlot
  BY <1>1, <1>2, <1>3, <1>9, NothingEarly, NothingEarlyNext
<1>11. Desk!Pending(OperatorOf[k]) = {}
  BY <1>2, <1>5, <1>6 DEF Desk!Pending, OpenRead, OwnedBy
<1>12. Desk!OpenSession(k)
  BY <1>3, <1>6, <1>7, <1>10, <1>11 DEF Desk!OpenSession
<1> QED
  BY <1>6, <1>8, <1>12 DEF Desk!Next, Desk!SessionRequest

-----------------------------------------------------------------------------
(* Commits. *)

\* What a request about to commit has read.
LEMMA CommitReads ==
    ASSUME Serial, NEW r \in Request, ReadIsTrue(r), r.at = "commit"
    PROVE  /\ r.call \in {"create", "pay", "status", "address", "release", "assign",
                          "deliver", "close"}
           /\ r.took \subseteq ShelvesOf(r.o)
           /\ \A s \in r.place : slot[s] = "FREE"
           /\ "session" \in r.saves => r.ses.status # "NONE"
<1>0. r.k \in Sessions /\ session \in [Sessions -> SessionRow] /\ r.ses \in SessionRow
  BY DEF Serial, TypeOK, Request
<1>1. /\ r.call \notin {"open", "idle"}
      /\ \A s \in r.place : slot[s] = "FREE"
  BY SaveReads
<1>2. r.call \in {"create", "pay", "status", "address", "release", "assign", "deliver", "close"}
  BY <1>1 DEF Request, Endpoints
<1>3. r.took \subseteq ShelvesOf(r.o)
  BY <1>2 DEF ReadIsTrue, CreateRead, PayRead, StatusRead, ToRelease, Releasing, Released,
     AddressRead, ReleaseRead, AssignRead, DeliverRead, CloseRead, NoShelf
<1>4. ASSUME "session" \in r.saves PROVE r.ses.status # "NONE"
  <2>1. CASE r.call \in {"create", "pay"}
    <3>1. InSession(r)
      BY <1>4, <2>1 DEF ReadIsTrue, CreateRead, PayRead
    <3>2. /\ session[r.k].status = "OPEN"
          /\ r.ses = [session[r.k] EXCEPT !.expected = session[r.k].expected + r.amount]
      BY <3>1 DEF InSession
    <3>3. session[r.k] \in SessionRow
      BY <1>0
    <3> QED
      BY <3>2, <3>3 DEF SessionRow
  <2>2. CASE r.call = "close"
    <3>1. r.ses = [session[r.k] EXCEPT !.status = "CLOSED", !.expected = drawer[r.k]]
      BY <2>2 DEF ReadIsTrue, CloseRead
    <3>2. session[r.k] \in SessionRow
      BY <1>0
    <3> QED
      BY <3>1, <3>2 DEF SessionRow
  <2>3. CASE r.call \in {"status", "address", "release", "assign", "deliver"}
    <3>1. CASE r.call = "status"
      BY <1>4, <3>1 DEF ReadIsTrue, StatusRead, ToRelease, Releasing, Released
    <3>2. CASE r.call = "assign"
      <4>1. AssignRead(r)
        BY <3>2 DEF ReadIsTrue
      <4>2. r.saves = {} \/ r.saves = {"order"}
        BY <4>1, AssignReads
      <4> QED
        BY <1>4, <4>2
    <3>3. CASE r.call \in {"address", "release", "deliver"}
      BY <1>4, <3>3 DEF ReadIsTrue, AddressRead, ReleaseRead, DeliverRead
    <3> QED
      BY <2>3, <3>1, <3>2, <3>3
  <2> QED
    BY <1>2, <2>1, <2>2, <2>3
<1> QED
  BY <1>1, <1>2, <1>3, <1>4

\* What a commit that ran alone leaves in the tables.
CommitsAlone(r) ==
    /\ order' = [order EXCEPT ![r.o] = IF r.call = "create" \/ "order" \in r.saves
                                       THEN r.ord ELSE order[r.o]]
    /\ slot' = [s \in Slots |-> IF s \in r.place THEN "OCCUPIED"
                                ELSE IF s \in r.took THEN "FREE" ELSE slot[s]]
    /\ stored' = (stored \ {<<r.o, s>> : s \in r.took}) \cup {<<r.o, s>> : s \in r.place}
    /\ session' = [session EXCEPT ![r.k] = IF "session" \in r.saves THEN r.ses
                                                                    ELSE session[r.k]]
    /\ collected' = [collected EXCEPT ![r.o] = collected[r.o] + r.amount]
    /\ drawer' = [drawer EXCEPT ![r.k] = drawer[r.k] + IF r.cash THEN r.amount ELSE 0]

\* What the lemmas on commits start from.
Committing(w, r) ==
    /\ r \in Request /\ r = req[w] /\ Workers = {w}
    /\ ReadIsTrue(r) /\ r.at = "commit" /\ r.o \in Orders /\ r.k \in Sessions
    /\ CommitsAlone(r)
    /\ req' = [req EXCEPT ![w] = After(r)] /\ req'[w] = After(r)

LEMMA CommitAlone ==
    ASSUME Serial, NEW w, Workers = {w}, Commit(w)
    PROVE  \E r \in Request : Committing(w, r)
<1>1. PICK r \in Request : r = req[w]
  BY DEF Serial, TypeOK
<1>2. /\ ReadIsTrue(r) /\ Prepared(r) /\ r.at = "commit" /\ r.o \in Orders /\ r.k \in Sessions
      /\ slot \in [Slots -> SlotStatus] /\ req \in [Workers -> Request]
  BY <1>1 DEF Serial, TypeOK, Commit, Request
<1>3. /\ order' = [order EXCEPT ![r.o] = IF r.call = "create" THEN r.ord
                                         ELSE UpdateOrder(order[r.o], r.ord, r.cols)]
      /\ slot' = [s \in Slots |-> IF s \in r.occupy THEN "OCCUPIED"
                                  ELSE IF s \in r.freed THEN "FREE" ELSE slot[s]]
      /\ stored' = (stored \ {<<r.o, s>> : s \in r.took}) \cup {<<r.o, s>> : s \in r.place}
      /\ session' = [session EXCEPT ![r.k] = UpdateSession(session[r.k], r.ses, r.scols)]
      /\ collected' = [collected EXCEPT ![r.o] = collected[r.o] + r.amount]
      /\ drawer' = [drawer EXCEPT ![r.k] = drawer[r.k] + IF r.cash THEN r.amount ELSE 0]
      /\ req' = [req EXCEPT ![w] = After(r)]
  BY <1>1 DEF Commit
<1>4. /\ r.call # "create" =>
              UpdateOrder(order[r.o], r.ord, r.cols) =
                  IF "order" \in r.saves THEN r.ord ELSE order[r.o]
      /\ UpdateSession(session[r.k], r.ses, r.scols) =
              IF "session" \in r.saves THEN r.ses ELSE session[r.k]
      /\ r.freed = {s \in r.took : slot[s] # "FREE"} /\ r.occupy = r.place
  BY <1>2 DEF Prepared
<1>5. order' = [order EXCEPT ![r.o] = IF r.call = "create" \/ "order" \in r.saves
                                      THEN r.ord ELSE order[r.o]]
  BY <1>3, <1>4
<1>6. slot' = [s \in Slots |-> IF s \in r.place THEN "OCCUPIED"
                               ELSE IF s \in r.took THEN "FREE" ELSE slot[s]]
  BY <1>3, <1>4
<1>7. CommitsAlone(r)
  BY <1>3, <1>4, <1>5, <1>6 DEF CommitsAlone
<1> QED
  BY <1>1, <1>2, <1>3, <1>7 DEF Committing

\* The shelves stay consistent, and a session that is saved has been opened.
LEMMA CommitTables ==
    ASSUME Serial, TypeOK', NEW w, NEW r, Committing(w, r)
    PROVE  TablesOK'
<1>1. /\ r \in Request /\ ReadIsTrue(r) /\ r.at = "commit" /\ r.o \in Orders /\ r.k \in Sessions
      /\ CommitsAlone(r) /\ session \in [Sessions -> SessionRow]
      /\ r.place \subseteq Slots /\ r.took \subseteq Slots
  BY DEF Committing, Serial, TypeOK, Request
<1>2. /\ \A o \in Orders, s \in Slots : <<o, s>> \in stored => slot[s] = "OCCUPIED"
      /\ \A o, p \in Orders, s \in Slots : <<o, s>> \in stored /\ <<p, s>> \in stored => o = p
      /\ \A k \in Sessions : session[k].status = "NONE" => session[k].expected = 0
  BY DEF Serial, TablesOK
<1>3. /\ \A s \in r.took : <<r.o, s>> \in stored
      /\ \A s \in r.place : slot[s] = "FREE"
      /\ "session" \in r.saves => r.ses.status # "NONE"
  BY <1>1, CommitReads DEF ShelvesOf
<1>4. ASSUME NEW o \in Orders, NEW s \in Slots, <<o, s>> \in stored'
      PROVE  \/ s \in r.place /\ o = r.o /\ slot'[s] = "OCCUPIED"
             \/ s \notin r.place /\ s \notin r.took /\ <<o, s>> \in stored
                /\ slot'[s] = "OCCUPIED"
  <2>1. CASE s \in r.place
    <3>1. \A p \in Orders : <<p, s>> \notin stored
      BY <1>2, <1>3, <2>1
    <3>2. o = r.o
      BY <1>1, <1>4, <3>1 DEF CommitsAlone
    <3> QED
      BY <1>1, <2>1, <3>2 DEF CommitsAlone
  <2>2. CASE s \notin r.place
    <3>1. <<o, s>> \in stored /\ ~ (o = r.o /\ s \in r.took)
      BY <1>1, <1>4, <2>2 DEF CommitsAlone
    <3>2. s \notin r.took
      BY <1>1, <1>2, <1>3, <3>1
    <3>3. slot'[s] = slot[s]
      BY <1>1, <2>2, <3>2 DEF CommitsAlone
    <3> QED
      BY <1>2, <2>2, <3>1, <3>2, <3>3
  <2> QED
    BY <2>1, <2>2
<1>5. \A k \in Sessions : session'[k].status = "NONE" => session'[k].expected = 0
  BY <1>1, <1>2, <1>3 DEF CommitsAlone
<1>6. \A o \in Orders, s \in Slots : <<o, s>> \in stored' => slot'[s] = "OCCUPIED"
  BY <1>4
<1>7. ASSUME NEW o \in Orders, NEW p \in Orders, NEW s \in Slots,
             <<o, s>> \in stored', <<p, s>> \in stored'
      PROVE  o = p
  BY <1>2, <1>4, <1>7
<1> QED
  BY <1>5, <1>6, <1>7 DEF TablesOK

\* A commit that is not the first of a start of work ends its request.
LEMMA CommitEnds ==
    ASSUME Serial, TypeOK', NEW w, NEW r, Committing(w, r), r.call # "status" \/ r.took = {}
    PROVE  /\ Serial' /\ ShownStored' = stored' /\ ShownSlot' = slot'
<1>1. After(r) = Idle /\ Idle.left = {}
  BY DEF After, Idle
<1>2. Workers = {w} /\ req'[w] = Idle /\ slot' \in [Slots -> SlotStatus]
  BY <1>1 DEF Committing, TypeOK
<1>3. Serial'
  BY <1>2, CommitTables, IdleSerial
<1> QED
  BY <1>1, <1>2, <1>3, NothingEarlyNext

\* A payment is booked as the atomic counter books it.
LEMMA CommitBooks ==
    ASSUME Serial, NEW w, NEW r, Committing(w, r), InSession(r)
    PROVE  Desk!Book(r.o, r.k, r.amount, r.cash) /\ session[r.k].status = "OPEN"
<1>1. /\ r \in Request /\ r.at = "commit" /\ r.k \in Sessions
      /\ CommitsAlone(r) /\ session \in [Sessions -> SessionRow]
  BY DEF Committing, Serial, TypeOK
<1>2. /\ session[r.k].status = "OPEN" /\ ("session" \in r.saves <=> r.cash)
      /\ r.ses = [session[r.k] EXCEPT !.expected = session[r.k].expected + r.amount]
  BY <1>1 DEF InSession
<1>3. r.cash \in BOOLEAN /\ session[r.k].expected \in Nat /\ session[r.k] \in SessionRow
  BY <1>1 DEF Request, SessionRow
<1>4. session' = [session EXCEPT ![r.k] = [session[r.k] EXCEPT
                     !.expected = session[r.k].expected + IF r.cash THEN r.amount ELSE 0]]
  <2>1. CASE r.cash
    BY <1>1, <1>2, <2>1 DEF CommitsAlone
  <2>2. CASE ~ r.cash
    <3>1. session[r.k].expected + 0 = session[r.k].expected
      BY <1>3
    <3>2. [session[r.k] EXCEPT !.expected = session[r.k].expected] = session[r.k]
      BY <1>3 DEF SessionRow
    <3>3. session' = [session EXCEPT ![r.k] = session[r.k]]
      BY <1>1, <1>2, <2>2 DEF CommitsAlone
    <3> QED
      BY <2>2, <3>1, <3>2, <3>3
  <2> QED
    BY <2>1, <2>2
<1> QED
  BY <1>1, <1>2, <1>4 DEF Desk!Book, CommitsAlone

\* A request that takes no money leaves the receipts as they are.
LEMMA NothingTaken ==
    ASSUME Serial, NEW w, NEW r, Committing(w, r), r.amount = 0
    PROVE  collected' = collected /\ drawer' = drawer
<1>1. /\ CommitsAlone(r) /\ r.o \in Orders /\ r.k \in Sessions /\ r \in Request
      /\ collected \in [Orders -> Nat] /\ drawer \in [Sessions -> Nat]
  BY DEF Committing, Serial, TypeOK
<1>2. collected[r.o] + r.amount = collected[r.o]
  BY <1>1
<1>3. drawer[r.k] + (IF r.cash THEN r.amount ELSE 0) = drawer[r.k]
  BY <1>1
<1> QED
  BY <1>1, <1>2, <1>3 DEF CommitsAlone

\* What a request does not touch stays.
LEMMA CommitSpares ==
    ASSUME Serial, NEW w, NEW r, Committing(w, r)
    PROVE  /\ r.place = {} /\ r.took = {} => stored' = stored /\ slot' = slot
           /\ r.call # "create" /\ "order" \notin r.saves => order' = order
           /\ "session" \notin r.saves => session' = session
<1>1. /\ CommitsAlone(r) /\ r.o \in Orders /\ r.k \in Sessions
      /\ order \in [Orders -> OrderRow] /\ session \in [Sessions -> SessionRow]
      /\ slot \in [Slots -> SlotStatus]
  BY DEF Committing, Serial, TypeOK
<1>2. ASSUME r.place = {}, r.took = {} PROVE stored' = stored /\ slot' = slot
  BY <1>1, <1>2 DEF CommitsAlone
<1>3. ASSUME r.call # "create", "order" \notin r.saves PROVE order' = order
  BY <1>1, <1>3 DEF CommitsAlone
<1>4. ASSUME "session" \notin r.saves PROVE session' = session
  BY <1>1, <1>4 DEF CommitsAlone
<1> QED
  BY <1>2, <1>3, <1>4

\* A request that is not a start of work and takes all the order's shelves
\* empties them.
LEMMA CommitEmpties ==
    ASSUME Serial, TypeOK', NEW w, NEW r, Committing(w, r), r.call # "status", r.left = {},
           r.place = {}, r.took = ShelvesOf(r.o)
    PROVE  Desk!EmptyShelves(r.o) /\ Desk!ShelvesOf(r.o) = ShelvesOf(r.o)
<1>1. /\ CommitsAlone(r) /\ Workers = {w} /\ r = req[w]
      /\ slot \in [Slots -> SlotStatus] /\ stored \subseteq Orders \X Slots
  BY DEF Committing, Serial, TypeOK
<1>2. /\ ShownStored = stored /\ ShownSlot = slot
      /\ ShownStored' = stored' /\ ShownSlot' = slot'
  BY <1>1, NothingEarly, CommitEnds
<1>3. Desk!ShelvesOf(r.o) = ShelvesOf(r.o)
  BY <1>2 DEF Desk!ShelvesOf, ShelvesOf
<1>4. ShownSlot' = [s \in Slots |-> IF s \in ShelvesOf(r.o) THEN "FREE" ELSE ShownSlot[s]]
  BY <1>1, <1>2 DEF CommitsAlone
<1>5. ShownStored' = ShownStored \ {<<r.o, s>> : s \in Slots}
  <2>1. stored' = stored \ {<<r.o, s>> : s \in ShelvesOf(r.o)}
    BY <1>1 DEF CommitsAlone
  <2>2. \A s \in Slots : <<r.o, s>> \in stored <=> s \in ShelvesOf(r.o)
    BY DEF ShelvesOf
  <2>3. ShelvesOf(r.o) \subseteq Slots
    BY DEF ShelvesOf
  <2> QED
    BY <1>2, <2>1, <2>2, <2>3
<1> QED
  BY <1>3, <1>4, <1>5 DEF Desk!EmptyShelves

LEMMA CommitCreate ==
    ASSUME Serial, TypeOK', NEW w, NEW r, Committing(w, r), r.call = "create"
    PROVE  Serial' /\ [Desk!Next]_Desk!vars
<1>1. /\ CreateRead(r) /\ Workers = {w} /\ r = req[w] /\ r.at = "commit" /\ r.o \in Orders
      /\ r.k \in Sessions /\ slot \in [Slots -> SlotStatus] /\ CommitsAlone(r)
  BY DEF Committing, ReadIsTrue, Serial, TypeOK
<1>2. r.place = {} /\ r.took = {} /\ r.left = {} /\ order[r.o].status = NoOrder
  BY <1>1 DEF CreateRead, NoShelf
<1>3. Serial' /\ ShownStored' = ShownStored /\ ShownSlot' = ShownSlot
  BY <1>1, <1>2, CommitSpares, CommitEnds, NothingEarly
<1>4. order' = [order EXCEPT ![r.o] = r.ord] /\ ~ Desk!Exists(r.o)
  BY <1>1, <1>2 DEF CommitsAlone, Desk!Exists, Desk!NoOrder, NoOrder
<1>5. PICK price \in Prices :
          \/ /\ r.amount = 0 /\ r.saves = {}
             /\ r.ord = NewOrder(price, 0, "UNPAID")
          \/ /\ \E initial \in Amounts : r.amount = CappedAmount(initial, price)
             /\ r.ord = NewOrder(price, r.amount, SettledStatus(price, r.amount))
             /\ InSession(r)
  BY <1>1 DEF CreateRead
<1>6. CASE r.amount = 0 /\ r.saves = {} /\ r.ord = NewOrder(price, 0, "UNPAID")
  <2>1. session' = session /\ collected' = collected /\ drawer' = drawer
    BY <1>6, CommitSpares, NothingTaken
  <2>2. Desk!CreateOrder(r.o, price)
    BY <1>3, <1>4, <1>6, <2>1 DEF Desk!CreateOrder, NewOrder
  <2> QED
    BY <1>1, <1>3, <1>5, <2>2 DEF Desk!Next, Desk!OrderRequest
<1>7. CASE /\ \E initial \in Amounts : r.amount = CappedAmount(initial, price)
           /\ r.ord = NewOrder(price, r.amount, SettledStatus(price, r.amount))
           /\ InSession(r)
  <2>1. PICK initial \in Amounts : r.amount = CappedAmount(initial, price)
    BY <1>7
  <2>2. Desk!Book(r.o, r.k, r.amount, r.cash) /\ session[r.k].status = "OPEN" /\ r.cash \in Cash
    BY <1>7, CommitBooks DEF InSession
  <2>3. Desk!CappedAmount(initial, price) = r.amount
    BY <2>1 DEF Desk!CappedAmount, CappedAmount
  <2>4. r.ord = [status |-> "CREATED", total |-> price, paid |-> r.amount,
                 pay |-> Desk!SettledStatus(price, r.amount)]
    BY <1>7 DEF NewOrder, SettledStatus, Desk!SettledStatus
  <2>5. Desk!CreateOrderPaying(r.o, price, r.k, initial, r.cash)
    BY <1>3, <1>4, <2>2, <2>3, <2>4 DEF Desk!CreateOrderPaying
  <2> QED
    BY <1>1, <1>3, <1>5, <2>1, <2>2, <2>5 DEF Desk!Next, Desk!OrderRequest
<1> QED
  BY <1>5, <1>6, <1>7

LEMMA CommitPay ==
    ASSUME Serial, TypeOK', NEW w, NEW r, Committing(w, r), r.call = "pay"
    PROVE  Serial' /\ [Desk!Next]_Desk!vars
<1>1. /\ PayRead(r) /\ Workers = {w} /\ r = req[w] /\ r.at = "commit" /\ r.o \in Orders
      /\ r.k \in Sessions /\ slot \in [Slots -> SlotStatus] /\ CommitsAlone(r)
  BY DEF Committing, ReadIsTrue, Serial, TypeOK
<1>2. /\ r.place = {} /\ r.took = {} /\ r.left = {} /\ order[r.o].status # NoOrder
      /\ r.amount \in Amounts /\ "order" \in r.saves /\ InSession(r)
      /\ WithinBalance(order[r.o].total, order[r.o].paid, r.amount)
      /\ r.ord = [order[r.o] EXCEPT !.paid = order[r.o].paid + r.amount,
                      !.pay = SettledStatus(order[r.o].total, order[r.o].paid + r.amount)]
  BY <1>1 DEF PayRead, NoShelf
<1>3. Serial' /\ ShownStored' = ShownStored /\ ShownSlot' = ShownSlot
  BY <1>1, <1>2, CommitSpares, CommitEnds, NothingEarly
<1>4. Desk!Exists(r.o) /\ Desk!WithinBalance(order[r.o].total, order[r.o].paid, r.amount)
  BY <1>2 DEF Desk!Exists, Desk!NoOrder, NoOrder, Desk!WithinBalance, WithinBalance
<1>5. Desk!Book(r.o, r.k, r.amount, r.cash) /\ session[r.k].status = "OPEN" /\ r.cash \in Cash
  BY <1>2, CommitBooks DEF InSession
<1>6. order' = [order EXCEPT ![r.o] = r.ord]
  BY <1>1, <1>2 DEF CommitsAlone
<1>7. order' = [order EXCEPT ![r.o] =
                    [order[r.o] EXCEPT !.paid = order[r.o].paid + r.amount,
                        !.pay = Desk!SettledStatus(order[r.o].total,
                                                   order[r.o].paid + r.amount)]]
  BY <1>2, <1>6 DEF SettledStatus, Desk!SettledStatus
<1>8. Desk!Pay(r.o, r.k, r.amount, r.cash)
  BY <1>3, <1>4, <1>5, <1>7 DEF Desk!Pay
<1> QED
  BY <1>1, <1>2, <1>3, <1>5, <1>8 DEF Desk!Next, Desk!OrderRequest

LEMMA CommitAddress ==
    ASSUME Serial, TypeOK', NEW w, NEW r, Committing(w, r), r.call = "address"
    PROVE  Serial' /\ [Desk!Next]_Desk!vars
<1>1. /\ AddressRead(r) /\ Workers = {w} /\ r = req[w] /\ r.o \in Orders
      /\ slot \in [Slots -> SlotStatus] /\ CommitsAlone(r) /\ order \in [Orders -> OrderRow]
  BY DEF Committing, ReadIsTrue, Serial, TypeOK
<1>2. /\ r.place = {} /\ r.took = {} /\ r.left = {} /\ r.amount = 0 /\ r.ord = order[r.o]
      /\ "session" \notin r.saves
  BY <1>1 DEF AddressRead, NoShelf
<1>3. /\ Serial' /\ ShownStored' = ShownStored /\ ShownSlot' = ShownSlot
      /\ session' = session /\ collected' = collected /\ drawer' = drawer
  BY <1>1, <1>2, CommitSpares, CommitEnds, NothingEarly, NothingTaken
<1>4. order' = order
  BY <1>1, <1>2 DEF CommitsAlone
<1> QED
  BY <1>3, <1>4 DEF Desk!vars

LEMMA CommitRelease ==
    ASSUME Serial, TypeOK', NEW w, NEW r, Committing(w, r), r.call = "release"
    PROVE  Serial' /\ [Desk!Next]_Desk!vars
<1>1. ReleaseRead(r) /\ r.o \in Orders
  BY DEF Committing, ReadIsTrue
<1>2. /\ r.place = {} /\ r.took = ShelvesOf(r.o) /\ r.took # {} /\ r.left = {} /\ r.amount = 0
      /\ "session" \notin r.saves /\ "order" \notin r.saves
  BY <1>1 DEF ReleaseRead
<1>3. /\ Serial' /\ order' = order
      /\ session' = session /\ collected' = collected /\ drawer' = drawer
  BY <1>2, CommitSpares, CommitEnds, NothingTaken
<1>4. Desk!EmptyShelves(r.o) /\ Desk!ShelvesOf(r.o) # {}
  BY <1>2, CommitEmpties
<1>5. Desk!ReleaseOrder(r.o)
  BY <1>3, <1>4 DEF Desk!ReleaseOrder
<1> QED
  BY <1>1, <1>3, <1>5 DEF Desk!Next, Desk!OrderRequest

LEMMA CommitDeliver ==
    ASSUME Serial, TypeOK', NEW w, NEW r, Committing(w, r), r.call = "deliver"
    PROVE  Serial' /\ [Desk!Next]_Desk!vars
<1>1. /\ DeliverRead(r) /\ r.o \in Orders /\ r.at = "commit" /\ CommitsAlone(r)
      /\ order \in [Orders -> OrderRow]
  BY DEF Committing, ReadIsTrue, Serial, TypeOK
<1>2. /\ order[r.o].status = "STORED" /\ order[r.o].pay = "PAID"
      /\ r.place = {} /\ r.took = ShelvesOf(r.o) /\ r.took # {} /\ r.left = {} /\ r.amount = 0
      /\ "session" \notin r.saves /\ "order" \in r.saves
      /\ r.ord = [order[r.o] EXCEPT !.status = "DELIVERED"]
  BY <1>1 DEF DeliverRead
<1>3. /\ Serial' /\ session' = session /\ collected' = collected /\ drawer' = drawer
  BY <1>2, CommitSpares, CommitEnds, NothingTaken
<1>4. Desk!EmptyShelves(r.o) /\ Desk!ShelvesOf(r.o) # {}
  BY <1>2, CommitEmpties
<1>5. order' = [order EXCEPT ![r.o].status = "DELIVERED"]
  BY <1>1, <1>2 DEF CommitsAlone
<1>6. Desk!ProcessDelivery(r.o)
  BY <1>2, <1>3, <1>4, <1>5 DEF Desk!ProcessDelivery
<1> QED
  BY <1>1, <1>3, <1>6 DEF Desk!Next, Desk!OrderRequest

LEMMA CommitClose ==
    ASSUME Serial, TypeOK', NEW w, NEW r, Committing(w, r), r.call = "close"
    PROVE  Serial' /\ [Desk!Next]_Desk!vars
<1>1. /\ CloseRead(r) /\ Workers = {w} /\ r = req[w] /\ r.at = "commit" /\ r.k \in Sessions
      /\ slot \in [Slots -> SlotStatus] /\ CommitsAlone(r)
  BY DEF Committing, ReadIsTrue, Serial, TypeOK
<1>2. /\ r.place = {} /\ r.took = {} /\ r.left = {} /\ r.amount = 0
      /\ "session" \in r.saves /\ "order" \notin r.saves /\ session[r.k].status = "OPEN"
      /\ r.ses = [session[r.k] EXCEPT !.status = "CLOSED", !.expected = drawer[r.k]]
  BY <1>1 DEF CloseRead, NoShelf
<1>3. /\ Serial' /\ ShownStored' = ShownStored /\ ShownSlot' = ShownSlot
      /\ order' = order /\ collected' = collected /\ drawer' = drawer
  BY <1>1, <1>2, CommitSpares, CommitEnds, NothingEarly, NothingTaken
<1>4. session' = [session EXCEPT ![r.k] =
                      [session[r.k] EXCEPT !.status = "CLOSED", !.expected = drawer[r.k]]]
  BY <1>1, <1>2 DEF CommitsAlone
<1>5. Desk!CloseSession(r.k)
  BY <1>2, <1>3, <1>4 DEF Desk!CloseSession
<1> QED
  BY <1>1, <1>3, <1>5 DEF Desk!Next, Desk!SessionRequest

LEMMA CommitAssign ==
    ASSUME Serial, TypeOK', NEW w, NEW r, Committing(w, r), r.call = "assign"
    PROVE  Serial' /\ [Desk!Next]_Desk!vars
<1>1. /\ AssignRead(r) /\ Workers = {w} /\ r = req[w] /\ r.at = "commit" /\ r.o \in Orders
      /\ slot \in [Slots -> SlotStatus] /\ CommitsAlone(r) /\ order \in [Orders -> OrderRow]
  BY DEF Committing, ReadIsTrue, Serial, TypeOK
<1>2. r.left = {} /\ r.amount = 0 /\ order[r.o].status # NoOrder
  BY <1>1 DEF AssignRead
<1>3. PICK s \in Slots :
          /\ r.place = {s} /\ s \notin ShelvesOf(r.o) /\ r.took = ShelvesOf(r.o)
          /\ slot[s] = "FREE" /\ <<order[r.o].status, SlotTypeOf[s]>> \in ShelfPairing
          /\ IF order[r.o].status = "READY"
             THEN r.saves = {"order"} /\ r.ord = [order[r.o] EXCEPT !.status = "STORED"]
             ELSE r.saves = {}
  BY <1>1 DEF AssignRead
<1>4. /\ Serial' /\ session' = session /\ collected' = collected /\ drawer' = drawer
  BY <1>2, <1>3, CommitSpares, CommitEnds, NothingTaken
<1>5. /\ ShownStored = stored /\ ShownSlot = slot
      /\ ShownStored' = stored' /\ ShownSlot' = slot'
  BY <1>1, <1>2, NothingEarly, CommitEnds
<1>6. Desk!ShelvesOf(r.o) = ShelvesOf(r.o)
  BY <1>5 DEF Desk!ShelvesOf, ShelvesOf
<1>7. order' = [order EXCEPT ![r.o].status = IF order[r.o].status = "READY" THEN "STORED"
                                             ELSE order[r.o].status]
  <2>1. CASE order[r.o].status = "READY"
    BY <1>1, <1>3, <2>1 DEF CommitsAlone
  <2>2. CASE order[r.o].status # "READY"
    <3>1. order' = order
      BY <1>3, <2>2, CommitSpares
    <3>2. [order[r.o] EXCEPT !.status = order[r.o].status] = order[r.o]
      BY <1>1 DEF OrderRow
    <3> QED
      BY <1>1, <2>2, <3>1, <3>2
  <2> QED
    BY <2>1, <2>2
<1>8. slot' = [t \in Slots |-> IF t = s THEN "OCCUPIED"
                               ELSE IF t \in ShelvesOf(r.o) THEN "FREE" ELSE slot[t]]
  BY <1>1, <1>3 DEF CommitsAlone
<1>9. stored' = (stored \ {<<r.o, t>> : t \in Slots}) \cup {<<r.o, s>>}
  <2>1. stored' = (stored \ {<<r.o, t>> : t \in ShelvesOf(r.o)}) \cup {<<r.o, s>>}
    BY <1>1, <1>3 DEF CommitsAlone
  <2>2. \A t \in Slots : <<r.o, t>> \in stored <=> t \in ShelvesOf(r.o)
    BY DEF ShelvesOf
  <2>3. ShelvesOf(r.o) \subseteq Slots
    BY DEF ShelvesOf
  <2> QED
    BY <2>1, <2>2, <2>3
<1>10. Desk!Exists(r.o) /\ <<order[r.o].status, SlotTypeOf[s]>> \in Desk!ShelfPairing
  BY <1>2, <1>3 DEF Desk!Exists, Desk!NoOrder, NoOrder, Desk!ShelfPairing, ShelfPairing
<1>11. Desk!AssignOrderToSlot(r.o, s)
  BY <1>3, <1>4, <1>5, <1>6, <1>7, <1>8, <1>9, <1>10 DEF Desk!AssignOrderToSlot
<1> QED
  BY <1>1, <1>4, <1>11 DEF Desk!Next, Desk!OrderRequest

\* The first transaction of a start of work is not seen by the atomic counter.
LEMMA CommitReleaseForWork ==
    ASSUME Serial, TypeOK', NEW w, NEW r, Committing(w, r), r.call = "status", Releasing(r),
           StatusRead(r), r.ord.status = "IN_PROGRESS"
    PROVE  Serial' /\ [Desk!Next]_Desk!vars
<1>1. /\ Workers = {w} /\ r \in Request /\ r = req[w] /\ r.at = "commit" /\ r.o \in Orders
      /\ slot \in [Slots -> SlotStatus] /\ CommitsAlone(r) /\ order \in [Orders -> OrderRow]
      /\ stored \subseteq Orders \X Slots /\ req'[w] = After(r)
  BY DEF Committing, Serial, TypeOK
<1>2. /\ r.left = {} /\ r.amount = 0 /\ r.place = {} /\ r.took = ShelvesOf(r.o)
      /\ OnReception(r.took) /\ r.saves = {}
  BY DEF StatusRead, Releasing
<1>3. r.took # {}
  BY <1>2 DEF OnReception
<1>4. PICK c : c = [r EXCEPT !.at = "save", !.saves = {"order"}, !.left = r.took,
                             !.took = {}, !.freed = {}]
  OBVIOUS
<1>5. /\ c.call = r.call /\ c.o = r.o /\ c.ord = r.ord /\ c.amount = r.amount
      /\ c.place = r.place /\ c.at = "save" /\ c.saves = {"order"} /\ c.left = r.took
      /\ c.took = {}
  BY <1>1, <1>4 DEF Request
<1>6. req'[w] = c
  BY <1>1, <1>3, <1>4 DEF After
<1>7. /\ order' = order /\ session' = session /\ collected' = collected /\ drawer' = drawer
  BY <1>2, CommitSpares, NothingTaken
<1>8. /\ slot' = [s \in Slots |-> IF s \in r.took THEN "FREE" ELSE slot[s]]
      /\ stored' = stored \ {<<r.o, s>> : s \in r.took}
  BY <1>1, <1>2 DEF CommitsAlone
<1>9. \A s \in Slots : s \in r.took <=> <<r.o, s>> \in stored
  BY <1>2 DEF ShelvesOf
<1>10. r.took \subseteq Slots
  BY <1>1 DEF Request
<1>11. {s \in Slots : <<r.o, s>> \in stored'} = {}
  BY <1>8, <1>9
<1>12. Serial'
  <2>1. TablesOK'
    BY CommitTables
  <2>2. Released(c)'
    BY <1>2, <1>5, <1>8, <1>10, <1>11 DEF Released, ShelvesOf
  <2>3. StatusRead(c)'
    BY <1>2, <1>5, <1>7, <2>2 DEF StatusRead
  <2>4. ReadIsTrue(c)' /\ Prepared(c)'
    BY <1>5, <2>3 DEF ReadIsTrue, Prepared
  <2>5. ReadIsTrue(req[w])' /\ Prepared(req[w])'
    BY <1>6, <2>4
  <2> QED
    BY <1>1, <2>1, <2>5 DEF Serial
<1>13. ShownStored' = ShownStored
  <2>1. ReleasedEarly' = {<<r.o, s>> : s \in r.took}
    BY <1>1, <1>5, <1>6 DEF ReleasedEarly
  <2>2. ShownStored = stored
    BY <1>1, <1>2, NothingEarly
  <2> QED
    BY <1>8, <1>9, <1>10, <2>1, <2>2 DEF ShownStored
<1>14. ShownSlot' = ShownSlot
  <2>1. ShownSlot' = [s \in Slots |-> IF s \in r.took THEN "OCCUPIED" ELSE slot'[s]]
    BY <1>1, <1>5, <1>6 DEF ShownSlot
  <2>2. ShownSlot = slot
    BY <1>1, <1>2, NothingEarly
  <2>3. \A s \in r.took : slot[s] = "OCCUPIED"
    BY <1>1, <1>9, <1>10 DEF Serial, TablesOK
  <2> QED
    BY <1>1, <1>8, <2>1, <2>2, <2>3
<1> QED
  BY <1>7, <1>12, <1>13, <1>14 DEF Desk!vars

\* The status itself.
LEMMA CommitStatus ==
    ASSUME Serial, TypeOK', NEW w, NEW r, Committing(w, r), r.call = "status"
    PROVE  Serial' /\ [Desk!Next]_Desk!vars
<1>1. /\ StatusRead(r) /\ Workers = {w} /\ r \in Request /\ r = req[w] /\ r.at = "commit"
      /\ ReadIsTrue(r) /\ r.o \in Orders
      /\ slot \in [Slots -> SlotStatus] /\ CommitsAlone(r) /\ order \in [Orders -> OrderRow]
  BY DEF Committing, ReadIsTrue, Serial, TypeOK
<1>2. PICK new : new = r.ord.status
  OBVIOUS
<1>3. /\ r.amount = 0 /\ r.place = {} /\ <<order[r.o].status, new>> \in AllowedTransitions
      /\ r.ord = [order[r.o] EXCEPT !.status = new]
  BY <1>1, <1>2 DEF StatusRead
<1>4. new \in OrderStatus /\ new # NoOrder
  BY <1>3 DEF AllowedTransitions, OrderStatus, NoOrder
<1>5. ASSUME r.saves = {"order"}, r.took = {}
      PROVE  /\ Serial' /\ ShownStored' = stored /\ ShownSlot' = slot
             /\ order' = [order EXCEPT ![r.o].status = new]
             /\ session' = session /\ collected' = collected /\ drawer' = drawer
  <2>1. order' = [order EXCEPT ![r.o].status = new]
    BY <1>1, <1>3, <1>5 DEF CommitsAlone
  <2> QED
    BY <1>1, <1>3, <1>5, <2>1, CommitSpares, CommitEnds, NothingTaken
<1>6. CASE new # "IN_PROGRESS"
  <2>1. r.saves = {"order"} /\ r.took = {} /\ r.left = {}
    BY <1>1, <1>2, <1>6 DEF StatusRead
  <2>2. ShownStored = stored /\ ShownSlot = slot
    BY <1>1, <2>1, NothingEarly
  <2>3. <<order[r.o].status, new>> \in Desk!AllowedTransitions
    BY <1>3 DEF AllowedTransitions, Desk!AllowedTransitions
  <2>4. Desk!UpdateStatus(r.o, new)
    BY <1>5, <1>6, <2>1, <2>2, <2>3 DEF Desk!UpdateStatus
  <2>5. new \in Desk!OrderStatus
    BY <1>4 DEF OrderStatus, Desk!OrderStatus
  <2> QED
    BY <1>1, <1>5, <2>1, <2>4, <2>5 DEF Desk!Next, Desk!OrderRequest
<1>7. CASE new = "IN_PROGRESS" /\ Releasing(r)
  BY <1>1, <1>2, <1>7, CommitReleaseForWork
<1>8. CASE new = "IN_PROGRESS" /\ Released(r)
  <2>1. r.saves = {"order"} /\ r.took = {} /\ OnReception(r.left) /\ r.left # {}
    BY <1>8 DEF Released, OnReception
  <2>2. /\ Desk!ShelvesOf(r.o) = r.left
        /\ slot = [s \in Slots |-> IF s \in r.left THEN "FREE" ELSE ShownSlot[s]]
        /\ stored = ShownStored \ {<<r.o, s>> : s \in Slots}
    BY <1>1, <2>1, EarlyEmptied
  <2>3. Desk!EmptyShelves(r.o)
    BY <1>5, <2>1, <2>2 DEF Desk!EmptyShelves
  <2>4. order[r.o].status = "CREATED"
    BY <1>3, <1>8 DEF AllowedTransitions
  <2>5. Desk!StartProcessing(r.o)
    BY <1>5, <1>8, <2>1, <2>2, <2>3, <2>4 DEF Desk!StartProcessing, OnReception
  <2> QED
    BY <1>1, <1>5, <2>1, <2>5 DEF Desk!Next, Desk!OrderRequest
<1> QED
  BY <1>1, <1>2, <1>6, <1>7, <1>8 DEF StatusRead, ToRelease

LEMMA CommitSerial ==
    ASSUME Serial, TypeOK', NEW w, Workers = {w}, Commit(w)
    PROVE  Serial' /\ [Desk!Next]_Desk!vars
<1>1. PICK r \in Request : Committing(w, r)
  BY CommitAlone
<1>2. r.call \in {"create", "pay", "status", "address", "release", "assign", "deliver", "close"}
  BY <1>1, CommitReads DEF Committing
<1> QED
  BY <1>1, <1>2, CommitCreate, CommitPay, CommitStatus, CommitAddress, CommitRelease,
     CommitAssign, CommitDeliver, CommitClose

-----------------------------------------------------------------------------
\* Every step of the one worker is a step of the atomic counter, or none.
LEMMA StepSerial ==
    ASSUME Serial, TypeOK', NEW w, Workers = {w}, [Next]_vars
    PROVE  Serial' /\ [Desk!Next]_Desk!vars
<1>1. CASE NewRequest(w)
  BY <1>1, BeginMoney, BeginOther DEF NewRequest
<1>2. CASE \E k \in Sessions : FindOpenSession(w, k)
  BY <1>2, FindSerial
<1>3. CASE StorageInfo(w) \/ ReleaseForWork(w) \/ AssignShelves(w) \/ AssignTarget(w)
           \/ DeliveryShelves(w) \/ CheckUnremitted(w) \/ SumPayments(w)
  BY <1>3, ReadsSerial
<1>4. CASE InsertSession(w)
  BY <1>4, InsertSerial
<1>5. CASE Save(w)
  BY <1>5, SaveSerial
<1>6. CASE Commit(w)
  BY <1>6, CommitSerial
<1>7. CASE Abort(w)
  BY <1>7, AbortSerial
<1>8. CASE UNCHANGED vars
  <2>1. PICK c : c = req[w]
    OBVIOUS
  <2>2. Put(w, c) /\ UNCHANGED tables
    BY <1>8, <2>1 DEF Put, vars, Serial, TypeOK
  <2>3. ReadIsTrue(c) /\ Prepared(c)
    BY <2>1 DEF Serial
  <2> QED
    BY <2>1, <2>2, <2>3, ReadSerial, ReadStutters
<1> QED
  BY <1>1, <1>2, <1>3, <1>4, <1>5, <1>6, <1>7, <1>8 DEF Next, NextStatement

LEMMA InitSerial ==
    ASSUME TypeOK, NEW w, Workers = {w}, Init
    PROVE  Serial /\ Desk!Init
<1>1. /\ order = [o \in Orders |-> NoRow] /\ slot = [s \in Slots |-> "FREE"] /\ stored = {}
      /\ session = [k \in Sessions |-> NoSession] /\ req[w] = Idle
      /\ collected = [o \in Orders |-> 0] /\ drawer = [k \in Sessions |-> 0]
  BY DEF Init
<1>2. /\ Idle.call = "idle" /\ Idle.at = "idle" /\ Idle.left = {}
  BY DEF Idle
<1>3. TablesOK
  BY <1>1 DEF TablesOK, NoSession
<1>4. ReadIsTrue(req[w]) /\ Prepared(req[w])
  BY <1>1, <1>2 DEF ReadIsTrue, Prepared
<1>5. ShownStored = {} /\ ShownSlot = slot
  BY <1>1, <1>2, NothingEarly DEF TypeOK
<1>6. Desk!Init
  BY <1>1, <1>5 DEF Desk!Init, Desk!NoOrder, NoOrder, NoRow, NoSession
<1> QED
  BY <1>3, <1>4, <1>6 DEF Serial

\* The counter with one request in flight is the counter of whole requests.
THEOREM OneWorkerImplements ==
    ASSUME NEW w, Workers = {w}
    PROVE  Spec => ImplementsDesk
<1>1. TypeOK /\ Init => Serial /\ Desk!Init
  BY InitSerial
<1>2. Serial /\ TypeOK' /\ [Next]_vars => Serial' /\ [Desk!Next]_Desk!vars
  BY StepSerial
<1> QED
  BY <1>1, <1>2, TypeCorrect, PTL DEF Spec, ImplementsDesk, Desk!Spec

=============================================================================

------------------------ MODULE CounterScreen_proofs ------------------------
(***************************************************************************)
(* Proofs about the order page: a draft makes one order, every order gets  *)
(* to its shelf, and what the customer is told and gives agrees with what  *)
(* the back end books, for any catalogue, any prices and any number of     *)
(* requests, reloads and lost answers.                                     *)
(*                                                                         *)
(* The inductive invariant relates the page to the rows of its requests.   *)
(* A request the page no longer waits for is still undecided and its draft *)
(* is excused, so a late order of it breaks no promise.  A draft that has  *)
(* been ordered and is still edited is excused or on its way to the shelf, *)
(* so no form is confirmed for it again.  The row keeps the amount paid,   *)
(* the prices and the multiplier the page had, and those of the back end   *)
(* with its total; that one total is below the other is a fact about sums.*)
(***************************************************************************)
EXTENDS CounterScreen, Sums

\* The pieces of a draft, as Room counts them.
Pieces(q) == MapThenSumSet(LAMBDA o : q[o], Offers)

\* The total of a draft at the prices of a list and at a multiplier (Charged, of
\* those at the time).
TotalAt(d, prices, m) == Base(d.qty, prices) * (IF d.express THEN m ELSE 1)

\* What a page may show as the multiplier: without settings, 1.
Factors == Multipliers \cup {1}

\* The drafts of the page: no more pieces than the bound, a line has a price.
Fits(d) ==
    /\ d \in Draft
    /\ Pieces(d.qty) <= MaxPieces
    /\ \A o \in Offers : d.qty[o] > 0 <=> d.price[o] # 0

Rows == 1 .. MaxSends

Receipts == [client : Clients \cup {None}, qty : [Offers -> 0 .. MaxPieces], paid : Nat]

Page == [panel : {"cart", "payment"}, multiplier : Factors,
         shown : [Offers -> Prices] \cup {None}, amount : Nat, sent : Rows \cup {None},
         receipt : Receipts \cup {None}, storing : Rows \cup {None}]

Types ==
    /\ list \in [Offers -> Prices] /\ multiplier \in Multipliers
    /\ Fits(draft)
    /\ page \in Page
    /\ request \in [Rows -> Request \cup {None}]
    /\ sends \in 0 .. MaxSends
    /\ basket \in Nat \ {0}
    /\ touched \in BOOLEAN /\ edits \in 0 .. MaxEdits /\ mishaps \in 0 .. MaxMishaps

\* No more is paid than the form showed; an order has the total of its list and
\* its multiplier.
PaidOK(r) ==
    /\ r.pay <= Total(r.draft, r.shown)
    /\ r.state = "created" => r.total = TotalAt(r.draft, r.list, r.charged)

RowsOK == \A i \in Rows : request[i] # None => request[i].basket <= basket /\ PaidOK(request[i])

\* The request the page waits for, and the order it is about to shelve.
Awaited ==
    /\ page.sent = None \/ page.storing = None
    /\ page.sent # None => request[page.sent] # None
    /\ page.storing # None => /\ request[page.storing] # None
                              /\ request[page.storing].state = "created"
    /\ page.receipt # None => /\ page.storing # None
                              /\ page.receipt.client = request[page.storing].draft.client
                              /\ page.receipt.qty = request[page.storing].draft.qty
                              /\ page.receipt.paid = request[page.storing].pay

\* Requests nobody waits for are undecided, and their drafts excused.
LeftAlone ==
    \A i \in Rows : request[i] # None /\ i # page.sent /\ i # page.storing =>
        request[i].state = "out" /\ request[i].basket \in excuse

\* Which drafts were ordered, and what a second order would be of.
Once ==
    /\ twice \subseteq ordered \cap excuse
    /\ ordered \cup excuse \subseteq 1 .. basket
    /\ page.sent # None /\ request[page.sent].state = "out" =>
           request[page.sent].basket \notin ordered \ excuse
    /\ basket \in ordered /\ basket \notin excuse =>
           \E i \in Rows : /\ i = page.sent \/ i = page.storing
                           /\ request[i].state = "created" /\ request[i].basket = basket

\* The draft is the one of the request, if it was not edited meanwhile.
Kept ==
    \A i \in Rows : (i = page.sent \/ i = page.storing) /\ ~touched => draft = request[i].draft

IInv == Types /\ RowsOK /\ Awaited /\ LeftAlone /\ Once /\ Kept

-----------------------------------------------------------------------------
(* Arithmetic, and the sums over the offers. *)

LEMMA Times == \A a, b \in Nat : a * b \in Nat
OBVIOUS

LEMMA TimesGrows == \A a, b, c \in Nat : b <= c => a * b <= a * c
<1> SUFFICES ASSUME NEW a \in Nat, NEW b \in Nat, NEW c \in Nat, b <= c PROVE a * b <= a * c
  OBVIOUS
<1>1. PICK d \in Nat : c = b + d
  <2>1. c - b \in Nat /\ c = b + (c - b)
    OBVIOUS
  <2> QED
    BY <2>1
<1>2. a * (b + d) = a * b + a * d
  OBVIOUS
<1>3. a * b \in Nat /\ a * d \in Nat
  BY Times
<1> QED
  BY <1>1, <1>2, <1>3

\* What Pieces and Base compute are sums.
LEMMA PiecesIs == \A q : IsSum(Pieces(q), [o \in Offers |-> q[o]], Offers)
<1> SUFFICES ASSUME NEW q PROVE IsSum(Pieces(q), [o \in Offers |-> q[o]], Offers)
  OBVIOUS
<1> DEFINE Parts == SUBSET Offers
           c == [o \in Offers |-> q[o]]
           Body(h) == [s \in Parts |-> IF s = Empty THEN 0 ELSE q[Some(s)] + h[Less(s)]]
           g == CHOOSE h : h = Body(h)
<1>1. Pieces(q) = g[Offers]
  BY Zenon DEF Pieces, MapThenSumSet, MapThenFoldSet, Some, Less, Empty
<1>2. \A s \in Parts : s # Empty => c[Some(s)] = q[Some(s)]
  BY LessIs, ScreenAssumption DEF ScreenAssumption
<1>3. PICK h : Folds(c, h, Parts)
  BY FoldExists, ScreenAssumption DEF ScreenAssumption
<1> HIDE DEF Parts, c
<1>4. h = Body(h)
  BY <1>2, <1>3 DEF Folds
<1>5. g = Body(g)
  <2> HIDE DEF Body
  <2> QED
    BY <1>4
<1> HIDE DEF g
<1>6. Folds(c, g, Parts)
  BY <1>2, <1>5 DEF Folds
<1> QED
  BY <1>1, <1>6 DEF IsSum, Parts, c

LEMMA BaseIs == \A q, p : IsSum(Base(q, p), [o \in Offers |-> q[o] * p[o]], Offers)
<1> SUFFICES ASSUME NEW q, NEW p
             PROVE  IsSum(Base(q, p), [o \in Offers |-> q[o] * p[o]], Offers)
  OBVIOUS
<1> DEFINE Parts == SUBSET Offers
           c == [o \in Offers |-> q[o] * p[o]]
           Body(h) == [s \in Parts |->
                          IF s = Empty THEN 0 ELSE q[Some(s)] * p[Some(s)] + h[Less(s)]]
           g == CHOOSE h : h = Body(h)
<1>1. Base(q, p) = g[Offers]
  BY Zenon DEF Base, MapThenSumSet, MapThenFoldSet, Some, Less, Empty
<1>2. \A s \in Parts : s # Empty => c[Some(s)] = q[Some(s)] * p[Some(s)]
  BY LessIs, ScreenAssumption DEF ScreenAssumption
<1>3. PICK h : Folds(c, h, Parts)
  BY FoldExists, ScreenAssumption DEF ScreenAssumption
<1> HIDE DEF Parts, c
<1>4. h = Body(h)
  BY <1>2, <1>3 DEF Folds
<1>5. g = Body(g)
  <2> HIDE DEF Body
  <2> QED
    BY <1>4
<1> HIDE DEF g
<1>6. Folds(c, g, Parts)
  BY <1>2, <1>5 DEF Folds
<1> QED
  BY <1>1, <1>6 DEF IsSum, Parts, c

\* An offer has no more pieces than the draft.
LEMMA PiecesCover ==
    \A q \in [Offers -> Nat] : Pieces(q) \in Nat /\ \A o \in Offers : q[o] <= Pieces(q)
<1> SUFFICES ASSUME NEW q \in [Offers -> Nat]
             PROVE  Pieces(q) \in Nat /\ \A o \in Offers : q[o] <= Pieces(q)
  OBVIOUS
<1> DEFINE c == [o \in Offers |-> q[o]]
<1>1. \A o \in Offers : c[o] = q[o] /\ c[o] \in Nat
  OBVIOUS
<1>2. IsSum(Pieces(q), c, Offers)
  BY PiecesIs
<1>3. IsFiniteSet(Offers)
  BY ScreenAssumption DEF ScreenAssumption
<1> HIDE DEF c
<1>4. Pieces(q) \in Nat
  BY <1>1, <1>2, <1>3, SumIsNat
<1>5. ASSUME NEW o \in Offers PROVE q[o] <= Pieces(q)
  <2>1. c[o] <= Pieces(q)
    BY <1>1, <1>2, <1>3, SumCovers
  <2> QED
    BY <1>1, <2>1
<1> QED
  BY <1>4, <1>5

\* No pieces, no sum.
LEMMA PiecesOfNone == Pieces([o \in Offers |-> 0]) = 0
<1> DEFINE q == [o \in Offers |-> 0]
           c == [o \in Offers |-> q[o]]
<1>1. \A o \in Offers : c[o] = 0
  OBVIOUS
<1>2. IsSum(Pieces(q), c, Offers)
  BY PiecesIs
<1>3. IsFiniteSet(Offers)
  BY ScreenAssumption DEF ScreenAssumption
<1> HIDE DEF c
<1> QED
  BY <1>1, <1>2, <1>3, SumOfZeros

\* Drafts with a piece more, with fewer pieces, and with a line merged into another.
LEMMA PiecesChange ==
    \A q, r \in [Offers -> Nat] :
        /\ \A a \in Offers :
               (\A o \in Offers : r[o] = q[o] + (IF o = a THEN 1 ELSE 0))
                   => Pieces(r) = Pieces(q) + 1
        /\ (\A o \in Offers : r[o] <= q[o]) => Pieces(r) <= Pieces(q)
        /\ \A a, b \in Offers :
               a # b /\ (\A o \in Offers :
                             r[o] = IF o = a THEN 0 ELSE IF o = b THEN q[a] + q[b] ELSE q[o])
                   => Pieces(r) = Pieces(q)
<1> SUFFICES ASSUME NEW q \in [Offers -> Nat], NEW r \in [Offers -> Nat]
             PROVE  /\ \A a \in Offers :
                           (\A o \in Offers : r[o] = q[o] + (IF o = a THEN 1 ELSE 0))
                               => Pieces(r) = Pieces(q) + 1
                    /\ (\A o \in Offers : r[o] <= q[o]) => Pieces(r) <= Pieces(q)
                    /\ \A a, b \in Offers :
                           a # b /\ (\A o \in Offers :
                               r[o] = IF o = a THEN 0 ELSE IF o = b THEN q[a] + q[b] ELSE q[o])
                               => Pieces(r) = Pieces(q)
  OBVIOUS
<1> DEFINE c == [o \in Offers |-> q[o]]
           d == [o \in Offers |-> r[o]]
<1>1. /\ \A o \in Offers : c[o] = q[o] /\ c[o] \in Nat
      /\ \A o \in Offers : d[o] = r[o] /\ d[o] \in Nat
  OBVIOUS
<1>2. IsSum(Pieces(q), c, Offers) /\ IsSum(Pieces(r), d, Offers)
  BY PiecesIs
<1>3. IsFiniteSet(Offers)
  BY ScreenAssumption DEF ScreenAssumption
<1> HIDE DEF c, d
<1>4. ASSUME NEW a \in Offers, \A o \in Offers : r[o] = q[o] + (IF o = a THEN 1 ELSE 0)
      PROVE  Pieces(r) = Pieces(q) + 1
  <2>1. \A o \in Offers : d[o] = c[o] + (IF o = a THEN 1 ELSE 0)
    BY <1>1, <1>4
  <2>2. \A o \in Offers : c[o] \in Nat
    BY <1>1
  <2> QED
    BY <1>2, <1>3, <2>1, <2>2, SumOfOneMore
<1>5. ASSUME \A o \in Offers : r[o] <= q[o]
      PROVE  Pieces(r) <= Pieces(q)
  <2>1. \A o \in Offers : d[o] \in Nat /\ c[o] \in Nat /\ d[o] <= c[o]
    BY <1>1, <1>5
  <2> QED
    BY <1>2, <1>3, <2>1, SumOfNoMore
<1>6. ASSUME NEW a \in Offers, NEW b \in Offers, a # b,
             \A o \in Offers : r[o] = IF o = a THEN 0 ELSE IF o = b THEN q[a] + q[b] ELSE q[o]
      PROVE  Pieces(r) = Pieces(q)
  <2>1. /\ \A o \in Offers : c[o] \in Nat
        /\ d[a] = 0 /\ d[b] = c[a] + c[b]
        /\ \A o \in Offers : o # a /\ o # b => d[o] = c[o]
    BY <1>1, <1>6
  <2>2. a # b
    BY <1>6
  <2> QED
    BY <1>2, <1>3, <2>1, <2>2, SumMoved
<1> QED
  BY <1>4, <1>5, <1>6

LEMMA PiecesMoved ==
    \A q, r \in [Offers -> Nat] : \A a, b \in Offers :
        a # b /\ (\A o \in Offers :
                      r[o] = IF o = a THEN 0 ELSE IF o = b THEN q[a] + q[b] ELSE q[o])
            => Pieces(r) = Pieces(q)
BY PiecesChange, Zenon

\* Base is a natural, and no less at prices that are no lower.
LEMMA BaseGrows ==
    \A q, p, s \in [Offers -> Nat] :
        /\ Base(q, p) \in Nat
        /\ (\A o \in Offers : q[o] > 0 => p[o] <= s[o]) => Base(q, p) <= Base(q, s)
<1> SUFFICES ASSUME NEW q \in [Offers -> Nat], NEW p \in [Offers -> Nat], NEW s \in [Offers -> Nat]
             PROVE  /\ Base(q, p) \in Nat
                    /\ (\A o \in Offers : q[o] > 0 => p[o] <= s[o]) => Base(q, p) <= Base(q, s)
  OBVIOUS
<1> DEFINE c == [o \in Offers |-> q[o] * p[o]]
           d == [o \in Offers |-> q[o] * s[o]]
<1>1. /\ \A o \in Offers : c[o] = q[o] * p[o] /\ c[o] \in Nat
      /\ \A o \in Offers : d[o] = q[o] * s[o] /\ d[o] \in Nat
  BY Times
<1>2. IsSum(Base(q, p), c, Offers) /\ IsSum(Base(q, s), d, Offers)
  BY BaseIs
<1>3. IsFiniteSet(Offers)
  BY ScreenAssumption DEF ScreenAssumption
<1> HIDE DEF c, d
<1>4. Base(q, p) \in Nat
  BY <1>1, <1>2, <1>3, SumIsNat
<1>5. ASSUME \A o \in Offers : q[o] > 0 => p[o] <= s[o]
      PROVE  Base(q, p) <= Base(q, s)
  <2>1. ASSUME NEW o \in Offers PROVE q[o] * p[o] <= q[o] * s[o]
    <3>1. CASE q[o] = 0
      <4>1. 0 * p[o] = 0 /\ 0 * s[o] = 0
        OBVIOUS
      <4> QED
        BY <3>1, <4>1
    <3>2. CASE q[o] # 0
      <4>1. q[o] \in Nat /\ p[o] \in Nat /\ s[o] \in Nat
        OBVIOUS
      <4>2. p[o] <= s[o]
        BY <1>5, <3>2, <4>1
      <4> QED
        BY <4>1, <4>2, TimesGrows
    <3> QED
      BY <3>1, <3>2
  <2>2. \A o \in Offers : c[o] \in Nat /\ d[o] \in Nat /\ c[o] <= d[o]
    BY <1>1, <2>1
  <2> QED
    BY <1>2, <1>3, <2>2, SumOfNoMore
<1> QED
  BY <1>4, <1>5

-----------------------------------------------------------------------------
(* What is charged and what is paid. *)

LEMMA TimesOrder == \A a, b, c, d \in Nat : a <= b /\ c <= d => a * c <= b * d
<1> SUFFICES ASSUME NEW a \in Nat, NEW b \in Nat, NEW c \in Nat, NEW d \in Nat, a <= b, c <= d
             PROVE  a * c <= b * d
  OBVIOUS
<1>1. a * c <= a * d
  BY TimesGrows
<1>2. d * a <= d * b
  BY TimesGrows
<1>3. d * a = a * d /\ d * b = b * d
  OBVIOUS
<1>4. a * c \in Nat /\ a * d \in Nat /\ b * d \in Nat
  BY Times
<1> QED
  BY <1>1, <1>2, <1>3, <1>4

LEMMA MinIs == \A a, b \in Nat : /\ Min({a, b}) \in {a, b}
                                 /\ Min({a, b}) <= a /\ Min({a, b}) <= b
<1> SUFFICES ASSUME NEW a \in Nat, NEW b \in Nat
             PROVE  Min({a, b}) \in {a, b} /\ Min({a, b}) <= a /\ Min({a, b}) <= b
  OBVIOUS
<1>1. \E x \in {a, b} : \A y \in {a, b} : x <= y
  OBVIOUS
<1>2. Min({a, b}) \in {a, b} /\ \A y \in {a, b} : Min({a, b}) <= y
  BY <1>1 DEF Min
<1> QED
  BY <1>2

\* The parts of a draft are numbers.
LEMMA DraftParts ==
    \A d \in Draft : /\ d.qty \in [Offers -> Nat] /\ d.price \in [Offers -> Nat]
                     /\ d.express \in BOOLEAN
<1> SUFFICES ASSUME NEW d \in Draft
             PROVE  /\ d.qty \in [Offers -> Nat] /\ d.price \in [Offers -> Nat]
                    /\ d.express \in BOOLEAN
  OBVIOUS
<1>1. /\ d.qty \in [Offers -> 0 .. MaxPieces] /\ d.price \in [Offers -> Prices \cup {0}]
      /\ d.express \in BOOLEAN
  BY DEF Draft
<1>2. 0 .. MaxPieces \subseteq Nat /\ Prices \cup {0} \subseteq Nat
  BY ScreenAssumption DEF ScreenAssumption
<1> QED
  BY <1>1, <1>2

\* Multipliers are numbers, and one is a number too.
LEMMA FactorsAre == Factors \subseteq Nat /\ Multipliers \subseteq Factors
BY ScreenAssumption DEF ScreenAssumption, Factors

\* The total of the form against the total of the order.
LEMMA TotalsCompare ==
    \A d \in Draft, m \in Factors, n \in Factors, l \in [Offers -> Prices] :
        /\ Total(d, m) \in Nat /\ TotalAt(d, l, n) \in Nat
        /\ (\A o \in Offers : d.qty[o] > 0 => d.price[o] <= l[o]) /\ (d.express => m <= n)
               => Total(d, m) <= TotalAt(d, l, n)
        /\ (\A o \in Offers : d.qty[o] > 0 => l[o] <= d.price[o]) /\ (d.express => n <= m)
               => TotalAt(d, l, n) <= Total(d, m)
<1> SUFFICES ASSUME NEW d \in Draft, NEW m \in Factors, NEW n \in Factors,
                    NEW l \in [Offers -> Prices]
             PROVE  /\ Total(d, m) \in Nat /\ TotalAt(d, l, n) \in Nat
                    /\ /\ \A o \in Offers : d.qty[o] > 0 => d.price[o] <= l[o]
                       /\ d.express => m <= n
                       => Total(d, m) <= TotalAt(d, l, n)
                    /\ /\ \A o \in Offers : d.qty[o] > 0 => l[o] <= d.price[o]
                       /\ d.express => n <= m
                       => TotalAt(d, l, n) <= Total(d, m)
  BY Zenon
<1>1. /\ d.qty \in [Offers -> Nat] /\ d.price \in [Offers -> Nat] /\ d.express \in BOOLEAN
  BY DraftParts
<1>2. l \in [Offers -> Nat]
  BY ScreenAssumption DEF ScreenAssumption
<1>3. PICK x, y : x = Base(d.qty, d.price) /\ y = Base(d.qty, l)
  OBVIOUS
<1>4. PICK j, k : j = (IF d.express THEN m ELSE 1) /\ k = (IF d.express THEN n ELSE 1)
  OBVIOUS
<1>5. /\ x \in Nat /\ y \in Nat
      /\ (\A o \in Offers : d.qty[o] > 0 => d.price[o] <= l[o]) => x <= y
      /\ (\A o \in Offers : d.qty[o] > 0 => l[o] <= d.price[o]) => y <= x
  BY <1>1, <1>2, <1>3, BaseGrows
<1>6. /\ j \in Nat /\ k \in Nat
      /\ (d.express => m <= n) => j <= k
      /\ (d.express => n <= m) => k <= j
  <2>1. m \in Nat /\ n \in Nat
    BY FactorsAre
  <2> QED
    BY <1>1, <1>4, <2>1
<1>7. Total(d, m) = x * j /\ TotalAt(d, l, n) = y * k
  BY <1>3, <1>4 DEF Total, TotalAt
<1>8. /\ x * j \in Nat /\ y * k \in Nat
      /\ x <= y /\ j <= k => x * j <= y * k
      /\ y <= x /\ k <= j => y * k <= x * j
  BY <1>5, <1>6, Times, TimesOrder
<1> QED
  BY <1>5, <1>6, <1>7, <1>8

\* What an order books, and what is left over or still due.
LEMMA OrderMoney ==
    \A r \in Request : PaidOK(r) /\ r.state = "created" =>
        /\ Booked(r) <= r.pay
        /\ r.pay > Booked(r) =>
               \/ r.draft.express /\ r.shown > r.charged
               \/ \E f \in Offers : r.draft.qty[f] > 0 /\ r.draft.price[f] > r.list[f]
        /\ r.pay = Total(r.draft, r.shown) =>
               \/ Booked(r) = r.total
               \/ r.draft.express /\ r.shown < r.charged
               \/ \E f \in Offers : r.draft.qty[f] > 0 /\ r.draft.price[f] < r.list[f]
<1> SUFFICES ASSUME NEW r \in Request, PaidOK(r), r.state = "created"
             PROVE  /\ Booked(r) <= r.pay
                    /\ r.pay > Booked(r) =>
                           \/ r.draft.express /\ r.shown > r.charged
                           \/ \E f \in Offers : r.draft.qty[f] > 0 /\ r.draft.price[f] > r.list[f]
                    /\ r.pay = Total(r.draft, r.shown) =>
                           \/ Booked(r) = r.total
                           \/ r.draft.express /\ r.shown < r.charged
                           \/ \E f \in Offers : r.draft.qty[f] > 0 /\ r.draft.price[f] < r.list[f]
  BY Zenon
<1>1. /\ r.draft \in Draft /\ r.shown \in Factors /\ r.charged \in Factors
      /\ r.list \in [Offers -> Prices] /\ r.pay \in Nat /\ r.total \in Nat
  BY DEF Request, Factors
<1>2. PICK d, l, m, n : d = r.draft /\ l = r.list /\ m = r.shown /\ n = r.charged
  OBVIOUS
<1>3. /\ r.pay <= Total(d, m) /\ r.total = TotalAt(d, l, n)
  BY <1>2 DEF PaidOK
<1>4. /\ Total(d, m) \in Nat
      /\ (\A o \in Offers : d.qty[o] > 0 => d.price[o] <= l[o]) /\ (d.express => m <= n)
             => Total(d, m) <= r.total
      /\ (\A o \in Offers : d.qty[o] > 0 => l[o] <= d.price[o]) /\ (d.express => n <= m)
             => r.total <= Total(d, m)
  BY <1>1, <1>2, <1>3, TotalsCompare
<1>5. /\ Booked(r) \in {r.pay, r.total} /\ Booked(r) <= r.pay /\ Booked(r) <= r.total
  BY <1>1, MinIs DEF Booked
<1>6. /\ \A o \in Offers : d.price[o] \in Nat /\ l[o] \in Nat
      /\ m \in Nat /\ n \in Nat
  <2>1. d.price \in [Offers -> Nat]
    BY <1>1, <1>2, DraftParts
  <2>2. l \in [Offers -> Nat]
    BY <1>1, <1>2, ScreenAssumption DEF ScreenAssumption
  <2>3. m \in Nat /\ n \in Nat
    BY <1>1, <1>2, FactorsAre
  <2> QED
    BY <2>1, <2>2, <2>3
<1>7. \/ \A o \in Offers : d.qty[o] > 0 => d.price[o] <= l[o]
      \/ \E f \in Offers : d.qty[f] > 0 /\ d.price[f] > l[f]
  BY <1>6
<1>8. \/ \A o \in Offers : d.qty[o] > 0 => l[o] <= d.price[o]
      \/ \E f \in Offers : d.qty[f] > 0 /\ d.price[f] < l[f]
  BY <1>6
<1>9. ASSUME r.pay > Booked(r)
      PROVE  \/ d.express /\ m > n
             \/ \E f \in Offers : d.qty[f] > 0 /\ d.price[f] > l[f]
  <2>1. Booked(r) = r.total /\ r.total < r.pay
    BY <1>1, <1>5, <1>9
  <2>2. ~ (Total(d, m) <= r.total)
    BY <1>1, <1>3, <1>4, <2>1
  <2>3. d.express => m <= n \/ m > n
    BY <1>6
  <2> QED
    BY <1>4, <1>7, <2>2, <2>3
<1>10. ASSUME r.pay = Total(d, m)
       PROVE  \/ Booked(r) = r.total
              \/ d.express /\ m < n
              \/ \E f \in Offers : d.qty[f] > 0 /\ d.price[f] < l[f]
  <2>1. CASE r.total <= r.pay
    BY <1>1, <1>5, <2>1
  <2>2. CASE ~ (r.total <= r.pay)
    <3>1. ~ (r.total <= Total(d, m))
      BY <1>10, <2>2
    <3>2. d.express => n <= m \/ m < n
      BY <1>6
    <3> QED
      BY <1>4, <1>8, <3>1, <3>2
  <2> QED
    BY <2>1, <2>2
<1> QED
  BY <1>2, <1>5, <1>9, <1>10

-----------------------------------------------------------------------------
(* What the invariant says of a state. *)

\* The page and its rows.
LEMMA RowTypes ==
    ASSUME Types
    PROVE  /\ \A i \in Rows : request[i] # None => request[i] \in Request
           /\ DOMAIN request = Rows
           /\ page.sent \in Rows \cup {None} /\ page.storing \in Rows \cup {None}
           /\ page.panel \in {"cart", "payment"} /\ page.multiplier \in Factors
           /\ page.shown \in [Offers -> Prices] \cup {None} /\ page.amount \in Nat
           /\ page.receipt \in Receipts \cup {None}
<1>1. request \in [Rows -> Request \cup {None}] /\ page \in Page
  BY DEF Types
<1>2. \A i \in Rows : request[i] # None => request[i] \in Request
  BY <1>1
<1>3. DOMAIN request = Rows
  BY <1>1
<1> QED
  BY <1>1, <1>2, <1>3 DEF Page

LEMMA TypeFollows == IInv => TypeOK
<1> SUFFICES ASSUME IInv PROVE TypeOK
  OBVIOUS
<1>1. Types /\ RowsOK /\ Awaited /\ Once
  BY DEF IInv
<1>2. /\ list \in [Offers -> Prices] /\ draft \in Draft
      /\ \A o \in Offers : draft.qty[o] > 0 <=> draft.price[o] # 0
      /\ sends \in 0 .. MaxSends /\ basket \in Nat \ {0}
      /\ touched \in BOOLEAN /\ edits \in 0 .. MaxEdits /\ mishaps \in 0 .. MaxMishaps
  BY <1>1 DEF Types, Fits
<1>a. multiplier \in Multipliers /\ page.multiplier \in Multipliers \cup {1}
  BY <1>1, RowTypes DEF Types, Factors
<1>3. \A i \in DOMAIN request :
          request[i] # None => request[i].draft \in Draft /\ request[i].basket \in 1 .. basket
  <2> SUFFICES ASSUME NEW i \in Rows, request[i] # None
               PROVE  request[i].draft \in Draft /\ request[i].basket \in 1 .. basket
    BY <1>1, RowTypes
  <2>1. PICK r : r = request[i]
    OBVIOUS
  <2>2. r \in Request /\ r.basket <= basket
    BY <1>1, <2>1, RowTypes DEF RowsOK
  <2>3. r.draft \in Draft /\ r.basket \in Nat \ {0}
    BY <2>2 DEF Request
  <2> QED
    BY <1>2, <2>1, <2>2, <2>3
<1>4. /\ \A i \in {page.sent, page.storing} : i # None => request[i] # None
      /\ page.receipt # None => page.storing # None
  BY <1>1 DEF Awaited
<1>5. twice \subseteq ordered /\ ordered \cup excuse \subseteq 1 .. basket
  BY <1>1 DEF Once
<1> QED
  BY <1>1, <1>2, <1>a, <1>3, <1>4, <1>5, RowTypes DEF TypeOK

LEMMA DraftsFollow == IInv => DraftsBecomeOrders
<1> SUFFICES ASSUME IInv PROVE DraftsBecomeOrders
  OBVIOUS
<1>1. Types /\ Awaited /\ LeftAlone /\ Once /\ Kept
  BY DEF IInv
<1>2. OneOrderPerDraft
  BY <1>1 DEF Once, OneOrderPerDraft
<1>3. NoOrderForgotten
  <2> SUFFICES ASSUME NEW i \in Orders PROVE i \in Pending
    BY DEF NoOrderForgotten
  <2>1. i \in Rows /\ request[i] # None /\ request[i].state = "created"
    BY <1>1, RowTypes DEF Orders
  <2>2. i = page.sent \/ i = page.storing
    BY <1>1, <2>1 DEF LeftAlone
  <2>3. i # None
    BY <2>1, ScreenAssumption DEF ScreenAssumption, Rows
  <2> QED
    BY <2>2, <2>3 DEF Pending
<1>4. StorageClearsItsDraft
  <2>1. page.storing # None => page.storing \in Rows
    BY <1>1, RowTypes
  <2> QED
    BY <1>1, <2>1 DEF Kept, StorageClearsItsDraft
<1> QED
  BY <1>2, <1>3, <1>4, TypeFollows DEF DraftsBecomeOrders

LEMMA MoneyFollows == IInv => MoneyAgrees
<1> SUFFICES ASSUME IInv PROVE MoneyAgrees
  OBVIOUS
<1>1. Types /\ RowsOK /\ Awaited
  BY DEF IInv
<1>2. ASSUME NEW i \in Rows, request[i] # None, request[i].state = "created"
      PROVE  /\ Booked(request[i]) <= request[i].pay
             /\ request[i].pay > Booked(request[i]) =>
                    \/ request[i].draft.express /\ request[i].shown > request[i].charged
                    \/ \E f \in Offers : /\ request[i].draft.qty[f] > 0
                                         /\ request[i].draft.price[f] > request[i].list[f]
             /\ request[i].pay = Total(request[i].draft, request[i].shown) =>
                    \/ Booked(request[i]) = request[i].total
                    \/ request[i].draft.express /\ request[i].shown < request[i].charged
                    \/ \E f \in Offers : /\ request[i].draft.qty[f] > 0
                                         /\ request[i].draft.price[f] < request[i].list[f]
  <2>1. PICK r : r = request[i]
    OBVIOUS
  <2>2. r \in Request /\ PaidOK(r) /\ r.state = "created"
    BY <1>1, <1>2, <2>1, RowTypes DEF RowsOK
  <2> QED
    BY <2>1, <2>2, OrderMoney
<1>3. \A i \in Orders : i \in Rows /\ request[i] # None /\ request[i].state = "created"
  BY <1>1, RowTypes DEF Orders
<1>4. SurplusOnlyFromOldPrices
  BY <1>2, <1>3 DEF SurplusOnlyFromOldPrices
<1>5. PaidInFullIsSettled
  BY <1>2, <1>3 DEF PaidInFullIsSettled
<1>6. ReceiptMatchesOrder
  <2> SUFFICES ASSUME page.receipt # None
               PROVE  /\ page.receipt.client = request[page.storing].draft.client
                      /\ page.receipt.qty = request[page.storing].draft.qty
                      /\ page.receipt.paid >= Booked(request[page.storing])
    BY DEF ReceiptMatchesOrder
  <2>1. PICK i, r : i = page.storing /\ r = request[i]
    OBVIOUS
  <2>2. /\ i # None /\ r # None /\ r.state = "created"
        /\ page.receipt.client = r.draft.client /\ page.receipt.qty = r.draft.qty
        /\ page.receipt.paid = r.pay
    BY <1>1, <2>1 DEF Awaited
  <2>3. i \in Rows
    BY <1>1, <2>1, <2>2, RowTypes
  <2>4. Booked(r) <= r.pay /\ r \in Request
    BY <1>1, <1>2, <2>1, <2>2, <2>3, RowTypes
  <2>5. r.pay \in Nat /\ r.total \in Nat
    BY <2>4 DEF Request
  <2>6. Booked(r) \in Nat
    BY <2>5, MinIs DEF Booked
  <2> QED
    BY <2>1, <2>2, <2>4, <2>5, <2>6
<1> QED
  BY <1>4, <1>5, <1>6 DEF MoneyAgrees

-----------------------------------------------------------------------------
(* Drafts stay within the bound, whatever is edited. *)

LEMMA Bounds == /\ MaxPieces \in Nat /\ MaxLater \in 0 .. MaxPieces
                /\ Prices \subseteq Nat \ {0} /\ Default \in Offers
                /\ MaxSends \in Nat /\ MaxEdits \in Nat /\ MaxMishaps \in Nat
                /\ FirstMultiplier \in Multipliers /\ 1 \in Factors
                /\ None \notin Nat /\ None \notin Request /\ FirstList \in [Offers -> Prices]
BY ScreenAssumption DEF ScreenAssumption, Factors

\* Drafts without the bound.
Loose == [client : Clients \cup {None}, qty : [Offers -> Nat],
          price : [Offers -> Prices \cup {0}], express : BOOLEAN]

\* A draft whose parts fit.
LEMMA FitsIf ==
    \A d \in Loose :
        Pieces(d.qty) <= MaxPieces /\ (\A o \in Offers : d.qty[o] > 0 <=> d.price[o] # 0) => Fits(d)
<1> SUFFICES ASSUME NEW d \in Loose, Pieces(d.qty) <= MaxPieces,
                    \A o \in Offers : d.qty[o] > 0 <=> d.price[o] # 0
             PROVE  Fits(d)
  BY Zenon
<1>1. PICK q : q = d.qty
  OBVIOUS
<1>2. q \in [Offers -> Nat]
  BY <1>1 DEF Loose
<1>3. q \in [Offers -> 0 .. MaxPieces]
  <2>1. \A o \in Offers : q[o] \in Nat /\ q[o] <= Pieces(q) /\ Pieces(q) \in Nat
    BY <1>2, PiecesCover
  <2>2. \A o \in Offers : q[o] \in 0 .. MaxPieces
    BY <1>1, <2>1, Bounds
  <2> QED
    BY <1>2, <2>2
<1>4. d \in Draft
  BY <1>1, <1>3 DEF Loose, Draft
<1> QED
  BY <1>4 DEF Fits

\* The parts of a draft that fits.
LEMMA FitParts ==
    \A d : Fits(d) =>
        /\ d \in Loose /\ d.qty \in [Offers -> Nat] /\ d.price \in [Offers -> Prices \cup {0}]
        /\ Pieces(d.qty) <= MaxPieces /\ Pieces(d.qty) \in Nat
        /\ \A o \in Offers : d.qty[o] > 0 <=> d.price[o] # 0
<1> SUFFICES ASSUME NEW d, Fits(d)
             PROVE  /\ d \in Loose /\ d.qty \in [Offers -> Nat]
                    /\ d.price \in [Offers -> Prices \cup {0}]
                    /\ Pieces(d.qty) <= MaxPieces /\ Pieces(d.qty) \in Nat
                    /\ \A o \in Offers : d.qty[o] > 0 <=> d.price[o] # 0
  BY Zenon
<1>1. d \in Draft /\ Pieces(d.qty) <= MaxPieces /\ \A o \in Offers : d.qty[o] > 0 <=> d.price[o] # 0
  BY DEF Fits
<1>2. d.qty \in [Offers -> Nat]
  BY <1>1, DraftParts
<1>3. d \in Loose /\ d.price \in [Offers -> Prices \cup {0}]
  BY <1>1, <1>2 DEF Draft, Loose
<1> QED
  BY <1>1, <1>2, <1>3, PiecesCover

\* The empty draft.
LEMMA FitsEmpty == Fits(EmptyDraft)
<1>1. [o \in Offers |-> 0] \in [Offers -> Nat] /\ [o \in Offers |-> 0] \in [Offers -> Prices \cup {0}]
  OBVIOUS
<1>2. EmptyDraft \in Loose
  BY <1>1 DEF EmptyDraft, Loose
<1>3. EmptyDraft.qty = [o \in Offers |-> 0] /\ EmptyDraft.price = [o \in Offers |-> 0]
  BY DEF EmptyDraft
<1>4. Pieces(EmptyDraft.qty) <= MaxPieces
  BY <1>3, PiecesOfNone, Bounds
<1>5. \A o \in Offers : EmptyDraft.qty[o] > 0 <=> EmptyDraft.price[o] # 0
  BY <1>3
<1> QED
  BY <1>2, <1>4, <1>5, FitsIf

\* A draft with other lines.
LEMMA OtherLines ==
    \A d \in Loose : \A q \in [Offers -> Nat], p \in [Offers -> Prices \cup {0}] :
        /\ Pieces(q) <= MaxPieces /\ \A o \in Offers : q[o] > 0 <=> p[o] # 0
        => Fits([d EXCEPT !.qty = q, !.price = p])
<1> SUFFICES ASSUME NEW d \in Loose, NEW q \in [Offers -> Nat],
                    NEW p \in [Offers -> Prices \cup {0}],
                    Pieces(q) <= MaxPieces, \A o \in Offers : q[o] > 0 <=> p[o] # 0
             PROVE  Fits([d EXCEPT !.qty = q, !.price = p])
  BY Zenon
<1>1. PICK e : e = [d EXCEPT !.qty = q, !.price = p]
  OBVIOUS
<1>2. e \in Loose /\ e.qty = q /\ e.price = p
  BY <1>1 DEF Loose
<1>3. Fits(e)
  BY <1>2, FitsIf
<1> QED
  BY <1>1, <1>3

\* One piece more of an offer, at the price of its line or, of a new line, at x.
LEMMA FitsMore ==
    \A d : \A a \in Offers, x \in Prices \cup {0} :
        Fits(d) /\ Pieces(d.qty) < MaxPieces /\ (d.price[a] = 0 => x # 0) =>
            Fits([d EXCEPT !.qty[a] = @ + 1, !.price[a] = IF @ = 0 THEN x ELSE @])
<1> SUFFICES ASSUME NEW d, NEW a \in Offers, NEW x \in Prices \cup {0}, Fits(d),
                    Pieces(d.qty) < MaxPieces, d.price[a] = 0 => x # 0
             PROVE  Fits([d EXCEPT !.qty[a] = @ + 1, !.price[a] = IF @ = 0 THEN x ELSE @])
  BY Zenon
<1> DEFINE q == [d.qty EXCEPT ![a] = @ + 1]
           p == [d.price EXCEPT ![a] = IF @ = 0 THEN x ELSE @]
<1>1. /\ d \in Loose /\ d.qty \in [Offers -> Nat] /\ d.price \in [Offers -> Prices \cup {0}]
      /\ Pieces(d.qty) \in Nat
      /\ \A o \in Offers : d.qty[o] > 0 <=> d.price[o] # 0
  BY FitParts
<1>2. [d EXCEPT !.qty[a] = @ + 1, !.price[a] = IF @ = 0 THEN x ELSE @] =
          [d EXCEPT !.qty = q, !.price = p]
  OBVIOUS
<1>3. /\ q \in [Offers -> Nat] /\ p \in [Offers -> Prices \cup {0}]
      /\ \A o \in Offers : q[o] = d.qty[o] + (IF o = a THEN 1 ELSE 0)
      /\ \A o \in Offers : p[o] = IF o = a /\ d.price[o] = 0 THEN x ELSE d.price[o]
  BY <1>1
<1> HIDE DEF q, p
<1>4. \A o \in Offers : q[o] > 0 <=> p[o] # 0
  BY <1>1, <1>3
<1>5. Pieces(q) = Pieces(d.qty) + 1
  <2>1. PICK r : r = d.qty
    OBVIOUS
  <2> QED
    BY <1>1, <1>3, <2>1, PiecesChange
<1>6. Pieces(q) <= MaxPieces
  BY <1>1, <1>5, Bounds
<1>7. Fits([d EXCEPT !.qty = q, !.price = p])
  BY <1>1, <1>3, <1>4, <1>6, OtherLines
<1> QED
  BY <1>2, <1>7, Zenon

\* One piece more of a line that is there.
LEMMA FitsOneMore ==
    \A d : \A a \in Offers :
        Fits(d) /\ Pieces(d.qty) < MaxPieces /\ d.qty[a] > 0 => Fits([d EXCEPT !.qty[a] = @ + 1])
<1> SUFFICES ASSUME NEW d, NEW a \in Offers, Fits(d), Pieces(d.qty) < MaxPieces, d.qty[a] > 0
             PROVE  Fits([d EXCEPT !.qty[a] = @ + 1])
  BY Zenon
<1>1. /\ d \in Loose /\ d.qty \in [Offers -> Nat] /\ d.price \in [Offers -> Prices \cup {0}]
      /\ Pieces(d.qty) \in Nat
      /\ \A o \in Offers : d.qty[o] > 0 <=> d.price[o] # 0
  BY FitParts
<1> DEFINE q == [d.qty EXCEPT ![a] = @ + 1]
<1>2. PICK e : e = [d EXCEPT !.qty[a] = @ + 1]
  OBVIOUS
<1>3. /\ q \in [Offers -> Nat]
      /\ \A o \in Offers : q[o] = d.qty[o] + (IF o = a THEN 1 ELSE 0)
  BY <1>1
<1>4. e = [d EXCEPT !.qty = q]
  BY <1>2
<1> HIDE DEF q
<1>5. e \in Loose /\ e.qty = q /\ e.price = d.price
  BY <1>1, <1>3, <1>4 DEF Loose
<1>6. Pieces(q) = Pieces(d.qty) + 1
  <2>1. PICK r : r = d.qty
    OBVIOUS
  <2> QED
    BY <1>1, <1>3, <2>1, PiecesChange
<1>7. \A o \in Offers : q[o] > 0 <=> d.price[o] # 0
  BY <1>1, <1>3
<1>8. Pieces(q) <= MaxPieces
  BY <1>1, <1>6, Bounds
<1>9. Fits(e)
  BY <1>5, <1>7, <1>8, FitsIf
<1> QED
  BY <1>2, <1>9

\* One piece less of a line of two or more.
LEMMA FitsLess ==
    \A d : \A a \in Offers :
        Fits(d) /\ d.qty[a] > 0 /\ d.qty[a] # 1 => Fits([d EXCEPT !.qty[a] = @ - 1])
<1> SUFFICES ASSUME NEW d, NEW a \in Offers, Fits(d), d.qty[a] > 0, d.qty[a] # 1
             PROVE  Fits([d EXCEPT !.qty[a] = @ - 1])
  BY Zenon
<1>1. /\ d \in Loose /\ d.qty \in [Offers -> Nat] /\ d.price \in [Offers -> Prices \cup {0}]
      /\ Pieces(d.qty) \in Nat /\ Pieces(d.qty) <= MaxPieces
      /\ \A o \in Offers : d.qty[o] > 0 <=> d.price[o] # 0
  BY FitParts
<1> DEFINE q == [d.qty EXCEPT ![a] = @ - 1]
<1>2. PICK e : e = [d EXCEPT !.qty[a] = @ - 1]
  OBVIOUS
<1>3. d.qty[a] - 1 \in Nat /\ d.qty[a] - 1 > 0
  BY <1>1
<1>4. /\ q \in [Offers -> Nat]
      /\ \A o \in Offers : q[o] = IF o = a THEN d.qty[o] - 1 ELSE d.qty[o]
  BY <1>1, <1>3
<1>5. e = [d EXCEPT !.qty = q]
  BY <1>2
<1> HIDE DEF q
<1>6. e \in Loose /\ e.qty = q /\ e.price = d.price
  BY <1>1, <1>4, <1>5 DEF Loose
<1>7. Pieces(q) <= Pieces(d.qty)
  <2>1. PICK r : r = d.qty
    OBVIOUS
  <2>2. \A o \in Offers : q[o] <= r[o]
    BY <1>1, <1>4, <2>1
  <2> QED
    BY <1>1, <1>4, <2>1, <2>2, PiecesChange
<1>8. \A o \in Offers : q[o] > 0 <=> d.price[o] # 0
  BY <1>1, <1>3, <1>4
<1>9. Pieces(q) \in Nat
  BY <1>4, PiecesCover
<1>10. Pieces(q) <= MaxPieces
  BY <1>1, <1>7, <1>9, Bounds
<1>11. Fits(e)
  BY <1>6, <1>8, <1>10, FitsIf
<1> QED
  BY <1>2, <1>11

\* A line removed.
LEMMA FitsDropped ==
    \A d : \A a \in Offers : Fits(d) => Fits(DropLine(d, a))
<1> SUFFICES ASSUME NEW d, NEW a \in Offers, Fits(d) PROVE Fits(DropLine(d, a))
  BY Zenon
<1> DEFINE q == [d.qty EXCEPT ![a] = 0]
           p == [d.price EXCEPT ![a] = 0]
<1>1. /\ d \in Loose /\ d.qty \in [Offers -> Nat] /\ d.price \in [Offers -> Prices \cup {0}]
      /\ Pieces(d.qty) \in Nat /\ Pieces(d.qty) <= MaxPieces
      /\ \A o \in Offers : d.qty[o] > 0 <=> d.price[o] # 0
  BY FitParts
<1>2. DropLine(d, a) = [d EXCEPT !.qty = q, !.price = p]
  BY DEF DropLine
<1>3. /\ q \in [Offers -> Nat] /\ p \in [Offers -> Prices \cup {0}]
      /\ \A o \in Offers : q[o] = IF o = a THEN 0 ELSE d.qty[o]
      /\ \A o \in Offers : p[o] = IF o = a THEN 0 ELSE d.price[o]
  BY <1>1
<1> HIDE DEF q, p
<1>4. \A o \in Offers : q[o] > 0 <=> p[o] # 0
  BY <1>1, <1>3
<1>5. Pieces(q) <= Pieces(d.qty)
  <2>1. PICK r : r = d.qty
    OBVIOUS
  <2>2. \A o \in Offers : q[o] <= r[o]
    BY <1>1, <1>3, <2>1
  <2> QED
    BY <1>1, <1>3, <2>1, <2>2, PiecesChange
<1>6. Pieces(q) \in Nat
  BY <1>3, PiecesCover
<1>7. Pieces(q) <= MaxPieces
  BY <1>1, <1>5, <1>6, Bounds
<1>8. Fits([d EXCEPT !.qty = q, !.price = p])
  BY <1>1, <1>3, <1>4, <1>7, OtherLines
<1> QED
  BY <1>2, <1>8, Zenon

\* A line merged into the line of another offer, or one that becomes it at price x.
LEMMA FitsMerged ==
    ASSUME NEW d, NEW a \in Offers, NEW b \in Offers, NEW x \in Prices,
           Fits(d), a # b, d.qty[a] > 0
    PROVE  Fits([DropLine(d, a) EXCEPT !.qty[b] = @ + d.qty[a],
                                       !.price[b] = IF @ = 0 THEN x ELSE @])
<1>1. /\ d \in Loose /\ d.qty \in [Offers -> Nat] /\ d.price \in [Offers -> Prices \cup {0}]
      /\ Pieces(d.qty) \in Nat /\ Pieces(d.qty) <= MaxPieces
      /\ \A o \in Offers : d.qty[o] > 0 <=> d.price[o] # 0
  BY FitParts
<1>2. PICK e : e = DropLine(d, a)
  OBVIOUS
<1>3. /\ e \in Loose /\ e.qty = [d.qty EXCEPT ![a] = 0] /\ e.price = [d.price EXCEPT ![a] = 0]
  <2>1. Fits(e)
    BY <1>2, FitsDropped
  <2>2. PICK q, p : q = [d.qty EXCEPT ![a] = 0] /\ p = [d.price EXCEPT ![a] = 0]
    OBVIOUS
  <2>3. q \in [Offers -> Nat] /\ p \in [Offers -> Prices \cup {0}]
    BY <1>1, <2>2
  <2>4. e = [d EXCEPT !.qty = q, !.price = p]
    BY <1>2, <2>2 DEF DropLine
  <2>5. e.qty = q /\ e.price = p
    BY <1>1, <2>3, <2>4 DEF Loose
  <2> QED
    BY <2>1, <2>2, <2>5, FitParts
<1> DEFINE q == [e.qty EXCEPT ![b] = @ + d.qty[a]]
           p == [e.price EXCEPT ![b] = IF @ = 0 THEN x ELSE @]
<1>4. [e EXCEPT !.qty[b] = @ + d.qty[a], !.price[b] = IF @ = 0 THEN x ELSE @] =
          [e EXCEPT !.qty = q, !.price = p]
  OBVIOUS
<1>5. /\ e.qty \in [Offers -> Nat] /\ e.price \in [Offers -> Prices \cup {0}]
      /\ \A o \in Offers : e.qty[o] = IF o = a THEN 0 ELSE d.qty[o]
      /\ \A o \in Offers : e.price[o] = IF o = a THEN 0 ELSE d.price[o]
  BY <1>1, <1>3
<1>6. q \in [Offers -> Nat] /\ p \in [Offers -> Prices \cup {0}]
  BY <1>1, <1>5
<1>7. /\ \A o \in Offers : q[o] = IF o = a THEN 0 ELSE IF o = b THEN d.qty[a] + d.qty[b] ELSE d.qty[o]
      /\ \A o \in Offers : p[o] = IF o = a THEN 0
                                  ELSE IF o = b /\ d.price[o] = 0 THEN x ELSE d.price[o]
  BY <1>1, <1>5
<1> HIDE DEF q, p
<1>8. \A o \in Offers : q[o] > 0 <=> p[o] # 0
  BY <1>1, <1>7, Bounds
<1>9. Pieces(q) = Pieces(d.qty)
  <2>1. PICK r : r = d.qty
    OBVIOUS
  <2>2. r \in [Offers -> Nat] /\ q \in [Offers -> Nat]
    BY <1>1, <1>6, <2>1
  <2>3. \A o \in Offers : q[o] = IF o = a THEN 0 ELSE IF o = b THEN r[a] + r[b] ELSE r[o]
    BY <1>7, <2>1
  <2>4. Pieces(q) = Pieces(r)
    BY <2>2, <2>3, PiecesMoved
  <2> QED
    BY <2>1, <2>4
<1>10. Fits([e EXCEPT !.qty = q, !.price = p])
  BY <1>1, <1>3, <1>6, <1>8, <1>9, OtherLines
<1> QED
  BY <1>2, <1>4, <1>10, Zenon

\* Another client, or the other pace.
LEMMA FitsOther ==
    \A d : Fits(d) =>
        /\ \A c \in Clients \cup {None} : Fits([d EXCEPT !.client = c])
        /\ Fits([d EXCEPT !.express = ~@])
<1> SUFFICES ASSUME NEW d, Fits(d)
             PROVE  /\ \A c \in Clients \cup {None} : Fits([d EXCEPT !.client = c])
                    /\ Fits([d EXCEPT !.express = ~@])
  BY Zenon
<1>1. /\ d \in Loose /\ Pieces(d.qty) <= MaxPieces
      /\ \A o \in Offers : d.qty[o] > 0 <=> d.price[o] # 0
  BY FitParts
<1>2. ASSUME NEW c \in Clients \cup {None} PROVE Fits([d EXCEPT !.client = c])
  <2>1. PICK e : e = [d EXCEPT !.client = c]
    OBVIOUS
  <2>2. e \in Loose /\ e.qty = d.qty /\ e.price = d.price
    BY <1>1, <2>1 DEF Loose
  <2> QED
    BY <1>1, <2>1, <2>2, FitsIf
<1>3. Fits([d EXCEPT !.express = ~@])
  <2>1. PICK e : e = [d EXCEPT !.express = ~@]
    OBVIOUS
  <2>2. e \in Loose /\ e.qty = d.qty /\ e.price = d.price
    BY <1>1, <2>1 DEF Loose
  <2> QED
    BY <1>1, <2>1, <2>2, FitsIf
<1> QED
  BY <1>2, <1>3

-----------------------------------------------------------------------------
(* The invariant holds at the start, and under steps of the page alone. *)

LEMMA InitInv == Init => IInv
<1> SUFFICES ASSUME Init PROVE IInv
  OBVIOUS
<1>1. FreshPage \in Page /\ FreshPage.sent = None /\ FreshPage.storing = None /\ FreshPage.receipt = None
  BY Bounds DEF FreshPage, Page
<1>2. page = FreshPage /\ \A i \in Rows : request[i] = None
  BY DEF Init, Rows
<1>3. Types
  <2>1. request \in [Rows -> Request \cup {None}]
    BY DEF Init, Rows
  <2>2. Fits(draft) /\ list \in [Offers -> Prices] /\ multiplier \in Multipliers /\ page \in Page
    BY <1>1, <1>2, FitsEmpty, Bounds DEF Init
  <2>3. touched \in BOOLEAN
    BY DEF Init
  <2>4. /\ sends \in 0 .. MaxSends /\ edits \in 0 .. MaxEdits /\ mishaps \in 0 .. MaxMishaps
        /\ basket \in Nat \ {0}
    BY Bounds DEF Init
  <2> QED
    BY <2>1, <2>2, <2>3, <2>4 DEF Types
<1>4. RowsOK /\ LeftAlone
  BY <1>2 DEF RowsOK, LeftAlone
<1>5. Awaited
  BY <1>1, <1>2 DEF Awaited
<1>6. Once
  BY <1>1, <1>2 DEF Once, Init
<1>7. Kept
  <2>1. None \notin Rows
    BY Bounds DEF Rows
  <2> QED
    BY <1>1, <1>2, <2>1 DEF Kept
<1> QED
  BY <1>3, <1>4, <1>5, <1>6, <1>7 DEF IInv

\* The page alone changes, and goes on waiting for the same requests.
LEMMA PageStep ==
    ASSUME IInv, page' \in Page, page'.sent = page.sent, page'.storing = page.storing,
           page'.receipt = page.receipt \/ page'.receipt = None,
           UNCHANGED <<list, multiplier, draft, request, sends, basket, ordered, twice, excuse,
                       touched, edits, mishaps>>
    PROVE  IInv'
<1>1. Types /\ RowsOK /\ Awaited /\ LeftAlone /\ Once /\ Kept
  BY DEF IInv
<1>2. Types'
  BY <1>1 DEF Types, Fits
<1>3. RowsOK'
  BY <1>1 DEF RowsOK, PaidOK
<1>4. Awaited'
  BY <1>1 DEF Awaited
<1>5. LeftAlone'
  BY <1>1 DEF LeftAlone
<1>6. Once'
  BY <1>1 DEF Once
<1>7. Kept'
  BY <1>1 DEF Kept
<1> QED
  BY <1>2, <1>3, <1>4, <1>5, <1>6, <1>7 DEF IInv

LEMMA ToPageInv ==
    ASSUME IInv, NEW p \in Page, ToPage(p), p.sent = page.sent, p.storing = page.storing,
           p.receipt = page.receipt \/ p.receipt = None, UNCHANGED edits
    PROVE  IInv'
  BY PageStep DEF ToPage, backend

\* The loading of prices and settings.
LEMMA LoadInv ==
    ASSUME IInv, LoadPrices \/ LoadConfig
    PROVE  IInv'
<1>1. page \in Page /\ list \in [Offers -> Prices] /\ multiplier \in Factors
  BY FactorsAre DEF IInv, Types
<1>2. CASE LoadPrices
  <2>1. PICK p : p = [page EXCEPT !.shown = list]
    OBVIOUS
  <2>2. /\ p \in Page /\ p.sent = page.sent /\ p.storing = page.storing
        /\ p.receipt = page.receipt
    BY <1>1, <2>1 DEF Page
  <2>3. ToPage(p)
    BY <1>2, <2>1 DEF LoadPrices
  <2> QED
    BY <2>2, <2>3, PageStep DEF ToPage, backend
<1>3. CASE LoadConfig
  <2>1. PICK p : p = [page EXCEPT !.multiplier = multiplier]
    OBVIOUS
  <2>2. /\ p \in Page /\ p.sent = page.sent /\ p.storing = page.storing
        /\ p.receipt = page.receipt
    BY <1>1, <2>1 DEF Page
  <2>3. ToPage(p)
    BY <1>3, <2>1 DEF LoadConfig
  <2> QED
    BY <2>2, <2>3, PageStep DEF ToPage, backend
<1> QED
  BY <1>2, <1>3

\* The form opens and closes; the receipt goes.
LEMMA FormInv ==
    ASSUME IInv, HandleValidateClick \/ BackToCart \/ DismissReceipt
    PROVE  IInv'
<1>1. page \in Page /\ draft \in Draft
  BY DEF IInv, Types, Fits
<1>2. page.multiplier \in Factors
  BY <1>1 DEF Page
<1>3. CASE HandleValidateClick
  <2>1. PICK n : n = Total(draft, page.multiplier)
    OBVIOUS
  <2>2. n \in Nat
    BY <1>1, <1>2, <2>1, TotalsCompare, Bounds
  <2>3. PICK p : p = [page EXCEPT !.panel = "payment", !.amount = n]
    OBVIOUS
  <2>4. /\ p \in Page /\ p.sent = page.sent /\ p.storing = page.storing
        /\ p.receipt = page.receipt
    BY <1>1, <2>2, <2>3 DEF Page
  <2>5. ToPage(p)
    BY <1>3, <2>1, <2>3 DEF HandleValidateClick
  <2> QED
    BY <2>4, <2>5, PageStep DEF ToPage, backend
<1>4. CASE BackToCart
  <2>1. PICK p : p = [page EXCEPT !.panel = "cart", !.amount = 0]
    OBVIOUS
  <2>2. /\ p \in Page /\ p.sent = page.sent /\ p.storing = page.storing
        /\ p.receipt = page.receipt
    BY <1>1, <2>1 DEF Page
  <2>3. ToPage(p)
    BY <1>4, <2>1 DEF BackToCart, FormClosed
  <2> QED
    BY <2>2, <2>3, PageStep DEF ToPage, backend
<1>5. CASE DismissReceipt
  <2>1. PICK p : p = [page EXCEPT !.receipt = None]
    OBVIOUS
  <2>2. /\ p \in Page /\ p.sent = page.sent /\ p.storing = page.storing
        /\ p.receipt = None
    BY <1>1, <2>1 DEF Page
  <2>3. ToPage(p)
    BY <1>5, <2>1 DEF DismissReceipt
  <2> QED
    BY <2>2, <2>3, PageStep DEF ToPage, backend
<1> QED
  BY <1>3, <1>4, <1>5

\* A new price list, or another multiplier.
LEMMA SettingsInv ==
    ASSUME IInv, \/ \E o \in Offers, n \in Prices : SetPrice(o, n)
                 \/ \E m \in Multipliers : SetMultiplier(m)
    PROVE  IInv'
<1>1. Types /\ RowsOK /\ Awaited /\ LeftAlone /\ Once /\ Kept
  BY DEF IInv
<1>2. UNCHANGED <<draft, page, request, sends, basket, ordered, twice, excuse, touched, mishaps>>
  BY DEF SetPrice, SetMultiplier
<1>3. Types'
  <2>1. list \in [Offers -> Prices] /\ multiplier \in Multipliers /\ edits \in 0 .. MaxEdits
    BY <1>1 DEF Types
  <2>2. /\ list' \in [Offers -> Prices] /\ multiplier' \in Multipliers
        /\ edits' \in 0 .. MaxEdits
    BY <2>1, Bounds DEF SetPrice, SetMultiplier
  <2> QED
    BY <1>1, <1>2, <2>2 DEF Types, Fits
<1>4. RowsOK' /\ Awaited'
  BY <1>1, <1>2 DEF RowsOK, PaidOK, Awaited
<1>5. LeftAlone' /\ Once' /\ Kept'
  BY <1>1, <1>2 DEF LeftAlone, Once, Kept
<1> QED
  BY <1>3, <1>4, <1>5 DEF IInv

-----------------------------------------------------------------------------
(* Edits of the draft. *)

\* No request is waited for that the draft should still be the draft of.
LEMMA ModifyInv ==
    ASSUME IInv, NEW d, Fits(d), Modify(d), UNCHANGED page
    PROVE  IInv'
<1>1. Types /\ RowsOK /\ Awaited /\ LeftAlone /\ Once /\ Kept
  BY DEF IInv
<1>2. /\ draft' = d /\ touched' = (touched \/ page.sent # None)
      /\ page.receipt = None /\ page.storing = None
      /\ UNCHANGED <<list, multiplier, edits, ordered, twice, request, sends, basket, excuse, mishaps, page>>
  BY DEF Modify, backend, Uncovered
<1>3. touched' \in BOOLEAN
  BY <1>1, <1>2 DEF Types
<1>4. Fits(draft)'
  BY <1>2 DEF Fits
<1>5. Types'
  BY <1>1, <1>2, <1>3, <1>4 DEF Types
<1>6. RowsOK' /\ Awaited'
  BY <1>1, <1>2 DEF RowsOK, PaidOK, Awaited
<1>7. LeftAlone' /\ Once'
  BY <1>1, <1>2 DEF LeftAlone, Once
<1>8. Kept'
  <2>1. None \notin Rows
    BY Bounds DEF Rows
  <2> QED
    BY <1>2, <2>1 DEF Kept
<1> QED
  BY <1>5, <1>6, <1>7, <1>8 DEF IInv

\* A draft that has room can take a piece.
LEMMA RoomLeft ==
    ASSUME IInv, Room
    PROVE  Pieces(draft.qty) < MaxPieces
<1>1. Pieces(draft.qty) < IF basket = 1 THEN MaxPieces ELSE MaxLater
  BY DEF Room, Pieces
<1>2. Fits(draft)
  BY DEF IInv, Types
<1>3. PICK d : d = draft
  OBVIOUS
<1>4. Pieces(draft.qty) \in Nat
  BY <1>2, <1>3, FitParts
<1> QED
  BY <1>1, <1>4, Bounds

LEMMA EditInv ==
    ASSUME IInv,
           \/ \E c \in Clients \cup {None} : SetClient(c)
           \/ ToggleExpress \/ AddItem
           \/ \E o \in Offers, up \in BOOLEAN : UpdateQuantity(o, up)
           \/ \E o, p \in Offers : UpdateService(o, p)
    PROVE  IInv'
<1>1. Types
  BY DEF IInv
<1>2. PICK d : d = draft /\ Fits(d)
  BY <1>1 DEF Types
<1>3. ASSUME NEW c \in Clients \cup {None}, SetClient(c) PROVE IInv'
  <2>1. PICK e : e = [d EXCEPT !.client = c]
    OBVIOUS
  <2>2. Fits(e)
    BY <1>2, <2>1, FitsOther
  <2>3. Modify(e) /\ UNCHANGED page
    BY <1>2, <1>3, <2>1 DEF SetClient
  <2> QED
    BY <2>2, <2>3, ModifyInv
<1>4. CASE ToggleExpress
  <2>1. PICK e : e = [d EXCEPT !.express = ~@]
    OBVIOUS
  <2>2. Fits(e)
    BY <1>2, <2>1, FitsOther
  <2>3. Modify(e) /\ UNCHANGED page
    BY <1>2, <1>4, <2>1 DEF ToggleExpress
  <2> QED
    BY <2>2, <2>3, ModifyInv
<1>5. CASE AddItem
  <2>1. PICK x : x = page.shown[Default]
    OBVIOUS
  <2>2. x \in Prices \cup {0} /\ x # 0
    <3>1. page.shown # None
      BY <1>5 DEF AddItem
    <3> QED
      BY <1>1, <2>1, <3>1, RowTypes, Bounds
  <2>3. PICK e : e = [d EXCEPT !.qty[Default] = @ + 1, !.price[Default] = IF @ = 0 THEN x ELSE @]
    OBVIOUS
  <2>4. Pieces(d.qty) < MaxPieces
    BY <1>2, <1>5, RoomLeft DEF AddItem
  <2>5. Fits(e)
    BY <1>2, <2>2, <2>3, <2>4, FitsMore, Bounds
  <2>6. Modify(e) /\ UNCHANGED page
    BY <1>2, <1>5, <2>1, <2>3 DEF AddItem
  <2> QED
    BY <2>5, <2>6, ModifyInv
<1>6. ASSUME NEW o \in Offers, NEW up \in BOOLEAN, UpdateQuantity(o, up) PROVE IInv'
  <2>1. PICK e : e = IF up THEN [d EXCEPT !.qty[o] = @ + 1]
                     ELSE IF d.qty[o] = 1 THEN DropLine(d, o)
                     ELSE [d EXCEPT !.qty[o] = @ - 1]
    OBVIOUS
  <2>2. d.qty[o] > 0 /\ Modify(e) /\ UNCHANGED page
    BY <1>2, <1>6, <2>1 DEF UpdateQuantity
  <2>3. up => Pieces(d.qty) < MaxPieces
    BY <1>2, <1>6, RoomLeft DEF UpdateQuantity
  <2>4. CASE up
    BY <1>2, <2>1, <2>2, <2>3, <2>4, FitsOneMore, ModifyInv
  <2>5. CASE ~up /\ d.qty[o] = 1
    BY <1>2, <2>1, <2>2, <2>5, FitsDropped, ModifyInv
  <2>6. CASE ~up /\ d.qty[o] # 1
    BY <1>2, <2>1, <2>2, <2>6, FitsLess, ModifyInv
  <2> QED
    BY <2>4, <2>5, <2>6
<1>7. ASSUME NEW o \in Offers, NEW p \in Offers, UpdateService(o, p) PROVE IInv'
  <2>1. PICK x : x = page.shown[p]
    OBVIOUS
  <2>2. x \in Prices
    <3>1. page.shown # None
      BY <1>7 DEF UpdateService
    <3> QED
      BY <1>1, <2>1, <3>1, RowTypes
  <2>3. PICK e : e = [DropLine(d, o) EXCEPT !.qty[p] = @ + d.qty[o],
                                            !.price[p] = IF @ = 0 THEN x ELSE @]
    OBVIOUS
  <2>4. o # p /\ d.qty[o] > 0
    BY <1>2, <1>7 DEF UpdateService
  <2>5. Fits(e)
    BY <1>2, <2>2, <2>3, <2>4, FitsMerged
  <2>6. Modify(e) /\ UNCHANGED page
    BY <1>2, <1>7, <2>1, <2>3 DEF UpdateService
  <2> QED
    BY <2>5, <2>6, ModifyInv
<1> QED
  BY <1>3, <1>4, <1>5, <1>6, <1>7

-----------------------------------------------------------------------------
(* A new draft, and requests. *)

\* Cleared pages wait for the request they waited for, and for no shelf.
LEMMA ClearedPage ==
    \A p \in Page : /\ Cleared(p) \in Page /\ Cleared(p).sent = p.sent
                    /\ Cleared(p).storing = None /\ Cleared(p).receipt = None
BY Bounds DEF Cleared, Page

\* A new draft is neither ordered nor excused, whatever is still awaited.
LEMMA ClearInv ==
    ASSUME IInv, Clear
    PROVE  IInv'
<1>1. Types /\ RowsOK /\ Awaited /\ LeftAlone /\ Once /\ Kept
  BY DEF IInv
<1>2. /\ draft' = EmptyDraft /\ basket' = basket + 1 /\ touched' = (page.sent # None)
      /\ page.receipt = None /\ page.storing = None
      /\ UNCHANGED <<list, multiplier, edits, ordered, twice, request, sends, excuse, mishaps>>
  BY DEF Clear, backend, Uncovered
<1>3. /\ page' \in Page /\ page'.sent = page.sent /\ page'.storing = None
      /\ page'.receipt = None
  BY <1>1, ClearedPage DEF Clear, Types
<1>4. basket \in Nat \ {0} /\ basket' \in Nat \ {0} /\ basket <= basket'
  BY <1>1, <1>2 DEF Types
<1>5. Fits(draft)' /\ touched' \in BOOLEAN
  BY <1>2, FitsEmpty DEF Fits
<1>6. Types'
  BY <1>1, <1>2, <1>3, <1>4, <1>5 DEF Types
<1>7. RowsOK'
  <2> SUFFICES ASSUME NEW i \in Rows, request[i] # None
               PROVE  request[i].basket <= basket' /\ PaidOK(request[i])
    BY <1>2 DEF RowsOK, PaidOK
  <2>1. PICK r : r = request[i]
    OBVIOUS
  <2>2. r.basket <= basket /\ PaidOK(r) /\ r \in Request
    BY <1>1, <2>1, RowTypes DEF RowsOK
  <2>3. r.basket \in Nat
    BY <2>2 DEF Request
  <2> QED
    BY <1>4, <2>1, <2>2, <2>3
<1>8. Awaited'
  BY <1>1, <1>2, <1>3 DEF Awaited
<1>9. LeftAlone'
  BY <1>1, <1>2, <1>3 DEF LeftAlone
<1>10. Once'
  <2>1. ordered \cup excuse \subseteq 1 .. basket'
    BY <1>1, <1>4 DEF Once
  <2>2. basket' \notin ordered
    BY <1>1, <1>2, <1>4 DEF Once
  <2> QED
    BY <1>1, <1>2, <1>3, <2>1, <2>2 DEF Once
<1>11. Kept'
  <2>1. None \notin Rows
    BY Bounds DEF Rows
  <2> QED
    BY <1>2, <1>3, <2>1 DEF Kept
<1> QED
  BY <1>6, <1>7, <1>8, <1>9, <1>10, <1>11 DEF IInv

\* The storage step: the row goes with the draft.
LEMMA StorageInv ==
    ASSUME IInv, CompleteStorageStep
    PROVE  IInv'
<1>1. Types /\ RowsOK /\ Awaited /\ LeftAlone /\ Once /\ Kept
  BY DEF IInv
<1>2. PICK s : s = page.storing
  OBVIOUS
<1>3. /\ s # None /\ draft' = EmptyDraft /\ basket' = basket + 1 /\ touched' = FALSE
      /\ request' = [request EXCEPT ![s] = None]
      /\ UNCHANGED <<list, multiplier, edits, ordered, twice, sends, excuse, mishaps>>
  BY <1>2 DEF CompleteStorageStep, backend
<1>4. s \in Rows /\ page.sent = None
  BY <1>1, <1>2, <1>3, RowTypes DEF Awaited
<1>5. /\ page' \in Page /\ page'.sent = None /\ page'.storing = None /\ page'.receipt = None
  BY <1>1, <1>4, ClearedPage DEF CompleteStorageStep, Types
<1>6. basket \in Nat \ {0} /\ basket' \in Nat \ {0} /\ basket <= basket'
  BY <1>1, <1>3 DEF Types
<1>7. /\ request' \in [Rows -> Request \cup {None}] /\ request'[s] = None
      /\ \A i \in Rows : i # s => request'[i] = request[i]
  BY <1>1, <1>3, <1>4 DEF Types
<1>8. Types'
  <2>1. Fits(draft)' /\ touched' \in BOOLEAN
    BY <1>3, FitsEmpty DEF Fits
  <2> QED
    BY <1>1, <1>3, <1>5, <1>6, <1>7, <2>1 DEF Types
<1>9. RowsOK'
  <2> SUFFICES ASSUME NEW i \in Rows, request'[i] # None
               PROVE  request'[i].basket <= basket' /\ PaidOK(request'[i])
    BY DEF RowsOK, PaidOK
  <2>1. PICK r : r = request[i]
    OBVIOUS
  <2>2. r = request'[i] /\ r # None
    BY <1>7, <2>1
  <2>3. r.basket <= basket /\ PaidOK(r) /\ r \in Request
    BY <1>1, <2>1, <2>2, RowTypes DEF RowsOK
  <2>4. r.basket \in Nat
    BY <2>3 DEF Request
  <2> QED
    BY <1>6, <2>2, <2>3, <2>4
<1>10. Awaited'
  BY <1>5 DEF Awaited
<1>11. LeftAlone'
  BY <1>1, <1>2, <1>3, <1>4, <1>5, <1>7 DEF LeftAlone
<1>12. Once'
  <2>1. ordered \cup excuse \subseteq 1 .. basket'
    BY <1>1, <1>6 DEF Once
  <2>2. basket' \notin ordered
    BY <1>1, <1>3, <1>6 DEF Once
  <2> QED
    BY <1>1, <1>3, <1>5, <2>1, <2>2 DEF Once
<1>13. Kept'
  <2>1. None \notin Rows
    BY Bounds DEF Rows
  <2> QED
    BY <1>5, <2>1 DEF Kept
<1> QED
  BY <1>8, <1>9, <1>10, <1>11, <1>12, <1>13 DEF IInv

\* What the form may confirm is no more than the total it shows.
LEMMA PayableIs ==
    ASSUME Types, NEW pay \in Payable
    PROVE  pay \in Nat /\ pay <= Total(draft, page.multiplier)
<1>1. PICK n, a : n = Total(draft, page.multiplier) /\ a = page.amount
  OBVIOUS
<1>2. draft \in Draft /\ page.multiplier \in Factors /\ a \in Nat
  BY <1>1, RowTypes DEF Types, Fits
<1>3. n \in Nat
  BY <1>1, <1>2, TotalsCompare, Bounds
<1>4. pay = 0 \/ pay = Min({a, n}) \/ pay = n
  BY <1>1 DEF Payable
<1>5. Min({a, n}) \in {a, n} /\ Min({a, n}) <= n
  BY <1>2, <1>3, MinIs
<1> QED
  BY <1>1, <1>2, <1>3, <1>4, <1>5

LEMMA ConfirmInv ==
    ASSUME IInv, NEW pay \in Payable, Confirm(pay)
    PROVE  IInv'
<1>1. Types /\ RowsOK /\ Awaited /\ LeftAlone /\ Once /\ Kept
  BY DEF IInv
<1>2. /\ page.receipt = None /\ page.storing = None /\ page.sent = None /\ touched' = FALSE
      /\ UNCHANGED <<list, multiplier, edits, ordered, twice, draft, basket, excuse, mishaps>>
  BY DEF Confirm, backend, Uncovered
<1>3. None \notin Rows /\ None \notin Request
  BY Bounds DEF Rows
<1>4. Fits(draft)' /\ touched' \in BOOLEAN
  BY <1>1, <1>2 DEF Fits, Types
<1>5. CASE Ready
  <2>1. PICK n, r :
            /\ n = sends + 1
            /\ r = [draft |-> draft, pay |-> pay, basket |-> basket, state |-> "out",
                    shown |-> page.multiplier, charged |-> 1, total |-> 0, list |-> FirstList]
    OBVIOUS
  <2>2. /\ sends < MaxSends /\ sends' = n
        /\ request' = [request EXCEPT ![n] = r] /\ page' = [page EXCEPT !.sent = n]
    BY <1>5, <2>1 DEF Confirm
  <2>3. n \in Rows /\ sends' \in 0 .. MaxSends
    BY <1>1, <2>1, <2>2, Bounds DEF Types, Rows
  <2>4. r \in Request
    BY <1>1, <2>1, RowTypes, PayableIs, Bounds DEF Request, Types, Fits, Factors
  <2>5. /\ r.state = "out" /\ r.basket = basket /\ r.draft = draft /\ r # None
        /\ r.pay = pay /\ r.shown = page.multiplier
    BY <1>3, <2>1, <2>4
  <2>6. /\ page' \in Page /\ page'.sent = n /\ page'.storing = None /\ page'.receipt = None
    BY <1>1, <1>2, <2>2, <2>3 DEF Types, Page
  <2>7. /\ request' \in [Rows -> Request \cup {None}] /\ request'[n] = r
        /\ \A i \in Rows : i # n => request'[i] = request[i]
    BY <1>1, <2>2, <2>3, <2>4 DEF Types
  <2>8. Types'
    BY <1>1, <1>2, <1>4, <2>3, <2>6, <2>7 DEF Types
  <2>9. RowsOK'
    <3> SUFFICES ASSUME NEW i \in Rows, request'[i] # None
                 PROVE  request'[i].basket <= basket' /\ PaidOK(request'[i])
      BY DEF RowsOK, PaidOK
    <3>1. CASE i = n
      <4>1. PaidOK(r)
        BY <1>1, <2>5, PayableIs DEF PaidOK
      <4> QED
        BY <1>1, <1>2, <2>5, <2>7, <3>1, <4>1 DEF Types
    <3>2. CASE i # n
      BY <1>1, <1>2, <2>7, <3>2 DEF RowsOK
    <3> QED
      BY <3>1, <3>2
  <2>10. Awaited'
    BY <1>3, <2>3, <2>5, <2>6, <2>7 DEF Awaited
  <2>11. LeftAlone'
    BY <1>1, <1>2, <1>3, <2>6, <2>7 DEF LeftAlone
  <2>12. basket \in ordered => basket \in excuse
    BY <1>1, <1>2, <1>3 DEF Once
  <2>13. Once'
    BY <1>1, <1>2, <2>5, <2>6, <2>7, <2>12 DEF Once
  <2>14. Kept'
    BY <1>2, <1>3, <2>5, <2>6, <2>7 DEF Kept
  <2> QED
    BY <2>8, <2>9, <2>10, <2>11, <2>13, <2>14 DEF IInv
<1>6. CASE ~Ready
  <2>1. page' = FormClosed(page) /\ UNCHANGED <<request, sends>>
    BY <1>6 DEF Confirm
  <2>2. /\ page' \in Page /\ page'.sent = None /\ page'.storing = None /\ page'.receipt = None
    BY <1>1, <1>2, <2>1 DEF Types, Page, FormClosed
  <2>3. Types'
    BY <1>1, <1>2, <1>4, <2>1, <2>2 DEF Types
  <2>4. RowsOK' /\ Awaited'
    BY <1>1, <1>2, <2>1, <2>2 DEF RowsOK, PaidOK, Awaited
  <2>5. LeftAlone' /\ Once'
    BY <1>1, <1>2, <2>1, <2>2 DEF LeftAlone, Once
  <2>6. Kept'
    BY <1>3, <2>2 DEF Kept
  <2> QED
    BY <2>3, <2>4, <2>5, <2>6 DEF IInv
<1> QED
  BY <1>5, <1>6

-----------------------------------------------------------------------------
(* Decisions and answers. *)

\* The back end decides request i: a request the page waits for keeps its row.
LEMMA DecideInv ==
    ASSUME IInv, NEW i \in DOMAIN request, CreateOrder(i) \/ RefuseOrder(i)
    PROVE  IInv'
<1>1. Types /\ RowsOK /\ Awaited /\ LeftAlone /\ Once /\ Kept
  BY DEF IInv
<1>2. i \in Rows /\ None \notin Rows /\ None \notin Request
  BY <1>1, RowTypes, Bounds DEF Rows
<1>3. PICK r : r = request[i]
  OBVIOUS
<1>4. /\ r # None /\ r.state = "out"
      /\ UNCHANGED <<list, multiplier, draft, page, sends, basket, excuse, touched, edits, mishaps>>
  BY <1>3 DEF CreateOrder, RefuseOrder, backend
<1>5. /\ r \in Request /\ r.basket <= basket /\ PaidOK(r) /\ r.basket \in Nat \ {0}
      /\ basket \in Nat \ {0}
  <2>1. r \in Request /\ r.basket <= basket /\ PaidOK(r) /\ basket \in Nat \ {0}
    BY <1>1, <1>2, <1>3, <1>4, RowTypes DEF RowsOK, Types
  <2> QED
    BY <2>1 DEF Request
<1>6. i # page.storing
  BY <1>1, <1>2, <1>3, <1>4 DEF Awaited
<1>7. i # page.sent => r.basket \in excuse
  BY <1>1, <1>2, <1>3, <1>4, <1>6 DEF LeftAlone
<1>8. i = page.sent => r.basket \notin ordered \ excuse
  BY <1>1, <1>2, <1>3, <1>4 DEF Once
<1>9. ASSUME NEW n, request' = [request EXCEPT ![i] = n],
             IF i = page.sent
             THEN /\ n \in Request /\ n.basket = r.basket /\ n.draft = r.draft /\ n.pay = r.pay
                  /\ n.state \in {"created", "refused"} /\ PaidOK(n)
             ELSE n = None,
             IF i = page.sent /\ n.state = "refused" THEN UNCHANGED <<ordered, twice>>
             ELSE \/ UNCHANGED <<ordered, twice>> /\ i # page.sent
                  \/ /\ ordered' = ordered \cup {r.basket}
                     /\ twice' = IF r.basket \in ordered THEN twice \cup {r.basket} ELSE twice
      PROVE  IInv'
  <2>1. /\ request' \in [Rows -> Request \cup {None}] /\ request'[i] = n
        /\ \A j \in Rows : j # i => request'[j] = request[j]
    BY <1>1, <1>2, <1>9 DEF Types
  <2>2. Types'
    BY <1>1, <1>4, <2>1 DEF Types, Fits
  <2>3. RowsOK'
    <3> SUFFICES ASSUME NEW j \in Rows, request'[j] # None
                 PROVE  request'[j].basket <= basket' /\ PaidOK(request'[j])
      BY DEF RowsOK, PaidOK
    <3>1. CASE j = i
      BY <1>4, <1>5, <1>9, <2>1, <3>1
    <3>2. CASE j # i
      BY <1>1, <1>4, <2>1, <3>2 DEF RowsOK
    <3> QED
      BY <3>1, <3>2
  <2>4. Awaited'
    <3>1. page.sent # None => request'[page.sent] # None
      <4>1. CASE i = page.sent
        BY <1>2, <1>9, <2>1, <4>1
      <4>2. CASE i # page.sent
        BY <1>1, <2>1, <4>2, RowTypes DEF Awaited
      <4> QED
        BY <4>1, <4>2
    <3>2. page.storing # None => request'[page.storing] = request[page.storing]
      BY <1>1, <1>6, <2>1, RowTypes
    <3> QED
      BY <1>1, <1>4, <3>1, <3>2 DEF Awaited
  <2>5. LeftAlone'
    <3> SUFFICES ASSUME NEW j \in Rows, request'[j] # None, j # page.sent, j # page.storing
                 PROVE  request'[j].state = "out" /\ request'[j].basket \in excuse
      BY <1>4 DEF LeftAlone
    <3>1. j # i
      BY <1>9, <2>1
    <3> QED
      BY <1>1, <2>1, <3>1 DEF LeftAlone
  <2>6. twice' \subseteq ordered' \cap excuse' /\ ordered' \cup excuse' \subseteq 1 .. basket'
    <3>1. twice \subseteq ordered \cap excuse /\ ordered \cup excuse \subseteq 1 .. basket
      BY <1>1 DEF Once
    <3>2. r.basket \in 1 .. basket
      BY <1>5
    <3>3. CASE UNCHANGED <<ordered, twice>>
      BY <1>4, <3>1, <3>3
    <3>4. CASE /\ ordered' = ordered \cup {r.basket}
               /\ twice' = IF r.basket \in ordered THEN twice \cup {r.basket} ELSE twice
      <4>1. r.basket \in ordered => r.basket \in excuse
        BY <1>7, <1>8
      <4> QED
        BY <1>4, <3>1, <3>2, <3>4, <4>1
    <3> QED
      BY <1>9, <3>3, <3>4
  <2>7. page.sent # None /\ request'[page.sent].state = "out" =>
            request'[page.sent].basket \notin ordered' \ excuse
    <3> SUFFICES ASSUME page.sent # None, request'[page.sent].state = "out"
                 PROVE  request'[page.sent].basket \notin ordered' \ excuse
      OBVIOUS
    <3>1. i # page.sent
      BY <1>9, <2>1
    <3>2. request'[page.sent] = request[page.sent]
      BY <1>1, <2>1, <3>1, RowTypes
    <3>3. request[page.sent].basket \notin ordered \ excuse
      BY <1>1, <3>2 DEF Once
    <3>4. ordered' \subseteq ordered \cup {r.basket} /\ r.basket \in excuse
      BY <1>7, <1>9, <3>1
    <3> QED
      BY <3>2, <3>3, <3>4
  <2>8. basket \in ordered' /\ basket \notin excuse =>
            \E j \in Rows : /\ j = page.sent \/ j = page.storing
                            /\ request'[j].state = "created" /\ request'[j].basket = basket
    <3> SUFFICES ASSUME basket \in ordered', basket \notin excuse
                 PROVE  \E j \in Rows : /\ j = page.sent \/ j = page.storing
                                        /\ request'[j].state = "created"
                                        /\ request'[j].basket = basket
      OBVIOUS
    <3>1. CASE basket \in ordered
      <4>1. PICK j \in Rows : /\ j = page.sent \/ j = page.storing
                              /\ request[j].state = "created" /\ request[j].basket = basket
        BY <1>1, <3>1 DEF Once
      <4>2. j # i
        BY <1>3, <1>4, <4>1
      <4> QED
        BY <2>1, <4>1, <4>2
    <3>2. CASE basket \notin ordered
      <4>1. basket = r.basket /\ i = page.sent
        BY <1>7, <1>9, <3>2
      <4>2. n.state # "refused"
        BY <1>9, <3>2, <4>1
      <4>3. n.state = "created" /\ n.basket = basket
        BY <1>9, <4>1, <4>2
      <4> QED
        BY <1>2, <2>1, <4>1, <4>3
    <3> QED
      BY <3>1, <3>2
  <2>9. Once'
    BY <1>4, <2>6, <2>7, <2>8 DEF Once
  <2>10. Kept'
    <3> SUFFICES ASSUME NEW j \in Rows, j = page.sent \/ j = page.storing, ~touched
                 PROVE  draft = request'[j].draft
      BY <1>4 DEF Kept
    <3>1. CASE j = i
      BY <1>1, <1>3, <1>6, <1>9, <2>1, <3>1 DEF Kept
    <3>2. CASE j # i
      BY <1>1, <2>1, <3>2 DEF Kept
    <3> QED
      BY <3>1, <3>2
  <2> QED
    BY <2>2, <2>3, <2>4, <2>5, <2>9, <2>10 DEF IInv
<1>10. CASE CreateOrder(i)
  <2>1. PICK l, m, t : l = list /\ m = multiplier /\ t = Charged(r.draft)
    OBVIOUS
  <2>2. l \in [Offers -> Prices] /\ m \in Factors /\ t = TotalAt(r.draft, l, m)
    BY <1>1, <2>1, FactorsAre DEF Types, Charged, TotalAt
  <2>3. t \in Nat
    <3>1. r.draft \in Draft
      BY <1>5 DEF Request
    <3> QED
      BY <2>2, <3>1, TotalsCompare
  <2>4. PICK c : c = [r EXCEPT !.state = "created", !.list = l, !.charged = m, !.total = t]
    OBVIOUS
  <2>5. /\ c \in Request /\ c.state = "created" /\ c.list = l /\ c.charged = m
        /\ c.total = t
        /\ c.basket = r.basket /\ c.draft = r.draft /\ c.pay = r.pay
        /\ c.shown = r.shown
    BY <1>5, <2>2, <2>3, <2>4 DEF Request, Factors
  <2>6. PaidOK(c)
    BY <1>5, <2>2, <2>5 DEF PaidOK
  <2>7. PICK n : n = IF i = page.sent THEN c ELSE None
    OBVIOUS
  <2>8. /\ request' = [request EXCEPT ![i] = n]
        /\ ordered' = ordered \cup {r.basket}
        /\ twice' = IF r.basket \in ordered THEN twice \cup {r.basket} ELSE twice
    BY <1>3, <1>10, <2>1, <2>4, <2>7 DEF CreateOrder
  <2> QED
    BY <1>9, <2>5, <2>6, <2>7, <2>8
<1>11. CASE RefuseOrder(i)
  <2>1. PICK c : c = [r EXCEPT !.state = "refused"]
    OBVIOUS
  <2>2. /\ c \in Request /\ c.state = "refused"
        /\ c.basket = r.basket /\ c.draft = r.draft /\ c.pay = r.pay
        /\ c.shown = r.shown
    BY <1>5, <2>1 DEF Request
  <2>3. PaidOK(c)
    BY <1>5, <2>2 DEF PaidOK
  <2>4. PICK n : n = IF i = page.sent THEN c ELSE None
    OBVIOUS
  <2>5. request' = [request EXCEPT ![i] = n] /\ UNCHANGED <<ordered, twice>>
    BY <1>3, <1>11, <2>1, <2>4 DEF RefuseOrder, backend
  <2> QED
    BY <1>9, <2>2, <2>3, <2>4, <2>5
<1> QED
  BY <1>10, <1>11

\* What is left of a request is undecided or nothing.
LEMMA LeftIs ==
    \A r \in Request : PaidOK(r) =>
        \/ Left(r) = None
        \/ /\ Left(r) \in Request /\ Left(r).state = "out" /\ Left(r).basket = r.basket
           /\ PaidOK(Left(r))
<1> SUFFICES ASSUME NEW r \in Request, PaidOK(r), r.state = "out"
             PROVE  /\ Left(r) \in Request /\ Left(r).state = "out" /\ Left(r).basket = r.basket
                    /\ PaidOK(Left(r))
  BY DEF Left
<1>1. PICK e : e = EmptyDraft
  OBVIOUS
<1>2. e \in Draft
  BY <1>1, FitsEmpty DEF Fits
<1>3. PICK n : n = [r EXCEPT !.draft = e, !.pay = 0, !.shown = 1, !.list = FirstList]
  OBVIOUS
<1>4. /\ n \in Request /\ n.state = "out" /\ n.basket = r.basket /\ n.pay = 0
  BY <1>2, <1>3, Bounds DEF Request
<1>5. n = Left(r)
  BY <1>1, <1>3 DEF Left
<1>6. PaidOK(n)
  <2>1. n.draft \in Draft /\ n.shown \in Factors
    BY <1>4 DEF Request, Factors
  <2>2. Total(n.draft, n.shown) \in Nat
    BY <2>1, TotalsCompare, Bounds
  <2> QED
    BY <1>4, <2>2 DEF PaidOK
<1> QED
  BY <1>4, <1>5, <1>6

\* The page gives up whatever it was waiting for, and excuses those drafts.
LEMMA GiveUpInv ==
    ASSUME IInv, request' = Abandoned(Pending),
           excuse' = excuse \cup {request[i].basket : i \in Pending},
           page' \in Page, page'.sent = None, page'.storing = None, page'.receipt = None,
           touched' \in BOOLEAN, mishaps' \in 0 .. MaxMishaps,
           UNCHANGED <<list, multiplier, draft, sends, basket, ordered, twice, edits>>
    PROVE  IInv'
<1>1. Types /\ RowsOK /\ Awaited /\ LeftAlone /\ Once /\ Kept
  BY DEF IInv
<1>2. None \notin Rows /\ None \notin Request
  BY Bounds DEF Rows
<1>3. \A i \in Rows : i \in Pending <=> i = page.sent \/ i = page.storing
  BY <1>2 DEF Pending
<1>4. \A i \in Pending : /\ i \in Rows /\ request[i] \in Request
                         /\ request[i].basket <= basket /\ PaidOK(request[i])
  <2> SUFFICES ASSUME NEW i \in Pending
               PROVE  /\ i \in Rows /\ request[i] \in Request
                      /\ request[i].basket <= basket /\ PaidOK(request[i])
    OBVIOUS
  <2>1. i \in Rows /\ request[i] # None
    BY <1>1, RowTypes DEF Pending, Awaited
  <2> QED
    BY <1>1, <2>1, RowTypes DEF RowsOK
<1>5. \A i \in Rows : request'[i] = IF i \in Pending THEN Left(request[i]) ELSE request[i]
  BY <1>1, RowTypes DEF Abandoned
<1>6. \A i \in Pending :
          \/ request'[i] = None
          \/ /\ request'[i] \in Request /\ request'[i].state = "out"
             /\ request'[i].basket = request[i].basket /\ PaidOK(request'[i])
  <2> SUFFICES ASSUME NEW i \in Pending
               PROVE  \/ request'[i] = None
                      \/ /\ request'[i] \in Request /\ request'[i].state = "out"
                         /\ request'[i].basket = request[i].basket /\ PaidOK(request'[i])
    OBVIOUS
  <2>1. PICK r : r = request[i]
    OBVIOUS
  <2>2. r \in Request /\ PaidOK(r) /\ request'[i] = Left(r)
    BY <1>4, <1>5, <2>1
  <2> QED
    BY <2>1, <2>2, LeftIs
<1>7. request' \in [Rows -> Request \cup {None}]
  <2>1. \A i \in Rows : request'[i] \in Request \cup {None}
    BY <1>1, <1>5, <1>6, RowTypes
  <2>2. request' = [i \in Rows |-> IF i \in Pending THEN Left(request[i]) ELSE request[i]]
    BY <1>1, RowTypes, Zenon DEF Abandoned
  <2> QED
    BY <1>5, <2>1, <2>2
<1>8. Types'
  BY <1>1, <1>7 DEF Types, Fits
<1>9. RowsOK'
  <2> SUFFICES ASSUME NEW i \in Rows, request'[i] # None
               PROVE  request'[i].basket <= basket' /\ PaidOK(request'[i])
    BY DEF RowsOK, PaidOK
  <2>1. CASE i \in Pending
    BY <1>4, <1>6, <2>1
  <2>2. CASE i \notin Pending
    BY <1>1, <1>5, <2>2 DEF RowsOK
  <2> QED
    BY <2>1, <2>2
<1>10. Awaited'
  BY DEF Awaited
<1>11. LeftAlone'
  <2> SUFFICES ASSUME NEW i \in Rows, request'[i] # None
               PROVE  request'[i].state = "out" /\ request'[i].basket \in excuse'
    BY DEF LeftAlone
  <2>1. CASE i \in Pending
    BY <1>6, <2>1
  <2>2. CASE i \notin Pending
    BY <1>1, <1>3, <1>5, <2>2 DEF LeftAlone
  <2> QED
    BY <2>1, <2>2
<1>12. Once'
  <2>1. twice \subseteq ordered \cap excuse'
    BY <1>1 DEF Once
  <2>2. ordered \cup excuse' \subseteq 1 .. basket
    <3>1. ordered \cup excuse \subseteq 1 .. basket
      BY <1>1 DEF Once
    <3>2. \A i \in Pending : request[i].basket \in 1 .. basket
      <4> SUFFICES ASSUME NEW i \in Pending PROVE request[i].basket \in 1 .. basket
        OBVIOUS
      <4>1. PICK r : r = request[i]
        OBVIOUS
      <4>2. r \in Request /\ r.basket <= basket /\ basket \in Nat
        BY <1>1, <1>4, <4>1 DEF Types
      <4>3. r.basket \in Nat \ {0}
        BY <4>2 DEF Request
      <4> QED
        BY <4>1, <4>2, <4>3
    <3> QED
      BY <3>1, <3>2
  <2>3. basket \in ordered => basket \in excuse'
    BY <1>1, <1>3 DEF Once
  <2> QED
    BY <2>1, <2>2, <2>3 DEF Once
<1>13. Kept'
  BY <1>2 DEF Kept
<1> QED
  BY <1>8, <1>9, <1>10, <1>11, <1>12, <1>13 DEF IInv

LEMMA MishapInv ==
    ASSUME IInv, Reload \/ LoseAnswer
    PROVE  IInv'
<1>1. Types /\ Awaited
  BY DEF IInv
<1>2. mishaps' \in 0 .. MaxMishaps
  BY <1>1, Bounds DEF Reload, LoseAnswer, Mishap, Types
<1>3. CASE Reload
  <2>1. /\ FreshPage \in Page /\ FreshPage.sent = None /\ FreshPage.storing = None
        /\ FreshPage.receipt = None
    BY Bounds DEF FreshPage, Page
  <2> QED
    BY <1>2, <1>3, <2>1, GiveUpInv DEF Reload, backend
<1>4. CASE LoseAnswer
  <2>1. page.storing = None /\ page.receipt = None /\ page.sent # None
    BY <1>1, <1>4 DEF LoseAnswer, Awaited
  <2>2. Pending = {page.sent}
    BY <2>1 DEF Pending
  <2>3. /\ page' \in Page /\ page'.sent = None /\ page'.storing = None /\ page'.receipt = None
    BY <1>1, <1>4, <2>1 DEF LoseAnswer, Types, Page
  <2>4. /\ request' = Abandoned(Pending)
        /\ excuse' = excuse \cup {request[i].basket : i \in Pending}
        /\ touched' \in BOOLEAN
        /\ UNCHANGED <<list, multiplier, draft, sends, basket, ordered, twice, edits>>
    <3>1. {request[i].basket : i \in Pending} = {request[page.sent].basket}
      BY <2>2
    <3> QED
      BY <1>1, <1>4, <2>2, <3>1 DEF LoseAnswer, backend, Types
  <2> QED
    BY <1>2, <2>3, <2>4, GiveUpInv
<1> QED
  BY <1>3, <1>4

\* The answer: the order goes to its shelf, or the refused request is forgotten.
LEMMA AnswerInv ==
    ASSUME IInv, Answer
    PROVE  IInv'
<1>1. Types /\ RowsOK /\ Awaited /\ LeftAlone /\ Once /\ Kept
  BY DEF IInv
<1>2. PICK i, r : i = page.sent /\ r = request[i]
  OBVIOUS
<1>3. /\ i # None /\ page.storing = None /\ page.receipt = None /\ r # None
      /\ UNCHANGED <<list, multiplier, draft, sends, basket, ordered, twice, excuse, touched, edits, mishaps>>
  BY <1>1, <1>2 DEF Answer, Awaited, backend
<1>4. i \in Rows /\ r \in Request /\ None \notin Rows /\ None \notin Request
  BY <1>1, <1>2, <1>3, RowTypes, Bounds DEF Rows
<1>5. CASE r.state = "created"
  <2>1. PICK t : t = [client |-> r.draft.client, qty |-> r.draft.qty, paid |-> r.pay]
    OBVIOUS
  <2>2. /\ t \in Receipts /\ t.client = r.draft.client /\ t.qty = r.draft.qty /\ t.paid = r.pay
    <3>1. r.draft \in Draft /\ r.pay \in Nat
      BY <1>4 DEF Request
    <3>2. r.draft.client \in Clients \cup {None} /\ r.draft.qty \in [Offers -> 0 .. MaxPieces]
      BY <3>1 DEF Draft
    <3> QED
      BY <2>1, <3>1, <3>2 DEF Receipts
  <2>3. /\ request' = request
        /\ page' = [FormClosed(page) EXCEPT !.sent = None, !.receipt = t, !.storing = i]
    BY <1>2, <1>5, <2>1 DEF Answer, Receipt
  <2>4. FormClosed(page) \in Page
    BY <1>1 DEF Types, Page, FormClosed
  <2>5. /\ page' \in Page /\ page'.sent = None /\ page'.storing = i /\ page'.receipt = t
    BY <1>4, <2>2, <2>3, <2>4 DEF Page
  <2>6. Types'
    BY <1>1, <1>3, <2>3, <2>5 DEF Types, Fits
  <2>7. RowsOK'
    BY <1>1, <1>3, <2>3 DEF RowsOK, PaidOK
  <2>8. Awaited'
    BY <1>2, <1>3, <1>5, <2>2, <2>3, <2>5 DEF Awaited
  <2>9. LeftAlone'
    BY <1>1, <1>2, <1>3, <1>4, <2>3, <2>5 DEF LeftAlone
  <2>10. Once'
    BY <1>1, <1>2, <1>3, <1>4, <2>3, <2>5 DEF Once
  <2>11. Kept'
    BY <1>1, <1>2, <1>3, <1>4, <2>3, <2>5 DEF Kept
  <2> QED
    BY <2>6, <2>7, <2>8, <2>9, <2>10, <2>11 DEF IInv
<1>6. CASE r.state = "refused"
  <2>1. /\ request' = [request EXCEPT ![i] = None] /\ page' = [page EXCEPT !.sent = None]
    BY <1>2, <1>6 DEF Answer
  <2>2. /\ page' \in Page /\ page'.sent = None /\ page'.storing = None /\ page'.receipt = None
    BY <1>1, <1>3, <2>1 DEF Types, Page
  <2>3. /\ request' \in [Rows -> Request \cup {None}] /\ request'[i] = None
        /\ \A j \in Rows : j # i => request'[j] = request[j]
    BY <1>1, <1>4, <2>1 DEF Types
  <2>4. Types'
    BY <1>1, <1>3, <2>2, <2>3 DEF Types, Fits
  <2>5. RowsOK'
    <3> SUFFICES ASSUME NEW j \in Rows, request'[j] # None
                 PROVE  request'[j].basket <= basket' /\ PaidOK(request'[j])
      BY DEF RowsOK, PaidOK
    <3> QED
      BY <1>1, <1>3, <2>3 DEF RowsOK
  <2>6. Awaited'
    BY <2>2 DEF Awaited
  <2>7. LeftAlone'
    BY <1>1, <1>2, <1>3, <1>4, <2>2, <2>3 DEF LeftAlone
  <2>8. basket \in ordered => basket \in excuse
    BY <1>1, <1>2, <1>3, <1>4, <1>6 DEF Once
  <2>9. Once'
    BY <1>1, <1>3, <2>2, <2>8 DEF Once
  <2>10. Kept'
    BY <1>4, <2>2 DEF Kept
  <2> QED
    BY <2>4, <2>5, <2>6, <2>7, <2>9, <2>10 DEF IInv
<1> QED
  BY <1>2, <1>5, <1>6 DEF Answer

-----------------------------------------------------------------------------
LEMMA StutterInv ==
    ASSUME IInv, UNCHANGED vars
    PROVE  IInv'
  BY PageStep DEF vars, IInv, Types

LEMMA StepInv ==
    ASSUME IInv, [Next]_vars
    PROVE  IInv'
<1>1. CASE Load
  BY <1>1, LoadInv, MishapInv DEF Load
<1>2. CASE Edit
  BY <1>2, EditInv, ClearInv DEF Edit
<1>3. CASE Checkout
  <2>1. ASSUME NEW pay \in Payable, Confirm(pay) PROVE IInv'
    BY <2>1, ConfirmInv
  <2> QED
    BY <1>3, <2>1, FormInv, AnswerInv, MishapInv, StorageInv DEF Checkout
<1>4. CASE BackEnd
  BY <1>4, DecideInv, SettingsInv DEF BackEnd
<1>5. CASE UNCHANGED vars
  BY <1>5, StutterInv
<1> QED
  BY <1>1, <1>2, <1>3, <1>4, <1>5 DEF Next

LEMMA Invariant == Spec => []IInv
<1>1. Init => IInv
  BY InitInv
<1>2. IInv /\ [Next]_vars => IInv'
  BY StepInv
<1> QED
  BY <1>1, <1>2, PTL DEF Spec

\* The types of the page, of its requests and of what is known of them.
THEOREM ScreenIsTyped == Spec => []TypeOK
  BY Invariant, TypeFollows, PTL

\* Nothing is doubled, forgotten or dropped between the cart and the shelf: a draft
\* makes one order unless it is excused, an order is awaited or on its way to its
\* shelf, and the shelf clears the draft of its order.
THEOREM DraftsAlwaysBecomeOrders == Spec => []DraftsBecomeOrders
  BY Invariant, DraftsFollow, PTL

\* The receipt names the order and covers what it booked; a surplus comes of a price
\* lowered after the scan, or of a multiplier lowered after the page fetched it; an
\* order paid in full is settled but for a price raised after the scan, and for an
\* express order of a page whose multiplier is below the tenant's.
THEOREM MoneyAlwaysAgrees == Spec => []MoneyAgrees
  BY Invariant, MoneyFollows, PTL
=============================================================================

-------------------------------- MODULE Sums --------------------------------
(***************************************************************************)
(* Facts about sums of natural numbers over finite sets, for the modules   *)
(* that prove something of a sum.  The folds of the community modules are  *)
(* recursive functions over the subsets of a set; what such a function     *)
(* computes goes by induction over those subsets, and the induction here   *)
(* has a set in the place of the predicate, so that it can be cited.       *)
(***************************************************************************)
EXTENDS Integers, FiniteSets, FiniteSetTheorems, WellFoundedInduction, TLAPS

\* A nonempty set of naturals has a least element.
LEMMA LeastNat ==
    ASSUME NEW T, T \subseteq Nat, T # {}
    PROVE  \E n \in T : \A m \in T : n <= m
<1>1. PICK n \in T : \A m \in T : ~ (<<m, n>> \in OpToRel(<, Nat))
  BY NatLessThanWellFounded, WFMin, Zenon
<1>2. \A m \in T : ~ (m < n)
  BY <1>1 DEF OpToRel
<1> QED
  BY <1>2

\* Induction, with a set in the place of the predicate.
LEMMA NatsIn ==
    ASSUME NEW G, 0 \in G, \A n \in Nat : n \in G => n + 1 \in G
    PROVE  \A n \in Nat : n \in G
<1> SUFFICES ASSUME NEW x \in Nat, x \notin G PROVE FALSE
  OBVIOUS
<1> DEFINE T == {n \in Nat : n \notin G}
<1>1. PICK n \in T : \A m \in T : n <= m
  <2>1. T \subseteq Nat /\ x \in T
    OBVIOUS
  <2> HIDE DEF T
  <2> QED
    BY <2>1, LeastNat
<1>2. n \in Nat /\ n # 0 /\ n - 1 \in Nat /\ n - 1 + 1 = n
  OBVIOUS
<1>3. n - 1 \in G
  BY <1>1, <1>2
<1> QED
  BY <1>2, <1>3

Some(s) == CHOOSE x \in s : TRUE
Empty == {}
Less(s) == s \ {Some(s)}

\* A nonempty subset of a finite set without one of its elements is smaller by one.
LEMMA LessIs ==
    ASSUME NEW K, IsFiniteSet(K), NEW s \in SUBSET K
    PROVE  /\ Cardinality(s) \in Nat /\ Cardinality(s) <= Cardinality(K)
           /\ Cardinality(s) = 0 => s = Empty
           /\ s # Empty => /\ Some(s) \in s /\ Less(s) \in SUBSET K
                          /\ Cardinality(Less(s)) = Cardinality(s) - 1
<1>1. IsFiniteSet(s) /\ Cardinality(s) \in Nat /\ Cardinality(s) <= Cardinality(K)
  BY FS_Subset, FS_CardinalityType
<1>2. Cardinality(s) = 0 => s = Empty
  BY <1>1, FS_EmptySet DEF Empty
<1>3. s # Empty => Some(s) \in s
  BY DEF Some, Empty
<1>4. s # Empty => Cardinality(Less(s)) = Cardinality(s) - 1
  BY <1>1, <1>3, FS_RemoveElement DEF Less
<1>5. Less(s) \in SUBSET K
  BY DEF Less
<1> QED
  BY <1>1, <1>2, <1>3, <1>4, <1>5

\* Induction over the subsets of a finite set.
LEMMA SubsetsIn ==
    ASSUME NEW K, IsFiniteSet(K), NEW G, Empty \in G,
           \A s \in SUBSET K : s # Empty /\ Less(s) \in G => s \in G
    PROVE  \A s \in SUBSET K : s \in G
<1> DEFINE Parts == SUBSET K
           N == {n \in Nat : \A s \in Parts : Cardinality(s) = n => s \in G}
<1>1. \A s \in Parts :
          /\ Cardinality(s) \in Nat /\ Cardinality(s) <= Cardinality(K)
          /\ Cardinality(s) = 0 => s = Empty
          /\ s # Empty => /\ Less(s) \in Parts
                         /\ Cardinality(Less(s)) = Cardinality(s) - 1
  BY LessIs
<1>2. \A s \in Parts : s # Empty /\ Less(s) \in G => s \in G
  OBVIOUS
<1> HIDE DEF Parts
<1>3. 0 \in N
  BY <1>1
<1>4. ASSUME NEW n \in Nat, n \in N PROVE n + 1 \in N
  <2> SUFFICES ASSUME NEW s \in Parts, Cardinality(s) = n + 1 PROVE s \in G
    OBVIOUS
  <2>1. CASE s = Empty
    BY <2>1
  <2>2. CASE s # Empty
    <3>1. Less(s) \in Parts /\ Cardinality(Less(s)) = n
      BY <1>1, <2>2
    <3>2. Less(s) \in G
      BY <1>4, <3>1
    <3> QED
      BY <1>2, <2>2, <3>2
  <2> QED
    BY <2>1, <2>2
<1>5. \A n \in Nat : n \in N
  <2> HIDE DEF N
  <2> QED
    BY <1>3, <1>4, NatsIn
<1>6. \A s \in Parts : s \in G
  BY <1>1, <1>5
<1> QED
  BY <1>6 DEF Parts

-----------------------------------------------------------------------------
(* Sums. *)

\* The recursion over the sets of S that a fold of the numbers c[k] goes through.
Folds(c, g, S) ==
    g = [s \in S |-> IF s = Empty THEN 0 ELSE c[Some(s)] + g[Less(s)]]

\* n is the sum of the numbers c[k], k in K.
IsSum(n, c, K) == \E g : Folds(c, g, SUBSET K) /\ n = g[K]

\* The recursion of a sum over the subsets of a finite set has a solution.
LEMMA FoldExists ==
    ASSUME NEW K, IsFiniteSet(K), NEW c
    PROVE  \E g : Folds(c, g, SUBSET K)
<1> DEFINE Parts == SUBSET K
           Level(n) == {s \in Parts : Cardinality(s) <= n}
           G == {n \in Nat : \E g : Folds(c, g, Level(n))}
<1>0. /\ Cardinality(K) \in Nat
      /\ \A s \in Parts :
             /\ Cardinality(s) \in Nat /\ Cardinality(s) <= Cardinality(K)
             /\ Cardinality(s) = 0 => s = Empty
             /\ s # Empty => /\ Less(s) \in Parts
                            /\ Cardinality(Less(s)) = Cardinality(s) - 1
  BY LessIs, FS_CardinalityType
<1> HIDE DEF Parts
<1>1. 0 \in G
  <2> DEFINE L == Level(0)
             g == [s \in L |-> 0]
  <2>1. \A s \in L : s = Empty
    BY <1>0
  <2> HIDE DEF L
  <2>2. Folds(c, g, L)
    BY <2>1 DEF Folds
  <2> HIDE DEF g
  <2> QED
    BY <2>2 DEF L
<1>2. ASSUME NEW n \in Nat, n \in G PROVE n + 1 \in G
  <2> DEFINE L == Level(n)
             M == Level(n + 1)
  <2>1. PICK h : Folds(c, h, L)
    BY <1>2
  <2> DEFINE g == [s \in M |-> IF s = Empty THEN 0 ELSE c[Some(s)] + h[Less(s)]]
  <2>2. \A s \in M : s # Empty => Less(s) \in L
    BY <1>0
  <2>3. \A s \in L : s \in M
    BY <1>0
  <2> HIDE DEF L, M
  <2>4. \A s \in L : h[s] = g[s]
    BY <2>1, <2>3 DEF Folds
  <2>5. \A s \in M : s # Empty => g[Less(s)] = h[Less(s)]
    <3> HIDE DEF g
    <3> QED
      BY <2>2, <2>4
  <2>6. Folds(c, g, M)
    BY <2>5 DEF Folds
  <2> HIDE DEF g
  <2> QED
    BY <2>6 DEF M
<1>3. Cardinality(K) \in G
  <2> HIDE DEF G
  <2> QED
    BY <1>0, <1>1, <1>2, NatsIn
<1>4. Level(Cardinality(K)) = Parts
  BY <1>0
<1> QED
  BY <1>3, <1>4 DEF Parts

\* Naturals add up to a natural.
LEMMA FoldIsNat ==
    ASSUME NEW K, IsFiniteSet(K), NEW c, \A k \in K : c[k] \in Nat,
           NEW g, Folds(c, g, SUBSET K)
    PROVE  \A s \in SUBSET K : g[s] \in Nat
<1> DEFINE Parts == SUBSET K
           G == {s \in Parts : g[s] \in Nat}
<1>1. Empty \in Parts
  BY DEF Empty
<1>2. \A s \in Parts : s # Empty => Some(s) \in K /\ Less(s) \in Parts
  BY LessIs
<1>3. \A s \in Parts : g[s] = IF s = Empty THEN 0 ELSE c[Some(s)] + g[Less(s)]
  BY DEF Folds
<1> HIDE DEF Parts
<1>4. Empty \in G
  BY <1>1, <1>3
<1>5. \A s \in Parts : s # Empty /\ Less(s) \in G => s \in G
  BY <1>2, <1>3
<1>6. \A s \in Parts : s \in G
  <2> HIDE DEF G
  <2> QED
    BY <1>4, <1>5, SubsetsIn DEF Parts
<1> QED
  BY <1>6 DEF Parts

\* The sum of naturals is a natural.
LEMMA SumIsNat ==
    ASSUME NEW K, IsFiniteSet(K), NEW c, \A k \in K : c[k] \in Nat,
           NEW n, IsSum(n, c, K)
    PROVE  n \in Nat
  BY FoldIsNat DEF IsSum

\* The sum of zeros is zero.
LEMMA SumOfZeros ==
    ASSUME NEW K, IsFiniteSet(K), NEW c, \A k \in K : c[k] = 0,
           NEW n, IsSum(n, c, K)
    PROVE  n = 0
<1>1. PICK g : Folds(c, g, SUBSET K) /\ n = g[K]
  BY DEF IsSum
<1> DEFINE Parts == SUBSET K
           G == {s \in Parts : g[s] = 0}
<1>2. Empty \in Parts /\ K \in Parts
  BY DEF Empty
<1>3. \A s \in Parts : s # Empty => Some(s) \in K /\ Less(s) \in Parts
  BY LessIs
<1>4. \A s \in Parts : g[s] = IF s = Empty THEN 0 ELSE c[Some(s)] + g[Less(s)]
  BY <1>1 DEF Folds
<1> HIDE DEF Parts
<1>5. Empty \in G
  BY <1>2, <1>4
<1>6. \A s \in Parts : s # Empty /\ Less(s) \in G => s \in G
  BY <1>3, <1>4
<1>7. \A s \in Parts : s \in G
  <2> HIDE DEF G
  <2> QED
    BY <1>5, <1>6, SubsetsIn DEF Parts
<1> QED
  BY <1>1, <1>2, <1>7

\* The order of a fold does not matter: any number may be added last.
LEMMA AddedLast ==
    ASSUME NEW K, IsFiniteSet(K), NEW c, \A k \in K : c[k] \in Nat,
           NEW g, Folds(c, g, SUBSET K), NEW s \in SUBSET K, NEW k \in s
    PROVE  g[s] = c[k] + g[s \ {k}]
<1> DEFINE Parts == SUBSET K
           G == {n \in Nat : \A t \in Parts : Cardinality(t) = n =>
                                 \A l \in t : g[t] = c[l] + g[t \ {l}]}
<1>0. /\ \A t \in Parts : g[t] \in Nat
      /\ \A t \in Parts : t # Empty => g[t] = c[Some(t)] + g[Less(t)]
  BY FoldIsNat DEF Folds
<1>1. \A t \in Parts : /\ g[t] \in Nat /\ Cardinality(t) \in Nat
                       /\ Cardinality(t) = 0 => t = Empty
                       /\ t # Empty => Some(t) \in t /\ g[t] = c[Some(t)] + g[Less(t)]
  BY <1>0, LessIs
<1>2. \A t \in Parts : \A l \in t :
          /\ l \in K /\ t # Empty /\ t \ {l} \in Parts
          /\ Cardinality(t \ {l}) = Cardinality(t) - 1
  <2> SUFFICES ASSUME NEW t \in Parts, NEW l \in t
               PROVE  /\ l \in K /\ t # Empty /\ t \ {l} \in Parts
                      /\ Cardinality(t \ {l}) = Cardinality(t) - 1
    OBVIOUS
  <2>1. IsFiniteSet(t)
    BY FS_Subset
  <2> QED
    BY <2>1, FS_RemoveElement DEF Empty
<1>3. \A t \in Parts : \A l, q \in t : l # q => /\ q \in t \ {l} /\ l \in t \ {q}
                                               /\ (t \ {l}) \ {q} = (t \ {q}) \ {l}
  OBVIOUS
<1> HIDE DEF Parts
<1>4. 0 \in G
  BY <1>1, <1>2
<1>5. ASSUME NEW n \in Nat, n \in G PROVE n + 1 \in G
  <2> SUFFICES ASSUME NEW t \in Parts, Cardinality(t) = n + 1, NEW l \in t
               PROVE  g[t] = c[l] + g[t \ {l}]
    OBVIOUS
  <2> DEFINE x == Some(t)
             a == t \ {x}
             b == t \ {l}
             r == a \ {l}
  <2>1. t # Empty /\ x \in t /\ x \in K /\ l \in K /\ g[t] = c[x] + g[a]
    BY <1>1, <1>2 DEF Less
  <2>2. CASE l = x
    BY <2>1, <2>2
  <2>3. CASE l # x
    <3>1. l \in a /\ x \in b /\ b \ {x} = r
      BY <1>3, <2>1, <2>3
    <3>2. a \in Parts /\ b \in Parts /\ Cardinality(a) = n /\ Cardinality(b) = n
      BY <1>2, <2>1
    <3>3. /\ a \in Parts => \A q \in a : Cardinality(a) = n => g[a] = c[q] + g[a \ {q}]
          /\ b \in Parts => \A q \in b : Cardinality(b) = n => g[b] = c[q] + g[b \ {q}]
      BY <1>5
    <3>4. g[a] = c[l] + g[r]
      BY <3>1, <3>2, <3>3
    <3>5. g[b] = c[x] + g[b \ {x}]
      BY <3>1, <3>2, <3>3
    <3>6. g[b] = c[x] + g[r]
      BY <3>1, <3>5
    <3>7. r \in Parts
      BY <1>2, <3>1, <3>2
    <3>8. g[a] \in Nat /\ g[b] \in Nat /\ g[r] \in Nat
      BY <1>1, <3>2, <3>7
    <3>9. c[l] \in Nat /\ c[x] \in Nat
      BY <2>1
    <3> HIDE DEF a, b, r, x
    <3>10. g[t] = c[l] + g[b]
      BY <2>1, <3>4, <3>6, <3>8, <3>9
    <3> QED
      BY <3>10 DEF b
  <2> QED
    BY <2>2, <2>3
<1>6. \A n \in Nat : n \in G
  <2> HIDE DEF G
  <2> QED
    BY <1>4, <1>5, NatsIn
<1>7. \A t \in Parts : \A l \in t : g[t] = c[l] + g[t \ {l}]
  BY <1>1, <1>6
<1> QED
  BY <1>7 DEF Parts

\* One more at one place is one more in all.
LEMMA SumOfOneMore ==
    ASSUME NEW K, IsFiniteSet(K), NEW c, \A key \in K : c[key] \in Nat,
           NEW d, NEW k \in K,
           \A key \in K : d[key] = c[key] + (IF key = k THEN 1 ELSE 0),
           NEW n, IsSum(n, c, K), NEW m, IsSum(m, d, K)
    PROVE  m = n + 1
<1>1. PICK g : Folds(c, g, SUBSET K) /\ n = g[K]
  BY DEF IsSum
<1>2. PICK h : Folds(d, h, SUBSET K) /\ m = h[K]
  BY DEF IsSum
<1> DEFINE Parts == SUBSET K
           One(s) == IF k \in s THEN 1 ELSE 0
           G == {s \in Parts : g[s] \in Nat /\ h[s] = g[s] + One(s)}
<1>3. Empty \in Parts /\ K \in Parts /\ One(K) = 1 /\ One(Empty) = 0
  BY DEF Empty
<1>4. ASSUME NEW s \in Parts, s # Empty
      PROVE  /\ Some(s) \in K /\ Less(s) \in Parts
             /\ One(s) = One(Less(s)) + IF Some(s) = k THEN 1 ELSE 0
  <2>1. Some(s) \in s /\ Some(s) \in K /\ Less(s) \in Parts
    BY <1>4, LessIs
  <2> QED
    BY <2>1 DEF Less
<1>5. \A s \in Parts : One(s) \in Nat
  OBVIOUS
<1>6. \A s \in Parts : g[s] = IF s = Empty THEN 0 ELSE c[Some(s)] + g[Less(s)]
  BY <1>1 DEF Folds
<1>7. \A s \in Parts : h[s] = IF s = Empty THEN 0 ELSE d[Some(s)] + h[Less(s)]
  BY <1>2 DEF Folds
<1> HIDE DEF Parts, One
<1>8. Empty \in G
  BY <1>3, <1>6, <1>7
<1>9. ASSUME NEW s \in Parts, s # Empty, Less(s) \in G PROVE s \in G
  <2>1. /\ g[s] = c[Some(s)] + g[Less(s)]
        /\ h[s] = d[Some(s)] + h[Less(s)]
        /\ d[Some(s)] = c[Some(s)] + (IF Some(s) = k THEN 1 ELSE 0)
        /\ c[Some(s)] \in Nat
    BY <1>4, <1>6, <1>7, <1>9
  <2>2. g[Less(s)] \in Nat /\ h[Less(s)] = g[Less(s)] + One(Less(s))
    BY <1>9
  <2> QED
    BY <1>4, <1>5, <1>9, <2>1, <2>2
<1>10. \A s \in Parts : s \in G
  <2> HIDE DEF G
  <2> QED
    BY <1>8, <1>9, SubsetsIn DEF Parts
<1> QED
  BY <1>1, <1>2, <1>3, <1>10

\* The same numbers over fewer places add up to no more.
LEMMA SumOfFewer ==
    ASSUME NEW B, IsFiniteSet(B), NEW A \in SUBSET B,
           NEW c, \A k \in B : c[k] \in Nat, NEW d, \A k \in A : d[k] = c[k],
           NEW n, IsSum(n, c, B), NEW m, IsSum(m, d, A)
    PROVE  m <= n
<1>1. PICK g : Folds(c, g, SUBSET B) /\ n = g[B]
  BY DEF IsSum
<1>2. PICK h : Folds(d, h, SUBSET A) /\ m = h[A]
  BY DEF IsSum
<1> DEFINE Parts == SUBSET B
           G == {s \in Parts : h[s \cap A] <= g[s]}
<1>3. IsFiniteSet(A) /\ \A k \in A : d[k] \in Nat
  BY FS_Subset
<1>4. /\ \A s \in SUBSET A : h[s] \in Nat
      /\ \A s \in SUBSET A : \A k \in s : h[s] = d[k] + h[s \ {k}]
  <2>1. Folds(d, h, SUBSET A)
    BY <1>2
  <2>2. \A s \in SUBSET A : h[s] \in Nat
    BY <1>3, <2>1, FoldIsNat
  <2>3. ASSUME NEW s \in SUBSET A, NEW k \in s PROVE h[s] = d[k] + h[s \ {k}]
    <3>1. /\ IsFiniteSet(A) /\ \A l \in A : d[l] \in Nat
          /\ Folds(d, h, SUBSET A)
      BY <1>3, <2>1
    <3> QED
      BY <3>1, AddedLast
  <2> QED
    BY <2>2, <2>3
<1>5. \A s \in Parts : g[s] \in Nat
  BY <1>1, FoldIsNat
<1>6. Empty \in G
  <2>1. h[Empty] = 0 /\ g[Empty] = 0 /\ Empty \cap A = Empty /\ Empty \in Parts
    BY <1>1, <1>2 DEF Folds, Empty
  <2> QED
    BY <2>1
<1>7. ASSUME NEW s \in Parts, s # Empty, Less(s) \in G PROVE s \in G
  <2> DEFINE x == Some(s)
             t == s \cap A
             r == Less(s) \cap A
  <2>1. x \in s /\ x \in B /\ Less(s) \in Parts /\ Less(s) = s \ {x}
    BY <1>7, LessIs DEF Less
  <2>2. g[s] = c[x] + g[Less(s)] /\ c[x] \in Nat /\ g[Less(s)] \in Nat
    BY <1>1, <1>5, <1>7, <2>1 DEF Folds
  <2>3. h[r] <= g[Less(s)] /\ r \in SUBSET A /\ t \in SUBSET A
    BY <1>7
  <2>4. h[r] \in Nat /\ h[t] \in Nat
    BY <1>4, <2>3
  <2>5. CASE x \in A
    <3>1. x \in t /\ t \ {x} = r
      BY <2>1, <2>5
    <3>2. h[t] = c[x] + h[r]
      BY <1>4, <2>3, <2>5, <3>1
    <3> HIDE DEF t, r, x
    <3>3. h[t] <= g[s]
      BY <2>2, <2>3, <2>4, <3>2
    <3> QED
      BY <3>3 DEF t
  <2>6. CASE x \notin A
    <3>1. t = r
      BY <2>1, <2>6
    <3> HIDE DEF t, r, x
    <3>2. h[t] <= g[s]
      BY <2>2, <2>3, <2>4, <3>1
    <3> QED
      BY <3>2 DEF t
  <2> QED
    BY <2>5, <2>6
<1>8. B \in G
  <2> HIDE DEF G
  <2> QED
    BY <1>6, <1>7, SubsetsIn
<1>9. B \cap A = A
  OBVIOUS
<1> QED
  BY <1>1, <1>2, <1>8, <1>9

\* One number may be taken out of a sum.
LEMMA SumSplit ==
    ASSUME NEW K, IsFiniteSet(K), NEW c, \A l \in K : c[l] \in Nat, NEW k \in K,
           NEW n, IsSum(n, c, K)
    PROVE  \E r \in Nat : n = c[k] + r /\ IsSum(r, c, K \ {k})
<1>1. PICK g : Folds(c, g, SUBSET K) /\ n = g[K]
  BY DEF IsSum
<1> DEFINE A == K \ {k}
           Parts == SUBSET A
           h == [s \in Parts |-> g[s]]
<1>2. n = c[k] + g[A] /\ g[A] \in Nat
  <2>1. Folds(c, g, SUBSET K)
    BY <1>1
  <2>2. g[K] = c[k] + g[K \ {k}]
    BY <2>1, AddedLast
  <2>3. \A s \in SUBSET K : g[s] \in Nat
    BY <2>1, FoldIsNat
  <2> QED
    BY <1>1, <2>2, <2>3
<1>3. \A s \in Parts : g[s] = IF s = Empty THEN 0 ELSE c[Some(s)] + g[Less(s)]
  BY <1>1 DEF Folds
<1>4. \A s \in Parts : Less(s) \in Parts
  BY DEF Less
<1>5. A \in Parts
  OBVIOUS
<1> HIDE DEF Parts
<1>6. Folds(c, h, Parts)
  BY <1>3, <1>4 DEF Folds
<1>7. g[A] = h[A]
  BY <1>5
<1> HIDE DEF h
<1>8. IsSum(g[A], c, A)
  BY <1>6, <1>7 DEF IsSum, Parts
<1> QED
  BY <1>2, <1>8

\* Greater numbers have no smaller sum.
LEMMA SumOfNoMore ==
    ASSUME NEW K, IsFiniteSet(K),
           NEW c, NEW d, \A k \in K : c[k] \in Nat /\ d[k] \in Nat /\ c[k] <= d[k],
           NEW n, IsSum(n, c, K), NEW m, IsSum(m, d, K)
    PROVE  n <= m
<1>1. PICK g : Folds(c, g, SUBSET K) /\ n = g[K]
  BY DEF IsSum
<1>2. PICK h : Folds(d, h, SUBSET K) /\ m = h[K]
  BY DEF IsSum
<1> DEFINE Parts == SUBSET K
           G == {s \in Parts : g[s] <= h[s]}
<1>3. \A s \in Parts : g[s] \in Nat /\ h[s] \in Nat
  <2>1. \A k \in K : c[k] \in Nat
    OBVIOUS
  <2>2. \A k \in K : d[k] \in Nat
    OBVIOUS
  <2>3. Folds(c, g, SUBSET K) /\ Folds(d, h, SUBSET K)
    BY <1>1, <1>2
  <2>4. \A s \in SUBSET K : g[s] \in Nat
    BY <2>1, <2>3, FoldIsNat
  <2>5. \A s \in SUBSET K : h[s] \in Nat
    BY <2>2, <2>3, FoldIsNat
  <2> QED
    BY <2>4, <2>5
<1>4. \A s \in Parts : s # Empty => Some(s) \in K /\ Less(s) \in Parts
  BY LessIs
<1>5. \A s \in Parts : /\ g[s] = IF s = Empty THEN 0 ELSE c[Some(s)] + g[Less(s)]
                       /\ h[s] = IF s = Empty THEN 0 ELSE d[Some(s)] + h[Less(s)]
  BY <1>1, <1>2 DEF Folds
<1>6. Empty \in Parts /\ K \in Parts
  BY DEF Empty
<1> HIDE DEF Parts
<1>7. Empty \in G
  BY <1>5, <1>6
<1>8. ASSUME NEW s \in Parts, s # Empty, Less(s) \in G PROVE s \in G
  <2>1. /\ g[s] = c[Some(s)] + g[Less(s)] /\ h[s] = d[Some(s)] + h[Less(s)]
        /\ Some(s) \in K /\ Less(s) \in Parts
    BY <1>4, <1>5, <1>8
  <2>2. g[Less(s)] <= h[Less(s)] /\ g[Less(s)] \in Nat /\ h[Less(s)] \in Nat
    BY <1>3, <1>8
  <2>3. c[Some(s)] \in Nat /\ d[Some(s)] \in Nat /\ c[Some(s)] <= d[Some(s)]
    BY <2>1
  <2> QED
    BY <2>1, <2>2, <2>3
<1>9. \A s \in Parts : s \in G
  <2> HIDE DEF G
  <2> QED
    BY <1>7, <1>8, SubsetsIn DEF Parts
<1> QED
  BY <1>1, <1>2, <1>6, <1>9

\* A number is at most the sum it is part of.
LEMMA SumCovers ==
    ASSUME NEW K, IsFiniteSet(K), NEW c, \A l \in K : c[l] \in Nat, NEW k \in K,
           NEW n, IsSum(n, c, K)
    PROVE  c[k] <= n
<1>1. PICK r \in Nat : n = c[k] + r /\ IsSum(r, c, K \ {k})
  BY SumSplit
<1> QED
  BY <1>1

\* What one place gives to another leaves the sum as it is.
LEMMA SumMoved ==
    ASSUME NEW K, IsFiniteSet(K), NEW c, \A k \in K : c[k] \in Nat,
           NEW a \in K, NEW b \in K, a # b,
           NEW d, d[a] = 0, d[b] = c[a] + c[b],
           \A k \in K : k # a /\ k # b => d[k] = c[k],
           NEW n, IsSum(n, c, K), NEW m, IsSum(m, d, K)
    PROVE  m = n
<1> DEFINE A == K \ {a}
           B == A \ {b}
<1>1. /\ \A k \in K : d[k] \in Nat
      /\ \A k \in A : d[k] \in Nat /\ c[k] \in Nat
      /\ \A k \in B : d[k] = c[k] /\ d[k] \in Nat
  OBVIOUS
<1>2. IsFiniteSet(A) /\ IsFiniteSet(B) /\ b \in A
  BY FS_Subset
<1>3. PICK r \in Nat : n = c[a] + r /\ IsSum(r, c, A)
  BY SumSplit
<1>4. PICK s \in Nat : m = d[a] + s /\ IsSum(s, d, A)
  BY <1>1, SumSplit
<1> HIDE DEF A
<1>5. PICK t \in Nat : r = c[b] + t /\ IsSum(t, c, B)
  BY <1>1, <1>2, <1>3, SumSplit
<1>6. PICK u \in Nat : s = d[b] + u /\ IsSum(u, d, B)
  BY <1>1, <1>2, <1>4, SumSplit
<1> HIDE DEF B
<1>7. IsSum(t, c, B) /\ IsSum(u, d, B)
  BY <1>5, <1>6
<1>8. t <= u
  BY <1>1, <1>2, <1>7, SumOfNoMore
<1>9. u <= t
  BY <1>1, <1>2, <1>7, SumOfNoMore
<1>10. c[a] \in Nat /\ c[b] \in Nat
  OBVIOUS
<1> QED
  BY <1>3, <1>4, <1>5, <1>6, <1>8, <1>9, <1>10

=============================================================================

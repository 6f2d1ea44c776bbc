------------------------------ MODULE FiniteInduction ------------------------------
(***************************************************************************)
(* What the proofs of several components rest on: induction over a finite   *)
(* set and up to a number, least and greatest elements, ranks in an order,  *)
(* and folds taken step by step.                                             *)
(***************************************************************************)
EXTENDS Integers, FiniteSets, FiniteSetsExt, FiniteSetTheorems, WellFoundedInduction, TLAPS

--------------------------------------------------------------------------------
(***************************************************************************)
(* Finite sets and orders.                                                 *)
(***************************************************************************)
\* Induction over a finite set, in the form these proofs use it: among the subsets
\* with a property one has no smaller one with it.
LEMMA SmallestSet ==
  ASSUME NEW S, IsFiniteSet(S), NEW T \in SUBSET (SUBSET S), T # {}
  PROVE  \E s \in T : \A t \in SUBSET s : t # s => t \notin T
<1>1. PICK s \in T : \A t \in T : ~(<<t, s>> \in StrictSubsetOrdering(S))
  <2>1. T \subseteq FiniteSubsetsOf(S)
    BY FS_FiniteSubsetsOfFinite
  <2>2. IsWellFoundedOn(StrictSubsetOrdering(S), FiniteSubsetsOf(S))
    BY FS_StrictSubsetOrderingWellFounded
  <2> HIDE DEF IsWellFoundedOn, FiniteSubsetsOf, StrictSubsetOrdering
  <2> QED
    BY <2>1, <2>2, WFMin
<1> QED
  BY <1>1 DEF StrictSubsetOrdering

LEMMA MinIsLeast ==
  ASSUME NEW T \in SUBSET Nat, T # {}
  PROVE  Min(T) \in T /\ \A n \in T : Min(T) <= n
<1>1. PICK top \in T : TRUE
  OBVIOUS
<1> DEFINE S == 0..top
           Up == {0..n : n \in {m \in T : m <= top}}
<1>2. IsFiniteSet(S)
  BY FS_Interval
<1>3. Up \in SUBSET (SUBSET S) /\ Up # {}
  BY <1>1
<1>4. PICK s \in Up : \A t \in SUBSET s : t # s => t \notin Up
  <2> HIDE DEF Up, S
  <2> QED
    BY <1>2, <1>3, SmallestSet
<1>5. PICK m \in T : s = 0..m /\ m <= top
  BY <1>4
<1>6. ASSUME NEW n \in T, n < m PROVE FALSE
  <2>1. 0..n \in Up /\ 0..n \subseteq s
    BY <1>1, <1>5, <1>6
  <2>2. m \in s /\ m \notin 0..n
    BY <1>5, <1>6
  <2> HIDE DEF Up
  <2> QED
    BY <1>4, <2>1, <2>2
<1>7. \A n \in T : m <= n
  BY <1>6
<1> QED
  BY <1>7 DEF Min

\* Induction up to n, over a set.
LEMMA InductionTo ==
  ASSUME NEW n \in Nat, NEW P, 0 \in P, \A i \in 0..(n - 1) : i \in P => i + 1 \in P
  PROVE  \A i \in 0..n : i \in P
<1> DEFINE T == {i \in 0..n : i \notin P}
<1> SUFFICES ASSUME T # {} PROVE FALSE
  OBVIOUS
<1>1. T \in SUBSET Nat
  OBVIOUS
<1>2. PICK m \in T : \A i \in T : m <= i
  <2> HIDE DEF T
  <2> QED
    BY <1>1, MinIsLeast
<1>3. m \in 0..n /\ m \notin P /\ m # 0
  BY <1>2
<1>4. m - 1 \in 0..(n - 1) /\ m - 1 \notin T
  BY <1>2, <1>3
<1> QED
  BY <1>3, <1>4

LEMMA IntervalMax ==
  ASSUME NEW n \in Nat, n > 0
  PROVE  Max(1..n) = n /\ (1..n) \ {n} = 1..(n - 1)
<1>1. \A m \in 1..n : (\A k \in 1..n : m >= k) => m = n
  OBVIOUS
<1>2. n \in 1..n /\ \A k \in 1..n : n >= k
  OBVIOUS
<1> QED
  BY <1>1, <1>2 DEF Max

\* In a finite set under a strict total order, the numbers of the smaller elements are
\* 0, 1, 2 and so on, and follow the order.
LEMMA Ranks ==
  ASSUME NEW S, IsFiniteSet(S), NEW R,
         \A x \in S : <<x, x>> \notin R,
         \A x, y \in S : x # y => <<x, y>> \in R \/ <<y, x>> \in R,
         \A x, y, z \in S : <<x, y>> \in R /\ <<y, z>> \in R => <<x, z>> \in R
  PROVE  LET rank(x) == Cardinality({y \in S : <<y, x>> \in R})
         IN  /\ {rank(x) : x \in S} = 0..(Cardinality(S) - 1)
             /\ \A x, y \in S : <<x, y>> \in R <=> rank(x) < rank(y)
<1> DEFINE Below(x) == {y \in S : <<y, x>> \in R}
           rank(x) == Cardinality(Below(x))
           last == Cardinality(S) - 1
<1>1. Cardinality(S) \in Nat
  BY FS_CardinalityType
<1>2. ASSUME NEW x \in S PROVE IsFiniteSet(Below(x)) /\ rank(x) \in 0..last
  <2>1. Below(x) \in SUBSET S /\ Below(x) # S
    OBVIOUS
  <2>2. IsFiniteSet(Below(x)) /\ rank(x) <= Cardinality(S) /\ rank(x) # Cardinality(S)
    BY <2>1, FS_Subset
  <2>3. rank(x) \in Nat
    BY <2>2, FS_CardinalityType
  <2> QED
    BY <1>1, <2>2, <2>3
<1>10. \A x \in S : rank(x) \in Int
  <2> TAKE x \in S
  <2>1. last \in Int
    BY <1>1
  <2>2. rank(x) \in 0..last
    BY <1>2
  <2> HIDE DEF rank, last
  <2> QED
    BY <2>1, <2>2
<1>3. ASSUME NEW x \in S, NEW y \in S, <<x, y>> \in R PROVE rank(x) < rank(y)
  <2>1. Below(x) \in SUBSET Below(y)
    BY <1>3
  <2>2. Below(x) # Below(y)
    BY <1>3
  <2>3. rank(x) <= rank(y) /\ rank(x) # rank(y)
    BY <1>2, <2>1, <2>2, FS_Subset
  <2> QED
    BY <1>1, <1>2, <2>3
<1> DEFINE f == [x \in S |-> rank(x)]
<1>4. \A x, y \in S : x # y => rank(x) # rank(y)
  <2> HIDE DEF rank
  <2> TAKE x, y \in S
  <2> HAVE x # y
  <2>1. CASE <<x, y>> \in R
    BY <1>10, <1>3, <2>1
  <2>2. CASE <<y, x>> \in R
    BY <1>10, <1>3, <2>2
  <2> QED
    BY <2>1, <2>2
<1>5. f \in Injection(S, 0..last)
  <2> HIDE DEF rank
  <2> QED
    BY <1>2, <1>4 DEF Injection, IsInjective
<1>6. IsFiniteSet(0..last) /\ Cardinality(0..last) = Cardinality(S)
  <2>1. last \in Int /\ last - 0 + 1 = Cardinality(S) /\ (0 > last <=> Cardinality(S) = 0)
    BY <1>1
  <2> HIDE DEF last
  <2> QED
    BY <2>1, FS_Interval
<1>7. f \in Surjection(S, 0..last)
  <2> HIDE DEF f, last
  <2> QED
    BY <1>5, <1>6, FS_Injection
<1>8. {rank(x) : x \in S} = 0..last
  <2> HIDE DEF rank, last
  <2>1. \A i \in 0..last : \E x \in S : rank(x) = i
    BY <1>7 DEF Surjection
  <2>2. \A x \in S : rank(x) \in 0..last
    BY <1>2
  <2> HIDE DEF f
  <2> QED
    BY <2>1, <2>2
<1>9. \A x, y \in S : rank(x) < rank(y) => <<x, y>> \in R
  <2> HIDE DEF rank
  <2> TAKE x, y \in S
  <2> HAVE rank(x) < rank(y)
  <2>1. <<y, x>> \in R => rank(y) < rank(x)
    BY <1>3
  <2>2. x # y
    BY <1>10
  <2> QED
    BY <1>10, <2>1, <2>2
<1> QED
  BY <1>3, <1>8, <1>9

\* Arranging positions by the number of positions before them follows the order.
LEMMA Arranged ==
  ASSUME NEW n \in Nat, NEW R,
         \A i \in 1..n : <<i, i>> \notin R,
         \A i, j \in 1..n : i # j => <<i, j>> \in R \/ <<j, i>> \in R,
         \A i, j, k \in 1..n : <<i, j>> \in R /\ <<j, k>> \in R => <<i, k>> \in R
  PROVE  LET first(i) == {j \in 1..n : <<j, i>> \in R \/ j = i}
             at(k) == CHOOSE i \in 1..n : Cardinality(first(i)) = k
         IN  /\ \A k \in 1..n : at(k) \in 1..n
             /\ \A i \in 1..n : \E k \in 1..n : at(k) = i
             /\ \A k, l \in 1..n : k < l => <<at(k), at(l)>> \in R
<1> DEFINE S == 1..n
           below(i) == {j \in S : <<j, i>> \in R}
           rank(i) == Cardinality(below(i))
           first(i) == {j \in S : <<j, i>> \in R \/ j = i}
           at(k) == CHOOSE i \in S : Cardinality(first(i)) = k
<1>1. IsFiniteSet(S) /\ Cardinality(S) = n
  BY FS_Interval
<1>2. /\ {rank(x) : x \in S} = 0..(n - 1)
      /\ \A x, y \in S : <<x, y>> \in R <=> rank(x) < rank(y)
  <2> HIDE DEF S
  <2>1. {rank(x) : x \in S} = 0..(Cardinality(S) - 1)
      /\ \A x, y \in S : <<x, y>> \in R <=> rank(x) < rank(y)
    BY <1>1, Ranks DEF S
  <2> QED
    BY <1>1, <2>1
<1>3. ASSUME NEW i \in S PROVE Cardinality(first(i)) = rank(i) + 1
  <2>1. first(i) = below(i) \cup {i} /\ i \notin below(i) /\ below(i) \in SUBSET S
    OBVIOUS
  <2>2. IsFiniteSet(below(i))
    <3> HIDE DEF S, below
    <3> QED
      BY <1>1, <2>1, FS_Subset
  <2> HIDE DEF below, first
  <2> QED
    BY <2>1, <2>2, FS_AddElement
<1>4. \A i \in S : rank(i) \in 0..(n - 1)
  <2> HIDE DEF rank, S
  <2> QED
    BY <1>2
<1>5. \A k \in S : \E i \in S : rank(i) + 1 = k
  <2> HIDE DEF rank
  <2> TAKE k \in S
  <2>1. k - 1 \in 0..(n - 1)
    OBVIOUS
  <2>2. PICK i \in S : rank(i) = k - 1
    <3> HIDE DEF S
    <3> QED
      BY <1>2, <2>1
  <2> QED
    BY <2>2
<1> HIDE DEF first, rank
<1>6. ASSUME NEW k \in S PROVE at(k) \in S /\ rank(at(k)) + 1 = k
  <2>1. \E i \in S : Cardinality(first(i)) = k
    BY <1>3, <1>5
  <2>2. at(k) \in S /\ Cardinality(first(at(k))) = k
    <3> HIDE DEF S
    <3> QED
      BY <2>1
  <2> HIDE DEF at
  <2> QED
    BY <1>3, <2>2
<1> HIDE DEF at
<1>7. ASSUME NEW i \in S PROVE \E k \in S : at(k) = i
  <2> DEFINE k == rank(i) + 1
  <2>1. rank(i) \in 0..(n - 1)
    BY <1>4
  <2>2. k \in S
    BY <2>1
  <2>3. at(k) \in S /\ rank(at(k)) + 1 = rank(i) + 1
    BY <1>6, <2>2
  <2>4. rank(at(k)) = rank(i)
    <3>1. rank(at(k)) \in 0..(n - 1)
      BY <1>4, <2>3
    <3> HIDE DEF k
    <3> QED
      BY <2>1, <2>3, <3>1
  <2>5. ~(rank(i) < rank(i))
    BY <2>1
  <2> HIDE DEF k
  <2>6. ~(<<at(k), i>> \in R) /\ ~(<<i, at(k)>> \in R)
    BY <1>2, <2>3, <2>4, <2>5
  <2>7. at(k) = i
    BY <2>3, <2>6
  <2> QED
    BY <2>2, <2>7
<1>8. ASSUME NEW k \in S, NEW l \in S, k < l PROVE <<at(k), at(l)>> \in R
  <2>1. at(k) \in S /\ at(l) \in S /\ rank(at(k)) + 1 = k /\ rank(at(l)) + 1 = l
    BY <1>6
  <2>2. rank(at(k)) \in 0..(n - 1) /\ rank(at(l)) \in 0..(n - 1)
    BY <1>4, <2>1
  <2>3. rank(at(k)) < rank(at(l))
    <3> DEFINE a == rank(at(k))
               b == rank(at(l))
    <3>1. a \in Int /\ b \in Int /\ a + 1 = k /\ b + 1 = l
      BY <2>1, <2>2
    <3> HIDE DEF a, b
    <3>2. a < b
      BY <1>8, <3>1
    <3> QED
      BY <3>2 DEF a, b
  <2> QED
    BY <1>2, <2>1, <2>3
<1> HIDE DEF S
<1> QED
  BY <1>6, <1>7, <1>8 DEF S, at, first

--------------------------------------------------------------------------------
(***************************************************************************)
(* A fold from the left is the value, at the whole domain, of a function on *)
(* the sets of positions that takes the last position off.                  *)
(***************************************************************************)
IsFoldOf(it, g, base, D) ==
  /\ D \subseteq Nat /\ IsFiniteSet(D)
  /\ it = [s \in SUBSET D |-> IF s = {} THEN base ELSE g[<<it[s \ {Max(s)}], Max(s)>>]]

LEMMA MaxIsIn ==
  ASSUME NEW S \in SUBSET Nat, IsFiniteSet(S), S # {}
  PROVE  Max(S) \in S
<1> DEFINE Above(n) == {m \in S : m >= n}
           T == {Above(n) : n \in S}
<1>1. T \in SUBSET (SUBSET S) /\ T # {}
  OBVIOUS
<1>2. PICK s \in T : \A t \in SUBSET s : t # s => t \notin T
  <2> HIDE DEF T
  <2> QED
    BY <1>1, SmallestSet
<1>3. PICK n \in S : s = Above(n)
  BY <1>2
<1>4. \A m \in S : n >= m
  <2> SUFFICES ASSUME NEW m \in S, m > n PROVE FALSE
    OBVIOUS
  <2>1. Above(m) \subseteq Above(n)
    <3> SUFFICES ASSUME NEW k \in Above(m) PROVE k >= n
      OBVIOUS
    <3>1. k \in Int /\ m \in Int /\ n \in Int /\ k >= m /\ m > n
      OBVIOUS
    <3> QED
      BY ONLY <3>1
  <2>2. n \in Above(n) /\ n \notin Above(m) /\ Above(m) \in T
    OBVIOUS
  <2> HIDE DEF T, Above
  <2> QED
    BY <1>2, <1>3, <2>1, <2>2
<1> QED
  BY <1>4 DEF Max

LEMMA FoldsAgree ==
  ASSUME NEW g, NEW base, NEW A, NEW B, NEW i, NEW j,
         IsFoldOf(i, g, base, A), IsFoldOf(j, g, base, B),
         NEW C, C \subseteq A, C \subseteq B
  PROVE  i[C] = j[C]
<1> DEFINE Bad == {s \in SUBSET A : s \subseteq B /\ i[s] # j[s]}
<1> SUFFICES Bad = {}
  OBVIOUS
<1> SUFFICES ASSUME Bad # {} PROVE FALSE
  OBVIOUS
<1>1. Bad \in SUBSET (SUBSET A) /\ IsFiniteSet(A) /\ A \subseteq Nat
  BY DEF IsFoldOf
<1>2. PICK s \in Bad : \A t \in SUBSET s : t # s => t \notin Bad
  <2> HIDE DEF Bad
  <2> QED
    BY <1>1, SmallestSet
<1> DEFINE m == Max(s)
           r == s \ {m}
<1>3. s \in SUBSET A /\ s \in SUBSET B /\ i[s] # j[s]
  BY <1>2
<1>4. s # {}
  BY <1>3 DEF IsFoldOf
<1>5. m \in s
  BY <1>1, <1>3, <1>4, FS_Subset, MaxIsIn
<1>6. r \in SUBSET A /\ r \subseteq B /\ r \subseteq s /\ r # s
  BY <1>3, <1>5
<1>7. i[r] = j[r]
  BY <1>2, <1>6
<1>8. i[s] = g[<<i[r], m>>] /\ j[s] = g[<<j[r], m>>]
  BY <1>3, <1>4 DEF IsFoldOf
<1> QED
  BY <1>3, <1>7, <1>8

LEMMA FoldExists ==
  ASSUME NEW g, NEW base, NEW D \in SUBSET Nat, IsFiniteSet(D)
  PROVE  \E it : IsFoldOf(it, g, base, D)
<1> DEFINE Has(s) == \E it : IsFoldOf(it, g, base, s)
           Bad == {s \in SUBSET D : ~Has(s)}
<1> SUFFICES Bad = {}
  OBVIOUS
<1> SUFFICES ASSUME Bad # {} PROVE FALSE
  OBVIOUS
<1>1. Bad \in SUBSET (SUBSET D)
  OBVIOUS
<1>2. PICK s \in Bad : \A t \in SUBSET s : t # s => t \notin Bad
  <2> HIDE DEF Bad
  <2> QED
    BY <1>1, SmallestSet
<1>3. s \in SUBSET D /\ ~Has(s) /\ \A t \in SUBSET s : t # s => Has(t)
  BY <1>2
<1> HIDE DEF Bad
<1> DEFINE val(t) == (CHOOSE it : IsFoldOf(it, g, base, t))[t]
           it == [t \in SUBSET s |-> IF t = {} THEN base ELSE g[<<val(t \ {Max(t)}), Max(t)>>]]
<1>4. \A t \in SUBSET s : IsFiniteSet(t) /\ t \in SUBSET Nat
  BY <1>3, FS_Subset
<1>5. \A t \in SUBSET s : t # s => \E x : IsFoldOf(x, g, base, t) /\ val(t) = x[t]
  BY <1>3
<1>6. \A t \in SUBSET s : t # {} => /\ Max(t) \in t /\ t \ {Max(t)} \in SUBSET s
                                   /\ t \ {Max(t)} # t /\ t \ {Max(t)} # s
  <2> TAKE t \in SUBSET s
  <2> HAVE t # {}
  <2>1. Max(t) \in t
    BY <1>4, MaxIsIn
  <2> QED
    BY <2>1
<1>7. ASSUME NEW t \in SUBSET s, t # s PROVE it[t] = val(t)
  <2>1. PICK x : IsFoldOf(x, g, base, t) /\ val(t) = x[t]
    BY <1>5, <1>7
  <2>2. CASE t = {}
    BY <2>1, <2>2 DEF IsFoldOf
  <2>3. CASE t # {}
    <3> DEFINE r == t \ {Max(t)}
    <3>1. r \in SUBSET s /\ r # s /\ r \subseteq t
      BY <1>6, <2>3
    <3>2. PICK y : IsFoldOf(y, g, base, r) /\ val(r) = y[r]
      BY <1>5, <3>1
    <3>3. x[r] = y[r]
      <4> HIDE DEF r, val, it
      <4> QED
        BY <2>1, <3>1, <3>2, FoldsAgree
    <3>4. x[t] = g[<<x[r], Max(t)>>]
      BY <2>1, <2>3 DEF IsFoldOf
    <3>5. it[t] = g[<<val(r), Max(t)>>]
      BY <2>3
    <3> HIDE DEF val, it
    <3> QED
      BY <2>1, <3>2, <3>3, <3>4, <3>5
  <2> QED
    BY <2>2, <2>3
<1>8. IsFoldOf(it, g, base, s)
  <2>1. \A t \in SUBSET s : t # {} => val(t \ {Max(t)}) = it[t \ {Max(t)}]
    <3> HIDE DEF it, val
    <3> QED
      BY <1>6, <1>7
  <2>2. \A t \in SUBSET s :
          (IF t = {} THEN base ELSE g[<<val(t \ {Max(t)}), Max(t)>>])
            = (IF t = {} THEN base ELSE g[<<it[t \ {Max(t)}], Max(t)>>])
    <3> HIDE DEF it, val
    <3> QED
      BY <2>1
  <2>3. it = [t \in SUBSET s |-> IF t = {} THEN base ELSE g[<<it[t \ {Max(t)}], Max(t)>>]]
    <3> DEFINE a(t) == IF t = {} THEN base ELSE g[<<val(t \ {Max(t)}), Max(t)>>]
               b(t) == IF t = {} THEN base ELSE g[<<it[t \ {Max(t)}], Max(t)>>]
    <3>1. it = [t \in SUBSET s |-> a(t)] /\ \A t \in SUBSET s : a(t) = b(t)
      BY <2>2
    <3> HIDE DEF a, b, it
    <3>2. it = [t \in SUBSET s |-> b(t)]
      BY <3>1
    <3> QED
      BY <3>2 DEF b
  <2>4. s \subseteq Nat /\ IsFiniteSet(s)
    BY <1>4
  <2> HIDE DEF it
  <2> QED
    BY <2>3, <2>4 DEF IsFoldOf
<1> QED
  BY <1>3, <1>8

LEMMA FoldStays ==
  ASSUME NEW Acc, NEW D \in SUBSET Nat, IsFiniteSet(D), NEW base \in Acc,
         NEW g \in [Acc \X D -> Acc], NEW it, IsFoldOf(it, g, base, D)
  PROVE  \A s \in SUBSET D : it[s] \in Acc
<1> DEFINE Bad == {s \in SUBSET D : it[s] \notin Acc}
<1> SUFFICES ASSUME Bad # {} PROVE FALSE
  OBVIOUS
<1>1. Bad \in SUBSET (SUBSET D)
  OBVIOUS
<1>2. PICK s \in Bad : \A t \in SUBSET s : t # s => t \notin Bad
  <2> HIDE DEF Bad
  <2> QED
    BY <1>1, SmallestSet
<1>3. s # {}
  BY <1>2 DEF IsFoldOf
<1>4. Max(s) \in s /\ s \in SUBSET D
  <2>1. IsFiniteSet(s) /\ s \in SUBSET Nat
    BY <1>2, FS_Subset
  <2> QED
    BY <1>2, <1>3, <2>1, MaxIsIn
<1>5. s \ {Max(s)} \in SUBSET D /\ s \ {Max(s)} \subseteq s /\ s \ {Max(s)} # s
  BY <1>4
<1>6. it[s \ {Max(s)}] \in Acc
  BY <1>2, <1>5
<1>7. it[s] = g[<<it[s \ {Max(s)}], Max(s)>>]
  BY <1>3, <1>4 DEF IsFoldOf
<1>8. <<it[s \ {Max(s)}], Max(s)>> \in Acc \X D
  BY <1>4, <1>6
<1> QED
  BY <1>2, <1>7, <1>8

\* Step by step: the values a fold from the left comes to.
Accumulates(acc, g, base, n) ==
  acc[0] = base /\ \A i \in 1..n : acc[i] = g[<<acc[i - 1], i>>]

LEMMA Accumulation ==
  ASSUME NEW n \in Nat, NEW g, NEW base, NEW it, IsFoldOf(it, g, base, 1..n)
  PROVE  Accumulates([i \in 0..n |-> it[1..i]], g, base, n)
<1> DEFINE acc == [i \in 0..n |-> it[1..i]]
<1>1. acc[0] = base
  BY DEF IsFoldOf
<1>2. ASSUME NEW i \in 1..n PROVE acc[i] = g[<<acc[i - 1], i>>]
  <2>1. i \in Nat /\ i > 0 /\ i \in 0..n /\ i - 1 \in 0..n
    OBVIOUS
  <2>2. Max(1..i) = i /\ (1..i) \ {i} = 1..(i - 1)
    BY <2>1, IntervalMax
  <2>3. 1..i \in SUBSET (1..n) /\ 1..i # {}
    <3>1. \A j \in 1..i : j \in 1..n
      BY <2>1
    <3>2. 1 \in 1..i
      BY <2>1
    <3> QED
      BY <3>1, <3>2
  <2>4. it[1..i] = g[<<it[1..(i - 1)], i>>]
    BY <2>2, <2>3 DEF IsFoldOf
  <2> QED
    BY <2>1, <2>4
<1> HIDE DEF acc
<1>3. Accumulates(acc, g, base, n)
  BY <1>1, <1>2 DEF Accumulates
<1> QED
  BY <1>3 DEF acc

\* The same of any function that takes the last position off while it stays in Acc.
TakesLast(f, g, base, Acc, n) ==
  /\ f[{}] = base
  /\ \A s \in SUBSET (1..n) :
       s # {} /\ f[s \ {Max(s)}] \in Acc => f[s] = g[<<f[s \ {Max(s)}], Max(s)>>]

LEMMA FoldAccumulates ==
  ASSUME NEW n \in Nat, NEW Acc, NEW base \in Acc, NEW g \in [Acc \X (1..n) -> Acc], NEW f,
         TakesLast(f, g, base, Acc, n)
  PROVE  LET acc == [i \in 0..n |-> f[1..i]]
         IN  Accumulates(acc, g, base, n) /\ \A i \in 0..n : acc[i] \in Acc
<1> DEFINE acc == [i \in 0..n |-> f[1..i]]
           P == {i \in 0..n : f[1..i] \in Acc}
<1>1. ASSUME NEW i \in 1..n
      PROVE  /\ i - 1 \in 0..n /\ i \in 0..n
             /\ f[1..(i - 1)] \in Acc => f[1..i] = g[<<f[1..(i - 1)], i>>]
  <2>1. i \in Nat /\ i > 0 /\ i \in 0..n /\ i - 1 \in 0..n
    OBVIOUS
  <2>2. Max(1..i) = i /\ (1..i) \ {i} = 1..(i - 1)
    BY <2>1, IntervalMax
  <2>3. 1..i \in SUBSET (1..n) /\ 1..i # {}
    <3>1. \A j \in 1..i : j \in 1..n
      BY <2>1
    <3>2. 1 \in 1..i
      BY <2>1
    <3> QED
      BY <3>1, <3>2
  <2> QED
    BY <2>1, <2>2, <2>3 DEF TakesLast
<1>2. f[1..0] = base /\ 0 \in P
  <2>1. 1..0 = {}
    OBVIOUS
  <2> QED
    BY <2>1 DEF TakesLast
<1>3. ASSUME NEW i \in 0..(n - 1), i \in P PROVE i + 1 \in P
  <2> DEFINE k == i + 1
  <2>1. k \in 1..n /\ k - 1 = i
    OBVIOUS
  <2> HIDE DEF k
  <2>2. f[1..(k - 1)] \in Acc
    BY <1>3, <2>1
  <2>3. f[1..k] = g[<<f[1..(k - 1)], k>>] /\ k \in 0..n
    BY <1>1, <2>1, <2>2
  <2>4. <<f[1..(k - 1)], k>> \in Acc \X (1..n)
    BY <2>1, <2>2
  <2>5. f[1..k] \in Acc
    BY <2>3, <2>4
  <2> QED
    BY <2>3, <2>5 DEF k
<1>4. \A i \in 0..n : i \in P
  <2> HIDE DEF P
  <2> QED
    BY <1>2, <1>3, InductionTo
<1>5. \A i \in 1..n : acc[i] = g[<<acc[i - 1], i>>]
  BY <1>1, <1>4
<1>6. acc[0] = base
  BY <1>2
<1> HIDE DEF acc
<1>7. Accumulates(acc, g, base, n)
  BY <1>5, <1>6 DEF Accumulates
<1> QED
  BY <1>4, <1>7 DEF acc
====================================================================================

------------------------ MODULE TopologyAwarePolicy_proofs ------------------------
(***************************************************************************)
(* Theorems about the topology-aware policy, for every machine and every   *)
(* set of requests that satisfies the named assumptions.                   *)
(***************************************************************************)
EXTENDS SortAndScan, FiniteInduction

--------------------------------------------------------------------------------
(***************************************************************************)
(* Sums over finite sets: SumFunctionOnSet of the library is a fold, which *)
(* takes the elements one after the other as CHOOSE picks them.  The       *)
(* lemmas say that the order does not matter.                              *)
(***************************************************************************)

\* The element that a fold takes first, and the recursion it stands for.
AnyOf(S) == CHOOSE x \in S : TRUE

IsSum(it, f, S) ==
  it = [s \in SUBSET S |-> IF s = {} THEN 0 ELSE f[AnyOf(s)] + it[s \ {AnyOf(s)}]]

\* A sum is the value of a chosen solution of the recursion.
LEMMA SumIsChosen ==
  ASSUME NEW f, NEW S
  PROVE  SumFunctionOnSet(f, S) = (CHOOSE it : IsSum(it, f, S))[S]
  BY Zenon DEF SumFunctionOnSet, FoldFunctionOnSet, MapThenFoldSet, IsSum, AnyOf


\* Two functions that obey the recursion agree wherever both are defined.
LEMMA SumsAgree ==
  ASSUME NEW f, NEW A, NEW B, IsFiniteSet(A), NEW i, NEW j, IsSum(i, f, A), IsSum(j, f, B),
         NEW S, S \subseteq A, S \subseteq B
  PROVE  i[S] = j[S]
<1> DEFINE Bad == {s \in SUBSET A : s \subseteq B /\ i[s] # j[s]}
<1>1. ASSUME Bad # {} PROVE FALSE
  <2>1. PICK s \in Bad : \A t \in SUBSET s : t # s => t \notin Bad
    <3>1. Bad \in SUBSET (SUBSET A)
      OBVIOUS
    <3> HIDE DEF Bad
    <3> QED
      BY <1>1, <3>1, SmallestSet
  <2>2. s # {} /\ i[s] = f[AnyOf(s)] + i[s \ {AnyOf(s)}] /\ j[s] = f[AnyOf(s)] + j[s \ {AnyOf(s)}]
    BY <2>1 DEF IsSum
  <2>3. AnyOf(s) \in s
    BY <2>2 DEF AnyOf
  <2>4. s \ {AnyOf(s)} \in SUBSET s /\ s \ {AnyOf(s)} # s /\ s \ {AnyOf(s)} \subseteq A
        /\ s \ {AnyOf(s)} \subseteq B
    BY <2>1, <2>3
  <2>5. i[s \ {AnyOf(s)}] = j[s \ {AnyOf(s)}]
    BY <2>1, <2>4
  <2> QED
    BY <2>1, <2>2, <2>5
<1> QED
  BY <1>1

\* Any solution gives the sum,
LEMMA SumIsSum ==
  ASSUME NEW f, NEW S, IsFiniteSet(S), NEW it, IsSum(it, f, S)
  PROVE  SumFunctionOnSet(f, S) = it[S]
<1>1. IsSum(CHOOSE i : IsSum(i, f, S), f, S)
  OBVIOUS
<1> QED
  BY <1>1, SumIsChosen, SumsAgree

\* and there is one for every finite set.
LEMMA SumExists ==
  ASSUME NEW f, NEW S, IsFiniteSet(S)
  PROVE  \E it : IsSum(it, f, S)
<1> DEFINE Bad == {s \in SUBSET S : ~ \E it : IsSum(it, f, s)}
<1>1. ASSUME Bad # {} PROVE FALSE
  <2>1. PICK s \in Bad : \A t \in SUBSET s : t # s => t \notin Bad
    <3>1. Bad \in SUBSET (SUBSET S)
      OBVIOUS
    <3> HIDE DEF Bad
    <3> QED
      BY <1>1, <3>1, SmallestSet
  <2> DEFINE it == [t \in SUBSET s |->
                      IF t = {} THEN 0
                      ELSE f[AnyOf(t)] + SumFunctionOnSet(f, t \ {AnyOf(t)})]
  <2>2. \A t \in SUBSET s : t # s => \E i : IsSum(i, f, t)
    BY <2>1
  <2>3. \A t \in SUBSET s : IsFiniteSet(t)
    BY <2>1, FS_Subset
  <2>4. ASSUME NEW t \in SUBSET s, t # s PROVE it[t] = SumFunctionOnSet(f, t)
    <3>1. PICK i : IsSum(i, f, t)
      BY <2>2, <2>4
    <3>2. SumFunctionOnSet(f, t) = i[t]
      BY <2>3, <3>1, SumIsSum
    <3>3. CASE t = {}
      BY <3>1, <3>2, <3>3 DEF IsSum
    <3>4. CASE t # {}
      <4>1. AnyOf(t) \in t
        BY <3>4 DEF AnyOf
      <4>2. i[t] = f[AnyOf(t)] + i[t \ {AnyOf(t)}]
        BY <3>1, <3>4 DEF IsSum
      <4>3. t \ {AnyOf(t)} \in SUBSET s /\ t \ {AnyOf(t)} # s /\ t \ {AnyOf(t)} \subseteq t
        BY <4>1
      <4>4. PICK j : IsSum(j, f, t \ {AnyOf(t)})
        BY <2>2, <4>3
      <4>5. SumFunctionOnSet(f, t \ {AnyOf(t)}) = j[t \ {AnyOf(t)}]
        BY <2>3, <4>3, <4>4, SumIsSum
      <4>6. j[t \ {AnyOf(t)}] = i[t \ {AnyOf(t)}]
        BY <2>3, <3>1, <4>3, <4>4, SumsAgree
      <4> QED
        BY <3>2, <3>4, <4>2, <4>5, <4>6
    <3> QED
      BY <3>3, <3>4
  <2>5. \A t \in SUBSET s : t # {} => /\ t \ {AnyOf(t)} \in SUBSET s
                                     /\ t \ {AnyOf(t)} # s
    BY DEF AnyOf
  <2>6. \A t \in SUBSET s :
          it[t] = IF t = {} THEN 0 ELSE f[AnyOf(t)] + it[t \ {AnyOf(t)}]
    <3> SUFFICES ASSUME NEW t \in SUBSET s, t # {}
                 PROVE  it[t] = f[AnyOf(t)] + it[t \ {AnyOf(t)}]
      OBVIOUS
    <3>1. it[t \ {AnyOf(t)}] = SumFunctionOnSet(f, t \ {AnyOf(t)})
      BY <2>4, <2>5
    <3> QED
      BY <3>1
  <2>7. IsSum(it, f, s)
    <3> DEFINE body == [t \in SUBSET s |-> IF t = {} THEN 0 ELSE f[AnyOf(t)] + it[t \ {AnyOf(t)}]]
    <3>1. it = body
      <4> it \in [SUBSET s -> {it[t] : t \in SUBSET s}]
        OBVIOUS
      <4>1. DOMAIN it = SUBSET s /\ DOMAIN body = SUBSET s
        OBVIOUS
      <4>2. \A t \in SUBSET s : it[t] = body[t]
        BY <2>6
      <4> QED
        BY <2>6
    <3> HIDE DEF it
    <3> QED
      BY <3>1 DEF IsSum
  <2> QED
    BY <2>1, <2>7
<1> QED
  BY <1>1

\* The sum over the empty set is zero.
LEMMA SumEmpty == ASSUME NEW f PROVE SumFunctionOnSet(f, {}) = 0
<1>1. IsFiniteSet({})
  BY FS_EmptySet
<1>2. PICK it : IsSum(it, f, {})
  BY <1>1, SumExists
<1>3. it[{}] = 0
  BY <1>2 DEF IsSum
<1> QED
  BY <1>1, <1>2, <1>3, SumIsSum

\* The recursion, for the element that CHOOSE picks.
LEMMA SumStep ==
  ASSUME NEW f, NEW S, IsFiniteSet(S), S # {}
  PROVE  SumFunctionOnSet(f, S) = f[AnyOf(S)] + SumFunctionOnSet(f, S \ {AnyOf(S)})
<1>1. PICK it : IsSum(it, f, S)
  BY SumExists
<1>2. it[S] = f[AnyOf(S)] + it[S \ {AnyOf(S)}]
  BY <1>1 DEF IsSum
<1>3. IsFiniteSet(S \ {AnyOf(S)})
  BY FS_RemoveElement
<1>4. PICK jt : IsSum(jt, f, S \ {AnyOf(S)})
  BY <1>3, SumExists
<1>5. jt[S \ {AnyOf(S)}] = it[S \ {AnyOf(S)}]
  <2>1. S \ {AnyOf(S)} \subseteq S
    OBVIOUS
  <2> QED
    BY <1>1, <1>3, <1>4, <2>1, SumsAgree
<1> QED
  BY <1>1, <1>2, <1>3, <1>4, <1>5, SumIsSum

\* A sum of integers is an integer.
LEMMA SumType ==
  ASSUME NEW f, NEW S, IsFiniteSet(S), \A x \in S : f[x] \in Int
  PROVE  SumFunctionOnSet(f, S) \in Int
<1> DEFINE Bad == {s \in SUBSET S : SumFunctionOnSet(f, s) \notin Int}
<1>1. ASSUME Bad # {} PROVE FALSE
  <2>1. PICK s \in Bad : \A t \in SUBSET s : t # s => t \notin Bad
    <3>1. Bad \in SUBSET (SUBSET S)
      OBVIOUS
    <3> HIDE DEF Bad
    <3> QED
      BY <1>1, <3>1, SmallestSet
  <2>2. s # {} /\ IsFiniteSet(s)
    <3>1. SumFunctionOnSet(f, {}) \in Int
      BY SumEmpty
    <3> QED
      BY <2>1, <3>1, FS_Subset
  <2>3. AnyOf(s) \in s /\ f[AnyOf(s)] \in Int
    BY <2>1, <2>2 DEF AnyOf
  <2>4. SumFunctionOnSet(f, s \ {AnyOf(s)}) \in Int
    BY <2>1, <2>3
  <2> QED
    BY <2>1, <2>2, <2>3, <2>4, SumStep
<1> QED
  BY <1>1

\* Any element of the set can be taken out of the sum.
LEMMA SumRemove ==
  ASSUME NEW f, NEW S, IsFiniteSet(S), \A x \in S : f[x] \in Int, NEW x \in S
  PROVE  SumFunctionOnSet(f, S) = f[x] + SumFunctionOnSet(f, S \ {x})
<1> DEFINE Splits(s, y) == SumFunctionOnSet(f, s) = f[y] + SumFunctionOnSet(f, s \ {y})
<1> DEFINE Bad == {s \in SUBSET S : \E y \in s : ~Splits(s, y)}
<1>1. ASSUME Bad # {} PROVE FALSE
  <2>1. PICK s \in Bad : \A t \in SUBSET s : t # s => t \notin Bad
    <3>1. Bad \in SUBSET (SUBSET S)
      OBVIOUS
    <3> HIDE DEF Bad
    <3> QED
      BY <1>1, <3>1, SmallestSet
  <2>2. PICK y \in s : ~Splits(s, y)
    BY <2>1
  <2>3. IsFiniteSet(s) /\ s # {} /\ s \in SUBSET S
    BY <2>1, <2>2, FS_Subset
  <2> DEFINE z == AnyOf(s)
  <2>4. z \in s /\ Splits(s, z)
    BY <2>3, SumStep DEF AnyOf
  <2>5. y # z
    BY <2>2, <2>4
  <2>6. Splits(s \ {z}, y) /\ Splits(s \ {y}, z)
    <3>1. s \ {z} \in SUBSET s /\ s \ {z} # s /\ y \in s \ {z} /\ s \ {z} \in SUBSET S
      BY <2>3, <2>4, <2>5
    <3>2. s \ {y} \in SUBSET s /\ s \ {y} # s /\ z \in s \ {y} /\ s \ {y} \in SUBSET S
      BY <2>2, <2>3, <2>4, <2>5
    <3>3. s \ {z} \notin Bad /\ s \ {y} \notin Bad
      BY <2>1, <3>1, <3>2
    <3> QED
      BY <3>1, <3>2, <3>3
  <2>7. (s \ {z}) \ {y} = (s \ {y}) \ {z}
    OBVIOUS
  <2>8. f[y] \in Int /\ f[z] \in Int
    BY <2>2, <2>3, <2>4
  <2>9. SumFunctionOnSet(f, (s \ {y}) \ {z}) \in Int
    <3>1. (s \ {y}) \ {z} \in SUBSET S
      BY <2>3
    <3>2. IsFiniteSet((s \ {y}) \ {z}) /\ \A w \in (s \ {y}) \ {z} : f[w] \in Int
      BY <3>1, FS_Subset
    <3> QED
      BY <3>2, SumType
  <2> DEFINE rest == SumFunctionOnSet(f, (s \ {y}) \ {z})
  <2>10. /\ SumFunctionOnSet(f, s) = f[z] + (f[y] + rest)
         /\ SumFunctionOnSet(f, s \ {y}) = f[z] + rest
    BY <2>4, <2>6, <2>7
  <2>11. f[z] + (f[y] + rest) = f[y] + (f[z] + rest)
    BY <2>8, <2>9
  <2> QED
    BY <2>2, <2>10, <2>11
<1> QED
  BY <1>1

\* So a new element adds its value.
LEMMA SumAdd ==
  ASSUME NEW f, NEW S, IsFiniteSet(S), NEW x, x \notin S, \A y \in S \cup {x} : f[y] \in Int
  PROVE  SumFunctionOnSet(f, S \cup {x}) = f[x] + SumFunctionOnSet(f, S)
<1>1. IsFiniteSet(S \cup {x}) /\ (S \cup {x}) \ {x} = S
  BY FS_AddElement
<1> QED
  BY <1>1, SumRemove

\* The sum depends on the values in the set only.
LEMMA SumSame ==
  ASSUME NEW f, NEW h, NEW S, IsFiniteSet(S), \A x \in S : f[x] = h[x]
  PROVE  SumFunctionOnSet(f, S) = SumFunctionOnSet(h, S)
<1> DEFINE Bad == {s \in SUBSET S : SumFunctionOnSet(f, s) # SumFunctionOnSet(h, s)}
<1>1. ASSUME Bad # {} PROVE FALSE
  <2>1. PICK s \in Bad : \A t \in SUBSET s : t # s => t \notin Bad
    <3>1. Bad \in SUBSET (SUBSET S)
      OBVIOUS
    <3> HIDE DEF Bad
    <3> QED
      BY <1>1, <3>1, SmallestSet
  <2>2. s # {} /\ IsFiniteSet(s)
    BY <2>1, SumEmpty, FS_Subset
  <2>3. AnyOf(s) \in s
    BY <2>2 DEF AnyOf
  <2>4. /\ f[AnyOf(s)] = h[AnyOf(s)]
        /\ SumFunctionOnSet(f, s \ {AnyOf(s)}) = SumFunctionOnSet(h, s \ {AnyOf(s)})
    BY <2>1, <2>3
  <2>5. SumFunctionOnSet(f, s) = f[AnyOf(s)] + SumFunctionOnSet(f, s \ {AnyOf(s)})
    BY <2>2, SumStep
  <2>6. SumFunctionOnSet(h, s) = h[AnyOf(s)] + SumFunctionOnSet(h, s \ {AnyOf(s)})
    BY <2>2, SumStep
  <2> QED
    BY <2>1, <2>4, <2>5, <2>6
<1> QED
  BY <1>1

\* With natural numbers, a larger set and larger values give a larger sum.
LEMMA SumMonotone ==
  ASSUME NEW f, NEW h, NEW T, IsFiniteSet(T), NEW S \in SUBSET T,
         \A x \in T : h[x] \in Nat,
         \A x \in S : f[x] \in Nat /\ f[x] <= h[x]
  PROVE  SumFunctionOnSet(f, S) <= SumFunctionOnSet(h, T)
<1> DEFINE Bad == {t \in SUBSET T : ~(SumFunctionOnSet(f, t \cap S) <= SumFunctionOnSet(h, t))}
<1>1. ASSUME Bad # {} PROVE FALSE
  <2>1. PICK t \in Bad : \A u \in SUBSET t : u # t => u \notin Bad
    <3>1. Bad \in SUBSET (SUBSET T)
      OBVIOUS
    <3> HIDE DEF Bad
    <3> QED
      BY <1>1, <3>1, SmallestSet
  <2>0. ~(SumFunctionOnSet(f, t \cap S) <= SumFunctionOnSet(h, t))
    BY <2>1
  <2>2. ASSUME t = {} PROVE FALSE
    <3>1. SumFunctionOnSet(f, t) = 0 /\ SumFunctionOnSet(h, t) = 0
      BY <2>2, SumEmpty
    <3>2. t \cap S = t
      BY <2>2
    <3> QED
      BY <2>0, <3>1, <3>2
  <2>3. PICK x \in t : TRUE
    BY <2>2
  <2> DEFINE u == t \ {x}
  <2>4. u \in SUBSET t /\ u # t /\ u \in SUBSET T /\ t \in SUBSET T
    BY <2>1, <2>3
  <2>5. SumFunctionOnSet(f, u \cap S) <= SumFunctionOnSet(h, u)
    BY <2>1, <2>4
  <2>6. IsFiniteSet(t) /\ IsFiniteSet(u) /\ IsFiniteSet(t \cap S) /\ IsFiniteSet(u \cap S)
    <3>1. t \cap S \in SUBSET T /\ u \cap S \in SUBSET T
      BY <2>4
    <3> QED
      BY <2>4, <3>1, FS_Subset
  <2>7. SumFunctionOnSet(h, t) = h[x] + SumFunctionOnSet(h, u)
    <3>1. \A y \in t : h[y] \in Int
      BY <2>4
    <3> QED
      BY <2>6, <3>1, SumRemove
  <2>8. h[x] \in Nat /\ SumFunctionOnSet(h, u) \in Int /\ SumFunctionOnSet(f, u \cap S) \in Int
    <3>1. \A y \in u : h[y] \in Int
      BY <2>4
    <3>2. \A y \in u \cap S : f[y] \in Int
      OBVIOUS
    <3> QED
      BY <2>3, <2>4, <2>6, <3>1, <3>2, SumType
  <2>9. CASE x \in S
    <3>1. x \in t \cap S /\ (t \cap S) \ {x} = u \cap S /\ \A y \in t \cap S : f[y] \in Int
      BY <2>3, <2>9
    <3>2. SumFunctionOnSet(f, t \cap S) = f[x] + SumFunctionOnSet(f, (t \cap S) \ {x})
      BY <2>6, <3>1, SumRemove
    <3>3. f[x] \in Nat /\ f[x] <= h[x]
      BY <2>9
    <3> DEFINE a == SumFunctionOnSet(f, u \cap S)
               b == SumFunctionOnSet(h, u)
    <3>4. ~(f[x] + a <= h[x] + b)
      BY <2>0, <2>7, <3>1, <3>2
    <3>5. a <= b /\ a \in Int /\ b \in Int /\ h[x] \in Nat
      BY <2>5, <2>8
    <3> HIDE DEF a, b
    <3> QED
      BY <3>3, <3>4, <3>5
  <2>10. CASE x \notin S
    <3>1. t \cap S = u \cap S
      BY <2>10
    <3> DEFINE a == SumFunctionOnSet(f, u \cap S)
               b == SumFunctionOnSet(h, u)
    <3>2. ~(a <= h[x] + b)
      BY <2>0, <2>7, <3>1
    <3>3. a <= b /\ a \in Int /\ b \in Int /\ h[x] \in Nat
      BY <2>5, <2>8
    <3> HIDE DEF a, b
    <3> QED
      BY <3>2, <3>3
  <2> QED
    BY <2>9, <2>10
<1>2. T \notin Bad /\ T \cap S = S
  BY <1>1
<1> QED
  BY <1>2

\* A sum of natural numbers is one.
LEMMA SumIsNat ==
  ASSUME NEW f, NEW S, IsFiniteSet(S), \A x \in S : f[x] \in Nat
  PROVE  SumFunctionOnSet(f, S) \in Nat
<1>1. SumFunctionOnSet(f, {}) <= SumFunctionOnSet(f, S)
  <2>1. {} \in SUBSET S
    OBVIOUS
  <2> HIDE DEF SumFunctionOnSet
  <2> QED
    BY <2>1, SumMonotone
<1>2. SumFunctionOnSet(f, S) \in Int
  BY SumType
<1>3. SumFunctionOnSet(f, {}) = 0
  BY SumEmpty
<1> QED
  BY <1>1, <1>2, <1>3

\* A function with one more argument sums up to that much more.
LEMMA TotalAdd ==
  ASSUME NEW f, IsFiniteSet(DOMAIN f), NEW h, NEW x,
         x \notin DOMAIN f, DOMAIN h = DOMAIN f \cup {x},
         \A y \in DOMAIN f : f[y] \in Int /\ h[y] = f[y],
         h[x] \in Int
  PROVE  SumFunction(h) = h[x] + SumFunction(f)
<1>1. SumFunctionOnSet(h, DOMAIN f \cup {x}) = h[x] + SumFunctionOnSet(h, DOMAIN f)
  <2>1. \A y \in DOMAIN f \cup {x} : h[y] \in Int
    OBVIOUS
  <2> QED
    BY <2>1, SumAdd
<1>2. SumFunctionOnSet(h, DOMAIN f) = SumFunctionOnSet(f, DOMAIN f)
  BY SumSame
<1> QED
  BY <1>1, <1>2 DEF SumFunction

\* A sum stays the same when its terms are indexed another way.
LEMMA TotalMoved ==
  ASSUME NEW f, IsFiniteSet(DOMAIN f), \A x \in DOMAIN f : f[x] \in Int,
         NEW h, IsFiniteSet(DOMAIN h),
         NEW m,
         \A x \in DOMAIN f : m[x] \in DOMAIN h /\ h[m[x]] = f[x],
         \A x, y \in DOMAIN f : m[x] = m[y] => x = y,
         \A y \in DOMAIN h : \E x \in DOMAIN f : m[x] = y
  PROVE  SumFunction(f) = SumFunction(h)
<1> DEFINE S == DOMAIN f
<1> DEFINE Image(s) == {m[x] : x \in s}
<1> DEFINE Bad == {s \in SUBSET S : SumFunctionOnSet(f, s) # SumFunctionOnSet(h, Image(s))}
<1>1. ASSUME Bad # {} PROVE FALSE
  <2>1. PICK s \in Bad : \A t \in SUBSET s : t # s => t \notin Bad
    <3>1. Bad \in SUBSET (SUBSET S) /\ IsFiniteSet(S)
      OBVIOUS
    <3> HIDE DEF Bad, S
    <3> QED
      BY <1>1, <3>1, SmallestSet
  <2>2. s \in SUBSET S /\ IsFiniteSet(s)
    BY <2>1, FS_Subset
  <2>3. Image(s) \in SUBSET DOMAIN h /\ IsFiniteSet(Image(s))
    <3>1. Image(s) \in SUBSET DOMAIN h
      BY <2>2
    <3> QED
      BY <3>1, FS_Subset
  <2>4. s # {}
    <3>1. Image({}) = {}
      OBVIOUS
    <3>2. SumFunctionOnSet(f, {}) = SumFunctionOnSet(h, Image({}))
      BY ONLY <3>1, SumEmpty
    <3> QED
      BY <2>1, <3>2
  <2>5. PICK x : x \in s
    BY <2>4
  <2>6. Image(s \ {x}) = Image(s) \ {m[x]} /\ m[x] \in Image(s)
    BY <2>2, <2>5
  <2>7. SumFunctionOnSet(f, s \ {x}) = SumFunctionOnSet(h, Image(s \ {x}))
    BY <2>1, <2>2, <2>5
  <2>8. SumFunctionOnSet(f, s) = f[x] + SumFunctionOnSet(f, s \ {x})
    <3>1. \A y \in s : f[y] \in Int
      BY <2>2
    <3> QED
      BY ONLY <2>2, <2>5, <3>1, SumRemove
  <2>9. SumFunctionOnSet(h, Image(s)) = h[m[x]] + SumFunctionOnSet(h, Image(s) \ {m[x]})
    <3>1. \A y \in Image(s) : h[y] \in Int
      BY <2>2
    <3> HIDE DEF Image
    <3> QED
      BY ONLY <2>3, <2>6, <3>1, SumRemove
  <2>10. h[m[x]] = f[x]
    BY <2>2, <2>5
  <2> QED
    BY <2>1, <2>6, <2>7, <2>8, <2>9, <2>10
<1>2. SumFunctionOnSet(f, S) = SumFunctionOnSet(h, Image(S))
  BY <1>1
<1>3. Image(S) = DOMAIN h
  OBVIOUS
<1> QED
  BY <1>2, <1>3 DEF SumFunction

\* A function on fewer arguments has no greater sum.
LEMMA FewerSum ==
  ASSUME NEW T, IsFiniteSet(T), NEW S \in SUBSET T, NEW f, DOMAIN f = S,
         NEW h, DOMAIN h = T, \A x \in T : h[x] \in Nat, \A x \in S : f[x] = h[x]
  PROVE  SumFunction(f) <= SumFunction(h)
<1>1. \A x \in S : f[x] \in Nat /\ f[x] <= h[x]
  OBVIOUS
<1>2. SumFunctionOnSet(f, S) <= SumFunctionOnSet(h, T)
  BY <1>1, SumMonotone
<1> QED
  BY <1>2 DEF SumFunction

--------------------------------------------------------------------------------
USE PoolsAreNodeIDs, PathsLeadToRoot, PoolResources, NoGrantIsNoGrant

--------------------------------------------------------------------------------
(***************************************************************************)
(* The arithmetic of a supply.                                             *)
(***************************************************************************)

\* SharesToMilliCPU and QuotaToMilliCPU read amounts, never less than nothing.
LEMMA RoundIsNat ==
  ASSUME NEW n \in Nat
  PROVE  Round(n * 1000, 1024) \in Nat /\ Round(n * 1000, 100000) \in Nat
  BY DEF Round

LEMMA ReadAmountsAreNat ==
  ASSUME NEW c, IsContainer(c)
  PROVE  IsRequest(Asked(c)) /\ IsRequest(RebuiltAmounts(ResourcesOf(c)))
<1> DEFINE res == ResourcesOf(c)
<1>1. /\ c.request \in Nat /\ c.limit \in Nat /\ c.memory \in Nat
  BY DEF IsContainer
<1>2. /\ res.shares \in Nat /\ res.quota \in Nat /\ res.memory \in Nat
      /\ res.period = 0 \/ res.period = 100000
  BY <1>1 DEF ResourcesOf, LinuxResources, AtLeast, MinShares, SharesPerCPU, QuotaPeriod,
     MinQuotaPeriod
<1> HIDE DEF res
<1>3. SharesToMilliCPU(res.shares) \in Nat /\ QuotaToMilliCPU(res.quota, res.period) \in Nat
  BY <1>2, RoundIsNat DEF SharesToMilliCPU, QuotaToMilliCPU, SharesPerCPU
<1>4. res.memory \div 1024 \in Nat
  BY <1>2
<1>5. IsRequest(Asked(c))
  BY <1>3, <1>4 DEF IsRequest, Asked, EstimatedRequest, res
<1>6. IsRequest(RebuiltAmounts(res))
  BY <1>2, <1>4, RoundIsNat DEF IsRequest, RebuiltAmounts, SharesPerCPU
<1> QED
  BY <1>5, <1>6 DEF res

\* What the callers of PolicySpec ask for are requests.
LEMMA RequestsAreRequests == \A req \in PolicyRequest : IsRequest(req)
  BY ReadAmountsAreNat, PolicyContainers DEF PolicyRequest

\* The pools' CPUs are CPUs of the machine.
LEMMA PoolCpusInRoot == ASSUME NEW p \in Pool PROVE CpusOf[p] \subseteq CpusOf[Root]
  OBVIOUS

\* The CPUs of a pool in milli-CPUs are a natural number.
LEMMA TotalIsNat == ASSUME NEW p \in Pool PROVE TotalSharedCPU(p) \in Nat
  BY FS_CardinalityType DEF TotalSharedCPU, MilliPerCpu

\* A request becomes a grant of the same amounts.
LEMMA GrantOfType ==
  ASSUME NEW req, IsRequest(req), NEW p \in Pool
  PROVE  GrantOf(req, p) \in Grant
  BY DEF GrantOf, Grant, IsRequest

\* What a rebuild reads from the runtime is a grant too.
LEMMA RebuiltGrantType ==
  ASSUME NEW c, IsContainer(c), NEW p \in Pool
  PROVE  GrantFromContainer(ResourcesOf(c), p) \in Grant
  BY ReadAmountsAreNat, GrantOfType DEF GrantFromContainer

\* supply.Allocate with propagateResourceUsageToParent keeps every counter in
\* its range.
LEMMA ChargeType ==
  ASSUME NEW s \in [Pool -> Supply], NEW g \in Grant
  PROVE  Charge(s, g) \in [Pool -> Supply]
  BY DEF Charge, Add, Supply, Grant

\* So does grant.Release with propagateResourceReleaseToParent.
LEMMA DischargeType ==
  ASSUME NEW s \in [Pool -> Supply], NEW g \in Grant
  PROVE  Discharge(s, g) \in [Pool -> Supply]
<1>1. ASSUME NEW n \in Int PROVE Floor(n) \in Nat
  BY <1>1 DEF Floor
<1>2. ASSUME NEW p \in Pool
      PROVE  SubtractOwn(s[p], g) \in Supply /\ SubtractAncestor(s[p], g) \in Supply
  <2>1. /\ s[p].shared \in Int /\ s[p].byRequest \in Int
        /\ s[p].byLimit \in Int /\ s[p].mem \in Nat
        /\ g.cpu \in Nat /\ g.limit \in Nat /\ g.mem \in Nat
    BY DEF Supply, Grant
  <2> QED
    BY <1>1, <2>1 DEF SubtractOwn, SubtractAncestor, Supply
<1> QED
  BY <1>2 DEF Discharge

--------------------------------------------------------------------------------
(***************************************************************************)
(* The type invariant.                                                     *)
(***************************************************************************)

\* allocatePool keeps the policy's state well typed.
LEMMA AllocateTypeOK ==
  ASSUME PolicyTypeOK, NEW g \in Gid, NEW req, IsRequest(req), NEW p \in Pool,
         AllocatePool(g, req, p)
  PROVE  PolicyTypeOK'
  BY GrantOfType, ChargeType DEF PolicyTypeOK, AllocatePool

\* releasePool keeps the policy's state well typed.
LEMMA ReleaseTypeOK ==
  ASSUME PolicyTypeOK, NEW g \in Gid, ReleasePool(g)
  PROVE  PolicyTypeOK'
  BY DischargeType DEF PolicyTypeOK, ReleasePool, Held, policyVars

\* Rebuilding a container's allocation keeps the policy's state well typed.
LEMMA RebuildTypeOK ==
  ASSUME PolicyTypeOK, NEW g \in Gid, NEW c, IsContainer(c), NEW p \in Pool,
         RebuildContainerAllocation(g, ResourcesOf(c), p)
  PROVE  PolicyTypeOK'
<1>1. GrantFromContainer(ResourcesOf(c), p) \in Grant
  BY RebuiltGrantType
<1> QED
  BY <1>1, ChargeType DEF RebuildContainerAllocation, PolicyTypeOK, policyVars

\* findNodeByCPUSet leads back to a pool with the CPUs of the pool the
\* container was pinned to.
LEMMA RebuildFindsPool ==
  ASSUME NEW p \in Pool, NEW q \in Pool, CpusOf[q] # {}, IsNodeByCPUSet(CpusOf[q], p)
  PROVE  CpusOf[p] = CpusOf[q]
<1>1. CpusOf[q] \subseteq CpusOf[p] /\ Depth(p) >= Depth(q)
  BY DEF IsNodeByCPUSet, DeepestOf, PoolsCovering
<1>2. p \in Path[q] \/ q \in Path[p]
  BY <1>1
<1>3. CASE q \in Path[p]
  BY <1>1, <1>3
<1>4. CASE p \in Path[q] /\ q \notin Path[p]
  <2>1. Path[p] \subseteq Path[q] /\ Path[p] # Path[q] /\ IsFiniteSet(Path[q])
    BY <1>4
  <2>2. /\ Cardinality(Path[p]) <= Cardinality(Path[q])
        /\ Cardinality(Path[p]) # Cardinality(Path[q])
        /\ Cardinality(Path[p]) \in Nat /\ Cardinality(Path[q]) \in Nat
    BY <2>1, FS_Subset, FS_CardinalityType
  <2> QED
    BY <1>1, <2>2 DEF Depth
<1> QED
  BY <1>2, <1>3, <1>4

\* Counters and grants keep their ranges (supply.go, topology_aware.go): the
\* memory counter, in particular, is never negative.
THEOREM PolicyTypeCorrect == PolicySpec => []PolicyTypeOK
<1>1. PolicyInit => PolicyTypeOK
  BY DEF PolicyInit, PolicyTypeOK, Supply, EmptySupply
<1>2. PolicyTypeOK /\ [PolicyNext]_policyVars => PolicyTypeOK'
  <2> SUFFICES ASSUME PolicyTypeOK, [PolicyNext]_policyVars PROVE PolicyTypeOK'
    OBVIOUS
  <2>1. CASE UNCHANGED policyVars
    BY <2>1 DEF PolicyTypeOK, policyVars
  <2>2. ASSUME NEW g \in Gid, NEW req \in PolicyRequest, Allocate(g, req)
        PROVE  PolicyTypeOK'
    BY <2>2, AllocateTypeOK, RequestsAreRequests DEF Allocate
  <2>3. ASSUME NEW g \in Gid, Release(g) PROVE PolicyTypeOK'
    BY <2>3, ReleaseTypeOK DEF Release
  <2> QED
    BY <2>1, <2>2, <2>3 DEF PolicyNext
<1> QED
  BY <1>1, <1>2, PTL DEF PolicySpec

--------------------------------------------------------------------------------
(***************************************************************************)
(* Capacity.                                                               *)
(***************************************************************************)

\* Whatever the order of preference, gpu-first or not, the pool selected is
\* one the filter let through (filterPoolsByCapacity): it and its ancestors
\* have the capacity, or it is the root.
LEMMA SelectedPoolIsFiltered ==
  ASSUME NEW req, NEW p \in Pool, IsBestPool(supply, Colocated, req, p)
  PROVE  p = Root \/ HasCapacity(supply, req, p)
<1>1. p \in FilteredPools(supply, req)
  <2>1. CASE GpuFirst /\ GpuPools(supply, req) # {}
    BY <2>1 DEF IsBestPool, IsGpuChoice, IsFirst, GpuPools
  <2>2. CASE ~(GpuFirst /\ GpuPools(supply, req) # {})
    BY <2>2 DEF IsBestPool, IsRegularChoice, IsFirst, DeepestOf
  <2> QED
    BY <2>1, <2>2
<1> QED
  BY <1>1 DEF FilteredPools

\* An allocation charges only pools whose CPUs still cover the request, the
\* root excepted, which the filter never looks at.
LEMMA ChargeWithinCapacity ==
  ASSUME PolicyTypeOK, NEW req, IsRequest(req), NEW p \in Pool,
         p = Root \/ HasCapacity(supply, req, p),
         NEW q \in Pool \ {Root}, q \in Path[p]
  PROVE  supply[q].byRequest + req.cpu <= TotalSharedCPU(q)
<1>1. p # Root
  OBVIOUS
<1>2. AllocatableCPUByRequest(supply, q) - req.cpu >= 0
  BY <1>1 DEF HasCapacity, CpuFits, BelowRoot
<1>3. supply[q].byRequest \in Int /\ req.cpu \in Int
  BY DEF PolicyTypeOK, Supply, IsRequest
<1>4. TotalSharedCPU(q) \in Int
  BY TotalIsNat
<1> QED
  BY <1>2, <1>3, <1>4 DEF AllocatableCPUByRequest

\* A release never raises a counter, except from below zero to zero (the
\* clamp of propagateResourceReleaseToParent).
LEMMA DischargeBound ==
  ASSUME NEW s \in [Pool -> Supply], NEW g \in Grant, NEW q \in Pool
  PROVE  /\ Discharge(s, g)[q].byRequest \in Int
         /\ \/ Discharge(s, g)[q].byRequest <= s[q].byRequest
            \/ Discharge(s, g)[q].byRequest = 0
<1>1. s[q].byRequest \in Int /\ g.cpu \in Nat
  BY DEF Supply, Grant
<1> QED
  BY <1>1 DEF Discharge, SubtractOwn, SubtractAncestor, Floor

\* A release does not raise a pool's grants above what the pool has.
LEMMA ReleaseWithinCapacity ==
  ASSUME PolicyTypeOK, NEW g \in Gid, ReleasePool(g), NEW q \in Pool,
         supply'[q].byRequest > supply[q].byRequest
  PROVE  supply'[q].byRequest <= TotalSharedCPU(q)
<1>1. CASE ~Held(g)
  BY <1>1 DEF ReleasePool, policyVars, PolicyTypeOK, Supply
<1>2. CASE Held(g)
  <2>1. /\ supply \in [Pool -> Supply] /\ grants[g] \in Grant
        /\ supply' = Discharge(supply, grants[g])
    BY <1>2 DEF ReleasePool, Held, PolicyTypeOK
  <2>2. /\ Discharge(supply, grants[g])[q].byRequest \in Int
        /\ \/ Discharge(supply, grants[g])[q].byRequest <= supply[q].byRequest
           \/ Discharge(supply, grants[g])[q].byRequest = 0
    <3>1. supply \in [Pool -> Supply] /\ grants[g] \in Grant /\ q \in Pool
      BY <2>1
    <3> QED
      BY ONLY <3>1, DischargeBound
  <2>3. supply[q].byRequest \in Int
    BY <2>1 DEF Supply
  <2>4. TotalSharedCPU(q) \in Nat
    BY TotalIsNat
  <2> QED
    BY <2>1, <2>2, <2>3, <2>4
<1> QED
  BY <1>1, <1>2

\* Below the root no pool ever grants more CPU than it has
\* (filterPoolsByCapacity, checkCPUCapacity).
THEOREM CapacityRespected == PolicySpec => []WithinCapacity
<1>1. PolicyInit => WithinCapacity
  BY TotalIsNat DEF PolicyInit, WithinCapacity, EmptySupply
<1>2. PolicyTypeOK /\ WithinCapacity /\ [PolicyNext]_policyVars => WithinCapacity'
  <2> SUFFICES ASSUME PolicyTypeOK, WithinCapacity, [PolicyNext]_policyVars,
                      NEW q \in Pool \ {Root}
               PROVE  supply'[q].byRequest <= TotalSharedCPU(q)
    BY DEF WithinCapacity
  <2>0. /\ supply[q].byRequest <= TotalSharedCPU(q)
        /\ supply[q].byRequest \in Int /\ TotalSharedCPU(q) \in Nat
        /\ supply \in [Pool -> Supply]
    BY TotalIsNat DEF WithinCapacity, PolicyTypeOK, Supply
  <2>1. CASE UNCHANGED policyVars
    BY <2>1, <2>0 DEF policyVars
  <2>2. ASSUME NEW g \in Gid, NEW req \in PolicyRequest, Allocate(g, req)
        PROVE  supply'[q].byRequest <= TotalSharedCPU(q)
    <3>1. IsRequest(req)
      BY RequestsAreRequests
    <3>2. PICK p \in Pool : IsPoolFor(req, FALSE, p) /\ AllocatePool(g, req, p)
      BY <2>2 DEF Allocate
    <3>3. p = Root \/ HasCapacity(supply, req, p)
      BY <3>2, SelectedPoolIsFiltered DEF IsPoolFor
    <3>4. supply' = Charge(supply, GrantOf(req, p))
      BY <3>2 DEF AllocatePool
    <3>5. CASE q \in Path[p]
      <4>1. supply'[q].byRequest = supply[q].byRequest + req.cpu
        BY <3>4, <3>5 DEF Charge, GrantOf, Add
      <4> QED
        BY <4>1, <3>1, <3>3, <3>5, ChargeWithinCapacity
    <3>6. CASE q \notin Path[p]
      BY <3>4, <3>6, <2>0 DEF Charge, GrantOf
    <3> QED
      BY <3>5, <3>6
  <2>3. ASSUME NEW g \in Gid, Release(g)
        PROVE  supply'[q].byRequest <= TotalSharedCPU(q)
    <3>1. grants[g] \in Grant /\ supply' = Discharge(supply, grants[g])
      BY <2>3 DEF Release, ReleasePool, Held, PolicyTypeOK
    <3>2. /\ Discharge(supply, grants[g])[q].byRequest \in Int
          /\ \/ Discharge(supply, grants[g])[q].byRequest <= supply[q].byRequest
             \/ Discharge(supply, grants[g])[q].byRequest = 0
      <4>1. supply \in [Pool -> Supply] /\ grants[g] \in Grant /\ q \in Pool
        BY <2>0, <3>1
      <4> QED
        BY ONLY <4>1, DischargeBound
    <3> QED
      BY <3>1, <3>2, <2>0
  <2> QED
    BY <2>1, <2>2, <2>3 DEF PolicyNext
<1> QED
  BY <1>1, <1>2, PolicyTypeCorrect, PTL DEF PolicySpec

--------------------------------------------------------------------------------
(***************************************************************************)
(* Memory.                                                                 *)
(***************************************************************************)

\* With memory topology enabled, an allocation charges memory only where the
\* filter has found enough of it.
LEMMA ChargeWithinMemory ==
  ASSUME PolicyTypeOK, EnforceMemory, NEW req, IsRequest(req), NEW p \in Pool,
         p = Root \/ HasCapacity(supply, req, p),
         NEW q \in Pool \ {Root}, q \in Path[p],
         supply[q].mem <= MemTotal[q]
  PROVE  supply[q].mem + req.mem <= MemTotal[q]
<1>1. req.mem = 0 \/ AllocatableMemory(supply, q) >= req.mem
  BY DEF HasCapacity, MemoryFits, BelowRoot
<1>2. supply[q].mem \in Nat /\ req.mem \in Nat /\ MemTotal[q] \in Nat
  BY DEF PolicyTypeOK, Supply, IsRequest
<1> QED
  BY <1>1, <1>2 DEF AllocatableMemory

\* With memory topology enabled no pool below the root ever grants more memory
\* than it has (checkMemoryCapacity).
THEOREM MemoryRespected == PolicySpec => []WithinMemory
<1>1. PolicyInit => WithinMemory
  BY DEF PolicyInit, WithinMemory, EmptySupply
<1>2. PolicyTypeOK /\ WithinMemory /\ [PolicyNext]_policyVars => WithinMemory'
  <2> SUFFICES ASSUME PolicyTypeOK, WithinMemory, [PolicyNext]_policyVars,
                      EnforceMemory, NEW q \in Pool \ {Root}
               PROVE  supply'[q].mem <= MemTotal[q]
    BY DEF WithinMemory
  <2>0. /\ supply[q].mem <= MemTotal[q]
        /\ supply[q].mem \in Nat /\ MemTotal[q] \in Nat
        /\ supply \in [Pool -> Supply]
    BY DEF WithinMemory, PolicyTypeOK, Supply
  <2>1. CASE UNCHANGED policyVars
    BY <2>1, <2>0 DEF policyVars
  <2>2. ASSUME NEW g \in Gid, NEW req \in PolicyRequest, Allocate(g, req)
        PROVE  supply'[q].mem <= MemTotal[q]
    <3>1. IsRequest(req)
      BY RequestsAreRequests
    <3>2. PICK p \in Pool : IsPoolFor(req, FALSE, p) /\ AllocatePool(g, req, p)
      BY <2>2 DEF Allocate
    <3>3. p = Root \/ HasCapacity(supply, req, p)
      BY <3>2, SelectedPoolIsFiltered DEF IsPoolFor
    <3>4. supply' = Charge(supply, GrantOf(req, p))
      BY <3>2 DEF AllocatePool
    <3>5. CASE q \in Path[p]
      <4>1. supply'[q].mem = supply[q].mem + req.mem
        BY <3>4, <3>5 DEF Charge, GrantOf, Add
      <4>2. supply[q].mem + req.mem <= MemTotal[q]
        BY <2>0, <3>1, <3>3, <3>5, ChargeWithinMemory
      <4> QED
        BY <4>1, <4>2
    <3>6. CASE q \notin Path[p]
      BY <3>4, <3>6, <2>0 DEF Charge, GrantOf
    <3> QED
      BY <3>5, <3>6
  <2>3. ASSUME NEW g \in Gid, Release(g)
        PROVE  supply'[q].mem <= MemTotal[q]
    <3>1. grants[g] \in Grant /\ supply' = Discharge(supply, grants[g])
      BY <2>3 DEF Release, ReleasePool, Held, PolicyTypeOK
    <3>2. grants[g].mem \in Nat
      BY <3>1 DEF Grant
    <3> QED
      BY <3>1, <3>2, <2>0 DEF Discharge, SubtractOwn, SubtractAncestor, Floor
  <2> QED
    BY <2>1, <2>2, <2>3 DEF PolicyNext
<1> QED
  BY <1>1, <1>2, PolicyTypeCorrect, PTL DEF PolicySpec

--------------------------------------------------------------------------------
(***************************************************************************)
(* The ledger.                                                             *)
(*                                                                         *)
(* It needs the set of grants to be finite, as it is with finitely many    *)
(* allocations, for sums to make sense.                                    *)
(***************************************************************************)

\* What grants add up to are natural numbers.
LEMMA GrantedType ==
  ASSUME NEW table, NEW S, IsFiniteSet(S), \A g \in S : table[g] \in Grant
  PROVE  /\ Granted(table, S).cpu \in Nat
         /\ Granted(table, S).limit \in Nat
         /\ Granted(table, S).mem \in Nat
<1>1. /\ \A g \in S : [h \in S |-> table[h].cpu][g] \in Nat
      /\ \A g \in S : [h \in S |-> table[h].limit][g] \in Nat
      /\ \A g \in S : [h \in S |-> table[h].mem][g] \in Nat
  BY DEF Grant
<1>2. SumFunctionOnSet([h \in S |-> table[h].cpu], S) \in Nat
  BY <1>1, SumIsNat
<1>3. SumFunctionOnSet([h \in S |-> table[h].limit], S) \in Nat
  BY <1>1, SumIsNat
<1>4. SumFunctionOnSet([h \in S |-> table[h].mem], S) \in Nat
  BY <1>1, SumIsNat
<1> QED
  BY <1>2, <1>3, <1>4 DEF Granted, SumFunction

\* One more grant adds its amounts.
LEMMA GrantedAdd ==
  ASSUME NEW table, NEW other, NEW S, IsFiniteSet(S), NEW g, g \notin S,
         \A h \in S : table[h] \in Grant /\ other[h] = table[h],
         other[g] \in Grant
  PROVE  /\ Granted(other, S \cup {g}).cpu = other[g].cpu + Granted(table, S).cpu
         /\ Granted(other, S \cup {g}).limit = other[g].limit + Granted(table, S).limit
         /\ Granted(other, S \cup {g}).mem = other[g].mem + Granted(table, S).mem
<1>0. /\ other[g].cpu \in Int /\ other[g].limit \in Int /\ other[g].mem \in Int
      /\ \A h \in S : table[h].cpu \in Int /\ table[h].limit \in Int /\ table[h].mem \in Int
  BY DEF Grant
<1>1. SumFunction([h \in S \cup {g} |-> other[h].cpu])
        = other[g].cpu + SumFunction([h \in S |-> table[h].cpu])
  <2> DEFINE f == [h \in S |-> table[h].cpu]
             w == [h \in S \cup {g} |-> other[h].cpu]
  <2>1. /\ DOMAIN f = S /\ DOMAIN w = S \cup {g} /\ w[g] = other[g].cpu
        /\ \A h \in S : f[h] \in Int /\ w[h] = f[h]
    BY <1>0
  <2> HIDE DEF f, w
  <2>2. SumFunction(w) = w[g] + SumFunction(f)
    BY <1>0, <2>1, TotalAdd
  <2> QED
    BY <2>1, <2>2 DEF f, w
<1>2. SumFunction([h \in S \cup {g} |-> other[h].limit])
        = other[g].limit + SumFunction([h \in S |-> table[h].limit])
  <2> DEFINE f == [h \in S |-> table[h].limit]
             w == [h \in S \cup {g} |-> other[h].limit]
  <2>1. /\ DOMAIN f = S /\ DOMAIN w = S \cup {g} /\ w[g] = other[g].limit
        /\ \A h \in S : f[h] \in Int /\ w[h] = f[h]
    BY <1>0
  <2> HIDE DEF f, w
  <2>2. SumFunction(w) = w[g] + SumFunction(f)
    BY <1>0, <2>1, TotalAdd
  <2> QED
    BY <2>1, <2>2 DEF f, w
<1>3. SumFunction([h \in S \cup {g} |-> other[h].mem])
        = other[g].mem + SumFunction([h \in S |-> table[h].mem])
  <2> DEFINE f == [h \in S |-> table[h].mem]
             w == [h \in S \cup {g} |-> other[h].mem]
  <2>1. /\ DOMAIN f = S /\ DOMAIN w = S \cup {g} /\ w[g] = other[g].mem
        /\ \A h \in S : f[h] \in Int /\ w[h] = f[h]
    BY <1>0
  <2> HIDE DEF f, w
  <2>2. SumFunction(w) = w[g] + SumFunction(f)
    BY <1>0, <2>1, TotalAdd
  <2> QED
    BY <2>1, <2>2 DEF f, w
<1> QED
  BY <1>1, <1>2, <1>3 DEF Granted

\* A grant of the set is part of what the set adds up to.
LEMMA GrantedRemove ==
  ASSUME NEW table, NEW S, IsFiniteSet(S), \A h \in S : table[h] \in Grant, NEW g \in S
  PROVE  /\ Granted(table, S).cpu = table[g].cpu + Granted(table, S \ {g}).cpu
         /\ Granted(table, S).limit = table[g].limit + Granted(table, S \ {g}).limit
         /\ Granted(table, S).mem = table[g].mem + Granted(table, S \ {g}).mem
<1> DEFINE rest == S \ {g}
<1>1. /\ IsFiniteSet(rest) /\ g \notin rest /\ rest \cup {g} = S /\ table[g] \in Grant
      /\ \A h \in rest : table[h] \in Grant
  BY FS_RemoveElement
<1> HIDE DEF rest
<1>2. /\ Granted(table, rest \cup {g}).cpu = table[g].cpu + Granted(table, rest).cpu
      /\ Granted(table, rest \cup {g}).limit = table[g].limit + Granted(table, rest).limit
      /\ Granted(table, rest \cup {g}).mem = table[g].mem + Granted(table, rest).mem
  BY ONLY <1>1, GrantedAdd
<1> QED
  BY <1>1, <1>2 DEF rest

\* Fewer grants add up to no more.
LEMMA GrantedMonotone ==
  ASSUME NEW table, NEW T, IsFiniteSet(T), \A h \in T : table[h] \in Grant, NEW S \in SUBSET T
  PROVE  /\ Granted(table, S).cpu <= Granted(table, T).cpu
         /\ Granted(table, S).limit <= Granted(table, T).limit
         /\ Granted(table, S).mem <= Granted(table, T).mem
<1>1. ASSUME NEW amount, \A h \in T : amount[h] \in Nat
      PROVE  SumFunction([h \in S |-> amount[h]]) <= SumFunction([h \in T |-> amount[h]])
  <2> DEFINE f == [h \in S |-> amount[h]]
             w == [h \in T |-> amount[h]]
  <2>1. /\ DOMAIN f = S /\ DOMAIN w = T /\ \A h \in T : w[h] \in Nat
        /\ \A h \in S : f[h] \in Nat /\ f[h] <= w[h]
    BY <1>1
  <2> HIDE DEF f, w
  <2>2. SumFunctionOnSet(f, S) <= SumFunctionOnSet(w, T)
    BY <2>1, SumMonotone
  <2>3. SumFunction(f) <= SumFunction(w)
    BY <2>1, <2>2 DEF SumFunction
  <2> QED
    BY <2>3 DEF f, w
<1>2. \A h \in T : table[h].cpu \in Nat /\ table[h].limit \in Nat /\ table[h].mem \in Nat
  BY DEF Grant
<1>3. SumFunction([h \in S |-> table[h].cpu]) <= SumFunction([h \in T |-> table[h].cpu])
  <2> DEFINE amount == [h \in T |-> table[h].cpu]
  <2>1. SumFunction([h \in S |-> amount[h]]) <= SumFunction([h \in T |-> amount[h]])
    BY <1>1, <1>2
  <2>2. [h \in S |-> amount[h]] = [h \in S |-> table[h].cpu]
    OBVIOUS
  <2> QED
    BY <2>1, <2>2
<1>4. SumFunction([h \in S |-> table[h].limit]) <= SumFunction([h \in T |-> table[h].limit])
  <2> DEFINE amount == [h \in T |-> table[h].limit]
  <2>1. SumFunction([h \in S |-> amount[h]]) <= SumFunction([h \in T |-> amount[h]])
    BY <1>1, <1>2
  <2>2. [h \in S |-> amount[h]] = [h \in S |-> table[h].limit]
    OBVIOUS
  <2> QED
    BY <2>1, <2>2
<1>5. SumFunction([h \in S |-> table[h].mem]) <= SumFunction([h \in T |-> table[h].mem])
  <2> DEFINE amount == [h \in T |-> table[h].mem]
  <2>1. SumFunction([h \in S |-> amount[h]]) <= SumFunction([h \in T |-> amount[h]])
    BY <1>1, <1>2
  <2>2. [h \in S |-> amount[h]] = [h \in S |-> table[h].mem]
    OBVIOUS
  <2> QED
    BY <2>1, <2>2
<1> QED
  BY <1>3, <1>4, <1>5 DEF Granted

\* What the grants of a set add up to depends on these grants only.
LEMMA GrantedSame ==
  ASSUME NEW table, NEW other, NEW S, \A h \in S : other[h] = table[h]
  PROVE  Granted(other, S) = Granted(table, S)
<1>1. [h \in S |-> other[h].cpu] = [h \in S |-> table[h].cpu]
  OBVIOUS
<1>2. [h \in S |-> other[h].limit] = [h \in S |-> table[h].limit]
  OBVIOUS
<1>3. [h \in S |-> other[h].mem] = [h \in S |-> table[h].mem]
  OBVIOUS
<1> QED
  BY <1>1, <1>2, <1>3 DEF Granted

\* Nothing adds up to nothing.
LEMMA GrantedNone ==
  ASSUME NEW table
  PROVE  Granted(table, {}) = [cpu |-> 0, limit |-> 0, mem |-> 0]
<1>1. ASSUME NEW f, DOMAIN f = {} PROVE SumFunction(f) = 0
  BY <1>1, SumEmpty DEF SumFunction
<1> QED
  BY <1>1 DEF Granted

HeldFinite == IsFiniteSet({g \in Gid : Held(g)})

\* At or below any pool there are finitely many grants.
LEMMA GrantsUnderFinite ==
  ASSUME HeldFinite, NEW p \in Pool
  PROVE  IsFiniteSet(GrantsUnder(p))
<1>1. GrantsUnder(p) \in SUBSET {g \in Gid : Held(g)}
  BY DEF GrantsUnder
<1> QED
  BY <1>1, FS_Subset DEF HeldFinite

\* A grant under an id that held none enters the books of exactly the pools it is
\* charged to.
LEMMA ChargeLedger ==
  ASSUME PolicyTypeOK, HeldFinite, Ledger, NEW g \in Gid, ~Held(g), NEW gr \in Grant,
         supply' = Charge(supply, gr), grants' = [grants EXCEPT ![g] = gr]
  PROVE  HeldFinite' /\ Ledger'
<1>0. /\ gr # NoGrant /\ grants'[g] = gr /\ grants \in [Gid -> Grant \cup {NoGrant}]
      /\ \A h \in Gid \ {g} : grants'[h] = grants[h]
  BY DEF PolicyTypeOK
<1>1. HeldFinite'
  <2>1. {h \in Gid : Held(h)}' = {h \in Gid : Held(h)} \cup {g}
    BY <1>0 DEF Held
  <2>2. IsFiniteSet({h \in Gid : Held(h)} \cup {g})
    BY FS_AddElement DEF HeldFinite
  <2> QED
    BY <2>1, <2>2 DEF HeldFinite
<1>2. ASSUME NEW p \in Pool
      PROVE  /\ supply'[p].shared = Granted(grants, GrantsUnder(p))'.cpu
             /\ supply'[p].byRequest = Granted(grants, GrantsUnder(p))'.cpu
             /\ supply'[p].byLimit = Granted(grants, GrantsUnder(p))'.limit
             /\ supply'[p].mem = Granted(grants, GrantsUnder(p))'.mem
  <2> DEFINE S == GrantsUnder(p)
             old == Granted(grants, S)
  <2>1. IsFiniteSet(S)
    BY GrantsUnderFinite
  <2>2. g \notin S /\ \A h \in S : h \in Gid /\ grants[h] \in Grant /\ grants'[h] = grants[h]
    BY <1>0 DEF GrantsUnder, Held
  <2>3. /\ supply[p].shared = old.cpu /\ supply[p].byRequest = old.cpu
        /\ supply[p].byLimit = old.limit /\ supply[p].mem = old.mem
    BY DEF Ledger
  <2>4. old.cpu \in Nat /\ old.limit \in Nat /\ old.mem \in Nat
    BY <2>1, <2>2, GrantedType
  <2>5. CASE p \in Path[gr.pool]
    <3>1. GrantsUnder(p)' = S \cup {g}
      BY <1>0, <2>5 DEF GrantsUnder, Held
    <3>2. /\ Granted(grants', S \cup {g}).cpu = gr.cpu + old.cpu
          /\ Granted(grants', S \cup {g}).limit = gr.limit + old.limit
          /\ Granted(grants', S \cup {g}).mem = gr.mem + old.mem
      <4>1. \A h \in S : grants[h] \in Grant /\ grants'[h] = grants[h]
        BY <2>2
      <4>2. g \notin S /\ grants'[g] \in Grant /\ grants'[g] = gr
        BY <1>0, <2>2
      <4> HIDE DEF S
      <4> QED
        BY ONLY <2>1, <4>1, <4>2, GrantedAdd
    <3>3. supply'[p] = Add(supply[p], gr)
      BY <2>5 DEF Charge
    <3>4. gr.cpu \in Nat /\ gr.limit \in Nat /\ gr.mem \in Nat
      BY DEF Grant
    <3> HIDE DEF old, S
    <3> QED
      BY <2>3, <2>4, <3>1, <3>2, <3>3, <3>4 DEF Add
  <2>6. CASE p \notin Path[gr.pool]
    <3>1. GrantsUnder(p)' = S
      BY <1>0, <2>6 DEF GrantsUnder, Held
    <3>2. Granted(grants', S) = old
      <4>1. \A h \in S : grants'[h] = grants[h]
        BY <2>2
      <4> HIDE DEF S
      <4> QED
        BY ONLY <4>1, GrantedSame
    <3>3. supply'[p] = supply[p]
      BY <2>6 DEF Charge
    <3> HIDE DEF old, S
    <3> QED
      BY <2>3, <3>1, <3>2, <3>3
  <2> QED
    BY <2>5, <2>6
<1> QED
  BY <1>1, <1>2 DEF Ledger

\* A grant given back leaves the books of exactly the pools it was charged to, and
\* no counter is clamped.
LEMMA DischargeLedger ==
  ASSUME PolicyTypeOK, HeldFinite, Ledger, NEW g \in Gid, Held(g),
         supply' = Discharge(supply, grants[g]), grants' = [grants EXCEPT ![g] = NoGrant]
  PROVE  HeldFinite' /\ Ledger'
<1> DEFINE gr == grants[g]
<1>0. /\ gr \in Grant /\ grants'[g] = NoGrant /\ grants \in [Gid -> Grant \cup {NoGrant}]
      /\ \A h \in Gid \ {g} : grants'[h] = grants[h]
      /\ gr.cpu \in Nat /\ gr.limit \in Nat /\ gr.mem \in Nat /\ gr.pool \in Pool
  BY DEF PolicyTypeOK, Held, Grant
<1>1. HeldFinite'
  <2>1. {h \in Gid : Held(h)}' = {h \in Gid : Held(h)} \ {g}
    BY <1>0 DEF Held
  <2>2. IsFiniteSet({h \in Gid : Held(h)} \ {g})
    BY FS_RemoveElement DEF HeldFinite
  <2> QED
    BY <2>1, <2>2 DEF HeldFinite
<1>2. ASSUME NEW p \in Pool
      PROVE  /\ supply'[p].shared = Granted(grants, GrantsUnder(p))'.cpu
             /\ supply'[p].byRequest = Granted(grants, GrantsUnder(p))'.cpu
             /\ supply'[p].byLimit = Granted(grants, GrantsUnder(p))'.limit
             /\ supply'[p].mem = Granted(grants, GrantsUnder(p))'.mem
  <2> DEFINE S == GrantsUnder(p)
             old == Granted(grants, S)
             rest == Granted(grants, S \ {g})
  <2>1. IsFiniteSet(S) /\ IsFiniteSet(S \ {g})
    BY GrantsUnderFinite, FS_RemoveElement
  <2>2. \A h \in S : h \in Gid /\ grants[h] \in Grant
    BY <1>0 DEF GrantsUnder, Held
  <2>3. /\ supply[p].shared = old.cpu /\ supply[p].byRequest = old.cpu
        /\ supply[p].byLimit = old.limit /\ supply[p].mem = old.mem
    BY DEF Ledger
  <2>4. rest.cpu \in Nat /\ rest.limit \in Nat /\ rest.mem \in Nat
    BY <2>1, <2>2, GrantedType
  <2>5. GrantsUnder(p)' = S \ {g}
    BY <1>0 DEF GrantsUnder, Held
  <2>6. Granted(grants', S \ {g}) = rest
    <3>1. \A h \in S \ {g} : grants'[h] = grants[h]
      BY <1>0, <2>2
    <3> HIDE DEF S
    <3> QED
      BY ONLY <3>1, GrantedSame
  <2>7. CASE p \in Path[gr.pool]
    <3>1. g \in S /\ (S \ {g}) \cup {g} = S
      BY <2>7 DEF GrantsUnder
    <3>2. /\ old.cpu = gr.cpu + rest.cpu
          /\ old.limit = gr.limit + rest.limit
          /\ old.mem = gr.mem + rest.mem
      <4>1. (\A h \in S \ {g} : grants[h] \in Grant) /\ grants[g] \in Grant /\ g \notin S \ {g}
        BY <1>0, <2>2
      <4> HIDE DEF S
      <4>2. /\ Granted(grants, (S \ {g}) \cup {g}).cpu = grants[g].cpu + rest.cpu
            /\ Granted(grants, (S \ {g}) \cup {g}).limit = grants[g].limit + rest.limit
            /\ Granted(grants, (S \ {g}) \cup {g}).mem = grants[g].mem + rest.mem
        BY ONLY <2>1, <4>1, GrantedAdd
      <4> QED
        BY <3>1, <4>2
    <3>3. supply'[p] = SubtractOwn(supply[p], gr) \/ supply'[p] = SubtractAncestor(supply[p], gr)
      BY <2>7 DEF Discharge
    <3> HIDE DEF gr, old, rest, S
    <3>4. /\ (gr.cpu + rest.cpu) - gr.cpu = rest.cpu
          /\ (gr.limit + rest.limit) - gr.limit = rest.limit
          /\ (gr.mem + rest.mem) - gr.mem = rest.mem
          /\ \A n \in Nat : Floor(n) = n
      BY <1>0, <2>4 DEF Floor
    <3>5. CASE supply'[p] = SubtractOwn(supply[p], gr)
      BY <2>3, <2>4, <2>5, <2>6, <3>2, <3>4, <3>5 DEF SubtractOwn
    <3>6. CASE supply'[p] = SubtractAncestor(supply[p], gr)
      BY <2>3, <2>4, <2>5, <2>6, <3>2, <3>4, <3>6 DEF SubtractAncestor
    <3> QED
      BY <3>3, <3>5, <3>6
  <2>8. CASE p \notin Path[gr.pool]
    <3>1. S \ {g} = S
      BY <2>8 DEF GrantsUnder
    <3>2. supply'[p] = supply[p]
      BY <1>0, <2>8 DEF Discharge
    <3> HIDE DEF old, rest, S
    <3> QED
      BY <2>3, <2>5, <2>6, <3>1, <3>2 DEF old, rest
  <2> QED
    BY <2>7, <2>8
<1> QED
  BY <1>1, <1>2 DEF Ledger

\* The books of a policy without grants.
LEMMA EmptyLedger == PolicyInit => HeldFinite /\ Ledger
<1> SUFFICES ASSUME PolicyInit PROVE HeldFinite /\ Ledger
  OBVIOUS
<1>1. {g \in Gid : Held(g)} = {} /\ \A p \in Pool : GrantsUnder(p) = {}
  BY DEF PolicyInit, Held, GrantsUnder
<1>2. IsFiniteSet({})
  BY FS_EmptySet
<1>3. ASSUME NEW p \in Pool PROVE Granted(grants, GrantsUnder(p)) = [cpu |-> 0, limit |-> 0, mem |-> 0]
  BY <1>1, <1>3, GrantedNone
<1>4. HeldFinite
  BY <1>1, <1>2 DEF HeldFinite
<1>5. Ledger
  BY <1>3 DEF Ledger, PolicyInit, EmptySupply
<1> QED
  BY <1>4, <1>5

\* The books of the policy balance from one step to the next.
LEMMA LedgerInvariant == PolicySpec => [](PolicyTypeOK /\ HeldFinite /\ Ledger)
<1> DEFINE Inv == PolicyTypeOK /\ HeldFinite /\ Ledger
<1>1. PolicyInit => Inv
  BY EmptyLedger DEF PolicyInit, PolicyTypeOK, Supply, EmptySupply
<1>2. PolicyTypeOK' /\ Inv /\ [PolicyNext]_policyVars => Inv'
  <2> SUFFICES ASSUME PolicyTypeOK', Inv, [PolicyNext]_policyVars PROVE (HeldFinite /\ Ledger)'
    OBVIOUS
  <2>1. CASE UNCHANGED policyVars
    BY <2>1 DEF policyVars, HeldFinite, Ledger, Held, GrantsUnder
  <2>2. ASSUME NEW g \in Gid, NEW req \in PolicyRequest, Allocate(g, req)
        PROVE  (HeldFinite /\ Ledger)'
    <3>1. PICK p \in Pool : AllocatePool(g, req, p)
      BY <2>2 DEF Allocate
    <3>2. /\ GrantOf(req, p) \in Grant /\ supply' = Charge(supply, GrantOf(req, p))
          /\ grants' = [grants EXCEPT ![g] = GrantOf(req, p)] /\ ~Held(g)
      BY <2>2, <3>1, GrantOfType, RequestsAreRequests DEF AllocatePool, Allocate
    <3> QED
      BY <3>2, ChargeLedger
  <2>3. ASSUME NEW g \in Gid, Release(g) PROVE (HeldFinite /\ Ledger)'
    BY <2>3, DischargeLedger DEF Release, ReleasePool
  <2> QED
    BY <2>1, <2>2, <2>3 DEF PolicyNext
<1> HIDE DEF Inv
<1>3. PolicySpec => []Inv
  BY <1>1, <1>2, PolicyTypeCorrect, PTL DEF PolicySpec
<1> QED
  BY <1>3 DEF Inv

\* Under well-behaved callers the counters of every pool are what the grants at or
\* below it add up to, for any tree of pools and any number of grants: what is
\* charged on the way up is discharged on the way up (supply.Allocate,
\* grant.Release and the propagation to the parents).
THEOREM BooksBalance == PolicySpec => []Ledger
  BY LedgerInvariant, PTL


--------------------------------------------------------------------------------
(***************************************************************************)
(* What a rebuild recovers.                                                *)
(***************************************************************************)

\* The shares that kubelet writes for a request of at least 3 milli-CPUs are read as
\* the request or one less, and never as no request.
LEMMA SharesRoundTrip ==
  ASSUME NEW n \in Nat, n >= 3
  PROVE  /\ (n * 1024) \div 1000 >= 3
         /\ Round(((n * 1024) \div 1000) * 1000, 1024) \in {n - 1, n}
<1> DEFINE s == (n * 1024) \div 1000
<1>1. s \in Nat /\ 1000 * s <= 1024 * n /\ 1024 * n < 1000 * s + 1000
  OBVIOUS
<1> HIDE DEF s
<1> DEFINE r == (2 * (s * 1000) + 1024) \div (2 * 1024)
<1>2. r \in Nat /\ 2048 * r <= 2000 * s + 1024 /\ 2000 * s + 1024 < 2048 * r + 2048
  BY <1>1
<1> HIDE DEF r
<1>3. s >= 3 /\ r \in {n - 1, n}
  BY <1>1, <1>2
<1> QED
  BY <1>3 DEF Round, s, r

\* The quota that kubelet writes for a limit of at least 10 is read as the limit.
LEMMA QuotaRoundTrip ==
  ASSUME NEW n \in Nat
  PROVE  /\ n >= 10 => n * 100 >= 1000 /\ Round((n * 100) * 1000, 100000) = n
         /\ Round(1000 * 1000, 100000) = 10
<1> DEFINE x == (n * 100) * 1000
<1>1. x = 100000 * n
  OBVIOUS
<1> HIDE DEF x
<1> DEFINE r == (2 * x + 100000) \div (2 * 100000)
<1>2. r \in Int /\ 200000 * r <= 2 * x + 100000 /\ 2 * x + 100000 < 200000 * r + 200000
  BY <1>1
<1> HIDE DEF r
<1>3. r = n
  BY <1>1, <1>2
<1> QED
  BY <1>3 DEF Round, r, x

\* The amounts of the two readings, for a container kubelet creates.
LEMMA AmountsRecovered ==
  ASSUME NEW c, IsContainer(c), NEW p \in Pool
  PROVE  /\ Asked(c).cpu \in {c.request, c.request - (IF c.request <= 2 THEN c.request ELSE 1)}
         /\ Recovers(c, GrantOf(Asked(c), p), GrantFromContainer(ResourcesOf(c), p))
<1> DEFINE res == ResourcesOf(c)
           req == Asked(c)
           created == GrantOf(req, p)
           rebuilt == GrantFromContainer(res, p)
           n == c.request
           l == c.limit
<1>1. /\ n \in Nat /\ l \in Nat /\ c.memory \in Nat /\ (c.class = "guaranteed" => l = n)
      /\ c.cfsQuota \in BOOLEAN
  BY DEF IsContainer
<1>2. /\ res.class = c.class
      /\ res.shares = IF (n * 1024) \div 1000 < 2 THEN 2 ELSE (n * 1024) \div 1000
      /\ ~c.cfsQuota => res.quota = 0 /\ res.period = 0
      /\ c.cfsQuota => /\ res.quota = IF l = 0 THEN 0 ELSE IF l * 100 < 1000 THEN 1000 ELSE l * 100
                       /\ res.period = 100000
  BY <1>1 DEF ResourcesOf, LinuxResources, AtLeast, MinShares, SharesPerCPU, QuotaPeriod,
     MinQuotaPeriod
<1>3. /\ req.cpu = IF res.shares = 2 THEN 0 ELSE Round(res.shares * 1000, 1024)
      /\ req.limit = IF res.class = "guaranteed" THEN req.cpu
                     ELSE IF res.quota = 0 \/ res.period = 0 THEN 0
                     ELSE Round(res.quota * 1000, res.period)
      /\ req.mem = res.memory \div 1024
  BY DEF Asked, EstimatedRequest, SharesToMilliCPU, QuotaToMilliCPU, MinShares, SharesPerCPU
<1>4. /\ rebuilt.cpu = IF res.shares > 0 THEN Round(res.shares * 1000, 1024) ELSE 0
      /\ rebuilt.limit = IF res.quota > 0 /\ res.period > 0
                         THEN Round(res.quota * 1000, res.period) ELSE 0
      /\ rebuilt.mem = res.memory \div 1024 /\ rebuilt.pool = p
  BY DEF RebuiltAmounts, GrantFromContainer, GrantOf, SharesPerCPU
<1>5. /\ created.cpu = req.cpu /\ created.limit = req.limit
      /\ created.mem = req.mem /\ created.pool = p
  BY DEF GrantOf
<1> HIDE DEF res, req, rebuilt, created, n, l
<1>6. /\ n <= 2 => res.shares = 2 /\ req.cpu = 0
      /\ n >= 3 => res.shares >= 3 /\ req.cpu = Round(res.shares * 1000, 1024)
                   /\ req.cpu \in {n - 1, n}
  <2>1. CASE n <= 2
    <3>1. n = 0 \/ n = 1 \/ n = 2
      BY <1>1, <2>1
    <3> QED
      BY <1>2, <1>3, <3>1
  <2>2. CASE n >= 3
    <3>1. /\ (n * 1024) \div 1000 >= 3 /\ (n * 1024) \div 1000 \in Int
          /\ Round(((n * 1024) \div 1000) * 1000, 1024) \in {n - 1, n}
      BY <1>1, <2>2, SharesRoundTrip
    <3> DEFINE s == (n * 1024) \div 1000
    <3> HIDE DEF s
    <3>2. res.shares = s /\ s # 2
      BY <1>2, <3>1 DEF s
    <3> QED
      BY <1>1, <1>3, <2>2, <3>1, <3>2 DEF s
  <2> QED
    BY <1>1, <2>1, <2>2
<1>7. Round(2 * 1000, 1024) = 2
  BY DEF Round
<1>8. rebuilt.cpu = IF created.cpu = 0 THEN 2 ELSE created.cpu
  <2>1. res.shares \in Int
    BY <1>1, <1>2
  <2>2. res.shares > 0
    BY <1>1, <1>6, <2>1
  <2>3. rebuilt.cpu = Round(res.shares * 1000, 1024)
    BY <1>4, <2>2
  <2>4. CASE n <= 2
    <3>1. res.shares = 2 /\ req.cpu = 0
      BY <1>6, <2>4
    <3> QED
      BY <1>5, <1>7, <2>3, <3>1
  <2>5. CASE n >= 3
    <3>1. req.cpu = Round(res.shares * 1000, 1024) /\ req.cpu # 0
      BY <1>1, <1>6, <2>5
    <3> QED
      BY <1>5, <2>3, <3>1
  <2> QED
    BY <1>1, <2>4, <2>5
<1>9. c.cfsQuota => /\ l = 0 => res.quota = 0
                    /\ l > 0 /\ l < 10 => res.quota = 1000
                    /\ l >= 10 => res.quota = l * 100 /\ l * 100 >= 1000
  BY <1>1, <1>2
<1>10. /\ ~c.cfsQuota => rebuilt.limit = 0
       /\ c.cfsQuota => /\ l = 0 => rebuilt.limit = 0
                        /\ l > 0 /\ l < 10 => rebuilt.limit = 10
                        /\ l >= 10 => rebuilt.limit = l
  BY <1>1, <1>2, <1>4, <1>9, QuotaRoundTrip
<1>11. /\ rebuilt.pool = created.pool /\ rebuilt.mem = created.mem
       /\ req.cpu \in {n, n - (IF n <= 2 THEN n ELSE 1)}
  BY <1>1, <1>3, <1>4, <1>5, <1>6
<1>12. CASE c.class = "guaranteed"
  <2>1. l = n /\ created.limit = req.cpu
    BY <1>1, <1>2, <1>3, <1>5, <1>12
  <2>2. c.cfsQuota => rebuilt.limit - created.limit \in 0..(IF n < 10 THEN 10 ELSE 1)
    BY <1>1, <1>6, <1>10, <2>1
  <2> QED
    BY <1>8, <1>10, <1>11, <1>12, <2>2 DEF Recovers, res, req, created, rebuilt, n
<1>13. CASE c.class # "guaranteed"
  <2>1. rebuilt.limit = created.limit
    BY <1>1, <1>2, <1>3, <1>4, <1>5, <1>9, <1>10, <1>13
  <2> QED
    BY <1>8, <1>11, <1>13, <2>1 DEF Recovers, res, req, created, rebuilt, n
<1> QED
  BY <1>12, <1>13

\* A pool below another has no more of anything taken from it.
LEMMA BelowIsLessTaken ==
  ASSUME PolicyTypeOK, HeldFinite, Ledger, NEW p \in Pool, NEW q \in Pool, p \in Path[q]
  PROVE  /\ supply[q].shared <= supply[p].shared
         /\ supply[q].byRequest <= supply[p].byRequest
         /\ supply[q].mem <= supply[p].mem
<1>1. IsFiniteSet(GrantsUnder(p)) /\ GrantsUnder(q) \in SUBSET GrantsUnder(p)
      /\ \A g \in GrantsUnder(p) : grants[g] \in Grant
  <2>1. \A g \in GrantsUnder(p) \cup GrantsUnder(q) : grants[g] \in Grant /\ grants[g].pool \in Pool
    BY DEF GrantsUnder, Held, PolicyTypeOK, Grant
  <2>2. GrantsUnder(q) \in SUBSET GrantsUnder(p)
    BY <2>1 DEF GrantsUnder
  <2> QED
    BY <2>1, <2>2, GrantsUnderFinite
<1> DEFINE S == GrantsUnder(q)
           T == GrantsUnder(p)
<1>2. /\ supply[q].shared = Granted(grants, S).cpu /\ supply[p].shared = Granted(grants, T).cpu
      /\ supply[q].byRequest = Granted(grants, S).cpu
      /\ supply[p].byRequest = Granted(grants, T).cpu
      /\ supply[q].mem = Granted(grants, S).mem /\ supply[p].mem = Granted(grants, T).mem
  BY DEF Ledger
<1> HIDE DEF S, T
<1>3. /\ Granted(grants, S).cpu <= Granted(grants, T).cpu
      /\ Granted(grants, S).mem <= Granted(grants, T).mem
  BY <1>1, GrantedMonotone DEF S, T
<1> QED
  BY <1>2, <1>3

\* Of two pools on the same CPUs, the lower one has room for what the upper one is
\* asked for.
LEMMA TwinHasCapacity ==
  ASSUME PoolsHaveCpus, PolicyTypeOK, HeldFinite, Ledger, NEW req, IsRequest(req),
         NEW p \in Pool, SupplyAccepts(req, p), p = Root \/ HasCapacity(supply, req, p),
         NEW q \in Pool, p \in Path[q], p # q, CpusOf[p] = CpusOf[q]
  PROVE  q # Root /\ HasCapacity(supply, req, q)
<1>1. q # Root
  OBVIOUS
<1>2. ASSUME NEW x \in BelowRoot(q)
      PROVE  /\ AllocatableCPUByRequest(supply, x) - req.cpu >= 0
             /\ EnforceMemory => req.mem = 0 \/ AllocatableMemory(supply, x) >= req.mem
  <2>1. x \in Pool /\ x \in Path[q] /\ x # Root
    BY DEF BelowRoot
  <2>2. CASE x \in Path[p]
    <3>1. p # Root /\ x \in BelowRoot(p)
      BY <2>1, <2>2 DEF BelowRoot
    <3> QED
      BY <3>1 DEF HasCapacity, CpuFits, MemoryFits
  <2>3. CASE x \notin Path[p]
    <3>1. p \in Path[x]
      BY <2>1, <2>3
    <3>2. CpusOf[x] = CpusOf[p] /\ MemTotal[x] = MemTotal[p]
      <4>1. CpusOf[x] \subseteq CpusOf[p] /\ CpusOf[q] \subseteq CpusOf[x]
        BY <2>1, <3>1
      <4>2. CpusOf[x] = CpusOf[p]
        BY <4>1
      <4> QED
        BY <2>1, <4>2 DEF PoolsHaveCpus
    <3>3. /\ supply[x].byRequest <= supply[p].byRequest
          /\ supply[x].mem <= supply[p].mem
      BY <2>1, <3>1, BelowIsLessTaken
    <3>4. /\ supply[x].byRequest \in Int /\ supply[p].byRequest \in Int
          /\ supply[x].mem \in Nat /\ supply[p].mem \in Nat
          /\ req.cpu \in Nat /\ req.mem \in Nat /\ MemTotal[p] \in Nat
      BY <2>1 DEF PolicyTypeOK, Supply, IsRequest
    <3>5. TotalSharedCPU(x) = TotalSharedCPU(p) /\ TotalSharedCPU(p) \in Int
      <4>1. TotalSharedCPU(x) = TotalSharedCPU(p)
        BY <3>2 DEF TotalSharedCPU
      <4> QED
        <5>1. TotalSharedCPU(p) \in Nat
          BY TotalIsNat
        <5> QED
          BY ONLY <4>1, <5>1
    <3>6. /\ EnforceMemory /\ req.mem > 0 => req.mem <= AllocatableMemory(supply, p)
          /\ req.cpu + supply[p].byRequest <= TotalSharedCPU(p)
      BY DEF SupplyAccepts
    <3>7. AllocatableCPUByRequest(supply, x) - req.cpu >= 0
      BY <3>3, <3>4, <3>5, <3>6 DEF AllocatableCPUByRequest
    <3>8. ASSUME EnforceMemory, req.mem # 0 PROVE AllocatableMemory(supply, x) >= req.mem
      BY <3>2, <3>3, <3>4, <3>6, <3>8 DEF AllocatableMemory
    <3> QED
      BY <3>7, <3>8
  <2> QED
    BY <2>2, <2>3
<1>3. HasCapacity(supply, req, q)
  BY <1>2 DEF HasCapacity, CpuFits, MemoryFits
<1> QED
  BY <1>1, <1>3

\* A pool above another is less deep.
LEMMA AboveIsLessDeep ==
  ASSUME NEW p \in Pool, NEW q \in Pool, p \in Path[q], p # q
  PROVE  Depth(p) \in Int /\ Depth(q) \in Int /\ Depth(p) < Depth(q)
<1>1. Path[p] \in SUBSET Path[q] /\ Path[p] # Path[q] /\ IsFiniteSet(Path[q]) /\ IsFiniteSet(Path[p])
  OBVIOUS
<1>2. /\ Cardinality(Path[p]) <= Cardinality(Path[q])
      /\ Cardinality(Path[p]) # Cardinality(Path[q])
      /\ Cardinality(Path[p]) \in Nat /\ Cardinality(Path[q]) \in Nat
  BY <1>1, FS_Subset, FS_CardinalityType
<1> QED
  BY <1>2 DEF Depth

\* The policy does not place a container on a pool when a lower one has the same CPUs.
LEMMA LowestTwinSelected ==
  ASSUME PoolsHaveCpus, PolicyTypeOK, HeldFinite, Ledger, NEW req, IsRequest(req),
         NEW p \in Pool, SupplyAccepts(req, p), IsBestPool(supply, Colocated, req, p),
         NEW q \in Pool, p \in Path[q], CpusOf[p] = CpusOf[q]
  PROVE  p = q
<1> SUFFICES ASSUME p # q PROVE FALSE
  OBVIOUS
<1> DEFINE fitting == {x \in FilteredPools(supply, req) : HasCapacity(supply, req, x)}
<1>1. q # Root /\ HasCapacity(supply, req, q)
  BY SelectedPoolIsFiltered, TwinHasCapacity
<1>2. q \in FilteredPools(supply, req) /\ q \in fitting
  BY <1>1 DEF FilteredPools
<1>3. Depth(p) \in Int /\ Depth(q) \in Int /\ Depth(p) < Depth(q)
  BY AboveIsLessDeep
<1>4. CASE GpuFirst /\ GpuPools(supply, req) # {}
  <2>1. IsFirst(supply, Colocated, req, GpuWeight(req), p, GpuPools(supply, req))
    BY <1>4 DEF IsBestPool, IsGpuChoice
  <2>2. q \in GpuPools(supply, req)
    <3>1. NumasOf[q] = NumasOf[p]
      BY DEF PoolsHaveCpus
    <3> QED
      BY <1>2, <2>1, <3>1 DEF IsFirst, GpuPools
  <2> DEFINE a == Rank(supply, Colocated, req, GpuWeight(req), p)
             b == Rank(supply, Colocated, req, GpuWeight(req), q)
  <2>3. Outranks(a, b)
    BY <2>1, <2>2 DEF IsFirst, Before
  <2>4. a[1] = FitsLimit(supply, req, p) /\ b[1] = FitsLimit(supply, req, q)
        /\ a[2] = Depth(p) /\ b[2] = Depth(q)
    BY DEF Rank
  <2>5. FitsLimit(supply, req, p) \in Int /\ FitsLimit(supply, req, q) \in Int
        /\ FitsLimit(supply, req, p) <= FitsLimit(supply, req, q)
    <3>1. supply[q].shared <= supply[p].shared /\ supply[q].shared \in Int
          /\ supply[p].shared \in Int /\ req.limit \in Int
      BY BelowIsLessTaken DEF PolicyTypeOK, Supply, IsRequest
    <3>2. TotalSharedCPU(q) = TotalSharedCPU(p) /\ TotalSharedCPU(p) \in Int
      BY TotalIsNat DEF TotalSharedCPU
    <3> QED
      BY <3>1, <3>2 DEF FitsLimit, SharedCapacity, AllocatableSharedCPU
  <2> HIDE DEF a, b
  <2>6. PICK i \in 1..7 : a[i] > b[i] /\ \A j \in 1..(i-1) : a[j] = b[j]
    BY <2>3 DEF Outranks
  <2>7. CASE i = 1
    BY <2>4, <2>5, <2>6, <2>7
  <2>8. CASE i = 2
    BY <1>3, <2>4, <2>6, <2>8
  <2>9. CASE i > 2
    <3>1. 2 \in 1..(i-1)
      BY <2>9
    <3> QED
      BY <1>3, <2>4, <2>6, <3>1
  <2> QED
    BY <2>7, <2>8, <2>9
<1>5. CASE ~(GpuFirst /\ GpuPools(supply, req) # {})
  <2>1. p \in DeepestOf(fitting)
    BY <1>5 DEF IsBestPool, IsRegularChoice, IsFirst
  <2> QED
    BY <1>2, <1>3, <2>1 DEF DeepestOf
<1> QED
  BY <1>4, <1>5

\* So the container's cpuset leads back to the pool it was placed on.
LEMMA PoolRecovered ==
  ASSUME PoolsHaveCpus, PolicyTypeOK, HeldFinite, Ledger, NEW req, IsRequest(req),
         NEW p \in Pool, SupplyAccepts(req, p), IsBestPool(supply, Colocated, req, p)
  PROVE  IsNodeByCPUSet(CpusOf[p], p)
<1>1. ASSUME NEW q \in PoolsCovering(CpusOf[p]), q # p
      PROVE  Depth(p) \in Int /\ Depth(q) \in Int /\ Depth(q) < Depth(p)
  <2>1. q \in Pool /\ CpusOf[p] \subseteq CpusOf[q]
    BY DEF PoolsCovering
  <2>2. p \in Path[q] \/ q \in Path[p]
    BY <2>1 DEF PoolsHaveCpus
  <2>3. ASSUME p \in Path[q] PROVE FALSE
    <3>1. CpusOf[p] = CpusOf[q]
      BY <2>1, <2>3
    <3> QED
      BY <1>1, <2>1, <2>3, <3>1, LowestTwinSelected
  <2> QED
    BY <1>1, <2>1, <2>2, <2>3, AboveIsLessDeep
<1>2. p \in PoolsCovering(CpusOf[p])
  BY DEF PoolsCovering
<1>3. Depth(p) \in Int
  BY FS_CardinalityType DEF Depth
<1>4. DeepestOf(PoolsCovering(CpusOf[p])) = {p}
  <2> DEFINE S == PoolsCovering(CpusOf[p])
  <2> HIDE DEF S
  <2>1. \A q \in S : q = p \/ (Depth(q) \in Int /\ Depth(q) < Depth(p))
    BY <1>1 DEF S
  <2>2. p \in S
    BY <1>2 DEF S
  <2>3. DeepestOf(S) = {p}
    <3>1. \A q \in S : Depth(p) >= Depth(q)
      <4> TAKE q \in S
      <4>1. CASE q = p
        BY <1>3, <4>1
      <4>2. CASE Depth(q) \in Int /\ Depth(q) < Depth(p)
        BY <1>3, <4>2
      <4> QED
        BY <2>1, <4>1, <4>2
    <3>2. ASSUME NEW q \in S, Depth(q) >= Depth(p) PROVE q = p
      <4>1. ~(Depth(q) \in Int /\ Depth(q) < Depth(p))
        BY <1>3, <3>2
      <4> QED
        BY <2>1, <4>1
    <3>3. p \in DeepestOf(S)
      BY <2>2, <3>1 DEF DeepestOf
    <3>4. \A q \in DeepestOf(S) : q \in S /\ Depth(q) >= Depth(p)
      BY <2>2 DEF DeepestOf
    <3>5. ASSUME NEW q \in DeepestOf(S) PROVE q = p
      <4>1. q \in S /\ Depth(q) >= Depth(p)
        BY <3>4
      <4> QED
        BY <3>2, <4>1
    <3> QED
      BY ONLY <3>3, <3>5
  <2> QED
    BY <2>3 DEF S
<1>5. p <= p
  <2>1. p \in Nat
    BY PoolsAreNodeIDs
  <2> QED
    BY ONLY <2>1
<1> QED
  BY <1>4, <1>5 DEF IsNodeByCPUSet

\* On a machine whose pools have CPUs: for a container the policy would place in a state
\* it can be in, a rebuild after a restart comes to the pool of the grant, by the
\* container's cpuset, and to the amounts of the grant, up to what Recovers allows
\* (createGrantFromContainer, findNodeByCPUSet).
THEOREM RebuildsRecover == PoolsHaveCpus => (PolicySpec => []RebuildRecovers)
<1> SUFFICES ASSUME PoolsHaveCpus PROVE PolicySpec => []RebuildRecovers
  OBVIOUS
<1> DEFINE Inv == PolicyTypeOK /\ HeldFinite /\ Ledger
<1>1. Inv => RebuildRecovers
  <2> SUFFICES ASSUME Inv, NEW c \in PolicyContainer, NEW p \in Pool,
                      IsPoolFor(Asked(c), FALSE, p), SupplyAccepts(Asked(c), p)
               PROVE  /\ Asked(c).cpu \in
                           {c.request, c.request - (IF c.request <= 2 THEN c.request ELSE 1)}
                      /\ IsNodeByCPUSet(CpusOf[p], p)
                      /\ Recovers(c, GrantOf(Asked(c), p), GrantFromContainer(ResourcesOf(c), p))
    BY DEF RebuildRecovers
  <2>0. IsContainer(c)
    BY PolicyContainers
  <2>1. IsBestPool(supply, Colocated, Asked(c), p)
    BY DEF IsPoolFor
  <2>2. IsNodeByCPUSet(CpusOf[p], p)
    BY <2>0, <2>1, ReadAmountsAreNat, PoolRecovered
  <2> QED
    BY <2>0, <2>2, AmountsRecovered
<1>2. PolicySpec => []Inv
  BY LedgerInvariant
<1> QED
  BY <1>1, <1>2, PTL

--------------------------------------------------------------------------------
(***************************************************************************)
(* The order of the pools.                                                 *)
(***************************************************************************)
IsRank(a) == \A i \in 1..7 : a[i] \in Int

\* No rank is above itself.
LEMMA OutranksIrreflexive == ASSUME NEW a, IsRank(a) PROVE ~Outranks(a, a)
  BY DEF IsRank, Outranks

\* Of two ranks that differ, one is above the other: the first difference decides.
LEMMA OutranksTotal ==
  ASSUME NEW a, IsRank(a), NEW b, IsRank(b), NEW d \in 1..7, a[d] # b[d]
  PROVE  Outranks(a, b) \/ Outranks(b, a)
<1> DEFINE T == {i \in 1..7 : a[i] # b[i]}
<1>1. T \in SUBSET Nat /\ T # {}
  OBVIOUS
<1>2. PICK i \in T : \A j \in T : i <= j
  <2> HIDE DEF T
  <2> QED
    BY <1>1, MinIsLeast
<1>3. i \in 1..7 /\ a[i] # b[i] /\ \A j \in 1..(i-1) : a[j] = b[j]
  BY <1>2
<1>4. a[i] > b[i] \/ b[i] > a[i]
  BY <1>3 DEF IsRank
<1> QED
  BY <1>3, <1>4 DEF Outranks

LEMMA OutranksTransitive ==
  ASSUME NEW a, IsRank(a), NEW b, IsRank(b), NEW c, IsRank(c), Outranks(a, b), Outranks(b, c)
  PROVE  Outranks(a, c)
<1>1. PICK i \in 1..7 : a[i] > b[i] /\ \A j \in 1..(i-1) : a[j] = b[j]
  BY DEF Outranks
<1>2. PICK k \in 1..7 : b[k] > c[k] /\ \A j \in 1..(k-1) : b[j] = c[j]
  BY DEF Outranks
<1>3. \A j \in 1..7 : a[j] \in Int /\ b[j] \in Int /\ c[j] \in Int
  BY DEF IsRank
<1>4. CASE i < k
  <2>1. i \in 1..(k-1) /\ \A j \in 1..(i-1) : j \in 1..(k-1)
    BY <1>4
  <2>2. a[i] > c[i] /\ \A j \in 1..(i-1) : a[j] = c[j]
    BY <1>1, <1>2, <2>1
  <2> QED
    BY <2>2 DEF Outranks
<1>5. CASE i = k
  <2>1. a[i] > c[i] /\ \A j \in 1..(i-1) : a[j] = c[j]
    BY <1>1, <1>2, <1>3, <1>5
  <2> QED
    BY <2>1 DEF Outranks
<1>6. CASE k < i
  <2>1. k \in 1..(i-1) /\ \A j \in 1..(k-1) : j \in 1..(i-1)
    BY <1>6
  <2>2. a[k] > c[k] /\ \A j \in 1..(k-1) : a[j] = c[j]
    BY <1>1, <1>2, <2>1
  <2> QED
    BY <2>2 DEF Outranks
<1> QED
  BY <1>4, <1>5, <1>6

\* A weight of the NUMA nodes of the machine: the devices on them, or where there are any.
IsWeight(weight) == \A n \in NumasOf[Root] : weight[n] \in Nat

LEMMA AffinityIsSum ==
  ASSUME NEW weight, NEW p
  PROVE  GpuAffinity(weight, p) = SumFunctionOnSet(weight, NumasOf[p])
  BY Zenon DEF GpuAffinity, MapThenSumSet, SumFunctionOnSet, FoldFunctionOnSet, MapThenFoldSet

LEMMA RankIsRank ==
  ASSUME PolicyTypeOK, HeldFinite, NEW req, IsRequest(req), NEW weight, IsWeight(weight),
         NEW p \in Pool
  PROVE  /\ IsRank(Rank(supply, Colocated, req, weight, p))
         /\ Rank(supply, Colocated, req, weight, p)[7] = 0 - p
<1> DEFINE r == Rank(supply, Colocated, req, weight, p)
<1>1. GpuAffinity(weight, p) \in Int
  <2>1. IsFiniteSet(NumasOf[p]) /\ \A n \in NumasOf[p] : weight[n] \in Int
    BY MachineIsFinite DEF IsWeight
  <2> HIDE DEF GpuAffinity
  <2> QED
    BY <2>1, SumType, AffinityIsSum
<1>2. Colocated[p] \in Int
  <2>1. {g \in Gid : Held(g) /\ grants[g].pool = p} \in SUBSET {g \in Gid : Held(g)}
    OBVIOUS
  <2>2. IsFiniteSet({g \in Gid : Held(g) /\ grants[g].pool = p})
    BY <2>1, FS_Subset DEF HeldFinite
  <2>3. Cardinality({g \in Gid : Held(g) /\ grants[g].pool = p}) \in Nat
    BY <2>2, FS_CardinalityType
  <2> QED
    BY <2>3 DEF Colocated
<1>3. AllocatableSharedCPU(supply, p) \in Int
  <2>1. supply[p].shared \in Int
    BY DEF PolicyTypeOK, Supply
  <2>2. TotalSharedCPU(p) \in Int
    <3>1. TotalSharedCPU(p) \in Nat
      BY TotalIsNat
    <3> QED
      BY ONLY <3>1
  <2> QED
    BY <2>1, <2>2 DEF AllocatableSharedCPU
<1>4. SharedCapacity(supply, req, p) \in Int /\ FitsLimit(supply, req, p) \in Int
  BY <1>3 DEF SharedCapacity, FitsLimit, IsRequest
<1>5. Depth(p) \in Int
  BY FS_CardinalityType DEF Depth
<1>6. p \in Int
  BY PoolsAreNodeIDs
<1>7. /\ r[1] = FitsLimit(supply, req, p)
      /\ r[2] = Depth(p)
      /\ r[3] = SharedCapacity(supply, req, p)
      /\ r[4] = 0 - Colocated[p]
      /\ r[5] = IF GpuFirst THEN GpuAffinity(weight, p) ELSE AllocatableSharedCPU(supply, p)
      /\ r[6] = IF GpuFirst THEN AllocatableSharedCPU(supply, p) ELSE GpuAffinity(weight, p)
      /\ r[7] = 0 - p
  BY DEF Rank
<1> HIDE DEF r
<1>8. /\ r[1] \in Int /\ r[2] \in Int /\ r[3] \in Int /\ r[4] \in Int
      /\ r[5] \in Int /\ r[6] \in Int /\ r[7] \in Int
  BY <1>1, <1>2, <1>3, <1>4, <1>5, <1>6, <1>7
<1>9. IsRank(r)
  <2>1. \A i \in 1..7 : i = 1 \/ i = 2 \/ i = 3 \/ i = 4 \/ i = 5 \/ i = 6 \/ i = 7
    OBVIOUS
  <2> QED
    BY <1>8, <2>1 DEF IsRank
<1> QED
  BY <1>7, <1>9 DEF r

\* compareNodes is a strict total order on the pools: where all else is equal the
\* NodeID decides.
LEMMA BeforeIsOrder ==
  ASSUME PolicyTypeOK, HeldFinite, NEW req, IsRequest(req), NEW weight, IsWeight(weight),
         NEW p \in Pool, NEW q \in Pool
  PROVE  /\ ~Before(supply, Colocated, req, weight, p, p)
         /\ p # q => \/ Before(supply, Colocated, req, weight, p, q)
                     \/ Before(supply, Colocated, req, weight, q, p)
         /\ \A r \in Pool :
              Before(supply, Colocated, req, weight, p, q)
                /\ Before(supply, Colocated, req, weight, q, r)
                => Before(supply, Colocated, req, weight, p, r)
<1> DEFINE rank(x) == Rank(supply, Colocated, req, weight, x)
<1>1. \A x \in Pool : IsRank(rank(x)) /\ rank(x)[7] = 0 - x
  BY RankIsRank
<1> HIDE DEF rank
<1>2. ~Outranks(rank(p), rank(p))
  BY <1>1, OutranksIrreflexive
<1>3. ASSUME p # q PROVE Outranks(rank(p), rank(q)) \/ Outranks(rank(q), rank(p))
  <2>1. p \in Int /\ q \in Int /\ 0 - p # 0 - q
    <3>1. p \in Nat /\ q \in Nat
      BY PoolsAreNodeIDs
    <3> QED
      BY ONLY <1>3, <3>1
  <2>2. 7 \in 1..7 /\ rank(p)[7] # rank(q)[7]
    BY <1>1, <2>1
  <2> QED
    BY <1>1, <2>2, OutranksTotal
<1>4. \A r \in Pool : Outranks(rank(p), rank(q)) /\ Outranks(rank(q), rank(r))
                        => Outranks(rank(p), rank(r))
  BY <1>1, OutranksTransitive
<1> QED
  BY <1>2, <1>3, <1>4 DEF Before, rank

--------------------------------------------------------------------------------
(***************************************************************************)
(* The sorted pools.                                                       *)
(***************************************************************************)
\* s lists the elements of S, each once, in the order of weight.
IsSorted(s, S, req, weight) ==
  LET n == Cardinality(S)
  IN  /\ n \in Nat /\ DOMAIN s = 1..n /\ Len(s) = n
      /\ \A i \in 1..n : s[i] \in S
      /\ \A p \in S : \E i \in 1..n : s[i] = p
      /\ \A i, j \in 1..n : i < j => Before(supply, Colocated, req, weight, s[i], s[j])

LEMMA FilteredArePools ==
  ASSUME NEW req
  PROVE  FilteredPools(supply, req) \in SUBSET Pool /\ FilteredPools(supply, req) # {}
         /\ IsFiniteSet(FilteredPools(supply, req))
<1>1. FilteredPools(supply, req) \in SUBSET Pool /\ FilteredPools(supply, req) # {}
  BY PoolsAreNodeIDs DEF FilteredPools
<1> QED
  BY <1>1, MachineIsFinite, FS_Subset

LEMMA SortedPoolsAreSorted ==
  ASSUME PolicyTypeOK, HeldFinite, NEW req, IsRequest(req), NEW weight, IsWeight(weight)
  PROVE  IsSorted(SortedPools(req, weight), FilteredPools(supply, req), req, weight)
<1> DEFINE S == FilteredPools(supply, req)
           s == SortedPools(req, weight)
           n == Cardinality(S)
           above(p, q) == Before(supply, Colocated, req, weight, p, q)
           R == {x \in S \X S : above(x[1], x[2])}
           place(p) == Cardinality({q \in S : <<q, p>> \in R})
<1>1. IsFiniteSet(S) /\ S \in SUBSET Pool
  BY FilteredArePools
<1>2. n \in Nat
  BY <1>1, FS_CardinalityType
<1>3. \A p, q \in S : <<p, q>> \in R <=> above(p, q)
  OBVIOUS
<1>4. /\ \A p \in S : <<p, p>> \notin R
      /\ \A p, q \in S : p # q => <<p, q>> \in R \/ <<q, p>> \in R
      /\ \A p, q, r \in S : <<p, q>> \in R /\ <<q, r>> \in R => <<p, r>> \in R
  <2> HIDE DEF R, S
  <2>1. \A p \in S : p \in Pool
    BY <1>1
  <2>2. \A p, q \in S : /\ ~above(p, p) /\ (p # q => above(p, q) \/ above(q, p))
                        /\ \A r \in S : above(p, q) /\ above(q, r) => above(p, r)
    <3> TAKE p, q \in S
    <3>1. p \in Pool /\ q \in Pool
      BY <2>1
    <3> QED
      BY <2>1, <3>1, BeforeIsOrder
  <2> HIDE DEF above
  <2> QED
    BY <1>3, <2>2
<1>5. {place(p) : p \in S} = 0..(n - 1)
      /\ \A p, q \in S : <<p, q>> \in R <=> place(p) < place(q)
  <2> HIDE DEF R, S
  <2> QED
    BY <1>1, <1>4, Ranks
<1>6. s = [i \in 1..n |-> CHOOSE p \in S : place(p) = i - 1]
  <2> DEFINE ahead == [p \in S |-> Cardinality({q \in S :
               Outranks([x \in S |-> Rank(supply, Colocated, req, weight, x)][q],
                        [x \in S |-> Rank(supply, Colocated, req, weight, x)][p])})]
  <2>1. s = [i \in 1..n |-> CHOOSE p \in S : ahead[p] = i - 1]
    BY Zenon DEF SortedPools
  <2>2. \A p \in S : ahead[p] = place(p)
    <3> TAKE p \in S
    <3>1. {q \in S : Outranks([x \in S |-> Rank(supply, Colocated, req, weight, x)][q],
                              [x \in S |-> Rank(supply, Colocated, req, weight, x)][p])}
            = {q \in S : <<q, p>> \in R}
      BY <1>3 DEF Before
    <3> QED
      BY <3>1
  <2> HIDE DEF ahead, place, s, S
  <2>3. \A i \in 1..n : (CHOOSE p \in S : ahead[p] = i - 1) = (CHOOSE p \in S : place(p) = i - 1)
    <3> TAKE i \in 1..n
    <3>1. \A p \in S : ahead[p] = i - 1 <=> place(p) = i - 1
      BY <2>2
    <3> QED
      BY <3>1
  <2> QED
    BY <2>1, <2>3
<1>7. ASSUME NEW i \in 1..n PROVE s[i] \in S /\ place(s[i]) = i - 1
  <2> HIDE DEF place, S, s
  <2>1. i - 1 \in 0..(n - 1)
    BY <1>2
  <2>2. \E p \in S : place(p) = i - 1
    BY <1>5, <2>1
  <2>3. s[i] = CHOOSE p \in S : place(p) = i - 1
    BY <1>6
  <2> QED
    BY <2>2, <2>3
<1>8. ASSUME NEW p \in S PROVE \E i \in 1..n : s[i] = p
  <2> HIDE DEF place, S, s
  <2>1. place(p) \in 0..(n - 1)
    BY <1>5
  <2> DEFINE i == place(p) + 1
  <2>2. i \in 1..n /\ i - 1 = place(p)
    BY <1>2, <2>1
  <2>3. s[i] \in S /\ place(s[i]) = place(p)
    BY <1>7, <2>2
  <2>4. s[i] = p
    <3>1. place(p) \in Int
      BY <1>2, <2>1
    <3>2. ~(<<s[i], p>> \in R) /\ ~(<<p, s[i]>> \in R)
      BY <1>5, <2>3, <3>1
    <3> HIDE DEF R
    <3> QED
      BY <1>4, <2>3, <3>2
  <2> QED
    BY <2>2, <2>4
<1>9. ASSUME NEW i \in 1..n, NEW j \in 1..n, i < j PROVE above(s[i], s[j])
  <2> HIDE DEF place, S, s, R
  <2>1. place(s[i]) < place(s[j]) /\ s[i] \in S /\ s[j] \in S
    <3>1. i - 1 < j - 1
      BY <1>2, <1>9
    <3> QED
      BY <1>7, <3>1
  <2>2. <<s[i], s[j]>> \in R
    BY <1>5, <2>1
  <2> HIDE DEF above
  <2> QED
    BY <1>3, <2>1, <2>2
<1>10. DOMAIN s = 1..n /\ Len(s) = n
  <2> HIDE DEF place, S, n
  <2>1. s = [i \in 1..n |-> CHOOSE p \in S : place(p) = i - 1]
    BY <1>6
  <2> HIDE DEF s
  <2>2. DOMAIN s = 1..n
    BY <2>1
  <2>3. s \in [1..n -> S]
    BY <1>7, <2>1 DEF n
  <2>4. s \in Seq(S)
    BY <1>2, <2>3
  <2> QED
    BY <1>2, <2>2, <2>4
<1> HIDE DEF s, S
<1> QED
  BY <1>2, <1>7, <1>8, <1>9, <1>10 DEF IsSorted, s, S

--------------------------------------------------------------------------------
(***************************************************************************)
(* The scan.                                                               *)
(***************************************************************************)
\* Of the first i pools of the list, the k-th is the first of the greatest depth among
\* those with capacity.
IsKept(s, req, i, k) ==
  /\ k \in 1..i /\ HasCapacity(supply, req, s[k])
  /\ \A j \in 1..i : HasCapacity(supply, req, s[j]) =>
       Depth(s[j]) < Depth(s[k]) \/ (Depth(s[j]) = Depth(s[k]) /\ k <= j)

IsBestUpTo(s, req, i, b) ==
  \/ b = <<>> /\ \A j \in 1..i : ~HasCapacity(supply, req, s[j])
  \/ \E k \in 1..i : b = <<s[k]>> /\ IsKept(s, req, i, k)

Improved(s, req, i, b) ==
  IF HasCapacity(supply, req, s[i]) /\ (b = <<>> \/ Depth(s[i]) > Depth(b[1]))
  THEN <<s[i]>> ELSE b

IsScan(best, s, req) ==
  best = [i \in 0..Len(s) |-> IF i = 0 THEN <<>> ELSE Improved(s, req, i, best[i-1])]

LEMMA ScanIsChosen ==
  ASSUME NEW s, NEW req
  PROVE  Scan(s, req) = (CHOOSE best : IsScan(best, s, req))[Len(s)]
  BY Zenon DEF Scan, IsScan, Improved

\* One step of the loop looks at one more pool.
LEMMA ScanStep ==
  ASSUME NEW s, NEW req, NEW i \in Nat, i > 0, \A j \in 1..i : Depth(s[j]) \in Int,
         NEW b, IsBestUpTo(s, req, i - 1, b)
  PROVE  IsBestUpTo(s, req, i, Improved(s, req, i, b))
<1> DEFINE has(j) == HasCapacity(supply, req, s[j])
           d(j) == Depth(s[j])
           c == Improved(s, req, i, b)
<1>1. \A j \in 1..i : j = i \/ j \in 1..(i-1)
  OBVIOUS
<1>2. i \in 1..i /\ i <= i /\ \A j \in 1..(i-1) : j \in 1..i /\ j <= i /\ j < i
  OBVIOUS
<1>3. \A j \in 1..i : d(j) \in Int
  OBVIOUS
<1>4. CASE b = <<>> /\ \A j \in 1..(i-1) : ~has(j)
  <2>1. CASE has(i)
    <3>1. c = <<s[i]>>
      BY <1>4, <2>1 DEF Improved
    <3>2. \A j \in 1..i : has(j) => d(j) = d(i) /\ i <= j
      BY <1>1, <1>2, <1>4
    <3>3. IsKept(s, req, i, i)
      BY <1>2, <2>1, <3>2 DEF IsKept
    <3> HIDE DEF c
    <3> QED
      BY <1>2, <3>1, <3>3 DEF IsBestUpTo, c
  <2>2. CASE ~has(i)
    <3>1. c = <<>>
      BY <1>4, <2>2 DEF Improved
    <3>2. \A j \in 1..i : ~has(j)
      BY <1>1, <1>4, <2>2
    <3> QED
      BY <3>1, <3>2 DEF IsBestUpTo
  <2> QED
    BY <2>1, <2>2
<1>5. ASSUME NEW k \in 1..(i-1), b = <<s[k]>>, IsKept(s, req, i - 1, k)
      PROVE  IsBestUpTo(s, req, i, c)
  <2>1. b # <<>> /\ b[1] = s[k]
    BY <1>5
  <2>2. /\ has(k) /\ k \in 1..i /\ k < i
        /\ \A j \in 1..(i-1) : has(j) => d(j) < d(k) \/ (d(j) = d(k) /\ k <= j)
    BY <1>2, <1>5 DEF IsKept
  <2>3. CASE has(i) /\ d(i) > d(k)
    <3>1. c = <<s[i]>>
      BY <2>1, <2>3 DEF Improved
    <3> HIDE DEF has, d, c
    <3>2. \A j \in 1..i : has(j) => d(j) < d(i) \/ (d(j) = d(i) /\ i <= j)
      <4> TAKE j \in 1..i
      <4>1. CASE j = i
        BY <1>2, <4>1
      <4>2. CASE j \in 1..(i-1)
        <5>1. d(j) \in Int /\ d(i) \in Int /\ d(k) \in Int
          BY <1>2, <1>3, <2>2
        <5> QED
          BY <2>2, <2>3, <4>2, <5>1
      <4> QED
        BY <1>1, <4>1, <4>2
    <3>3. IsKept(s, req, i, i)
      BY <1>2, <2>3, <3>2 DEF IsKept, has, d
    <3> QED
      BY <1>2, <3>1, <3>3 DEF IsBestUpTo
  <2>4. CASE ~(has(i) /\ d(i) > d(k))
    <3>1. c = b
      BY <2>1, <2>4 DEF Improved
    <3> HIDE DEF has, d, c
    <3>2. \A j \in 1..i : has(j) => d(j) < d(k) \/ (d(j) = d(k) /\ k <= j)
      <4> TAKE j \in 1..i
      <4>1. CASE j = i
        <5>1. d(i) \in Int /\ d(k) \in Int /\ k \in Int /\ k < i
          BY <1>2, <1>3, <2>2
        <5> QED
          BY <2>4, <4>1, <5>1
      <4>2. CASE j \in 1..(i-1)
        BY <2>2, <4>2
      <4> QED
        BY <1>1, <4>1, <4>2
    <3>3. IsKept(s, req, i, k)
      BY <2>2, <3>2 DEF IsKept, has, d
    <3> QED
      BY <1>5, <2>2, <3>1, <3>3 DEF IsBestUpTo
  <2> QED
    BY <2>3, <2>4
<1> HIDE DEF c
<1>6. CASE \E k \in 1..(i-1) : b = <<s[k]>> /\ IsKept(s, req, i - 1, k)
  <2>1. PICK k \in 1..(i-1) : b = <<s[k]>> /\ IsKept(s, req, i - 1, k)
    BY <1>6
  <2> QED
    BY <1>5, <2>1 DEF c
<1> QED
  BY <1>4, <1>6 DEF IsBestUpTo, c

\* There is one best pool among the first i, if any has capacity.
LEMMA BestIsUnique ==
  ASSUME NEW s, NEW req, NEW i \in Nat, \A j \in 1..i : Depth(s[j]) \in Int,
         NEW b, IsBestUpTo(s, req, i, b), NEW c, IsBestUpTo(s, req, i, c)
  PROVE  b = c
<1>1. ASSUME NEW k \in 1..i, IsKept(s, req, i, k), NEW l \in 1..i, IsKept(s, req, i, l)
      PROVE  k = l
  <2>1. Depth(s[k]) \in Int /\ Depth(s[l]) \in Int /\ k \in Int /\ l \in Int
    BY <1>1
  <2>2. /\ Depth(s[l]) < Depth(s[k]) \/ (Depth(s[l]) = Depth(s[k]) /\ k <= l)
        /\ Depth(s[k]) < Depth(s[l]) \/ (Depth(s[k]) = Depth(s[l]) /\ l <= k)
    BY <1>1 DEF IsKept
  <2> QED
    BY <2>1, <2>2
<1>2. \A k \in 1..i : IsKept(s, req, i, k) => \E j \in 1..i : HasCapacity(supply, req, s[j])
  BY DEF IsKept
<1> QED
  BY <1>1, <1>2 DEF IsBestUpTo

\* The loop ends with the first pool of the greatest depth with capacity.
LEMMA ScanFinds ==
  ASSUME NEW s, NEW req, Len(s) \in Nat, \A j \in 1..Len(s) : Depth(s[j]) \in Int
  PROVE  IsBestUpTo(s, req, Len(s), Scan(s, req))
<1> DEFINE n == Len(s)
           good(i, b) == IsBestUpTo(s, req, i, b)
           val(i) == CHOOSE b : good(i, b)
           f == [i \in 0..n |-> val(i)]
<1>1. good(0, <<>>)
  <2>1. 1..0 = {}
    OBVIOUS
  <2> QED
    BY <2>1 DEF IsBestUpTo
<1>2. ASSUME NEW i \in 1..n, NEW b, good(i - 1, b) PROVE good(i, Improved(s, req, i, b))
  <2>1. i \in Nat /\ i > 0 /\ \A j \in 1..i : Depth(s[j]) \in Int
    OBVIOUS
  <2> QED
    BY <1>2, <2>1, ScanStep
<1>3. \A i \in 0..n : \E b : good(i, b)
  <2> DEFINE P == {i \in 0..n : \E b : good(i, b)}
  <2>1. 0 \in P
    BY <1>1
  <2>2. \A i \in 0..(n-1) : i \in P => i + 1 \in P
    <3> TAKE i \in 0..(n-1)
    <3> HAVE i \in P
    <3>1. i + 1 \in 1..n /\ (i + 1) - 1 = i /\ i + 1 \in 0..n
      OBVIOUS
    <3>2. PICK b : good(i, b)
      OBVIOUS
    <3> HIDE DEF good
    <3>3. good(i + 1, Improved(s, req, i + 1, b))
      BY <1>2, <3>1, <3>2
    <3> QED
      BY <3>1, <3>3
  <2> HIDE DEF P
  <2>3. \A i \in 0..n : i \in P
    BY <2>1, <2>2, InductionTo
  <2> QED
    BY <2>3 DEF P
<1>4. \A i \in 0..n : good(i, val(i))
  <2> HIDE DEF good
  <2> QED
    BY <1>3
<1>5. ASSUME NEW i \in 0..n, NEW b, good(i, b), NEW c, good(i, c) PROVE b = c
  <2>1. i \in Nat /\ \A j \in 1..i : Depth(s[j]) \in Int
    OBVIOUS
  <2> QED
    BY <1>5, <2>1, BestIsUnique
<1>6. IsScan(f, s, req)
  <2> HIDE DEF good, val
  <2>1. \A i \in 0..n : val(i) = IF i = 0 THEN <<>> ELSE Improved(s, req, i, f[i-1])
    <3> TAKE i \in 0..n
    <3>1. CASE i = 0
      BY <1>1, <1>4, <1>5, <3>1
    <3>2. CASE i # 0
      <4>1. i \in 1..n /\ i - 1 \in 0..n
        BY <3>2
      <4>2. f[i-1] = val(i-1) /\ good(i-1, val(i-1))
        BY <1>4, <4>1
      <4> HIDE DEF f
      <4>3. good(i, Improved(s, req, i, f[i-1]))
        BY <1>2, <4>1, <4>2
      <4> QED
        BY <1>4, <1>5, <3>2, <4>3
    <3> QED
      BY <3>1, <3>2
  <2>2. f = [i \in 0..n |-> IF i = 0 THEN <<>> ELSE Improved(s, req, i, f[i-1])]
    <3> DEFINE h(i) == IF i = 0 THEN <<>> ELSE Improved(s, req, i, f[i-1])
    <3>1. \A i \in 0..n : val(i) = h(i)
      BY <2>1
    <3>2. f = [i \in 0..n |-> val(i)]
      OBVIOUS
    <3> HIDE DEF f, h
    <3>3. f = [i \in 0..n |-> h(i)]
      BY <3>1, <3>2
    <3> QED
      BY <3>3 DEF h
  <2> HIDE DEF f
  <2> QED
    BY <2>2 DEF IsScan
<1> DEFINE best == CHOOSE x : IsScan(x, s, req)
<1> HIDE DEF f
<1>7. IsScan(best, s, req)
  BY <1>6
<1> HIDE DEF best
<1>8. \A i \in 0..n : good(i, best[i])
  <2> DEFINE P == {i \in 0..n : good(i, best[i])}
  <2>1. 0 \in P
    <3>1. 0 \in 0..n /\ best[0] = <<>>
      BY <1>7 DEF IsScan
    <3> HIDE DEF good
    <3> QED
      BY <1>1, <3>1
  <2>2. \A i \in 0..(n-1) : i \in P => i + 1 \in P
    <3> TAKE i \in 0..(n-1)
    <3> HAVE i \in P
    <3>1. i + 1 \in 1..n /\ (i + 1) - 1 = i /\ i + 1 \in 0..n /\ i + 1 # 0
      OBVIOUS
    <3>2. best[i + 1] = Improved(s, req, i + 1, best[i])
      BY <1>7, <3>1 DEF IsScan
    <3>3. good(i, best[i])
      OBVIOUS
    <3> HIDE DEF good
    <3> QED
      BY <1>2, <3>1, <3>2, <3>3
  <2> HIDE DEF P
  <2>3. \A i \in 0..n : i \in P
    BY <2>1, <2>2, InductionTo
  <2> QED
    BY <2>3 DEF P
<1>9. n \in 0..n
  OBVIOUS
<1>10. Scan(s, req) = best[n]
  BY ScanIsChosen DEF best
<1> HIDE DEF good
<1>11. good(n, Scan(s, req))
  BY <1>8, <1>9, <1>10
<1> QED
  BY <1>11 DEF good

--------------------------------------------------------------------------------
(***************************************************************************)
(* The selection.                                                          *)
(***************************************************************************)
LEMMA FirstIsUnique ==
  ASSUME PolicyTypeOK, HeldFinite, NEW req, IsRequest(req), NEW weight, IsWeight(weight),
         NEW S \in SUBSET Pool,
         NEW p, IsFirst(supply, Colocated, req, weight, p, S),
         NEW q, IsFirst(supply, Colocated, req, weight, q, S)
  PROVE  p = q
<1> SUFFICES ASSUME p # q PROVE FALSE
  OBVIOUS
<1>1. p \in Pool /\ q \in Pool
  BY DEF IsFirst
<1>2. Before(supply, Colocated, req, weight, p, q) /\ Before(supply, Colocated, req, weight, q, p)
  BY DEF IsFirst
<1> QED
  BY <1>1, <1>2, BeforeIsOrder

\* Every candidate has capacity: the root, which stands in where no other has, is never
\* checked.
LEMMA CandidatesFit ==
  ASSUME NEW req
  PROVE  {q \in FilteredPools(supply, req) : HasCapacity(supply, req, q)}
           = FilteredPools(supply, req)
<1>1. HasCapacity(supply, req, Root)
  BY DEF HasCapacity, CpuFits, MemoryFits, BelowRoot
<1> QED
  BY <1>1 DEF FilteredPools

\* findRegularPool, on any arrangement of the candidates in the order of compareNodes.
LEMMA ScanIsRegularChoice ==
  ASSUME NEW req, NEW s, IsSorted(s, FilteredPools(supply, req), req, req.gpus)
  PROVE  \E p \in Pool : Scan(s, req) = <<p>> /\ IsRegularChoice(supply, Colocated, req, p)
<1> DEFINE S == FilteredPools(supply, req)
           n == Cardinality(S)
<1>1. S \in SUBSET Pool /\ S # {} /\ \A p \in S : HasCapacity(supply, req, p)
  BY FilteredArePools, CandidatesFit
<1>2. /\ n \in Nat /\ DOMAIN s = 1..n /\ Len(s) = n
      /\ \A i \in 1..n : s[i] \in S
      /\ \A p \in S : \E i \in 1..n : s[i] = p
      /\ \A i, j \in 1..n : i < j => Before(supply, Colocated, req, req.gpus, s[i], s[j])
  BY DEF IsSorted
<1>3. \A p \in Pool : Depth(p) \in Int
  BY FS_CardinalityType DEF Depth
<1> HIDE DEF S, n
<1>4. \A i \in 1..n : Depth(s[i]) \in Int
  BY <1>1, <1>2, <1>3
<1>5. IsBestUpTo(s, req, n, Scan(s, req))
  BY <1>2, <1>4, ScanFinds
<1>6. PICK k \in 1..n : Scan(s, req) = <<s[k]>> /\ IsKept(s, req, n, k)
  <2>1. PICK p \in S : TRUE
    BY <1>1
  <2>2. \E i \in 1..n : HasCapacity(supply, req, s[i])
    BY <1>1, <1>2, <2>1
  <2> QED
    BY <1>5, <2>2 DEF IsBestUpTo
<1> DEFINE p == s[k]
<1>7. p \in S /\ Depth(p) \in Int
  BY <1>2, <1>4
<1>8. ASSUME NEW q \in S
      PROVE  \E j \in 1..n : /\ q = s[j] /\ Depth(q) \in Int
                             /\ Depth(q) < Depth(p) \/ (Depth(q) = Depth(p) /\ k <= j)
  <2>1. PICK j \in 1..n : s[j] = q
    BY <1>2
  <2> QED
    BY <1>1, <1>4, <1>6, <2>1 DEF IsKept
<1> HIDE DEF p
<1>9. p \in DeepestOf(S)
  <2>1. \A q \in S : Depth(p) >= Depth(q)
    BY <1>7, <1>8
  <2> QED
    BY <1>7, <2>1 DEF DeepestOf
<1>10. ASSUME NEW q \in DeepestOf(S), q # p
       PROVE  Before(supply, Colocated, req, req.gpus, p, q)
  <2>1. q \in S /\ Depth(q) >= Depth(p)
    BY <1>7, <1>10 DEF DeepestOf
  <2>2. PICK j \in 1..n : /\ q = s[j] /\ Depth(q) \in Int
                          /\ Depth(q) < Depth(p) \/ (Depth(q) = Depth(p) /\ k <= j)
    BY <1>8, <2>1
  <2>3. k < j
    <3>1. k # j
      BY <1>10, <2>2 DEF p
    <3> QED
      BY <1>2, <1>7, <2>1, <2>2, <3>1
  <2> QED
    BY <1>2, <2>2, <2>3 DEF p
<1>11. IsFirst(supply, Colocated, req, req.gpus, p, DeepestOf(S))
  BY <1>9, <1>10 DEF IsFirst
<1>12. IsRegularChoice(supply, Colocated, req, p)
  BY <1>11, CandidatesFit DEF IsRegularChoice, S
<1> QED
  BY <1>1, <1>6, <1>7, <1>12 DEF p

\* findGPUAffinityPool, likewise.
LEMMA ScanIsGpuChoice ==
  ASSUME NEW req, NEW s, IsSorted(s, FilteredPools(supply, req), req, GpuWeight(req))
  PROVE  IF GpuPools(supply, req) = {} THEN ScanGpu(s, req) = <<>>
         ELSE \E p \in Pool : ScanGpu(s, req) = <<p>> /\ IsGpuChoice(supply, Colocated, req, p)
<1> DEFINE S == FilteredPools(supply, req)
           n == Cardinality(S)
           touches(p) == NumasOf[p] \cap GpuNumas(req) # {}
           touching == {i \in 1..n : touches(s[i])}
<1>1. S \in SUBSET Pool
  BY FilteredArePools
<1>2. /\ n \in Nat /\ Len(s) = n
      /\ \A i \in 1..n : s[i] \in S
      /\ \A p \in S : \E i \in 1..n : s[i] = p
      /\ \A i, j \in 1..n : i < j => Before(supply, Colocated, req, GpuWeight(req), s[i], s[j])
  BY DEF IsSorted
<1>3. GpuPools(supply, req) = {p \in S : touches(p)}
  BY DEF GpuPools
<1>4. ScanGpu(s, req) = IF touching = {} THEN <<>> ELSE <<s[Min(touching)]>>
  <2> HIDE DEF S
  <2> QED
    BY <1>2 DEF ScanGpu
<1> HIDE DEF S, n, touches
<1>5. CASE GpuPools(supply, req) = {}
  <2>1. touching = {}
    BY <1>2, <1>3, <1>5
  <2> QED
    BY <1>4, <1>5, <2>1
<1>6. CASE GpuPools(supply, req) # {}
  <2>1. touching # {} /\ touching \in SUBSET Nat
    <3>1. PICK p \in S : touches(p)
      BY <1>3, <1>6
    <3>2. PICK i \in 1..n : s[i] = p
      BY <1>2
    <3> QED
      BY <1>2, <3>1, <3>2
  <2> DEFINE m == Min(touching)
             p == s[m]
  <2>2. m \in touching /\ \A i \in touching : m <= i
    <3> HIDE DEF touching
    <3> QED
      BY <2>1, MinIsLeast
  <2>3. m \in 1..n /\ touches(p) /\ p \in S
    BY <1>2, <2>2
  <2> HIDE DEF m, p
  <2>4. ASSUME NEW q \in GpuPools(supply, req), q # p
        PROVE  Before(supply, Colocated, req, GpuWeight(req), p, q)
    <3>1. PICK j \in 1..n : s[j] = q
      BY <1>2, <1>3
    <3>2. j \in touching /\ j # m
      BY <1>3, <2>4, <3>1 DEF p
    <3>3. m < j
      BY <1>2, <2>2, <2>3, <3>2
    <3> QED
      BY <1>2, <2>3, <3>1, <3>3 DEF p
  <2>5. IsGpuChoice(supply, Colocated, req, p)
    BY <1>3, <2>3, <2>4 DEF IsGpuChoice, IsFirst
  <2> QED
    BY <1>1, <1>4, <1>6, <2>1, <2>3, <2>5 DEF p, m
<1> QED
  BY <1>5, <1>6

\* The pool that sorting and scanning picks is the best pool, and the only one.
LEMMA SelectionAgrees ==
  ASSUME PolicyTypeOK, HeldFinite, NEW req, IsRequest(req), IsWeight(req.gpus)
  PROVE  \E p \in Pool : /\ Selected(req) = <<p>>
                         /\ {q \in Pool : IsBestPool(supply, Colocated, req, q)} = {p}
<1> DEFINE S == FilteredPools(supply, req)
           s == SortedPools(req, req.gpus)
           t == SortedPools(req, GpuWeight(req))
<1>1. IsWeight(GpuWeight(req))
  BY DEF IsWeight, GpuWeight
<1>2. IsSorted(s, S, req, req.gpus) /\ IsSorted(t, S, req, GpuWeight(req))
  BY <1>1, SortedPoolsAreSorted
<1>3. S \in SUBSET Pool /\ DeepestOf(S) \in SUBSET Pool /\ GpuPools(supply, req) \in SUBSET Pool
  BY FilteredArePools DEF DeepestOf, GpuPools
<1>4. Selected(req) = IF GpuFirst /\ ScanGpu(t, req) # <<>> THEN ScanGpu(t, req) ELSE Scan(s, req)
  BY DEF Selected
<1> HIDE DEF S, s, t
<1>5. CASE GpuFirst /\ GpuPools(supply, req) # {}
  <2>1. PICK p \in Pool : ScanGpu(t, req) = <<p>> /\ IsGpuChoice(supply, Colocated, req, p)
    BY <1>2, <1>5, ScanIsGpuChoice DEF S
  <2>2. \A q \in Pool : IsGpuChoice(supply, Colocated, req, q) => q = p
    BY <1>1, <1>3, <2>1, FirstIsUnique DEF IsGpuChoice
  <2>3. Selected(req) = <<p>>
    BY <1>4, <1>5, <2>1
  <2>4. \A q \in Pool : IsBestPool(supply, Colocated, req, q) <=> q = p
    BY <1>5, <2>1, <2>2 DEF IsBestPool
  <2> QED
    BY <2>3, <2>4
<1>6. CASE ~(GpuFirst /\ GpuPools(supply, req) # {})
  <2>1. PICK p \in Pool : Scan(s, req) = <<p>> /\ IsRegularChoice(supply, Colocated, req, p)
    BY <1>2, ScanIsRegularChoice DEF S
  <2>2. \A q \in Pool : IsRegularChoice(supply, Colocated, req, q) => q = p
    <3>1. \A q \in Pool : IsRegularChoice(supply, Colocated, req, q) =>
            IsFirst(supply, Colocated, req, req.gpus, q, DeepestOf(S))
      BY CandidatesFit DEF IsRegularChoice, S
    <3> QED
      BY <1>3, <2>1, <3>1, FirstIsUnique
  <2>3. Selected(req) = <<p>>
    <3>1. ~GpuFirst \/ ScanGpu(t, req) = <<>>
      BY <1>2, <1>6, ScanIsGpuChoice DEF S
    <3> QED
      BY <1>4, <2>1, <3>1
  <2>4. \A q \in Pool : IsBestPool(supply, Colocated, req, q) <=> q = p
    BY <1>6, <2>1, <2>2 DEF IsBestPool
  <2> QED
    BY <2>3, <2>4
<1> QED
  BY <1>5, <1>6

\* In every state the policy can be in, the choice the other theorems speak of, a best
\* pool by the order of preference, is the one pool that sorting the candidates and
\* scanning them picks (findBestAvailablePool, compareNodes, findRegularPool,
\* findGPUAffinityPool).
THEOREM SelectionIsTheCodes == PolicySpec => []SelectionIsSortAndScan
<1> DEFINE Inv == PolicyTypeOK /\ HeldFinite /\ Ledger
<1>1. Inv => SelectionIsSortAndScan
  <2> SUFFICES ASSUME Inv, NEW req \in PolicyRequest
               PROVE {<<p>> : p \in {q \in Pool : IsBestPool(supply, Colocated, req, q)}}
                       = {Selected(req)}
    BY DEF SelectionIsSortAndScan
  <2>1. IsWeight(req.gpus)
    <3>1. PICK c \in PolicyContainer : req = Asked(c)
      BY DEF PolicyRequest
    <3> QED
      BY <3>1, PolicyContainers DEF IsContainer, Asked, EstimatedRequest, IsWeight
  <2>2. PICK p \in Pool : /\ Selected(req) = <<p>>
                          /\ {q \in Pool : IsBestPool(supply, Colocated, req, q)} = {p}
    BY <2>1, RequestsAreRequests, SelectionAgrees
  <2> QED
    BY <2>2
<1>2. PolicySpec => []Inv
  BY LedgerInvariant
<1> QED
  BY <1>1, <1>2, PTL
====================================================================================

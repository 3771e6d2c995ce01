----------------------------- MODULE RankingProofs -----------------------------
(***************************************************************************)
(* What the stages of the ranker compute, for every pool and configuration:*)
(* the filter, the stable sort, the claimed boost, the tie-break, the pin  *)
(* and the de-pin of rank.go.  The stages that loop are recursive          *)
(* functions; that each has a value, and what it is, follows from the      *)
(* first lemmas: a loop runs to its end because its shortest prefix that   *)
(* does not would have a shorter one.                                      *)
(***************************************************************************)
EXTENDS Ranking, FiniteSetTheorems, FunctionTheorems, SequenceTheorems, TLAPS

\* A set of numbers has a least one: the ground of every induction on the passes of a loop
\* (0..n orders the numbers by strict inclusion, which is well-founded on finite sets).
LEMMA Least ==
  ASSUME NEW T \in SUBSET Nat, T # {}
  PROVE  \E n \in T : \A m \in T : n <= m
<1> DEFINE F == {0..k : k \in T}
<1>1. F \subseteq FiniteSubsetsOf(Nat)
  <2>1. ASSUME NEW k \in T PROVE 0..k \in FiniteSubsetsOf(Nat)
    <3>1. IsFiniteSet(0..k)
      BY FS_Interval
    <3> QED BY <3>1 DEF FiniteSubsetsOf
  <2> QED BY <2>1
<1>2. F # {}
  OBVIOUS
<1>3. PICK x \in F : \A y \in F : ~ (<<y, x>> \in StrictSubsetOrdering(Nat))
  <2> HIDE DEF F
  <2> QED BY <1>1, <1>2, WFMin, FS_StrictSubsetOrderingWellFounded
<1>4. PICK n \in T : x = 0..n
  OBVIOUS
<1>5. ASSUME NEW m \in T, ~(n <= m) PROVE FALSE
  <2>1. 0..m \subseteq 0..n /\ 0..m # 0..n
    BY <1>5
  <2>2. <<0..m, x>> \in StrictSubsetOrdering(Nat)
    BY <2>1, <1>4 DEF StrictSubsetOrdering
  <2> QED BY <2>2, <1>3
<1> QED BY <1>5

\* So a set of numbers up to b has a greatest one.
LEMMA Greatest ==
  ASSUME NEW T \in SUBSET Nat, T # {}, NEW b \in Nat, \A m \in T : m <= b
  PROVE  \E n \in T : \A m \in T : m <= n
<1> DEFINE U == {b - m : m \in T}
<1>1. U \in SUBSET Nat
  BY \A m \in T : m \in Nat /\ m <= b
<1>2. U # {}
  OBVIOUS
<1>3. PICK u \in U : \A v \in U : u <= v
  <2> HIDE DEF U
  <2>1. \E n \in U : \A m \in U : n <= m
    BY <1>1, <1>2, Least
  <2> QED BY <2>1
<1>4. PICK n \in T : u = b - n
  OBVIOUS
<1>5. \A m \in T : m \in Nat /\ b - m \in U
  OBVIOUS
<1>6. \A m \in T : m <= n
  <2> HIDE DEF U
  <2> QED BY <1>3, <1>4, <1>5
<1> QED BY <1>6

\* What a loop of N passes goes through from c on, F its body (acc after pass n is
\* F of acc before it, and n): the passes of breakTies, dePin and intent's Extract.
Runs(F, c, S, N) ==
  {g \in [0..N -> S] : g[0] = c /\ \A n \in 1..N : g[n] = F[<<g[n-1], n>>]}

\* A loop runs to its end: a recursive function over the passes has a value.
LEMMA LoopExists ==
  ASSUME NEW N \in Nat, NEW S, NEW c \in S, NEW F \in [S \X (1..N) -> S]
  PROVE  Runs(F, c, S, N) # {}
<1> DEFINE Good(m) == \E g \in [0..m -> S] : g[0] = c /\ \A n \in 1..m : g[n] = F[<<g[n-1], n>>]
           Bad == {m \in 0..N : ~Good(m)}
<1>1. SUFFICES ASSUME Bad # {} PROVE FALSE
  <2>1. ~(N \in Bad) => Good(N)
    BY N \in 0..N
  <2> QED BY <2>1 DEF Runs
<1>3. PICK m \in Bad : \A k \in Bad : m <= k
  <2>1. Bad \in SUBSET Nat
    OBVIOUS
  <2> HIDE DEF Bad
  <2> QED BY <1>1, <2>1, Least
<1>4. Good(0)
  <2> DEFINE g == [n \in 0..0 |-> c]
  <2>1. g \in [0..0 -> S] /\ g[0] = c /\ \A n \in 1..0 : g[n] = F[<<g[n-1], n>>]
    OBVIOUS
  <2> HIDE DEF g
  <2> QED BY <2>1
<1>5. m \in 0..N /\ m # 0 /\ m-1 \in 0..N /\ Good(m-1)
  <2> HIDE DEF Good
  <2>1. m \in 0..N /\ ~Good(m)
    OBVIOUS
  <2>2. m # 0
    BY <2>1, <1>4
  <2>3. m-1 \in 0..N
    BY <2>1, <2>2
  <2>4. m-1 \notin Bad
    BY <2>1, <1>3
  <2> QED BY <2>1, <2>2, <2>3, <2>4
<1>6. PICK g \in [0..(m-1) -> S] : g[0] = c /\ \A n \in 1..(m-1) : g[n] = F[<<g[n-1], n>>]
  BY <1>5
<1> DEFINE h == [n \in 0..m |-> IF n = m THEN F[<<g[m-1], m>>] ELSE g[n]]
<1>7. h \in [0..m -> S]
  <2>1. g[m-1] \in S BY <1>5
  <2>2. m \in 1..N BY <1>5
  <2>3. F[<<g[m-1], m>>] \in S BY <2>1, <2>2
  <2> QED BY <2>3, <1>5
<1>8. h[0] = c /\ \A n \in 1..m : h[n] = F[<<h[n-1], n>>]
  <2>1. h[0] = c
    BY <1>5, <1>6
  <2>2. ASSUME NEW n \in 1..m PROVE h[n] = F[<<h[n-1], n>>]
    <3>1. n - 1 \in 0..m /\ n - 1 # m /\ n \in 0..m /\ (n # m => n \in 1..(m-1))
      BY <1>5
    <3>2. h[n-1] = g[n-1]
      BY <3>1
    <3>3. h[n] = IF n = m THEN F[<<g[m-1], m>>] ELSE g[n]
      BY <3>1
    <3> HIDE DEF h
    <3> QED BY <1>6, <3>1, <3>2, <3>3
  <2> HIDE DEF h
  <2> QED BY <2>1, <2>2
<1>9. Good(m)
  <2> HIDE DEF h
  <2> QED BY <1>7, <1>8
<1> QED BY <1>9

\* What holds at the start, and after each pass that it held before, holds at the end.
LEMMA Induction ==
  ASSUME NEW N \in Nat, NEW T, 0 \in T, \A k \in 1..N : k - 1 \in T => k \in T
  PROVE  \A k \in 0..N : k \in T
<1> DEFINE Bad == {k \in 0..N : k \notin T}
<1>1. SUFFICES ASSUME Bad # {} PROVE FALSE
  OBVIOUS
<1>2. PICK b \in Bad : \A k \in Bad : b <= k
  <2>1. Bad \in SUBSET Nat
    OBVIOUS
  <2> HIDE DEF Bad
  <2> QED BY <1>1, <2>1, Least
<1>3. b \in 1..N /\ b - 1 \in 0..N /\ b - 1 \notin Bad
  BY <1>2
<1> QED BY <1>3

\* Every finite set with a total order is listed in that order by some function
\* (the number of elements in front of one is its place: by the pigeonhole principle,
\* every place is taken).
LEMMA Listing ==
  ASSUME NEW K, IsFiniteSet(K), NEW R,
         \A x \in K : <<x, x>> \notin R,
         \A x, y, z \in K : <<x, y>> \in R /\ <<y, z>> \in R => <<x, z>> \in R,
         \A x, y \in K : x = y \/ <<x, y>> \in R \/ <<y, x>> \in R
  PROVE  \E f \in [1..Cardinality(K) -> K] :
           /\ \A k \in K : \E a \in 1..Cardinality(K) : f[a] = k
           /\ \A a, b \in 1..Cardinality(K) : a < b => <<f[a], f[b]>> \in R
<1> DEFINE n == Cardinality(K)
           Before(x) == {y \in K : <<y, x>> \in R}
           Place(x) == Cardinality(Before(x))
           g == [x \in K |-> Place(x)]
<1>1. n \in Nat
  BY FS_CardinalityType
<1>2. ASSUME NEW x \in K
      PROVE  IsFiniteSet(Before(x)) /\ Place(x) \in 0..n-1
  <2>1. IsFiniteSet(Before(x)) /\ Place(x) \in Nat /\ Place(x) <= n /\ (n = Place(x) => K = Before(x))
    BY Before(x) \in SUBSET K, FS_Subset, FS_CardinalityType
  <2>2. K # Before(x)
    OBVIOUS
  <2> HIDE DEF Before, n
  <2> QED BY <1>1, <2>1, <2>2
<1>20. ASSUME NEW x \in K PROVE Place(x) \in Nat /\ Place(x) \in 0..n-1
  <2>1. Place(x) \in 0..n-1
    BY <1>2
  <2> HIDE DEF Place, n
  <2> QED BY <1>1, <2>1
<1>3. ASSUME NEW x \in K, NEW y \in K, <<x, y>> \in R PROVE Place(x) < Place(y)
  <2>1. Before(x) \in SUBSET Before(y) /\ x \in Before(y) /\ x \notin Before(x)
    BY <1>3
  <2>2. Place(x) <= Place(y) /\ (Place(y) = Place(x) => Before(y) = Before(x))
    <3> HIDE DEF Before
    <3> QED BY <1>2, <2>1, FS_Subset
  <2>3. Place(x) \in Nat /\ Place(y) \in Nat
    <3> HIDE DEF Place
    <3> QED BY <1>20
  <2>4. Place(y) # Place(x)
    <3> HIDE DEF Before
    <3> QED BY <2>1, <2>2
  <2> HIDE DEF Place
  <2> QED BY <2>2, <2>3, <2>4
<1>4. ASSUME NEW x \in K, NEW y \in K, Place(x) = Place(y) PROVE x = y
  <2>1. x = y \/ <<x, y>> \in R \/ <<y, x>> \in R
    OBVIOUS
  <2> HIDE DEF Place
  <2>2. Place(x) \in Nat /\ Place(y) \in Nat
    BY <1>20
  <2>3. ~(Place(x) < Place(y)) /\ ~(Place(y) < Place(x))
    BY <1>4, <2>2
  <2>4. <<x, y>> \notin R /\ <<y, x>> \notin R
    BY <1>3, <2>3
  <2> QED BY <2>1, <2>4
<1>5. g \in [K -> 0..n-1]
  <2> HIDE DEF Place, n
  <2> QED BY <1>20
<1>6. g \in Injection(K, 0..n-1)
  <2>1. \A a, b \in K : g[a] = g[b] => a = b
    <3> HIDE DEF Place
    <3> QED BY <1>4
  <2> HIDE DEF g, n
  <2> QED BY <1>5, <2>1, Fun_IsInj
<1>7. IsFiniteSet(0..n-1) /\ Cardinality(0..n-1) = n
  <2>1. 0 \in Int /\ n - 1 \in Int
    BY <1>1
  <2>2. IsFiniteSet(0..n-1) /\ Cardinality(0..n-1) = (IF 0 > n - 1 THEN 0 ELSE n - 1 - 0 + 1)
    <3> HIDE DEF n
    <3> QED BY <2>1, FS_Interval
  <2> HIDE DEF n
  <2> QED BY <1>1, <2>2
<1>8. \A m \in 0..n-1 : \E x \in K : g[x] = m
  <2>1. g \in Surjection(K, 0..n-1)
    <3> HIDE DEF g
    <3> QED BY <1>6, <1>7, FS_Injection
  <2> HIDE DEF g, n
  <2> QED BY <2>1 DEF Surjection
<1> DEFINE f == [a \in 1..n |-> CHOOSE x \in K : Place(x) = a - 1]
<1>9. ASSUME NEW a \in 1..n PROVE f[a] \in K /\ Place(f[a]) = a - 1
  <2> HIDE DEF Place, n
  <2>1. a - 1 \in 0..n-1
    BY <1>1
  <2>2. \E x \in K : Place(x) = a - 1
    BY <1>8, <2>1
  <2>3. f[a] = CHOOSE x \in K : Place(x) = a - 1
    OBVIOUS
  <2> QED BY <2>2, <2>3
<1>10. f \in [1..n -> K]
  <2>1. f = [a \in 1..n |-> CHOOSE x \in K : Place(x) = a - 1]
    OBVIOUS
  <2>2. ASSUME NEW a \in 1..n PROVE (CHOOSE x \in K : Place(x) = a - 1) \in K
    <3>1. f[a] = CHOOSE x \in K : Place(x) = a - 1
      OBVIOUS
    <3> QED BY <1>9, <3>1
  <2> HIDE DEF f, n, Place
  <2> QED BY <2>1, <2>2
<1>11. ASSUME NEW k \in K PROVE \E a \in 1..n : f[a] = k
  <2> HIDE DEF f, Place, n
  <2>1. Place(k) + 1 \in 1..n /\ (Place(k) + 1) - 1 = Place(k)
    BY <1>1, <1>20
  <2>2. f[Place(k) + 1] \in K /\ Place(f[Place(k) + 1]) = Place(k)
    BY <1>9, <2>1
  <2>3. f[Place(k) + 1] = k
    BY <1>4, <2>2
  <2> QED BY <2>1, <2>3
<1>12. ASSUME NEW a \in 1..n, NEW b \in 1..n, a < b PROVE <<f[a], f[b]>> \in R
  <2> HIDE DEF f, Place, n
  <2>1. f[a] \in K /\ f[b] \in K /\ Place(f[a]) = a - 1 /\ Place(f[b]) = b - 1
    BY <1>9
  <2>2. f[a] # f[b] /\ ~(Place(f[b]) < Place(f[a]))
    BY <1>1, <1>12, <2>1
  <2>3. <<f[b], f[a]>> \notin R
    BY <1>3, <2>1, <2>2
  <2> QED BY <2>1, <2>2, <2>3
<1> HIDE DEF f, n
<1> QED BY <1>10, <1>11, <1>12 DEF n
-----------------------------------------------------------------------------
(* Filters.                                                                *)

\* A set of places of a list has an enumeration.
LEMMA EnumerationExists ==
  ASSUME NEW n \in Nat, NEW K \in SUBSET (1..n)
  PROVE  /\ IsFiniteSet(K) /\ Cardinality(K) \in Nat /\ Cardinality(K) <= n
         /\ Enumerations(K) # {}
<1>1. IsFiniteSet(1..n) /\ Cardinality(1..n) = n
  <2>1. IsFiniteSet(1..n) /\ Cardinality(1..n) = (IF 1 > n THEN 0 ELSE n - 1 + 1)
    BY FS_Interval
  <2> QED BY <2>1
<1>2. IsFiniteSet(K) /\ Cardinality(K) \in Nat /\ Cardinality(K) <= n
  BY <1>1, FS_Subset, FS_CardinalityType
<1> DEFINE R == {p \in K \X K : p[1] < p[2]}
<1>3. /\ \A x \in K : <<x, x>> \notin R
      /\ \A x, y, z \in K : <<x, y>> \in R /\ <<y, z>> \in R => <<x, z>> \in R
      /\ \A x, y \in K : x = y \/ <<x, y>> \in R \/ <<y, x>> \in R
  OBVIOUS
<1>4. PICK f \in [1..Cardinality(K) -> K] :
        \A a, b \in 1..Cardinality(K) : a < b => <<f[a], f[b]>> \in R
  <2>1. \E f \in [1..Cardinality(K) -> K] :
          /\ \A k \in K : \E a \in 1..Cardinality(K) : f[a] = k
          /\ \A a, b \in 1..Cardinality(K) : a < b => <<f[a], f[b]>> \in R
    <3> HIDE DEF R
    <3> QED BY <1>2, <1>3, Listing
  <2> QED BY <2>1
<1>5. \A a, b \in DOMAIN f : a < b => f[a] < f[b]
  BY <1>4
<1>6. f \in Enumerations(K)
  BY <1>5 DEF Enumerations
<1> QED BY <1>2, <1>6

\* What an enumeration is.
LEMMA EnumerationFacts ==
  ASSUME NEW n \in Nat, NEW K \in SUBSET (1..n), NEW f \in Enumerations(K)
  PROVE  /\ Cardinality(K) \in 0..n
         /\ f \in [1..Cardinality(K) -> K]
         /\ \A a \in 1..Cardinality(K) : f[a] \in 1..n
         /\ \A a, b \in 1..Cardinality(K) : a < b => f[a] < f[b]
         /\ \A k \in K : \E a \in 1..Cardinality(K) : f[a] = k
<1> DEFINE m == Cardinality(K)
<1>1. m \in 0..n /\ m \in Nat /\ IsFiniteSet(K)
  BY EnumerationExists
<1>2. f \in [1..m -> K] /\ \A a, b \in 1..m : a < b => f[a] < f[b]
  BY DEF Enumerations
<1>3. \A a \in 1..m : f[a] \in K /\ f[a] \in 1..n
  <2> HIDE DEF m
  <2> QED BY <1>2
<1>4. f \in Injection(1..m, K)
  <2> HIDE DEF m
  <2>1. ASSUME NEW a \in 1..m, NEW b \in 1..m, f[a] = f[b] PROVE a = b
    <3>1. ~(f[a] < f[b]) /\ ~(f[b] < f[a])
      BY <1>3, <2>1
    <3> QED BY <1>1, <1>2, <3>1
  <2> QED BY <1>2, <2>1, Fun_IsInj
<1>5. IsFiniteSet(1..m) /\ Cardinality(1..m) = m
  <2>1. IsFiniteSet(1..m) /\ Cardinality(1..m) = (IF 1 > m THEN 0 ELSE m - 1 + 1)
    <3> HIDE DEF m
    <3> QED BY <1>1, FS_Interval
  <2> HIDE DEF m
  <2> QED BY <1>1, <2>1
<1>6. f \in Surjection(1..m, K)
  BY <1>1, <1>4, <1>5, FS_Injection
<1>7. \A k \in K : \E a \in 1..m : f[a] = k
  <2> HIDE DEF m
  <2> QED BY <1>6 DEF Surjection
<1> HIDE DEF m
<1> QED BY <1>1, <1>2, <1>3, <1>7 DEF m

\* The rows of a list.
Rows(s) == {s[k] : k \in 1..Len(s)}

\* t is a subsequence of s, made of the positions K.
IsSubsequence(S, s, K, t) ==
  /\ t \in Seq(S)
  /\ Len(t) <= Len(s)
  /\ Rows(t) = {s[k] : k \in K}
  /\ DistinctIds(s) => DistinctIds(t)
  /\ \A k \in 1..Len(t) : \E m \in K : t[k] = s[m]
  /\ \A a, b \in 1..Len(t) : a < b =>
       \E x, y \in 1..Len(s) : x < y /\ t[a] = s[x] /\ t[b] = s[y]

\* Filtering keeps a subsequence: the same rows, none twice, in the same order.
LEMMA FilterFacts ==
  ASSUME NEW S, NEW s \in Seq(S), NEW K \in SUBSET (1..Len(s)),
         NEW f \in Enumerations(K), NEW t, t = Selected(s, f)
  PROVE  IsSubsequence(S, s, K, t)
<1> DEFINE n == Cardinality(K)
<1>1. /\ n \in 0..Len(s) /\ f \in [1..n -> K]
      /\ \A a \in 1..n : f[a] \in 1..Len(s)
      /\ \A a, b \in 1..n : a < b => f[a] < f[b]
      /\ \A k \in K : \E a \in 1..n : f[a] = k
  <2>1. Len(s) \in Nat
    OBVIOUS
  <2> QED BY <2>1, EnumerationFacts
<1> HIDE DEF n
<1>3. ASSUME NEW k \in 1..n
      PROVE  f[k] \in K /\ f[k] \in 1..Len(s) /\ s[f[k]] \in S
  <2>1. f[k] \in K /\ f[k] \in 1..Len(s)
    BY <1>1
  <2>3. \A m \in 1..Len(s) : s[m] \in S
    OBVIOUS
  <2>4. QED BY <2>1, <2>3
<1>4. n \in Nat /\ n <= Len(s)
  BY <1>1
<1>5. t = [k \in 1..n |-> s[f[k]]]
  BY <1>1 DEF Selected
<1>6. t \in [1..n -> S]
  BY <1>3, <1>5
<1>7. t \in Seq(S) /\ Len(t) = n
  BY <1>4, <1>6
<1>8. \A k \in 1..n : \E m \in K : t[k] = s[m]
  BY <1>3, <1>5
<1>9. \A m \in K : \E k \in 1..n : t[k] = s[m]
  BY <1>1, <1>5
<1>10. {t[k] : k \in 1..n} = {s[k] : k \in K}
  <2>1. \A x : x \in {t[k] : k \in 1..n} => x \in {s[k] : k \in K}
    BY <1>8
  <2>2. \A x : x \in {s[k] : k \in K} => x \in {t[k] : k \in 1..n}
    BY <1>9
  <2>3. QED BY <2>1, <2>2
<1>11. ASSUME DistinctIds(s), NEW a \in 1..n, NEW b \in 1..n, t[a].id = t[b].id
      PROVE  a = b
  <2>1. f[a] = f[b]
    BY <1>11, <1>3, <1>5 DEF DistinctIds
  <2>2. f[a] \in Int /\ f[b] \in Int
    BY <1>3
  <2>3. QED BY <2>1, <2>2, <1>1
<1>12. DistinctIds(s) => DistinctIds(t)
  BY <1>7, <1>11 DEF DistinctIds
<1>13. \A a, b \in 1..n : a < b =>
         \E x, y \in 1..Len(s) : x < y /\ t[a] = s[x] /\ t[b] = s[y]
  BY <1>1, <1>3, <1>5
<1>14. QED BY <1>4, <1>7, <1>8, <1>10, <1>12, <1>13 DEF IsSubsequence, Rows

\* What the filters of hardFilter, applyPin and dedupeByName return.
LEMMA FilteredFacts ==
  ASSUME NEW S, NEW s \in Seq(S), NEW K \in SUBSET (1..Len(s))
  PROVE  IsSubsequence(S, s, K, Filtered(s, K))
<1>1. Enumerations(K) # {}
  <2>1. Len(s) \in Nat
    OBVIOUS
  <2> QED BY <2>1, EnumerationExists
<1>2. PICK f \in Enumerations(K) : Filtered(s, K) = Selected(s, f)
  BY <1>1 DEF Filtered
<1> QED BY <1>2, FilterFacts

\* t is s with the places a and b exchanged.
IsSwap(S, s, a, b, t) ==
  /\ t \in Seq(S)
  /\ Len(t) = Len(s)
  /\ t[a] = s[b]
  /\ t[b] = s[a]
  /\ \A k \in 1..Len(s) : k # a /\ k # b => t[k] = s[k]
  /\ Rows(t) = Rows(s)
  /\ DistinctIds(s) => DistinctIds(t)

\* Swapping two places keeps the length, the other places and the rows.
LEMMA SwapFacts ==
  ASSUME NEW S, NEW s \in Seq(S), NEW a \in 1..Len(s), NEW b \in 1..Len(s),
         NEW t, t = Swapped(s, a, b)
  PROVE  IsSwap(S, s, a, b, t)
<1>1. t \in Seq(S) /\ Len(t) = Len(s)
  BY DEF Swapped
<1>2. /\ t[a] = s[b]
      /\ t[b] = s[a]
      /\ \A k \in 1..Len(s) : k # a /\ k # b => t[k] = s[k]
  BY DEF Swapped
<1>3. \A k \in 1..Len(s) : \E m \in 1..Len(s) : t[k] = s[m]
  BY <1>2
<1>4. \A m \in 1..Len(s) : \E k \in 1..Len(s) : t[k] = s[m]
  BY <1>2
<1>5. DistinctIds(s) => DistinctIds(t)
  BY <1>1, <1>2 DEF DistinctIds
<1>6. Rows(t) = Rows(s)
  <2> DEFINE D == 1..Len(s)
  <2>1. \A k \in D : \E m \in D : t[k] = s[m]
    BY <1>3
  <2>2. \A m \in D : \E k \in D : t[k] = s[m]
    BY <1>4
  <2>6. Rows(t) = {t[k] : k \in D} /\ Rows(s) = {s[k] : k \in D}
    BY <1>1 DEF Rows
  <2> HIDE DEF D
  <2>3. ASSUME NEW x \in {t[k] : k \in D} PROVE x \in {s[k] : k \in D}
    BY <2>1, Zenon
  <2>4. ASSUME NEW x \in {s[k] : k \in D} PROVE x \in {t[k] : k \in D}
    BY <2>2, Zenon
  <2> QED BY <2>3, <2>4, <2>6
<1>7. QED BY <1>1, <1>2, <1>5, <1>6 DEF IsSwap
-----------------------------------------------------------------------------
(* The stages of Run.  Every set of rows below is one whose scores are     *)
(* integers.                                                               *)

Descending(s) == \A a, b \in 1..Len(s) : a < b => s[a].score >= s[b].score

\* t has the rows of s, each as often, in another order.
IsReordering(S, s, t) ==
  /\ t \in Seq(S)
  /\ Len(t) = Len(s)
  /\ Rows(t) = Rows(s)
  /\ DistinctIds(s) => DistinctIds(t)

\* Some rearrangement puts a list in stable descending order (sort.SliceStable).
LEMMA StableOrderExists ==
  ASSUME NEW S, \A r \in S : r.score \in Int, NEW s \in Seq(S)
  PROVE  \E p \in Rearrangements(Len(s)) : StableDescending(s, p)
<1> DEFINE n == Len(s)
           D == 1..n
           R == {q \in D \X D : \/ s[q[1]].score > s[q[2]].score
                                \/ s[q[1]].score = s[q[2]].score /\ q[1] < q[2]}
<1>1. n \in Nat /\ \A k \in D : s[k].score \in Int
  OBVIOUS
<1>2. IsFiniteSet(D) /\ Cardinality(D) = n
  <2>1. IsFiniteSet(1..n) /\ Cardinality(1..n) = (IF 1 > n THEN 0 ELSE n - 1 + 1)
    <3> HIDE DEF n
    <3> QED BY <1>1, FS_Interval
  <2> QED BY <1>1, <2>1
<1>3. /\ \A x \in D : <<x, x>> \notin R
      /\ \A x, y, z \in D : <<x, y>> \in R /\ <<y, z>> \in R => <<x, z>> \in R
      /\ \A x, y \in D : x = y \/ <<x, y>> \in R \/ <<y, x>> \in R
  <2> HIDE DEF n
  <2>1. \A x, y \in D : <<x, y>> \in R <=>
          \/ s[x].score > s[y].score
          \/ s[x].score = s[y].score /\ x < y
    OBVIOUS
  <2> HIDE DEF R
  <2>2. \A x \in D : x \in Int
    OBVIOUS
  <2> HIDE DEF D
  <2> QED BY <1>1, <2>1, <2>2
<1>4. PICK p \in [1..n -> D] :
        /\ \A k \in D : \E a \in 1..n : p[a] = k
        /\ \A a, b \in 1..n : a < b => <<p[a], p[b]>> \in R
  <2>1. \E p \in [1..Cardinality(D) -> D] :
          /\ \A k \in D : \E a \in 1..Cardinality(D) : p[a] = k
          /\ \A a, b \in 1..Cardinality(D) : a < b => <<p[a], p[b]>> \in R
    <3> HIDE DEF D, R
    <3> QED BY <1>2, <1>3, Listing
  <2> HIDE DEF D, R, n
  <2> QED BY <1>2, <2>1
<1>5. \A a, b \in 1..n : p[a] = p[b] => a = b
  <2>1. \A a, b \in 1..n : a < b => p[a] # p[b]
    <3> HIDE DEF R
    <3> QED BY <1>3, <1>4
  <2> QED BY <1>1, <2>1
<1>6. p \in Rearrangements(n)
  BY <1>4, <1>5 DEF Rearrangements
<1>7. StableDescending(s, p)
  BY <1>4 DEF StableDescending
<1> QED BY <1>6, <1>7

\* sortByScore reorders the list and leaves it in descending order of score.
LEMMA SortFacts ==
  ASSUME NEW S, \A r \in S : r.score \in Int, NEW s \in Seq(S)
  PROVE  IsReordering(S, s, sortByScore(s)) /\ Descending(sortByScore(s))
<1> DEFINE n == Len(s)
           t == sortByScore(s)
<1>1. PICK p \in Rearrangements(n) : StableDescending(s, p) /\ t = Selected(s, p)
  BY StableOrderExists DEF sortByScore
<1> HIDE DEF t
<1>2. /\ p \in [1..n -> 1..n]
      /\ \A a, b \in 1..n : p[a] = p[b] => a = b
      /\ \A k \in 1..n : \E a \in 1..n : p[a] = k
  BY <1>1 DEF Rearrangements
<1>3. n \in Nat /\ \A k \in 1..n : s[k] \in S
  OBVIOUS
<1>5. t = [k \in 1..n |-> s[p[k]]]
  BY <1>1, <1>2 DEF Selected
<1>6. \A k \in 1..n : p[k] \in 1..n /\ s[p[k]] \in S
  BY <1>2, <1>3
<1>7. t \in [1..n -> S]
  BY <1>5, <1>6
<1>8. t \in Seq(S) /\ Len(t) = n
  BY <1>3, <1>7
<1>9. DistinctIds(s) => DistinctIds(t)
  <2>1. ASSUME DistinctIds(s), NEW a \in 1..n, NEW b \in 1..n, t[a].id = t[b].id
        PROVE a = b
    <3>1. p[a] \in 1..n /\ p[b] \in 1..n /\ s[p[a]].id = s[p[b]].id
      BY <1>5, <1>6, <2>1
    <3>2. p[a] = p[b]
      BY <2>1, <3>1 DEF DistinctIds
    <3> QED BY <1>2, <3>2
  <2> QED BY <1>8, <2>1 DEF DistinctIds
<1>10. Rows(t) = Rows(s)
  <2> DEFINE D == 1..n
  <2>1. \A k \in D : \E m \in D : t[k] = s[m]
    BY <1>5, <1>6
  <2>2. \A m \in D : \E k \in D : t[k] = s[m]
    BY <1>2, <1>5
  <2>6. Rows(t) = {t[k] : k \in D} /\ Rows(s) = {s[k] : k \in D}
    BY <1>8 DEF Rows
  <2> HIDE DEF D
  <2>3. ASSUME NEW x \in {t[k] : k \in D} PROVE x \in {s[k] : k \in D}
    BY <2>1, Zenon
  <2>4. ASSUME NEW x \in {s[k] : k \in D} PROVE x \in {t[k] : k \in D}
    BY <2>2, Zenon
  <2> QED BY <2>3, <2>4, <2>6
<1>11. Descending(t)
  <2>1. \A k \in 1..n : t[k] = s[p[k]] /\ t[k].score \in Int
    BY <1>5, <1>6
  <2>2. ASSUME NEW a \in 1..n, NEW b \in 1..n, a < b
        PROVE  t[a].score >= t[b].score
    <3>1. s[p[a]].score > s[p[b]].score \/ s[p[a]].score = s[p[b]].score
      BY <1>1, <2>2 DEF StableDescending
    <3> QED BY <2>1, <3>1
  <2> QED BY <1>8, <2>2 DEF Descending
<1> QED BY <1>8, <1>9, <1>10, <1>11 DEF IsReordering, t

\* What putting a row in a list at place p does.
LEMMA InsertedAt ==
  ASSUME NEW S, NEW s \in Seq(S), NEW x \in S, NEW p \in 1..Len(s)+1
  PROVE  /\ InsertAt(s, p, x) \in Seq(S)
         /\ Len(InsertAt(s, p, x)) = Len(s) + 1
         /\ \A k \in 1..p-1 : InsertAt(s, p, x)[k] = s[k]
         /\ InsertAt(s, p, x)[p] = x
         /\ \A k \in p+1..Len(s)+1 : InsertAt(s, p, x)[k] = s[k-1]
<1> DEFINE u == SubSeq(s, 1, p-1)
           v == SubSeq(s, p, Len(s))
<1>1. Len(s) \in Nat /\ p \in Nat /\ p >= 1 /\ p - 1 <= Len(s)
  OBVIOUS
<1>2. u \in Seq(S) /\ Len(u) = p - 1 /\ \A k \in 1..p-1 : u[k] = s[k]
  BY <1>1
<1>3. v \in Seq(S) /\ Len(v) = Len(s) - p + 1 /\ \A k \in 1..Len(s)-p+1 : v[k] = s[p+k-1]
  BY <1>1
<1> HIDE DEF u, v
<1>4. InsertAt(s, p, x) = (u \o <<x>>) \o v
  BY DEF InsertAt, u, v
<1> DEFINE w == u \o <<x>>
<1>5. w \in Seq(S) /\ Len(w) = p /\ (\A k \in 1..p-1 : w[k] = s[k]) /\ w[p] = x
  BY <1>1, <1>2
<1> HIDE DEF w
<1>6. InsertAt(s, p, x) = w \o v
  BY <1>4 DEF w
<1>11. /\ w \o v \in Seq(S)
       /\ Len(w \o v) = Len(w) + Len(v)
       /\ \A k \in 1..Len(w) + Len(v) :
            (w \o v)[k] = IF k <= Len(w) THEN w[k] ELSE v[k - Len(w)]
  <2>1. w \in Seq(S) /\ v \in Seq(S)
    BY <1>3, <1>5
  <2> QED BY <2>1, ConcatProperties
<1>12. Len(w) + Len(v) = Len(s) + 1
  BY <1>1, <1>3, <1>5
<1>7. \A k \in p+1..Len(s)+1 : (w \o v)[k] = s[k-1]
  <2>1. ASSUME NEW k \in p+1..Len(s)+1 PROVE (w \o v)[k] = s[k-1]
    <3>1. k - p \in 1..Len(s)-p+1 /\ p + (k - p) - 1 = k - 1
      BY <1>1
    <3>2. k \in 1..Len(s)+1 /\ ~(k <= p)
      BY <1>1
    <3>3. (w \o v)[k] = v[k-p]
      BY <1>5, <1>11, <1>12, <3>2
    <3>4. v[k-p] = s[p + (k - p) - 1]
      BY <1>3, <3>1
    <3> QED BY <3>1, <3>3, <3>4
  <2> QED BY <2>1
<1>8. \A k \in 1..p : k \in 1..Len(s)+1 /\ k <= p
  BY <1>1
<1>9. \A k \in 1..p : (w \o v)[k] = w[k]
  BY <1>5, <1>8, <1>11, <1>12
<1>10. (\A k \in 1..p-1 : (w \o v)[k] = s[k]) /\ (w \o v)[p] = x
  <2>1. p \in 1..p /\ \A k \in 1..p-1 : k \in 1..p
    BY <1>1
  <2> QED BY <1>5, <1>9, <2>1
<1> QED BY <1>6, <1>7, <1>10, <1>11, <1>12

\* The place where the insertion of a row stops (the inner loop of the insertion sort):
\* everything behind it is a row x goes before, the row in front of it is not.
LEMMA InsertFacts ==
  ASSUME NEW S, NEW s \in Seq(S), NEW x \in S
  PROVE  \E p \in 1..Len(s)+1 :
           /\ Insert(s, x) = InsertAt(s, p, x)
           /\ \A k \in p..Len(s) : Less(x, s[k])
           /\ p > 1 => ~Less(x, s[p-1])
<1> DEFINE B == {k \in 1..Len(s) : ~Less(x, s[k])}
           T == {0} \cup B
           b == Max(T)
<1>1. Len(s) \in Nat /\ T \in SUBSET Nat /\ T # {} /\ \A m \in T : m <= Len(s)
  OBVIOUS
<1>2. b \in T /\ \A m \in T : m <= b
  <2> HIDE DEF T
  <2>1. PICK n \in T : \A m \in T : m <= n
    BY <1>1, Greatest
  <2>2. n \in T /\ \A m \in T : n >= m
    BY <1>1, <2>1
  <2>3. Max(T) \in T /\ \A m \in T : Max(T) >= m
    BY <2>2 DEF Max
  <2> QED BY <1>1, <2>3
<1>3. b + 1 \in 1..Len(s)+1 /\ b \in 0..Len(s)
  <2> HIDE DEF b, T
  <2> QED BY <1>1, <1>2
<1>4. Insert(s, x) = InsertAt(s, b + 1, x)
  BY DEF Insert
<1>5. \A k \in (b+1)..Len(s) : Less(x, s[k])
  <2>1. \A k \in 1..Len(s) : ~Less(x, s[k]) => k \in T
    OBVIOUS
  <2> HIDE DEF b, T
  <2> QED BY <1>1, <1>2, <1>3, <2>1
<1>6. b + 1 > 1 => ~Less(x, s[(b+1)-1])
  <2>1. b \in B \/ b = 0
    <3> HIDE DEF b, B
    <3> QED BY <1>2
  <2>2. (b + 1) - 1 = b
    BY <1>3
  <2> HIDE DEF b
  <2> QED BY <2>1, <2>2, <1>3
<1> HIDE DEF b
<1> QED BY <1>3, <1>4, <1>5, <1>6

\* Insertion stays in the list's rows.
LEMMA InsertType ==
  ASSUME NEW S, NEW s \in Seq(S), NEW x \in S
  PROVE  Insert(s, x) \in Seq(S) /\ Len(Insert(s, x)) = Len(s) + 1
BY InsertFacts, InsertedAt

\* The tie-break inserts the rows one after the other: sorted[k] of the first k.
LEMMA TieBreakLoop ==
  ASSUME NEW S, NEW s \in Seq(S)
  PROVE  \E g \in [0..Len(s) -> Seq(S)] :
           /\ g[0] = <<>>
           /\ \A k \in 1..Len(s) : g[k] = Insert(g[k-1], s[k])
           /\ tieBreak(s) = g[Len(s)]
<1> DEFINE N == Len(s)
           F == [q \in Seq(S) \X (1..N) |-> Insert(q[1], s[q[2]])]
           Loop(g) == g = [k \in 0..N |-> IF k = 0 THEN <<>> ELSE Insert(g[k-1], s[k])]
           sorted == CHOOSE g : Loop(g)
<1>1. N \in Nat /\ <<>> \in Seq(S)
  OBVIOUS
<1>2. F \in [Seq(S) \X (1..N) -> Seq(S)]
  <2>1. ASSUME NEW q \in Seq(S) \X (1..N) PROVE Insert(q[1], s[q[2]]) \in Seq(S)
    <3>1. q[1] \in Seq(S) /\ s[q[2]] \in S
      OBVIOUS
    <3> QED BY <3>1, InsertType
  <2> QED BY <2>1
<1>3. Runs(F, <<>>, Seq(S), N) # {}
  <2> HIDE DEF F, N
  <2> QED BY <1>1, <1>2, LoopExists
<1>4. PICK g \in [0..N -> Seq(S)] : g[0] = <<>> /\ \A n \in 1..N : g[n] = F[<<g[n-1], n>>]
  <2> HIDE DEF F, N
  <2> QED BY <1>3 DEF Runs
<1>5. \A n \in 1..N : g[n-1] \in Seq(S) /\ g[n] = Insert(g[n-1], s[n])
  <2>1. ASSUME NEW n \in 1..N PROVE g[n-1] \in Seq(S) /\ g[n] = Insert(g[n-1], s[n])
    <3>1. n - 1 \in 0..N
      BY <1>1
    <3>2. g[n-1] \in Seq(S) /\ <<g[n-1], n>> \in Seq(S) \X (1..N)
      BY <3>1
    <3>3. F[<<g[n-1], n>>] = Insert(g[n-1], s[n])
      BY <3>2
    <3> HIDE DEF F
    <3> QED BY <1>4, <3>2, <3>3
  <2> HIDE DEF F
  <2> QED BY <2>1
<1>6. Loop(g)
  <2>1. g = [k \in 0..N |-> g[k]]
    OBVIOUS
  <2>2. ASSUME NEW k \in 0..N PROVE g[k] = IF k = 0 THEN <<>> ELSE Insert(g[k-1], s[k])
    <3>1. k # 0 => k \in 1..N
      BY <1>1
    <3> HIDE DEF F, N
    <3> QED BY <1>4, <1>5, <3>1
  <2> HIDE DEF F, N
  <2> QED BY <2>1, <2>2, Zenon
<1>7. Loop(sorted)
  <2> HIDE DEF Loop
  <2> QED BY <1>6
<1>8. tieBreak(s) = sorted[N]
  BY DEF tieBreak
<1>9. \A k \in 0..N : sorted[k] = g[k]
  <2> DEFINE T == {k \in 0..N : sorted[k] = g[k]}
  <2>1. sorted[0] = <<>> /\ \A k \in 1..N : sorted[k] = Insert(sorted[k-1], s[k])
    <3>1. \A k \in 0..N : sorted[k] = IF k = 0 THEN <<>> ELSE Insert(sorted[k-1], s[k])
      <4>1. sorted = [k \in 0..N |-> IF k = 0 THEN <<>> ELSE Insert(sorted[k-1], s[k])]
        BY <1>7
      <4> HIDE DEF sorted, N
      <4> QED BY <4>1, Zenon
    <3> HIDE DEF sorted, Loop, F
    <3> QED BY <1>1, <3>1
  <2> HIDE DEF sorted, Loop, F
  <2>2. 0 \in T
    BY <1>1, <1>4, <2>1
  <2>3. \A k \in 1..N : k - 1 \in T => k \in T
    BY <1>1, <1>5, <2>1
  <2>4. \A k \in 0..N : k \in T
    <3> HIDE DEF T, N
    <3> QED BY <1>1, <2>2, <2>3, Induction
  <2> QED BY <2>4
<1>10. sorted[N] = g[N]
  <2> HIDE DEF sorted
  <2> QED BY <1>1, <1>9
<1> HIDE DEF F, sorted, Loop
<1> QED BY <1>4, <1>5, <1>8, <1>10

\* A row goes before one that scores at least as high only when the two are tied.
LEMMA LessOnlyPassesTied ==
  ASSUME NEW a, NEW b, a.score \in Int, b.score \in Int, Less(a, b), a.score <= b.score
  PROVE  b.score - a.score < Epsilon
BY ScaleAssumption DEF Less, Tied, lessWithinTie, Distance

\* No row is behind one it scores Epsilon or more above.
NearOrder(t) == \A a, b \in 1..Len(t) : a < b => t[b].score - t[a].score < Epsilon

\* t has the rows of s and x, in near order.
IsInsertion(s, x, t) ==
  /\ NearOrder(t)
  /\ \A a \in 1..Len(t) : t[a] = x \/ \E m \in 1..Len(s) : t[a] = s[m]
  /\ \A m \in 1..Len(s) : \E a \in 1..Len(t) : t[a] = s[m]
  /\ \E a \in 1..Len(t) : t[a] = x
  /\ DistinctIds(s) /\ (\A a \in 1..Len(s) : s[a].id # x.id) => DistinctIds(t)

\* Inserting a row that scores lowest adds it and lets it overtake tied rows only.
LEMMA InsertKeeps ==
  ASSUME NEW S, \A r \in S : r.score \in Int, NEW s \in Seq(S), NEW x \in S,
         \A a \in 1..Len(s) : s[a].score >= x.score,
         NearOrder(s), NEW t, t = Insert(s, x)
  PROVE  IsInsertion(s, x, t)
<1> DEFINE n == Len(s)
<1>1. PICK p \in 1..n+1 :
        /\ t = InsertAt(s, p, x)
        /\ \A k \in p..n : Less(x, s[k])
  BY InsertFacts
<1>2. /\ t \in Seq(S) /\ Len(t) = n + 1 /\ n \in Nat
      /\ \A k \in 1..p-1 : t[k] = s[k]
      /\ t[p] = x
      /\ \A k \in p+1..n+1 : t[k] = s[k-1]
  <2> DEFINE u == InsertAt(s, p, x)
  <2>1. /\ u \in Seq(S) /\ Len(u) = n + 1
        /\ \A k \in 1..p-1 : u[k] = s[k]
        /\ u[p] = x
        /\ \A k \in p+1..n+1 : u[k] = s[k-1]
    BY InsertedAt
  <2>2. t = u /\ n \in Nat
    BY <1>1
  <2> HIDE DEF u, n
  <2> QED BY <2>1, <2>2
<1> HIDE DEF n
<1>3. \A k \in 1..n : s[k].score \in Int /\ s[k].score >= x.score
  BY DEF n
<1>4. \A a \in 1..n+1 : \/ a < p /\ a \in 1..n /\ t[a] = s[a]
                        \/ a = p /\ t[a] = x
                        \/ a > p /\ a - 1 \in 1..n /\ t[a] = s[a-1]
  <2>1. ASSUME NEW a \in 1..n+1
        PROVE \/ a < p /\ a \in 1..n /\ t[a] = s[a]
              \/ a = p /\ t[a] = x
              \/ a > p /\ a - 1 \in 1..n /\ t[a] = s[a-1]
    <3>1. CASE a < p
      <4>1. a \in 1..p-1 /\ a \in 1..n
        BY <1>1, <1>2, <3>1
      <4> QED BY <1>2, <3>1, <4>1
    <3>2. CASE a = p
      BY <1>2, <3>2
    <3>3. CASE a > p
      <4>1. a \in p+1..n+1 /\ a - 1 \in 1..n
        BY <1>1, <1>2, <3>3
      <4> QED BY <1>2, <3>3, <4>1
    <3> QED BY <1>1, <3>1, <3>2, <3>3
  <2> QED BY <2>1
<1>5. NearOrder(t)
  <2>1. SUFFICES ASSUME NEW a \in 1..n+1, NEW b \in 1..n+1, a < b
                 PROVE  t[b].score - t[a].score < Epsilon
    BY <1>2 DEF NearOrder
  <2>2. CASE b = p
    <3>1. t[b] = x /\ a \in 1..n /\ t[a] = s[a]
      BY <1>1, <1>4, <2>1, <2>2
    <3> QED BY <1>3, <3>1, ScaleAssumption
  <2>3. CASE a = p
    <3>1. t[a] = x /\ b - 1 \in 1..n /\ t[b] = s[b-1] /\ b - 1 \in p..n
      BY <1>1, <1>2, <1>4, <2>1, <2>3
    <3>2. Less(x, s[b-1]) /\ s[b-1].score \in Int /\ x.score \in Int /\ x.score <= s[b-1].score
      BY <1>1, <1>3, <3>1 DEF n
    <3>3. s[b-1].score - x.score < Epsilon
      BY <3>2, LessOnlyPassesTied
    <3> QED BY <3>1, <3>3
  <2>4. CASE a # p /\ b # p
    <3>1. \E u, v \in 1..n : u < v /\ t[a] = s[u] /\ t[b] = s[v]
      <4>1. CASE b < p
        BY <1>1, <1>4, <2>1, <4>1
      <4>2. CASE a < p /\ p < b
        <5>1. a \in 1..n /\ t[a] = s[a] /\ b - 1 \in 1..n /\ t[b] = s[b-1] /\ a < b - 1
          BY <1>1, <1>4, <2>1, <4>2
        <5> QED BY <5>1
      <4>3. CASE p < a
        <5>1. a - 1 \in 1..n /\ t[a] = s[a-1] /\ b - 1 \in 1..n /\ t[b] = s[b-1] /\ a - 1 < b - 1
          BY <1>1, <1>4, <2>1, <4>3
        <5> QED BY <5>1
      <4> QED BY <1>1, <1>2, <2>1, <2>4, <4>1, <4>2, <4>3
    <3>2. \A u, v \in 1..n : u < v => s[v].score - s[u].score < Epsilon
      BY DEF NearOrder, n
    <3> QED BY <3>1, <3>2
  <2> QED BY <2>2, <2>3, <2>4
<1>6. \A a \in 1..n+1 : t[a] = x \/ \E m \in 1..n : t[a] = s[m]
  BY <1>4
<1>7. \A m \in 1..n : \E a \in 1..n+1 : t[a] = s[m]
  <2>1. ASSUME NEW m \in 1..n PROVE \E a \in 1..n+1 : t[a] = s[m]
    <3>1. CASE m < p
      <4>1. m \in 1..n+1
        BY <1>2
      <4> QED BY <1>1, <1>4, <3>1, <4>1
    <3>2. CASE m >= p
      <4>1. m + 1 \in 1..n+1 /\ m + 1 > p /\ (m + 1) - 1 = m
        BY <1>1, <1>2, <3>2
      <4>2. m + 1 \in p+1..n+1
        BY <1>1, <1>2, <4>1
      <4> QED BY <1>2, <4>1, <4>2
    <3> QED BY <1>1, <3>1, <3>2
  <2> QED BY <2>1
<1>8. \E a \in 1..n+1 : t[a] = x
  BY <1>1, <1>2
<1>9. ASSUME DistinctIds(s), \A a \in 1..n : s[a].id # x.id,
             NEW a \in 1..n+1, NEW b \in 1..n+1, t[a].id = t[b].id
      PROVE  a = b
  <2>1. \A u, v \in 1..n : s[u].id = s[v].id => u = v
    BY <1>9 DEF DistinctIds, n
  <2>2. CASE a = p \/ b = p
    BY <1>1, <1>4, <1>9, <2>2
  <2>3. CASE a # p /\ b # p
    <3>1. \E u, v \in 1..n : /\ t[a] = s[u] /\ u = (IF a < p THEN a ELSE a - 1)
                             /\ t[b] = s[v] /\ v = (IF b < p THEN b ELSE b - 1)
      BY <1>1, <1>4, <2>3
    <3>2. (IF a < p THEN a ELSE a - 1) = (IF b < p THEN b ELSE b - 1)
      BY <1>9, <2>1, <3>1
    <3> QED BY <1>1, <1>2, <2>3, <3>2
  <2> QED BY <2>2, <2>3
<1>10. DistinctIds(s) /\ (\A a \in 1..n : s[a].id # x.id) => DistinctIds(t)
  BY <1>2, <1>9 DEF DistinctIds
<1> QED BY <1>2, <1>5, <1>6, <1>7, <1>8, <1>10 DEF n, IsInsertion

\* Breaking ties reorders the rows, and none overtakes one that scores Epsilon or more
\* above it.
LEMMA TieBreakFacts ==
  ASSUME NEW S, \A r \in S : r.score \in Int, NEW s \in Seq(S), Descending(s)
  PROVE  IsReordering(S, s, tieBreak(s)) /\ NearOrder(tieBreak(s))
<1> DEFINE N == Len(s)
<1>1. PICK g \in [0..N -> Seq(S)] :
        /\ g[0] = <<>>
        /\ \A k \in 1..N : g[k] = Insert(g[k-1], s[k])
        /\ tieBreak(s) = g[N]
  BY TieBreakLoop
<1> DEFINE Done(k) ==
             /\ Len(g[k]) = k
             /\ NearOrder(g[k])
             /\ \A a \in 1..k : \E m \in 1..k : g[k][a] = s[m]
             /\ \A m \in 1..k : \E a \in 1..k : g[k][a] = s[m]
             /\ DistinctIds(s) => DistinctIds(g[k])
           T == {k \in 0..N : Done(k)}
<1>2. N \in Nat /\ \A k \in 1..N : s[k] \in S
  OBVIOUS
<1> HIDE DEF N
<1>3. 0 \in T
  <2>1. Len(g[0]) = 0
    BY <1>1
  <2> QED BY <1>2, <2>1 DEF NearOrder, DistinctIds
<1>4. ASSUME NEW k \in 1..N, k - 1 \in T PROVE k \in T
  <2>1. /\ k - 1 \in 0..N /\ Len(g[k-1]) = k - 1 /\ NearOrder(g[k-1])
        /\ \A a \in 1..k-1 : \E m \in 1..k-1 : g[k-1][a] = s[m]
        /\ \A m \in 1..k-1 : \E a \in 1..k-1 : g[k-1][a] = s[m]
        /\ DistinctIds(s) => DistinctIds(g[k-1])
    BY <1>4
  <2> DEFINE l == g[k-1]
             t == g[k]
             x == s[k]
  <2>2. l \in Seq(S) /\ x \in S /\ t = Insert(l, x) /\ k \in Nat
    BY <1>1, <1>2, <2>1
  <2>3. \A a \in 1..Len(l) : l[a].score >= x.score
    <3>1. ASSUME NEW a \in 1..Len(l) PROVE l[a].score >= x.score
      <4>1. PICK m \in 1..k-1 : l[a] = s[m]
        BY <2>1
      <4>2. m \in 1..N /\ m < k
        BY <1>2, <2>2
      <4>3. s[m].score >= s[k].score
        BY <4>2 DEF Descending, N
      <4> QED BY <4>1, <4>3
    <3> QED BY <3>1
  <2>4. DistinctIds(s) => DistinctIds(l) /\ \A a \in 1..Len(l) : l[a].id # x.id
    <3>1. SUFFICES ASSUME DistinctIds(s), NEW a \in 1..Len(l) PROVE l[a].id # x.id
      BY <2>1
    <3>2. PICK m \in 1..k-1 : l[a] = s[m]
      BY <2>1
    <3>3. m \in 1..N /\ m # k
      BY <1>2, <2>2
    <3> QED BY <3>1, <3>2, <3>3 DEF DistinctIds, N
  <2>5. NearOrder(l) /\ Len(l) = k - 1
    BY <2>1
  <2>6. Len(t) = k
    <3> HIDE DEF l, t, x
    <3> QED BY <2>2, <2>5, InsertType
  <2>7. /\ NearOrder(t)
        /\ \A a \in 1..Len(t) : t[a] = x \/ \E m \in 1..Len(l) : t[a] = l[m]
        /\ \A m \in 1..Len(l) : \E a \in 1..Len(t) : t[a] = l[m]
        /\ \E a \in 1..Len(t) : t[a] = x
        /\ DistinctIds(l) /\ (\A a \in 1..Len(l) : l[a].id # x.id) => DistinctIds(t)
    <3> HIDE DEF l, t, x
    <3>1. IsInsertion(l, x, t)
      BY <2>2, <2>3, <2>5, InsertKeeps
    <3> QED BY <3>1 DEF IsInsertion
  <2>8. \A a \in 1..k : \E m \in 1..k : t[a] = s[m]
    <3>1. \A a \in 1..k-1 : \E m \in 1..k-1 : l[a] = s[m]
      BY <2>1
    <3> HIDE DEF l, t
    <3>2. ASSUME NEW a \in 1..k PROVE \E m \in 1..k : t[a] = s[m]
      <4>1. CASE t[a] = x
        BY <4>1
      <4>2. ASSUME NEW b \in 1..k-1, t[a] = l[b] PROVE \E m \in 1..k : t[a] = s[m]
        <5>1. PICK m \in 1..k-1 : l[b] = s[m]
          BY <3>1
        <5>2. m \in 1..k
          BY <2>2
        <5> QED BY <4>2, <5>1, <5>2
      <4> QED BY <2>5, <2>6, <2>7, <4>1, <4>2
    <3> QED BY <3>2
  <2>9. \A m \in 1..k : \E a \in 1..k : t[a] = s[m]
    <3>1. \A m \in 1..k-1 : \E a \in 1..k-1 : l[a] = s[m]
      BY <2>1
    <3> HIDE DEF l, t
    <3>2. ASSUME NEW m \in 1..k, m # k PROVE \E a \in 1..k : t[a] = s[m]
      <4>1. m \in 1..k-1
        BY <2>2, <3>2
      <4> QED BY <2>5, <2>6, <2>7, <3>1, <4>1
    <3>3. \E a \in 1..k : t[a] = s[k]
      BY <2>6, <2>7
    <3> QED BY <3>2, <3>3
  <2> QED BY <2>4, <2>6, <2>7, <2>8, <2>9
<1>5. N \in T
  <2> HIDE DEF T
  <2>1. \A k \in 0..N : k \in T
    BY <1>2, <1>3, <1>4, Induction
  <2> QED BY <1>2, <2>1
<1>6. Done(N) /\ g[N] \in Seq(S)
  BY <1>2, <1>5
<1>7. Rows(g[N]) = Rows(s)
  <2> DEFINE t == g[N]
             D == 1..N
  <2>1. \A k \in D : \E m \in D : t[k] = s[m]
    BY <1>6
  <2>2. \A m \in D : \E k \in D : t[k] = s[m]
    BY <1>6
  <2>6. Rows(t) = {t[k] : k \in D} /\ Rows(s) = {s[k] : k \in D}
    BY <1>6 DEF Rows, N
  <2> HIDE DEF D, t
  <2>3. ASSUME NEW y \in {t[k] : k \in D} PROVE y \in {s[k] : k \in D}
    BY <2>1, Zenon
  <2>4. ASSUME NEW y \in {s[k] : k \in D} PROVE y \in {t[k] : k \in D}
    BY <2>2, Zenon
  <2>5. Rows(t) = Rows(s)
    BY <2>3, <2>4, <2>6
  <2> QED BY <2>5 DEF t
<1> QED BY <1>1, <1>6, <1>7 DEF IsReordering, N

\* Putting the pin first adds it and drops the row with its id (applyPin).
LEMMA ApplyPinFacts ==
  ASSUME NEW S, NEW s \in Seq(S), \A r \in S : r.score \in Int /\ r.score <= Infinity,
         Descending(s), DistinctIds(s),
         NEW pin, pin # NoPin, Pinned(pin) \in S, Pinned(pin).score = Infinity,
         Pinned(pin).id = pin.id, NEW u, u = applyPin(s, pin)
  PROVE  /\ u \in Seq(S) /\ Len(u) <= Len(s) + 1
         /\ Descending(u) /\ DistinctIds(u)
         /\ Rows(u) = {Pinned(pin)} \cup {r \in Rows(s) : r.id # pin.id}
         /\ Len(u) > 0 /\ u[1] = Pinned(pin)
<1> DEFINE K == {k \in 1..Len(s) : s[k].id # pin.id}
           t == Filtered(s, K)
           x == Pinned(pin)
<1>1. /\ t \in Seq(S)
      /\ Len(t) <= Len(s)
      /\ Rows(t) = {s[k] : k \in K}
      /\ DistinctIds(t)
      /\ \A k \in 1..Len(t) : \E m \in K : t[k] = s[m]
      /\ \A a, b \in 1..Len(t) : a < b =>
           \E p, q \in 1..Len(s) : p < q /\ t[a] = s[p] /\ t[b] = s[q]
  <2>1. K \in SUBSET (1..Len(s))
    OBVIOUS
  <2> HIDE DEF K
  <2>2. IsSubsequence(S, s, K, t)
    BY <2>1, FilteredFacts
  <2> QED BY <2>2 DEF IsSubsequence
<1>2. u = <<x>> \o t
  BY DEF applyPin
<1>3. \A k \in 1..Len(t) : t[k].id # x.id
  BY <1>1
<1>4. {s[k] : k \in K} = {r \in Rows(s) : r.id # pin.id}
  BY DEF Rows
<1>5. Len(s) \in Nat /\ Len(t) \in Nat
  BY <1>1
<1> HIDE DEF t, K, x
<1>6. /\ u \in Seq(S) /\ Len(u) = Len(t) + 1
      /\ u[1] = x
      /\ \A k \in 2..Len(t)+1 : u[k] = t[k-1] /\ k-1 \in 1..Len(t)
      /\ \A k \in 1..Len(t) : t[k] = u[k+1] /\ k+1 \in 1..Len(t)+1
  <2>1. x \in S
    BY DEF x
  <2>2. /\ u \in Seq(S) /\ Len(u) = Len(t) + 1 /\ u[1] = x
    BY <1>1, <1>2, <2>1
  <2>3. ASSUME NEW k \in 2..Len(t)+1 PROVE u[k] = t[k-1] /\ k-1 \in 1..Len(t)
    BY <1>1, <1>2, <1>5, <2>1
  <2>4. ASSUME NEW k \in 1..Len(t) PROVE t[k] = u[k+1] /\ k+1 \in 1..Len(t)+1
    BY <1>1, <1>2, <1>5, <2>1
  <2> QED BY <2>2, <2>3, <2>4
<1>7. Descending(u)
  <2>1. SUFFICES ASSUME NEW a \in 1..Len(t)+1, NEW b \in 1..Len(t)+1, a < b
                 PROVE  u[a].score >= u[b].score
    BY <1>6 DEF Descending
  <2>2. u[b] = t[b-1] /\ b-1 \in 1..Len(t)
    BY <1>5, <1>6, <2>1
  <2>3. CASE a = 1
    <3>1. u[b] \in S /\ u[a].score = Infinity
      BY <1>1, <1>6, <2>2, <2>3 DEF x
    <3> QED BY <3>1, ScaleAssumption
  <2>4. CASE a # 1
    <3>1. u[a] = t[a-1] /\ a-1 \in 1..Len(t) /\ a-1 < b-1
      BY <1>5, <1>6, <2>1, <2>4
    <3>2. PICK p \in 1..Len(s), q \in 1..Len(s) : p < q /\ t[a-1] = s[p] /\ t[b-1] = s[q]
      BY <1>1, <2>2, <3>1
    <3> QED BY <2>2, <3>1, <3>2 DEF Descending
  <2> QED BY <2>3, <2>4
<1>8. DistinctIds(u)
  <2>1. SUFFICES ASSUME NEW a \in 1..Len(t)+1, NEW b \in 1..Len(t)+1, u[a].id = u[b].id
                 PROVE  a = b
    BY <1>6 DEF DistinctIds
  <2>2. \A k \in 2..Len(t)+1 : u[k].id # x.id
    BY <1>3, <1>6
  <2>3. CASE a = 1 \/ b = 1
    BY <1>5, <1>6, <2>1, <2>2, <2>3
  <2>4. CASE a # 1 /\ b # 1
    <3>1. a-1 \in 1..Len(t) /\ b-1 \in 1..Len(t) /\ t[a-1].id = t[b-1].id
      BY <1>5, <1>6, <2>1, <2>4
    <3>2. a-1 = b-1
      BY <1>1, <3>1 DEF DistinctIds
    <3> QED BY <3>2
  <2> QED BY <2>3, <2>4
<1>9. Rows(u) = {x} \cup Rows(t)
  <2>1. \A y \in Rows(u) : y \in {x} \cup Rows(t)
    BY <1>5, <1>6 DEF Rows
  <2>2. \A y \in Rows(t) : y \in Rows(u)
    BY <1>5, <1>6 DEF Rows
  <2>3. x \in Rows(u)
    <3>1. 1 \in 1..Len(u)
      BY <1>5, <1>6
    <3> QED BY <1>6, <3>1 DEF Rows
  <2> QED BY <2>1, <2>2, <2>3
<1> QED BY <1>1, <1>4, <1>5, <1>6, <1>7, <1>8, <1>9 DEF x

\* No row is behind one it scores E or more above - N or more if it is new.  A pinned
\* row may be in front of anything.
NearAfter(t, E, N) ==
  \A a, b \in 1..Len(t) :
    a < b /\ ~IsPinned(t[a]) => t[b].score - t[a].score < (IF t[b].isNew THEN N ELSE E)

Slack == IF SwapWindow > 0 THEN SwapWindow ELSE 0

\* Two lags add up.
LEMMA Differences ==
  \A x, y, z, d, e \in Int : x - y < d /\ y - z < e => x - z < d + e
OBVIOUS

\* Replacing the new business at one place reorders the list; only new businesses are
\* overtaken by more than before, by less than the swap window more (dePin).
LEMMA DePinAtFacts ==
  ASSUME NEW S, \A r \in S : r.score \in Int, NEW s \in Seq(S),
         NEW E \in Int, NEW N \in Int, E > 0, N >= E, NearAfter(s, E, N),
         NEW k \in Nat, NEW t, t = dePinAt(s, k)
  PROVE  IsReordering(S, s, t) /\ NearAfter(t, E, N + Slack)
<1> DEFINE n == Len(s)
<1>1. n \in Nat /\ (\A a \in 1..n : s[a].score \in Int) /\ Slack \in Nat
      /\ SwapWindow <= Slack /\ SwapWindow \in Int
  BY ScaleAssumption DEF Slack
<1>2. CASE t = s
  <2>1. NearAfter(s, E, N + Slack)
    <3>1. ASSUME NEW a \in 1..n, NEW b \in 1..n, a < b, ~IsPinned(s[a])
          PROVE  s[b].score - s[a].score < (IF s[b].isNew THEN N + Slack ELSE E)
      <4>1. s[b].score - s[a].score < (IF s[b].isNew THEN N ELSE E)
        BY <3>1 DEF NearAfter
      <4>2. s[b].score \in Int /\ s[a].score \in Int
        BY <1>1
      <4> HIDE DEF n
      <4> QED BY <1>1, <4>1, <4>2
    <3> QED BY <3>1 DEF NearAfter
  <2> QED BY <1>2, <2>1 DEF IsReordering
<1>3. CASE t # s
  <2> DEFINE Q == Replacements(s, k)
             q == Min(Q)
  <2>1. Guarded(s, k) /\ Q # {} /\ t = Swapped(s, k, q)
    BY <1>3 DEF dePinAt
  <2>2. k \in 1..n /\ ~IsPinned(s[k]) /\ s[k].isNew
    BY <2>1 DEF Guarded
  <2>3. Q \in SUBSET Nat /\ \A m \in Q : m \in k+1..n
    BY <1>1, <2>2 DEF Replacements
  <2>4. q \in Q /\ \A m \in Q : q <= m
    <3> HIDE DEF Q
    <3>1. PICK m \in Q : \A y \in Q : m <= y
      BY <2>1, <2>3, Least
    <3> QED BY <3>1 DEF Min
  <2> HIDE DEF q
  <2>5. q \in k+1..n /\ ~s[q].isNew /\ s[k].score - s[q].score < SwapWindow
    BY <2>4 DEF Replacements
  <2>6. \A m \in k+1..n : m < q => s[m].isNew \/ s[k].score - s[m].score >= SwapWindow
    <3>1. ASSUME NEW m \in k+1..n, m < q, ~s[m].isNew, ~(s[k].score - s[m].score >= SwapWindow)
          PROVE  FALSE
      <4>1. m \in 1..n /\ s[k].score \in Int /\ s[m].score \in Int /\ SwapWindow \in Int
        BY <1>1, <2>2, <3>1
      <4>2. m \in Q
        BY <3>1, <4>1 DEF Replacements
      <4> QED BY <2>3, <2>4, <2>5, <3>1, <4>2
    <3> QED BY <3>1
  <2> HIDE DEF Q, n
  <2>7. k \in 1..n /\ q \in 1..n /\ k < q
    BY <1>1, <2>2, <2>5
  <2>8. IsSwap(S, s, k, q, t)
    BY <2>1, <2>7, SwapFacts DEF n
  <2>9. /\ t \in Seq(S) /\ Len(t) = n
        /\ t[k] = s[q] /\ t[q] = s[k]
        /\ \A m \in 1..n : m # k /\ m # q => t[m] = s[m]
        /\ IsReordering(S, s, t)
    BY <2>8 DEF IsSwap, IsReordering, n
  <2>10. \A a, b \in 1..n :
           a < b /\ ~IsPinned(s[a]) => s[b].score - s[a].score < (IF s[b].isNew THEN N ELSE E)
    BY DEF NearAfter, n
  <2>11. SUFFICES ASSUME NEW a \in 1..n, NEW b \in 1..n, a < b, ~IsPinned(t[a])
                  PROVE  t[b].score - t[a].score < (IF t[b].isNew THEN N + Slack ELSE E)
    BY <2>9 DEF NearAfter
  <2>12. s[a].score \in Int /\ s[b].score \in Int /\ s[k].score \in Int /\ s[q].score \in Int
    BY <1>1, <2>7
  <2>23. SwapWindow \in Int /\ Slack \in Int /\ N + Slack \in Int /\ N <= N + Slack
    BY <1>1
  <2>24. \A d \in Int : d < N => d < N + Slack
    BY <2>23
  <2>25. \A d \in Int : d < SwapWindow => d < N + Slack
    BY <1>1
  <2>13. CASE a \notin {k, q} /\ b \notin {k, q}
    <3>1. t[a] = s[a] /\ t[b] = s[b]
      BY <2>9, <2>13
    <3>2. s[b].score - s[a].score < (IF s[b].isNew THEN N ELSE E)
      BY <2>10, <2>11, <3>1
    <3>3. s[b].score - s[a].score \in Int
      BY <2>12
    <3>4. s[b].score - s[a].score < (IF s[b].isNew THEN N + Slack ELSE E)
      BY <2>24, <3>2, <3>3
    <3> QED BY <3>1, <3>4
  <2>14. CASE b = k
    <3>1. t[a] = s[a] /\ t[b] = s[q] /\ a < q
      BY <2>7, <2>9, <2>11, <2>14
    <3>2. s[q].score - s[a].score < E
      BY <2>5, <2>7, <2>10, <2>11, <3>1
    <3> QED BY <2>5, <3>1, <3>2
  <2>15. CASE b = q /\ a < k
    <3>1. t[a] = s[a] /\ t[b] = s[k]
      BY <2>7, <2>9, <2>11, <2>15
    <3>2. s[k].score - s[a].score < N
      BY <2>2, <2>7, <2>10, <2>11, <2>15, <3>1
    <3>3. s[k].score - s[a].score \in Int
      BY <2>12
    <3>4. s[k].score - s[a].score < N + Slack
      BY <2>24, <3>2, <3>3
    <3> QED BY <2>2, <3>1, <3>4
  <2>16. CASE b = q /\ a = k
    <3>1. t[a] = s[q] /\ t[b] = s[k]
      BY <2>9, <2>16
    <3>2. s[k].score - s[q].score \in Int
      BY <2>12
    <3>3. s[k].score - s[q].score < N + Slack
      BY <2>5, <2>25, <3>2
    <3> QED BY <2>2, <3>1, <3>3
  <2>17. CASE b = q /\ k < a
    <3>1. t[a] = s[a] /\ t[b] = s[k] /\ a < q
      BY <2>7, <2>9, <2>11, <2>17
    <3>2. s[q].score - s[a].score < E
      BY <2>5, <2>7, <2>10, <2>11, <3>1
    <3>3. s[k].score - s[a].score < SwapWindow + E
      BY <2>5, <2>12, <2>23, <3>2, Differences
    <3>4. SwapWindow + E <= N + Slack
      BY <1>1
    <3>5. s[k].score - s[a].score < N + Slack
      BY <2>12, <2>23, <3>3, <3>4
    <3> QED BY <2>2, <3>1, <3>5
  <2>18. CASE a = k /\ b # q /\ b > q
    <3>1. t[a] = s[q] /\ t[b] = s[b]
      BY <2>7, <2>9, <2>18
    <3>2. s[b].score - s[q].score < (IF s[b].isNew THEN N ELSE E)
      BY <2>7, <2>10, <2>11, <2>18, <3>1
    <3>3. s[b].score - s[q].score \in Int
      BY <2>12
    <3>4. s[b].score - s[q].score < (IF s[b].isNew THEN N + Slack ELSE E)
      BY <2>24, <3>2, <3>3
    <3> QED BY <3>1, <3>4
  <2>19. CASE a = k /\ b # q /\ b < q
    <3>1. t[a] = s[q] /\ t[b] = s[b] /\ b \in k+1..n
      BY <1>1, <2>7, <2>9, <2>11, <2>19
    <3>2. s[b].score - s[k].score < (IF s[b].isNew THEN N ELSE E)
      BY <2>2, <2>7, <2>10, <2>11, <2>19
    <3>3. s[b].isNew \/ s[k].score - s[b].score >= SwapWindow
      BY <2>6, <2>19, <3>1
    <3>4. s[k].score - s[q].score < SwapWindow
      BY <2>5
    <3>5. CASE s[b].isNew
      <4>1. s[b].score - s[q].score < N + SwapWindow
        BY <2>12, <2>23, <3>2, <3>4, <3>5, Differences
      <4>2. N + SwapWindow <= N + Slack /\ s[b].score - s[q].score \in Int
        BY <1>1, <2>12
      <4>3. s[b].score - s[q].score < N + Slack
        BY <2>23, <4>1, <4>2
      <4> QED BY <3>1, <3>5, <4>3
    <3>6. CASE ~s[b].isNew
      <4>1. s[b].score < s[q].score
        BY <2>12, <2>23, <3>3, <3>4, <3>6
      <4> QED BY <2>12, <3>1, <3>6, <4>1
    <3> QED BY <3>5, <3>6
  <2>20. CASE a = q
    <3>1. t[a] = s[k] /\ t[b] = s[b] /\ k < b
      BY <2>7, <2>9, <2>11, <2>20
    <3>2. s[b].score - s[k].score < (IF s[b].isNew THEN N ELSE E)
      BY <2>2, <2>7, <2>10, <3>1
    <3>3. s[b].score - s[k].score \in Int
      BY <2>12
    <3>4. s[b].score - s[k].score < (IF s[b].isNew THEN N + Slack ELSE E)
      BY <2>24, <3>2, <3>3
    <3> QED BY <3>1, <3>4
  <2>21. a \in Int /\ b \in Int /\ k \in Int /\ q \in Int
    BY <1>1, <2>7
  <2>22. \/ a \notin {k, q} /\ b \notin {k, q}
         \/ b = k
         \/ b = q /\ (a < k \/ a = k \/ k < a)
         \/ a = k /\ b # q /\ (b > q \/ b < q)
         \/ a = q
    BY <2>21
  <2> QED BY <2>13, <2>14, <2>15, <2>16, <2>17, <2>18, <2>19, <2>20, <2>22
<1> QED BY <1>2, <1>3

\* A pinned first row stays first (dePin).
LEMMA DePinKeepsPin ==
  ASSUME NEW S, NEW s \in Seq(S), Len(s) > 0, IsPinned(s[1]), NEW k \in {1, 2}
  PROVE  dePinAt(s, k)[1] = s[1]
<1> DEFINE Q == Replacements(s, k)
<1>1. CASE dePinAt(s, k) = s
  BY <1>1
<1>2. CASE dePinAt(s, k) # s
  <2>1. Guarded(s, k) /\ Q # {} /\ dePinAt(s, k) = Swapped(s, k, Min(Q))
    BY <1>2 DEF dePinAt
  <2>2. k \in 1..Len(s) /\ k # 1
    BY <2>1 DEF Guarded
  <2>3. Q \in SUBSET Nat /\ \A m \in Q : m \in k+1..Len(s)
    BY <2>2 DEF Replacements
  <2>4. Min(Q) \in Q
    <3> HIDE DEF Q
    <3>1. PICK m \in Q : \A y \in Q : m <= y
      BY <2>1, <2>3, Least
    <3> QED BY <3>1 DEF Min
  <2>5. Min(Q) \in 1..Len(s) /\ Min(Q) # 1
    <3> DEFINE q == Min(Q)
    <3>1. q \in k+1..Len(s) /\ k \in Nat /\ Len(s) \in Nat
      BY <2>3, <2>4
    <3> HIDE DEF q
    <3>2. q \in 1..Len(s) /\ q # 1
      BY <2>2, <3>1
    <3> QED BY <3>2 DEF q
  <2>6. IsSwap(S, s, k, Min(Q), Swapped(s, k, Min(Q)))
    <3> HIDE DEF Q
    <3> QED BY <2>2, <2>5, SwapFacts
  <2> HIDE DEF Q
  <2> QED BY <2>1, <2>2, <2>5, <2>6 DEF IsSwap
<1> QED BY <1>1, <1>2

\* dePin guards the first two places, one after the other.
LEMMA DePinTwice ==
  ASSUME NEW s
  PROVE  dePin(s) = dePinAt(dePinAt(s, 1), 2)
<1> DEFINE Loop(g) == g = [k \in 0..2 |-> IF k = 0 THEN s ELSE dePinAt(g[k-1], k)]
           guarded == CHOOSE g : Loop(g)
           h == [k \in 0..2 |-> IF k = 0 THEN s ELSE
                                IF k = 1 THEN dePinAt(s, 1) ELSE dePinAt(dePinAt(s, 1), 2)]
<1>1. Loop(h)
  <2>1. h[0] = s /\ h[1] = dePinAt(s, 1) /\ h[2] = dePinAt(dePinAt(s, 1), 2)
    OBVIOUS
  <2>2. ASSUME NEW k \in 0..2
        PROVE  (IF k = 0 THEN s ELSE IF k = 1 THEN dePinAt(s, 1) ELSE dePinAt(dePinAt(s, 1), 2))
                 = (IF k = 0 THEN s ELSE dePinAt(h[k-1], k))
    <3>1. k = 0 \/ (k = 1 /\ k - 1 = 0) \/ (k = 2 /\ k - 1 = 1)
      OBVIOUS
    <3> HIDE DEF h
    <3> QED BY <2>1, <3>1
  <2>3. h = [k \in 0..2 |-> IF k = 0 THEN s ELSE dePinAt(h[k-1], k)]
    BY <2>2, Zenon
  <2> HIDE DEF h
  <2> QED BY <2>3
<1>2. Loop(guarded)
  <2> HIDE DEF Loop, h
  <2> QED BY <1>1
<1>3. \A k \in 0..2 : guarded[k] = IF k = 0 THEN s ELSE dePinAt(guarded[k-1], k)
  <2>1. guarded = [k \in 0..2 |-> IF k = 0 THEN s ELSE dePinAt(guarded[k-1], k)]
    BY <1>2
  <2> HIDE DEF guarded
  <2> QED BY <2>1, Zenon
<1>4. dePin(s) = guarded[2]
  BY DEF dePin, dePinTopN
<1> HIDE DEF guarded
<1>5. guarded[0] = s
  BY <1>3
<1>6. guarded[1] = dePinAt(guarded[0], 1)
  BY <1>3
<1>7. guarded[2] = dePinAt(guarded[1], 2)
  BY <1>3
<1> QED BY <1>4, <1>5, <1>6, <1>7
-----------------------------------------------------------------------------
(* The whole of Run, before its limit is applied.                          *)

FullRanking(s, pin) == dePin(tieBreak(applyPin(sortByScore(hardFilter(s)), pin)))

\* t holds the kept rows of s that are not the pin's, each once, and the pin; none is
\* behind one it scores tieEpsilon or more above, except new businesses, which each of
\* the de-pin swaps may take back by less than the swap window.
IsRanking(S, s, pin, t) ==
  /\ t \in Seq(S)
  /\ Len(t) <= Len(s) + (IF pin = NoPin THEN 0 ELSE 1)
  /\ DistinctIds(t)
  /\ Rows(t) = {r \in Rows(s) : IsKept(r) /\ (pin # NoPin => r.id # pin.id)}
                 \cup (IF pin = NoPin THEN {} ELSE {Pinned(pin)})
  /\ pin # NoPin => Len(t) > 0 /\ t[1] = Pinned(pin)
  /\ NearAfter(t, Epsilon, Epsilon + dePinTopN * Slack)

\* What Run computes from distinct rows (rank/scorer.go Run).
LEMMA RankingFacts ==
  ASSUME NEW S, \A r \in S : r.score \in Int /\ r.score <= Infinity,
         NEW s \in Seq(S), DistinctIds(s), \A k \in 1..Len(s) : Infinity - s[k].score >= Epsilon,
         NEW pin,
         pin # NoPin => /\ Pinned(pin) \in S
                        /\ Pinned(pin).score = Infinity
                        /\ Pinned(pin).id = pin.id
  PROVE  IsRanking(S, s, pin, FullRanking(s, pin))
<1> DEFINE K == {k \in 1..Len(s) : IsKept(s[k])}
           f == hardFilter(s)
           d == sortByScore(f)
           u == applyPin(d, pin)
           t == tieBreak(u)
           v == dePinAt(t, 1)
           w == dePinAt(v, 2)
<1>1. IsSubsequence(S, s, K, f)
  <2>1. K \in SUBSET (1..Len(s)) /\ f = Filtered(s, K)
    BY DEF hardFilter
  <2> HIDE DEF K, f
  <2> QED BY <2>1, FilteredFacts
<1>2. /\ f \in Seq(S) /\ Len(f) <= Len(s) /\ DistinctIds(f)
      /\ Rows(f) = {r \in Rows(s) : IsKept(r)}
  <2>1. {s[k] : k \in K} = {r \in Rows(s) : IsKept(r)}
    BY DEF Rows
  <2> HIDE DEF K, f
  <2> QED BY <1>1, <2>1 DEF IsSubsequence
<1>3. IsReordering(S, f, d) /\ Descending(d)
  <2> HIDE DEF f
  <2> QED BY <1>2, SortFacts
<1>4. d \in Seq(S) /\ Len(d) = Len(f) /\ DistinctIds(d) /\ Rows(d) = Rows(f)
  <2> HIDE DEF f, d
  <2> QED BY <1>2, <1>3 DEF IsReordering
<1>5. /\ u \in Seq(S) /\ Descending(u) /\ DistinctIds(u)
      /\ Len(u) <= Len(d) + (IF pin = NoPin THEN 0 ELSE 1)
      /\ Rows(u) = {r \in Rows(d) : pin # NoPin => r.id # pin.id}
                     \cup (IF pin = NoPin THEN {} ELSE {Pinned(pin)})
  <2>1. CASE pin = NoPin
    <3>1. u = d
      BY <2>1 DEF applyPin
    <3>2. Len(d) \in Nat
      BY <1>4
    <3> HIDE DEF d, u
    <3> QED BY <1>3, <1>4, <2>1, <3>1, <3>2
  <2>2. CASE pin # NoPin
    <3> HIDE DEF d
    <3>1. /\ u \in Seq(S) /\ Len(u) <= Len(d) + 1
          /\ Descending(u) /\ DistinctIds(u)
          /\ Rows(u) = {Pinned(pin)} \cup {r \in Rows(d) : r.id # pin.id}
      BY <1>3, <1>4, <2>2, ApplyPinFacts
    <3> HIDE DEF u
    <3> QED BY <2>2, <3>1
  <2> QED BY <2>1, <2>2
<1>6. IsReordering(S, u, t) /\ NearOrder(t)
  <2> HIDE DEF u
  <2> QED BY <1>5, TieBreakFacts
<1>7. t \in Seq(S) /\ Len(t) = Len(u) /\ DistinctIds(t) /\ Rows(t) = Rows(u)
  <2> HIDE DEF u, t
  <2> QED BY <1>5, <1>6 DEF IsReordering
<1>8. NearAfter(t, Epsilon, Epsilon)
  <2> HIDE DEF t
  <2> QED BY <1>6 DEF NearOrder, NearAfter
<1>9. Epsilon \in Int /\ Epsilon > 0 /\ Slack \in Nat
  BY ScaleAssumption DEF Slack
<1>10. IsReordering(S, t, v) /\ NearAfter(v, Epsilon, Epsilon + Slack)
  <2> HIDE DEF t
  <2>1. \A r \in S : r.score \in Int
    OBVIOUS
  <2>2. v = dePinAt(t, 1) /\ 1 \in Nat /\ Epsilon >= Epsilon
    BY <1>9
  <2> HIDE DEF v
  <2> QED BY <1>7, <1>8, <1>9, <2>1, <2>2, DePinAtFacts
<1>11. v \in Seq(S) /\ Len(v) = Len(t) /\ DistinctIds(v) /\ Rows(v) = Rows(t)
  <2> HIDE DEF t, v
  <2> QED BY <1>7, <1>10 DEF IsReordering
<1>12. IsReordering(S, v, w) /\ NearAfter(w, Epsilon, (Epsilon + Slack) + Slack)
  <2> HIDE DEF v
  <2>1. \A r \in S : r.score \in Int
    OBVIOUS
  <2>2. w = dePinAt(v, 2) /\ 2 \in Nat /\ Epsilon + Slack >= Epsilon /\ Epsilon + Slack \in Int
    BY <1>9
  <2> HIDE DEF w
  <2> QED BY <1>9, <1>10, <1>11, <2>1, <2>2, DePinAtFacts
<1>13. w \in Seq(S) /\ Len(w) = Len(v) /\ DistinctIds(w) /\ Rows(w) = Rows(v)
  <2> HIDE DEF w, v
  <2> QED BY <1>11, <1>12 DEF IsReordering
<1>14. FullRanking(s, pin) = w
  BY DePinTwice DEF FullRanking
<1>15. (Epsilon + Slack) + Slack = Epsilon + dePinTopN * Slack
  BY <1>9 DEF dePinTopN
<1>16. Len(w) <= Len(s) + (IF pin = NoPin THEN 0 ELSE 1)
  <2>1. Len(d) \in Nat /\ Len(s) \in Nat /\ Len(u) \in Nat
    BY <1>4, <1>5
  <2> HIDE DEF f, d, u, t, v, w
  <2> QED BY <1>2, <1>4, <1>5, <1>7, <1>11, <1>13, <2>1
<1>17. Rows(w) = {r \in Rows(s) : IsKept(r) /\ (pin # NoPin => r.id # pin.id)}
                   \cup (IF pin = NoPin THEN {} ELSE {Pinned(pin)})
  <2> HIDE DEF f, d, u, t, v, w
  <2> QED BY <1>2, <1>4, <1>5, <1>7, <1>11, <1>13
<1>18. pin # NoPin => Len(t) > 0 /\ t[1] = Pinned(pin)
  <2>1. SUFFICES ASSUME pin # NoPin PROVE Len(t) > 0 /\ t[1] = Pinned(pin)
    OBVIOUS
  <2>2. Pinned(pin) \in Rows(t)
    <3> HIDE DEF f, d, u, t
    <3> QED BY <1>5, <1>7, <2>1
  <2>3. \A r \in Rows(t) : r = Pinned(pin) \/ r \in Rows(s)
    <3> HIDE DEF f, d, u, t
    <3> QED BY <1>2, <1>4, <1>5, <1>7
  <2> HIDE DEF t
  <2>4. PICK m \in 1..Len(t) : t[m] = Pinned(pin)
    BY <2>2 DEF Rows
  <2>5. Len(t) \in Nat /\ 1 \in 1..Len(t)
    BY <1>7, <2>4
  <2>6. CASE m # 1
    <3>1. t[m].score - t[1].score < Epsilon
      BY <1>6, <2>4, <2>5, <2>6 DEF NearOrder
    <3>2. t[1] \in Rows(t)
      BY <2>5 DEF Rows
    <3>3. CASE t[1] = Pinned(pin)
      BY <2>5, <3>3
    <3>4. CASE t[1] \in Rows(s)
      <4>1. PICK k \in 1..Len(s) : t[1] = s[k]
        BY <3>4 DEF Rows
      <4>2. s[k].score \in Int /\ Infinity - s[k].score >= Epsilon
        OBVIOUS
      <4>3. Infinity - s[k].score < Epsilon
        BY <2>1, <2>4, <3>1, <4>1
      <4> QED BY <4>2, <4>3, ScaleAssumption
    <3> QED BY <2>3, <3>2, <3>3, <3>4
  <2>7. CASE m = 1
    BY <2>4, <2>5, <2>7
  <2> QED BY <2>6, <2>7
<1>19. pin # NoPin => Len(w) > 0 /\ w[1] = Pinned(pin)
  <2>1. SUFFICES ASSUME pin # NoPin PROVE Len(w) > 0 /\ w[1] = Pinned(pin)
    OBVIOUS
  <2>2. t[1] = Pinned(pin) /\ Len(t) > 0 /\ IsPinned(t[1])
    <3> HIDE DEF t
    <3> QED BY <1>18, <2>1 DEF IsPinned
  <2>3. v[1] = t[1]
    <3> HIDE DEF t
    <3> QED BY <1>7, <2>2, DePinKeepsPin
  <2>4. w[1] = v[1]
    <3> HIDE DEF t, v
    <3> QED BY <1>11, <2>2, <2>3, DePinKeepsPin
  <2> HIDE DEF t, v, w
  <2> QED BY <1>11, <1>13, <2>2, <2>3, <2>4
<1> HIDE DEF w
<1> QED BY <1>12, <1>13, <1>14, <1>15, <1>16, <1>17, <1>19 DEF IsRanking

\* With a limit Run returns the front of the ranking.
LEMMA RunFacts ==
  ASSUME NEW S, NEW s, NEW pin, NEW limit \in Nat, FullRanking(s, pin) \in Seq(S)
  PROVE  /\ Run(s, pin, limit) \in Seq(S)
         /\ Len(Run(s, pin, limit)) <= Len(FullRanking(s, pin))
         /\ \A k \in 1..Len(Run(s, pin, limit)) : Run(s, pin, limit)[k] = FullRanking(s, pin)[k]
         /\ Len(FullRanking(s, pin)) <= limit => Run(s, pin, limit) = FullRanking(s, pin)
<1> DEFINE t == FullRanking(s, pin)
<1>1. Run(s, pin, limit) = truncate(t, limit)
  BY DEF Run, FullRanking
<1>2. t \in Seq(S) /\ Len(t) \in Nat
  OBVIOUS
<1> HIDE DEF t
<1>3. CASE limit < Len(t)
  <2>1. Run(s, pin, limit) = SubSeq(t, 1, limit)
    BY <1>1, <1>3 DEF truncate
  <2>2. /\ SubSeq(t, 1, limit) \in Seq(S) /\ Len(SubSeq(t, 1, limit)) = limit
        /\ \A k \in 1..limit : SubSeq(t, 1, limit)[k] = t[k]
    BY <1>2, <1>3
  <2> QED BY <1>2, <1>3, <2>1, <2>2 DEF t
<1>4. CASE ~(limit < Len(t))
  <2>1. Run(s, pin, limit) = t
    BY <1>1, <1>4 DEF truncate
  <2> QED BY <1>2, <2>1 DEF t
<1> QED BY <1>3, <1>4
-----------------------------------------------------------------------------
(* The choices in the pure stages are no choices: what a stage describes   *)
(* exists once.                                                            *)

IsStrictOrder(K, R) ==
  /\ \A x \in K : <<x, x>> \notin R
  /\ \A x, y, z \in K : <<x, y>> \in R /\ <<y, z>> \in R => <<x, z>> \in R

\* f lists K in the order R.
IsListing(n, K, R, f) ==
  /\ f \in [1..n -> K]
  /\ \A k \in K : \E a \in 1..n : f[a] = k
  /\ \A a, b \in 1..n : a < b => <<f[a], f[b]>> \in R

\* A strict order is listed in one way only: at the first difference, the row one
\* listing has there the other would have had before.
LEMMA ListingUnique ==
  ASSUME NEW n \in Nat, NEW K, NEW R, IsStrictOrder(K, R),
         NEW f, IsListing(n, K, R, f), NEW g, IsListing(n, K, R, g)
  PROVE  f = g
<1>0. /\ \A x \in K : <<x, x>> \notin R
      /\ \A x, y, z \in K : <<x, y>> \in R /\ <<y, z>> \in R => <<x, z>> \in R
      /\ f \in [1..n -> K] /\ g \in [1..n -> K]
      /\ \A k \in K : \E a \in 1..n : f[a] = k
      /\ \A k \in K : \E a \in 1..n : g[a] = k
      /\ \A a, b \in 1..n : a < b => <<f[a], f[b]>> \in R
      /\ \A a, b \in 1..n : a < b => <<g[a], g[b]>> \in R
  BY DEF IsStrictOrder, IsListing
<1> DEFINE D == {a \in 1..n : f[a] # g[a]}
<1>1. SUFFICES ASSUME D # {} PROVE FALSE
  <2>1. ASSUME D = {} PROVE f = g
    <3>1. \A a \in 1..n : f[a] = g[a]
      BY <2>1
    <3>2. f = [a \in 1..n |-> f[a]] /\ g = [a \in 1..n |-> g[a]]
      BY <1>0
    <3> QED BY <3>1, <3>2, Zenon
  <2> QED BY <2>1
<1>2. PICK a \in D : \A b \in D : a <= b
  <2>1. D \in SUBSET Nat
    OBVIOUS
  <2> HIDE DEF D
  <2> QED BY <1>1, <2>1, Least
<1>3. a \in 1..n /\ f[a] # g[a] /\ \A b \in 1..n : b < a => f[b] = g[b]
  <2>1. \A b \in 1..n : b \notin D => f[b] = g[b]
    OBVIOUS
  <2>2. a \in 1..n /\ f[a] # g[a]
    BY <1>2
  <2> HIDE DEF D
  <2> QED BY <1>2, <2>1, <2>2
<1>4. \A x, y \in 1..n : x # y => f[x] # f[y] /\ g[x] # g[y]
  <2>1. ASSUME NEW x \in 1..n, NEW y \in 1..n, x < y PROVE f[x] # f[y] /\ g[x] # g[y]
    <3>1. <<f[x], f[y]>> \in R /\ <<g[x], g[y]>> \in R
      BY <1>0, <2>1
    <3>2. f[x] \in K /\ g[x] \in K
      BY <1>0
    <3> QED BY <1>0, <3>1, <3>2
  <2>2. \A x, y \in 1..n : x # y => x < y \/ y < x
    OBVIOUS
  <2> QED BY <2>1, <2>2
<1>5. PICK b \in 1..n : g[b] = f[a]
  BY <1>0, <1>3
<1>6. PICK c \in 1..n : f[c] = g[a]
  BY <1>0, <1>3
<1>7. b > a
  <2>1. CASE b < a
    <3>1. f[b] = f[a] /\ b # a
      BY <1>3, <1>5, <2>1
    <3> QED BY <1>3, <1>4, <3>1
  <2>2. CASE b = a
    BY <1>3, <1>5, <2>2
  <2> QED BY <1>3, <2>1, <2>2
<1>8. c > a
  <2>1. CASE c < a
    <3>1. g[c] = g[a] /\ c # a
      BY <1>3, <1>6, <2>1
    <3> QED BY <1>3, <1>4, <3>1
  <2>2. CASE c = a
    BY <1>3, <1>6, <2>2
  <2> QED BY <1>3, <2>1, <2>2
<1>9. <<g[a], g[b]>> \in R /\ <<f[a], f[c]>> \in R
  BY <1>0, <1>3, <1>7, <1>8
<1>10. <<g[a], f[a]>> \in R /\ <<f[a], g[a]>> \in R
  BY <1>5, <1>6, <1>9
<1>11. f[a] \in K /\ g[a] \in K
  BY <1>0, <1>3
<1> QED BY <1>0, <1>10, <1>11

\* A set of places has one enumeration, so a filter returns one list.
LEMMA EnumerationUnique ==
  ASSUME NEW s, NEW n \in Nat, NEW K \in SUBSET (1..n), NEW f \in Enumerations(K)
  PROVE  Selected(s, f) = Filtered(s, K)
<1> DEFINE m == Cardinality(K)
           R == {p \in K \X K : p[1] < p[2]}
<1>1. PICK g \in Enumerations(K) : Filtered(s, K) = Selected(s, g)
  BY DEF Filtered
<1>2. ASSUME NEW h \in Enumerations(K) PROVE m \in Nat /\ IsListing(m, K, R, h)
  <2>1. /\ m \in 0..n /\ h \in [1..m -> K]
        /\ \A a, b \in 1..m : a < b => h[a] < h[b]
        /\ \A k \in K : \E a \in 1..m : h[a] = k
    BY EnumerationFacts
  <2> HIDE DEF m
  <2>2. \A a, b \in 1..m : a < b => <<h[a], h[b]>> \in R
    BY <2>1
  <2> HIDE DEF R
  <2> QED BY <2>1, <2>2 DEF IsListing
<1>3. IsStrictOrder(K, R)
  BY DEF IsStrictOrder
<1> HIDE DEF R, m
<1>6. f = g
  BY <1>2, <1>3, ListingUnique
<1> QED BY <1>1, <1>6

\* A list has one stable descending order: what sort.SliceStable computes is determined.
LEMMA StableOrderUnique ==
  ASSUME NEW S, \A r \in S : r.score \in Int, NEW s \in Seq(S),
         NEW f \in Rearrangements(Len(s)), StableDescending(s, f)
  PROVE  Selected(s, f) = sortByScore(s)
<1> DEFINE n == Len(s)
           D == 1..n
           R == {q \in D \X D : \/ s[q[1]].score > s[q[2]].score
                                \/ s[q[1]].score = s[q[2]].score /\ q[1] < q[2]}
<1>1. PICK g \in Rearrangements(n) :
        StableDescending(s, g) /\ sortByScore(s) = Selected(s, g)
  BY DEF sortByScore
<1>2. n \in Nat /\ \A k \in D : s[k].score \in Int
  OBVIOUS
<1>3. /\ f \in [1..n -> D] /\ (\A k \in D : \E a \in 1..n : f[a] = k)
      /\ g \in [1..n -> D] /\ (\A k \in D : \E a \in 1..n : g[a] = k)
  BY <1>1 DEF Rearrangements
<1>4. /\ IsStrictOrder(D, R)
      /\ \A x, y \in D : <<x, y>> \in R <=>
          \/ s[x].score > s[y].score
          \/ s[x].score = s[y].score /\ x < y
  <2> HIDE DEF n
  <2>1. \A x, y \in D : <<x, y>> \in R <=>
          \/ s[x].score > s[y].score
          \/ s[x].score = s[y].score /\ x < y
    OBVIOUS
  <2> HIDE DEF R
  <2>2. \A x \in D : x \in Int
    OBVIOUS
  <2> HIDE DEF D
  <2>3. \A x \in D : <<x, x>> \notin R
    BY <1>2, <2>1, <2>2
  <2>4. ASSUME NEW x \in D, NEW y \in D, NEW z \in D, <<x, y>> \in R, <<y, z>> \in R
        PROVE  <<x, z>> \in R
    BY <1>2, <2>1, <2>2, <2>4
  <2> QED BY <2>1, <2>3, <2>4 DEF IsStrictOrder
<1>5. /\ \A a, b \in 1..n : a < b => <<f[a], f[b]>> \in R
      /\ \A a, b \in 1..n : a < b => <<g[a], g[b]>> \in R
  <2>1. /\ \A a, b \in 1..n : a < b => \/ s[f[a]].score > s[f[b]].score
                                       \/ s[f[a]].score = s[f[b]].score /\ f[a] < f[b]
        /\ \A a, b \in 1..n : a < b => \/ s[g[a]].score > s[g[b]].score
                                       \/ s[g[a]].score = s[g[b]].score /\ g[a] < g[b]
    BY <1>1 DEF StableDescending
  <2>2. \A a \in 1..n : f[a] \in D /\ g[a] \in D
    BY <1>3
  <2> HIDE DEF R, D, n
  <2> QED BY <1>4, <2>1, <2>2
<1> HIDE DEF R, D, n
<1>6. IsListing(n, D, R, f) /\ IsListing(n, D, R, g)
  BY <1>3, <1>5 DEF IsListing
<1>7. f = g
  BY <1>2, <1>4, <1>6, ListingUnique
<1> QED BY <1>1, <1>7

\* Breaking the ties of a list's first k rows: one more insertion than for the first k - 1.
LEMMA TieBreakStep ==
  ASSUME NEW S, NEW s \in Seq(S)
  PROVE  /\ \A k \in 0..Len(s) : /\ tieBreak(SubSeq(s, 1, k)) \in Seq(S)
                                 /\ Len(tieBreak(SubSeq(s, 1, k))) = k
         /\ tieBreak(SubSeq(s, 1, 0)) = <<>>
         /\ \A k \in 1..Len(s) :
              tieBreak(SubSeq(s, 1, k)) = Insert(tieBreak(SubSeq(s, 1, k-1)), s[k])
         /\ tieBreak(SubSeq(s, 1, Len(s))) = tieBreak(s)
<1> DEFINE N == Len(s)
<1>1. PICK g \in [0..N -> Seq(S)] :
        /\ g[0] = <<>>
        /\ \A k \in 1..N : g[k] = Insert(g[k-1], s[k])
        /\ tieBreak(s) = g[N]
  BY TieBreakLoop
<1>2. N \in Nat /\ \A k \in 1..N : s[k] \in S
  OBVIOUS
<1>3. ASSUME NEW k \in 0..N PROVE tieBreak(SubSeq(s, 1, k)) = g[k]
  <2> DEFINE u == SubSeq(s, 1, k)
  <2>1. k \in Nat /\ k <= N /\ u \in Seq(S) /\ Len(u) = k /\ \A m \in 1..k : u[m] = s[m]
    BY <1>2
  <2> HIDE DEF u
  <2>2. PICK h \in [0..k -> Seq(S)] :
          /\ h[0] = <<>>
          /\ \A m \in 1..k : h[m] = Insert(h[m-1], u[m])
          /\ tieBreak(u) = h[k]
    <3>1. \E h \in [0..Len(u) -> Seq(S)] :
            /\ h[0] = <<>>
            /\ \A m \in 1..Len(u) : h[m] = Insert(h[m-1], u[m])
            /\ tieBreak(u) = h[Len(u)]
      BY <2>1, TieBreakLoop
    <3> QED BY <2>1, <3>1
  <2> DEFINE T == {m \in 0..k : h[m] = g[m]}
  <2>3. 0 \in T
    BY <1>1, <2>1, <2>2
  <2>4. \A m \in 1..k : m - 1 \in T => m \in T
    <3>1. ASSUME NEW m \in 1..k, h[m-1] = g[m-1] PROVE h[m] = g[m] /\ m \in 0..k
      <4>1. m \in 1..N /\ m \in 0..k
        BY <1>2, <2>1
      <4> HIDE DEF N
      <4> QED BY <1>1, <2>1, <2>2, <3>1, <4>1
    <3> QED BY <3>1
  <2>5. \A m \in 0..k : m \in T
    <3> HIDE DEF T
    <3> QED BY <2>1, <2>3, <2>4, Induction
  <2>6. h[k] = g[k]
    BY <2>1, <2>5
  <2> QED BY <2>2, <2>6 DEF u
<1>4. \A k \in 0..N : g[k] \in Seq(S) /\ Len(g[k]) = k
  <2> DEFINE T == {k \in 0..N : Len(g[k]) = k}
  <2>1. 0 \in T
    BY <1>1, <1>2
  <2>2. \A k \in 1..N : k - 1 \in T => k \in T
    <3>1. ASSUME NEW k \in 1..N, k - 1 \in T PROVE k \in T
      <4>1. k - 1 \in 0..N /\ k \in 0..N /\ Len(g[k-1]) = k - 1 /\ g[k-1] \in Seq(S)
        BY <1>2, <3>1
      <4>2. Len(Insert(g[k-1], s[k])) = (k - 1) + 1
        <5> HIDE DEF N
        <5> QED BY <1>2, <4>1, InsertType
      <4> QED BY <1>1, <4>1, <4>2
    <3> QED BY <3>1
  <2>3. \A k \in 0..N : k \in T
    <3> HIDE DEF T, N
    <3> QED BY <1>2, <2>1, <2>2, Induction
  <2> QED BY <2>3
<1>5. \A k \in 1..N : k - 1 \in 0..N /\ k \in 0..N
  BY <1>2
<1>6. 0 \in 0..N /\ N \in 0..N
  BY <1>2
<1> HIDE DEF N
<1> QED BY <1>1, <1>3, <1>4, <1>5, <1>6 DEF N
=============================================================================

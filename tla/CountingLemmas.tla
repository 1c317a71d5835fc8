--------------------------- MODULE CountingLemmas ---------------------------
(***************************************************************************)
(* Lemmas of arithmetic, recursive functions and sums that the proofs of   *)
(* several modules need.  Induction is stated for a set of numbers or of   *)
(* sets instead of a predicate.                                            *)
(***************************************************************************)
EXTENDS Integers, Sequences, FiniteSetsExt, FiniteSetTheorems, WellFoundedInduction, TLAPS

-----------------------------------------------------------------------------
(* Numbers and remainders *)

\* A set of numbers has a least one.
LEMMA LeastExists ==
    ASSUME NEW S \in SUBSET Nat, S # {}
    PROVE  \E i \in S : \A j \in S : i <= j
<1>1. \E i \in S : \A j \in S : <<j, i>> \notin OpToRel(<, Nat)
  BY NatLessThanWellFounded, WFMin
<1>2. PICK i \in S : \A j \in S : <<j, i>> \notin OpToRel(<, Nat)
  BY <1>1
<1>3. ASSUME NEW j \in S PROVE i <= j
  <2>1. i \in Nat /\ j \in Nat
    OBVIOUS
  <2>2. ~(j < i)
    BY <1>2, <2>1 DEF OpToRel
  <2> QED
    BY <2>1, <2>2
<1> QED
  BY <1>3

\* Division with remainder.
LEMMA Divides ==
    ASSUME NEW n \in Nat \ {0}, NEW a \in Nat
    PROVE  \E q \in Nat, r \in 0..(n - 1) : a = n * q + r
<1> DEFINE N == {b \in Nat : \E q \in Nat, r \in 0..(n - 1) : b = n * q + r}
<1>1. 0 \in N
  <2>1. 0 = n * 0 + 0 /\ 0 \in 0..(n - 1)
    OBVIOUS
  <2> QED
    BY <2>1
<1>2. ASSUME NEW b \in N PROVE b + 1 \in N
  <2>1. PICK q \in Nat, r \in 0..(n - 1) : b = n * q + r
    OBVIOUS
  <2>2. CASE r + 1 < n
    <3>1. b + 1 = n * q + (r + 1) /\ r + 1 \in 0..(n - 1)
      BY <2>1, <2>2
    <3>2. \E p \in Nat, s \in 0..(n - 1) : b + 1 = n * p + s
      BY <3>1
    <3> QED
      BY <3>2
  <2>3. CASE r + 1 = n
    <3>1. b + 1 = n * (q + 1) + 0 /\ 0 \in 0..(n - 1) /\ q + 1 \in Nat
      BY <2>1, <2>3
    <3>2. \E p \in Nat, s \in 0..(n - 1) : b + 1 = n * p + s
      BY <3>1
    <3> QED
      BY <3>2
  <2> QED
    BY <2>2, <2>3
<1> HIDE DEF N
<1>3. SUFFICES ASSUME a \notin N PROVE FALSE
  BY DEF N
<1>4. PICK m \in Nat \ N : \A k \in Nat \ N : m <= k
  BY <1>3, LeastExists
<1>5. m - 1 \in Nat /\ m - 1 \in N
  BY <1>1, <1>4
<1> QED
  BY <1>2, <1>4, <1>5

\* What % returns.
LEMMA Remainder ==
    ASSUME NEW n \in Nat \ {0}, NEW q \in Nat, NEW r \in 0..(n - 1)
    PROVE  (n * q + r) % n = r
  OBVIOUS

\* The distributive law, as it is needed.
LEMMA Distributes ==
    ASSUME NEW n \in Nat, NEW p \in Nat, NEW q \in Nat, NEW r \in Nat
    PROVE  n * p + (n * q + r) = n * (p + q) + r
  OBVIOUS

\* What is added to a remainder may be added before.
LEMMA RemainderOfSum ==
    ASSUME NEW n \in Nat \ {0}, NEW a \in Nat, NEW i \in Nat
    PROVE  ((a % n) + i) % n = (a + i) % n
<1>1. PICK q \in Nat, r \in 0..(n - 1) : a = n * q + r
  BY Divides
<1>2. a % n = r
  BY <1>1, Remainder
<1>3. r + i \in Nat /\ q \in Nat /\ n \in Nat
  OBVIOUS
<1>4. PICK p \in Nat, s \in 0..(n - 1) : r + i = n * p + s
  BY <1>3, Divides
<1>5. (r + i) % n = s
  BY <1>4, Remainder
<1>6. s \in Nat
  OBVIOUS
<1>7. a + i = n * q + (n * p + s)
  <2>1. n * q \in Nat /\ r \in Nat
    OBVIOUS
  <2>2. a + i = n * q + (r + i)
    BY <1>1, <2>1
  <2> QED
    BY <1>4, <2>2
<1>8. a + i = n * (q + p) + s /\ q + p \in Nat
  BY <1>3, <1>6, <1>7, Distributes
<1>9. (a + i) % n = s
  BY <1>8, Remainder
<1> QED
  BY <1>2, <1>5, <1>9

\* What has the same remainder is n apart at least.
LEMMA FarApart ==
    ASSUME NEW n \in Nat \ {0}, NEW a \in Nat, NEW b \in Nat, a % n = b % n, a < b
    PROVE  b - a >= n
  OBVIOUS

\* n later stands at the same place.
LEMMA RoundAgain ==
    ASSUME NEW n \in Nat \ {0}, NEW a \in Nat
    PROVE  (a + n) % n = a % n
<1>1. PICK q \in Nat, r \in 0..(n - 1) : a = n * q + r
  BY Divides
<1>2. a % n = r
  BY <1>1, Remainder
<1>3. a + n = n * (q + 1) + r /\ q + 1 \in Nat
  BY <1>1
<1>4. (n * (q + 1) + r) % n = r
  BY <1>3, Remainder
<1> QED
  BY <1>2, <1>3, <1>4

-----------------------------------------------------------------------------
(* Sequences *)

LEMMA Appended ==
    ASSUME NEW S, NEW s \in Seq(S), NEW e \in S
    PROVE  /\ Append(s, e) \in Seq(S) /\ Len(Append(s, e)) = Len(s) + 1 /\ Len(s) \in Nat
           /\ \A i \in 1..Len(s) : Append(s, e)[i] = s[i]
           /\ Append(s, e)[Len(s) + 1] = e
  OBVIOUS

\* What stands where when one sequence goes behind another.
LEMMA Joined ==
    ASSUME NEW S, NEW s \in Seq(S), NEW r \in Seq(S)
    PROVE  /\ s \o r \in Seq(S) /\ Len(s \o r) = Len(s) + Len(r)
           /\ \A i \in 1..(Len(s) + Len(r)) :
                 (s \o r)[i] = IF i <= Len(s) THEN s[i] ELSE r[i - Len(s)]
  OBVIOUS

-----------------------------------------------------------------------------
(* Induction, and what is folded over the places of a sequence *)

\* Induction, for a set instead of a predicate.
LEMMA CountingInduction ==
    ASSUME NEW N \in SUBSET Nat, 0 \in N, \A n \in N : n + 1 \in N
    PROVE  N = Nat
<1> SUFFICES ASSUME N # Nat PROVE FALSE
  OBVIOUS
<1>1. PICK k \in Nat \ N : \A j \in Nat \ N : k <= j
  BY LeastExists
<1>2. k - 1 \in N
  BY <1>1
<1> QED
  BY <1>1, <1>2

\* Max of a set of places.
LEMMA MaxOfPlaces ==
    ASSUME NEW n \in Nat, NEW s \in SUBSET (1..n), s # {}
    PROVE  Max(s) \in s /\ \A j \in s : j <= Max(s)
<1> DEFINE U == {b \in Nat : \A j \in s : j <= b}
<1>1. n \in U
  OBVIOUS
<1>2. PICK b \in U : \A c \in U : b <= c
  BY <1>1, LeastExists
<1>3. b \in s
  <2>1. SUFFICES ASSUME b \notin s PROVE FALSE
    OBVIOUS
  <2>2. PICK j \in s : TRUE
    OBVIOUS
  <2>3. b \in Nat /\ j \in 1..n /\ j <= b
    BY <1>2
  <2>4. b - 1 \in Nat
    BY <2>3
  <2>5. \A i \in s : i <= b - 1
    <3>1. \A i \in s : i \in 1..n /\ i <= b /\ i # b
      BY <1>2, <2>1
    <3> QED
      BY <2>3, <3>1
  <2>6. b - 1 \in U
    BY <2>4, <2>5
  <2> QED
    BY <1>2, <2>3, <2>6
<1>4. \A j \in s : j <= b
  BY <1>2
<1>5. \E x \in s : \A z \in s : x >= z
  <2>1. \A z \in s : b >= z
    BY <1>2, <1>4
  <2> QED
    BY <1>3, <2>1
<1>6. Max(s) \in s /\ \A z \in s : Max(s) >= z
  BY <1>5 DEF Max
<1> QED
  BY <1>6

\* The places up to one.
LEMMA UpToPlace ==
    ASSUME NEW n \in Nat, NEW k \in 1..n
    PROVE  Max(1..k) = k /\ (1..k) \ {k} = 1..(k - 1) /\ 1..k # {}
<1>1. k \in 1..k /\ k \in Nat
  OBVIOUS
<1>2. Max(1..k) \in 1..k /\ k <= Max(1..k)
  BY <1>1, MaxOfPlaces
<1> QED
  BY <1>1, <1>2

\* I is what f folds over each set of the places up to n.
IsFold(I, n, base, f) ==
    \A s \in SUBSET (1..n) :
        I[s] = IF s = {} THEN base ELSE f[<<I[s \ {Max(s)}], Max(s)>>]

\* What is folded from the front is there for every set of places.
LEMMA FoldExists ==
    ASSUME NEW n \in Nat, NEW V, NEW base \in V, NEW f \in [V \X (1..n) -> V]
    PROVE  \E I \in [SUBSET (1..n) -> V] : IsFold(I, n, base, f)
<1> DEFINE Value(I, s) ==
               IF s = {} THEN base ELSE f[<<I[s \ {Max(s)}], Max(s)>>]
           Fold(k) == \E I \in [SUBSET (1..k) -> V] : \A s \in SUBSET (1..k) : I[s] = Value(I, s)
           N == {k \in Nat : k <= n => Fold(k)}
<1>1. 0 \in N
  <2> DEFINE I == [s \in SUBSET (1..0) |-> base]
  <2>1. I \in [SUBSET (1..0) -> V] /\ \A s \in SUBSET (1..0) : s = {} /\ I[s] = base
    OBVIOUS
  <2>2. \A s \in SUBSET (1..0) : I[s] = Value(I, s)
    BY <2>1
  <2> HIDE DEF I, Value
  <2> QED
    BY <2>1, <2>2
<1>2. ASSUME NEW k \in N PROVE k + 1 \in N
  <2>a. k \in Nat /\ (k <= n => Fold(k))
    BY <1>2
  <2>1. SUFFICES ASSUME k + 1 <= n PROVE Fold(k + 1)
    <3> HIDE DEF Fold
    <3> QED
      BY <2>a
  <2>2. k \in Nat /\ k <= n /\ k + 1 \in 1..n
    BY <2>a, <2>1
  <2>3. PICK I \in [SUBSET (1..k) -> V] : \A s \in SUBSET (1..k) : I[s] = Value(I, s)
    BY <2>a, <2>2
  <2> DEFINE J == [s \in SUBSET (1..(k + 1)) |->
                     IF k + 1 \in s THEN f[<<I[s \ {k + 1}], k + 1>>] ELSE I[s]]
  <2>4. ASSUME NEW s \in SUBSET (1..(k + 1)) PROVE s \ {k + 1} \in SUBSET (1..k)
    BY <2>2
  <2>5. ASSUME NEW s \in SUBSET (1..(k + 1)), k + 1 \notin s PROVE s \in SUBSET (1..k)
    BY <2>2, <2>5
  <2>6. ASSUME NEW s \in SUBSET (1..k)
        PROVE  s \in SUBSET (1..(k + 1)) /\ k + 1 \notin s
    BY <2>2
  <2>7. \A s \in SUBSET (1..k) : J[s] = I[s]
    BY <2>6
  <2>8. J \in [SUBSET (1..(k + 1)) -> V]
    <3>1. ASSUME NEW s \in SUBSET (1..(k + 1))
          PROVE  (IF k + 1 \in s THEN f[<<I[s \ {k + 1}], k + 1>>] ELSE I[s]) \in V
      <4>1. CASE k + 1 \in s
        <5>1. I[s \ {k + 1}] \in V
          BY <2>4
        <5> QED
          BY <2>2, <4>1, <5>1
      <4>2. CASE k + 1 \notin s
        BY <2>5, <4>2
      <4> QED
        BY <4>1, <4>2
    <3> QED
      BY <3>1
  <2>9. ASSUME NEW s \in SUBSET (1..(k + 1)) PROVE J[s] = Value(J, s)
    <3>1. CASE k + 1 \in s
      <4>1. Max(s) = k + 1
        <5>1. k + 1 \in Nat
          BY <2>2
        <5>2. Max(s) \in s /\ k + 1 <= Max(s)
          BY <3>1, <5>1, MaxOfPlaces
        <5>3. Max(s) \in 1..(k + 1)
          BY <5>2
        <5> QED
          BY <2>2, <5>2, <5>3
      <4>2. J[s \ {k + 1}] = I[s \ {k + 1}]
        BY <2>4, <2>7
      <4>3. J[s] = f[<<I[s \ {k + 1}], k + 1>>] /\ s # {}
        BY <3>1
      <4> HIDE DEF J
      <4> QED
        BY <4>1, <4>2, <4>3
    <3>2. CASE k + 1 \notin s /\ s # {}
      <4>1. s \in SUBSET (1..k)
        BY <2>5, <3>2
      <4>2. s \ {Max(s)} \in SUBSET (1..k)
        BY <4>1
      <4>3. J[s] = I[s] /\ J[s \ {Max(s)}] = I[s \ {Max(s)}]
        BY <2>7, <4>1, <4>2
      <4> HIDE DEF J
      <4> QED
        BY <2>3, <3>2, <4>1, <4>3
    <3>3. CASE s = {}
      <4>1. J[s] = I[s] /\ I[s] = base
        BY <2>3, <2>7, <3>3
      <4> HIDE DEF J
      <4> QED
        BY <3>3, <4>1
    <3> QED
      BY <3>1, <3>2, <3>3
  <2> HIDE DEF J, Value
  <2> QED
    BY <2>8, <2>9
<1> HIDE DEF N
<1>3. N = Nat
  BY <1>1, <1>2, CountingInduction DEF N
<1>4. n \in N /\ n <= n
  BY <1>3
<1>5. Fold(n)
  <2> HIDE DEF Fold
  <2> QED
    BY <1>4 DEF N
<1> QED
  BY <1>5 DEF IsFold

\* r is the values on the way: each is what f makes of the one before.
IsRun(r, n, base, f) == \A k \in 0..n : r[k] = IF k = 0 THEN base ELSE f[<<r[k - 1], k>>]

\* A fold stops at every place, one step behind the other.
LEMMA RunExists ==
    ASSUME NEW n \in Nat, NEW V, NEW base \in V, NEW f \in [V \X (1..n) -> V]
    PROVE  \E r \in [0..n -> V] : IsRun(r, n, base, f)
<1>1. PICK I \in [SUBSET (1..n) -> V] : IsFold(I, n, base, f)
  BY FoldExists
<1> DEFINE r == [k \in 0..n |-> I[1..k]]
<1>2. \A k \in 0..n : 1..k \in SUBSET (1..n)
  OBVIOUS
<1>3. r \in [0..n -> V]
  BY <1>2
<1>4. ASSUME NEW k \in 1..n PROVE r[k] = f[<<r[k - 1], k>>]
  <2>1. Max(1..k) = k /\ (1..k) \ {k} = 1..(k - 1) /\ 1..k # {}
    BY UpToPlace
  <2>2. k \in 0..n /\ k - 1 \in 0..n
    OBVIOUS
  <2>3. I[1..k] = f[<<I[1..(k - 1)], k>>]
    BY <1>1, <1>2, <2>1, <2>2 DEF IsFold
  <2> QED
    BY <2>2, <2>3
<1>5. r[0] = base
  <2>1. 1..0 = {} /\ 0 \in 0..n
    OBVIOUS
  <2> QED
    BY <1>1, <1>2, <2>1 DEF IsFold
<1>6. \A k \in 0..n : k = 0 \/ k \in 1..n
  OBVIOUS
<1> HIDE DEF r
<1>7. IsRun(r, n, base, f)
  BY <1>4, <1>5, <1>6 DEF IsRun
<1> QED
  BY <1>3, <1>7

-----------------------------------------------------------------------------
(***************************************************************************)
(* Sums over finite sets.  The induction is over the least counterexample. *)
(***************************************************************************)
First(s) == CHOOSE x \in s : TRUE

\* I[s] is the sum of f over s, for each subset s of S.
IsSum(I, f, S) == I = [s \in SUBSET S |-> IF s = {} THEN 0 ELSE f[First(s)] + I[s \ {First(s)}]]

SumOf(f, S) == (CHOOSE I : IsSum(I, f, S))[S]

LEMMA FirstOfSet ==
    ASSUME NEW s, s # {}
    PROVE  First(s) \in s
  BY DEF First

\* A property that the empty set has, and each set that has it without its first
\* element, is one of all subsets of a finite set.
LEMMA SubsetInduction ==
    ASSUME NEW S, IsFiniteSet(S), NEW G, {} \in G,
           \A s \in SUBSET S : s # {} /\ s \ {First(s)} \in G => s \in G
    PROVE  \A s \in SUBSET S : s \in G
<1> DEFINE N == {n \in Nat : \A s \in SUBSET S : Cardinality(s) = n => s \in G}
<1>0. \A s \in SUBSET S : IsFiniteSet(s) /\ Cardinality(s) \in Nat
  BY FS_Subset, FS_CardinalityType
<1>1. 0 \in N
  BY <1>0, FS_EmptySet
<1>2. ASSUME NEW n \in N PROVE n + 1 \in N
  <2>1. ASSUME NEW s \in SUBSET S, Cardinality(s) = n + 1 PROVE s \in G
    <3>1. s # {}
      BY <2>1, FS_EmptySet
    <3>2. Cardinality(s \ {First(s)}) = n
      BY <1>0, <2>1, <3>1, FirstOfSet, FS_RemoveElement
    <3>3. s \ {First(s)} \in G
      BY <3>2
    <3> QED
      BY <3>1, <3>3
  <2> QED
    BY <2>1
<1> HIDE DEF N
<1>3. N = Nat
  BY <1>1, <1>2, CountingInduction DEF N
<1> QED
  BY <1>0, <1>3 DEF N

LEMMA SumExists ==
    ASSUME NEW S, IsFiniteSet(S), NEW f \in [S -> Int]
    PROVE  \E I \in [SUBSET S -> Int] : IsSum(I, f, S)
<1> DEFINE D(n) == {s \in SUBSET S : Cardinality(s) <= n}
           Value(g, s) == IF s = {} THEN 0 ELSE f[First(s)] + g[s \ {First(s)}]
           N == {n \in Nat : \E g \in [D(n) -> Int] : \A s \in D(n) : g[s] = Value(g, s)}
<1>0. \A s \in SUBSET S : IsFiniteSet(s) /\ Cardinality(s) \in Nat
  BY FS_Subset, FS_CardinalityType
<1>a. ASSUME NEW s \in SUBSET S, s # {}
      PROVE  /\ First(s) \in S /\ s \ {First(s)} \in SUBSET S
             /\ Cardinality(s \ {First(s)}) = Cardinality(s) - 1
  BY <1>0, <1>a, FirstOfSet, FS_RemoveElement
<1>1. 0 \in N
  <2>1. \A s \in D(0) : s = {}
    BY <1>0, FS_EmptySet
  <2>2. [s \in D(0) |-> 0] \in [D(0) -> Int]
    OBVIOUS
  <2> QED
    BY <2>1, <2>2
<1>2. ASSUME NEW n \in N PROVE n + 1 \in N
  <2>1. PICK g \in [D(n) -> Int] : \A s \in D(n) : g[s] = Value(g, s)
    OBVIOUS
  <2> DEFINE h == [s \in D(n + 1) |-> Value(g, s)]
  <2>2. ASSUME NEW s \in D(n + 1), s # {} PROVE s \ {First(s)} \in D(n)
    BY <1>0, <1>a, <2>2
  <2>3. h \in [D(n + 1) -> Int]
    <3>1. ASSUME NEW s \in D(n + 1) PROVE Value(g, s) \in Int
      <4>1. CASE s = {}
        BY <4>1
      <4>2. CASE s # {}
        <5>1. g[s \ {First(s)}] \in Int
          BY <2>2, <4>2
        <5>2. f[First(s)] \in Int
          BY <1>a, <4>2
        <5> QED
          BY <4>2, <5>1, <5>2
      <4> QED
        BY <4>1, <4>2
    <3> HIDE DEF Value
    <3> QED
      BY <3>1
  <2>4. ASSUME NEW s \in D(n) PROVE s \in D(n + 1) /\ h[s] = g[s]
    <3>1. s \in D(n + 1)
      BY <1>0
    <3>2. g[s] = Value(g, s)
      BY <2>1
    <3> HIDE DEF Value
    <3> QED
      BY <3>1, <3>2
  <2>5. ASSUME NEW s \in D(n + 1) PROVE h[s] = Value(h, s)
    <3>1. CASE s = {}
      BY <3>1
    <3>2. CASE s # {}
      <4>1. h[s \ {First(s)}] = g[s \ {First(s)}]
        BY <2>2, <2>4, <3>2
      <4>2. h[s] = f[First(s)] + g[s \ {First(s)}]
        BY <3>2
      <4> HIDE DEF h
      <4> QED
        BY <3>2, <4>1, <4>2
    <3> QED
      BY <3>1, <3>2
  <2>6. n + 1 \in Nat
    OBVIOUS
  <2> HIDE DEF h, Value, D
  <2> QED
    BY <2>3, <2>5, <2>6
<1>3. Cardinality(S) \in N
  <2> HIDE DEF N
  <2>1. N = Nat
    BY <1>1, <1>2, CountingInduction DEF N
  <2> QED
    BY <1>0, <2>1
<1>4. D(Cardinality(S)) = SUBSET S
  BY FS_Subset
<1>5. PICK I \in [SUBSET S -> Int] : \A s \in SUBSET S : I[s] = Value(I, s)
  BY <1>3, <1>4
<1>6. I = [s \in SUBSET S |-> Value(I, s)]
  BY <1>5
<1> QED
  BY <1>5, <1>6 DEF IsSum

\* The choice SumOf makes is such a function, and its values are integers.
LEMMA SumOfProperties ==
    ASSUME NEW S, IsFiniteSet(S), NEW f \in [S -> Int]
    PROVE  \E I \in [SUBSET S -> Int] : IsSum(I, f, S) /\ SumOf(f, S) = I[S]
<1> DEFINE I == CHOOSE J : IsSum(J, f, S)
<1>1. IsSum(I, f, S)
  BY SumExists
<1> HIDE DEF I
<1>2. /\ I = [s \in SUBSET S |-> I[s]]
      /\ \A s \in SUBSET S : I[s] = IF s = {} THEN 0 ELSE f[First(s)] + I[s \ {First(s)}]
  BY <1>1 DEF IsSum
<1> DEFINE G == {s \in SUBSET S : I[s] \in Int}
<1>3. {} \in G
  <2>1. {} \in SUBSET S
    OBVIOUS
  <2>2. I[{}] = 0
    BY <1>2, <2>1
  <2> QED
    BY <2>1, <2>2
<1>4. ASSUME NEW s \in SUBSET S, s # {}, s \ {First(s)} \in G PROVE s \in G
  <2>1. I[s] = f[First(s)] + I[s \ {First(s)}]
    BY <1>2, <1>4
  <2>2. f[First(s)] \in Int /\ I[s \ {First(s)}] \in Int
    BY <1>4, FirstOfSet
  <2> QED
    BY <2>1, <2>2
<1>5. \A s \in SUBSET S : s \in G
  <2> HIDE DEF G
  <2> QED
    BY <1>3, <1>4, SubsetInduction
<1>6. I \in [SUBSET S -> Int]
  BY <1>2, <1>5
<1> QED
  BY <1>1, <1>6 DEF I, SumOf

LEMMA SumOfZeros ==
    ASSUME NEW S, IsFiniteSet(S)
    PROVE  SumOf([x \in S |-> 0], S) = 0
<1> DEFINE f == [x \in S |-> 0]
<1>1. PICK I \in [SUBSET S -> Int] : IsSum(I, f, S) /\ SumOf(f, S) = I[S]
  BY SumOfProperties
<1>2. \A s \in SUBSET S : I[s] = IF s = {} THEN 0 ELSE f[First(s)] + I[s \ {First(s)}]
  BY <1>1 DEF IsSum
<1> DEFINE G == {s \in SUBSET S : I[s] = 0}
<1>3. {} \in G
  BY <1>2
<1>4. ASSUME NEW s \in SUBSET S, s # {}, s \ {First(s)} \in G PROVE s \in G
  BY <1>2, <1>4, FirstOfSet
<1>5. \A s \in SUBSET S : s \in G
  <2> HIDE DEF G
  <2> QED
    BY <1>3, <1>4, SubsetInduction
<1> QED
  BY <1>1, <1>5

\* Changing the addend of one element changes the sum by as much.
LEMMA SumOfChanged ==
    ASSUME NEW S, IsFiniteSet(S), NEW f \in [S -> Int], NEW g \in [S -> Int], NEW p \in S,
           \A x \in S \ {p} : g[x] = f[x]
    PROVE  SumOf(f, S) \in Int /\ SumOf(g, S) = SumOf(f, S) + (g[p] - f[p])
<1>1. PICK I \in [SUBSET S -> Int] : IsSum(I, f, S) /\ SumOf(f, S) = I[S]
  BY SumOfProperties
<1>2. PICK J \in [SUBSET S -> Int] : IsSum(J, g, S) /\ SumOf(g, S) = J[S]
  BY SumOfProperties
<1>3. \A s \in SUBSET S :
          /\ I[s] = IF s = {} THEN 0 ELSE f[First(s)] + I[s \ {First(s)}]
          /\ J[s] = IF s = {} THEN 0 ELSE g[First(s)] + J[s \ {First(s)}]
  BY <1>1, <1>2 DEF IsSum
<1> DEFINE G == {s \in SUBSET S : J[s] = I[s] + (IF p \in s THEN g[p] - f[p] ELSE 0)}
<1>4. {} \in G
  <2>1. {} \in SUBSET S /\ p \notin {}
    OBVIOUS
  <2>2. I[{}] = 0 /\ J[{}] = 0
    BY <1>3, <2>1
  <2> QED
    BY <2>1, <2>2
<1>5. ASSUME NEW s \in SUBSET S, s # {}, s \ {First(s)} \in G PROVE s \in G
  <2> DEFINE x == First(s)
             t == s \ {x}
  <2>1. x \in s /\ x \in S /\ t \in SUBSET S
    BY <1>5, FirstOfSet
  <2>2. I[s] = f[x] + I[t] /\ J[s] = g[x] + J[t]
    BY <1>3, <1>5
  <2>3. J[t] = I[t] + (IF p \in t THEN g[p] - f[p] ELSE 0)
    BY <1>5
  <2>4. /\ I[t] \in Int /\ J[t] \in Int /\ f[x] \in Int /\ g[x] \in Int
        /\ f[p] \in Int /\ g[p] \in Int
    BY <2>1
  <2>5. p \in t <=> p \in s /\ p # x
    OBVIOUS
  <2>6. x # p => g[x] = f[x]
    BY <2>1
  <2> HIDE DEF x, t
  <2>7. J[s] = I[s] + (IF p \in s THEN g[p] - f[p] ELSE 0)
    BY <2>1, <2>2, <2>3, <2>4, <2>5, <2>6
  <2> QED
    BY <2>7
<1>6. \A s \in SUBSET S : s \in G
  <2> HIDE DEF G
  <2> QED
    BY <1>4, <1>5, SubsetInduction
<1> QED
  BY <1>1, <1>2, <1>6

LEMMA SumOfNaturals ==
    ASSUME NEW S, IsFiniteSet(S), NEW f \in [S -> Nat]
    PROVE  SumOf(f, S) \in Nat
<1>1. f \in [S -> Int]
  OBVIOUS
<1>2. PICK I \in [SUBSET S -> Int] : IsSum(I, f, S) /\ SumOf(f, S) = I[S]
  BY <1>1, SumOfProperties
<1>3. \A s \in SUBSET S : I[s] = IF s = {} THEN 0 ELSE f[First(s)] + I[s \ {First(s)}]
  BY <1>2 DEF IsSum
<1> DEFINE G == {s \in SUBSET S : I[s] \in Nat}
<1>4. {} \in G
  <2>1. I[{}] = 0
    BY <1>3
  <2> QED
    BY <2>1
<1>5. ASSUME NEW s \in SUBSET S, s # {}, s \ {First(s)} \in G PROVE s \in G
  <2>1. I[s] = f[First(s)] + I[s \ {First(s)}]
    BY <1>3, <1>5
  <2>2. f[First(s)] \in Nat /\ I[s \ {First(s)}] \in Nat
    BY <1>5, FirstOfSet
  <2> QED
    BY <2>1, <2>2
<1>6. \A s \in SUBSET S : s \in G
  <2> HIDE DEF G
  <2> QED
    BY <1>4, <1>5, SubsetInduction
<1> QED
  BY <1>2, <1>6
=============================================================================

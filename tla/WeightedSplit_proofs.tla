----------------------- MODULE WeightedSplit_proofs -----------------------
(***************************************************************************)
(* What weighted_split returns, for any number of layers and any weights:  *)
(* sizes that sum to the layers, each within one of its exact share.       *)
(***************************************************************************)
EXTENDS LayerPlan, NumberLemmas

(***************************************************************************)
(* Sums                                                                    *)
(***************************************************************************)
\* SumTo(s, n) is what the name says.
LEMMA SumToIsSum ==
  ASSUME NEW m \in Nat, NEW s \in [1..m -> Int]
  PROVE  /\ SumTo(s, 0) = 0
         /\ \A n \in 1..m : SumTo(s, n) = SumTo(s, n - 1) + s[n]
         /\ \A n \in 0..m : SumTo(s, n) \in Int
<1>1. \A n : SumTo(s, n) = SumOfFirst(s, n)
  BY DEF SumTo, SumOfFirst, IsSum
<1>2. /\ SumOfFirst(s, 0) = 0
      /\ \A n \in 1..m : SumOfFirst(s, n) = SumOfFirst(s, n - 1) + s[n]
      /\ \A n \in 0..m : SumOfFirst(s, n) \in Int
  BY FirstSums
<1> QED
  BY <1>1, <1>2

\* Sums of naturals grow, and every element is at most the sum.
LEMMA SumGrows ==
  ASSUME NEW m \in Nat, NEW s \in [1..m -> Nat]
  PROVE  /\ \A k \in 0..m : SumTo(s, k) \in Nat
         /\ \A k \in 0..m : \A j \in 0..k : SumTo(s, j) <= SumTo(s, k)
<1>0. s \in [1..m -> Int]
  OBVIOUS
<1>1. \A k \in 0..m : SumTo(s, k) \in Nat
  <2> DEFINE T == {k \in 0..m : SumTo(s, k) \in Nat}
  <2>1. 0 \in T
    BY <1>0, SumToIsSum
  <2>2. ASSUME NEW k \in 0..(m - 1), k \in T PROVE k + 1 \in T
    <3>1. k + 1 \in 1..m /\ (k + 1) - 1 = k /\ k + 1 \in 0..m
      OBVIOUS
    <3>2. SumTo(s, k + 1) = SumTo(s, k) + s[k + 1]
      BY <1>0, <3>1, SumToIsSum
    <3> QED
      BY <2>2, <3>1, <3>2
  <2> HIDE DEF T
  <2>3. \A k \in 0..m : k \in T
    BY <2>1, <2>2, Induction
  <2> QED
    BY <2>3 DEF T
<1>2. ASSUME NEW j \in 0..m PROVE \A k \in 0..m : j <= k => SumTo(s, j) <= SumTo(s, k)
  <2> DEFINE T == {k \in 0..m : j <= k => SumTo(s, j) <= SumTo(s, k)}
  <2>1. 0 \in T
    BY <1>1
  <2>2. ASSUME NEW k \in 0..(m - 1), k \in T PROVE k + 1 \in T
    <3>1. k + 1 \in 1..m /\ (k + 1) - 1 = k /\ k + 1 \in 0..m /\ k \in 0..m
      OBVIOUS
    <3>2. SumTo(s, k + 1) = SumTo(s, k) + s[k + 1] /\ s[k + 1] \in Nat
      BY <1>0, <3>1, SumToIsSum
    <3> QED
      BY <1>1, <2>2, <3>1, <3>2
  <2> HIDE DEF T
  <2>3. \A k \in 0..m : k \in T
    BY <2>1, <2>2, Induction
  <2> QED
    BY <2>3 DEF T
<1>3. \A k \in 0..m : \A j \in 0..k : j \in 0..m /\ j <= k
  OBVIOUS
<1> QED
  BY <1>1, <1>2, <1>3

\* An element of a list of naturals is at most their sum.
LEMMA ElementAtMostSum ==
  ASSUME NEW m \in Nat, NEW s \in [1..m -> Nat], NEW i \in 1..m
  PROVE  s[i] <= SumTo(s, m)
<1>1. i - 1 \in 0..m /\ i \in 0..m /\ m \in 0..m /\ s \in [1..m -> Int]
  OBVIOUS
<1>2. SumTo(s, i) = SumTo(s, i - 1) + s[i]
  BY <1>1, SumToIsSum
<1>3. SumTo(s, i - 1) \in Nat /\ SumTo(s, i) \in Nat /\ SumTo(s, m) \in Nat
  BY <1>1, SumGrows
<1>4. SumTo(s, i) <= SumTo(s, m)
  BY <1>1, SumGrows
<1> QED
  BY <1>2, <1>3, <1>4

\* n * x divided by t gives quotient a and remainder c.
Divided(n, x, t, a, c) == n * x = a * t + c /\ c <= t - 1

\* q and r are the quotients and remainders of the n * w[i].
Divides(m, n, t, w, q, r) ==
  \A i \in 1..m : Divided(n, w[i], t, q[i], r[i])

SumsDivide(m, n, t, w, q, r) ==
  \A k \in 0..m : n * SumTo(w, k) = SumTo(q, k) * t + SumTo(r, k)

\* Elementwise n * w = q * t + r, hence also for the sums.
LEMMA SumOfShares ==
  ASSUME NEW m \in Nat, NEW n \in Int, NEW t \in Int, NEW w \in [1..m -> Int],
         NEW q \in [1..m -> Int], NEW r \in [1..m -> Int],
         Divides(m, n, t, w, q, r)
  PROVE  SumsDivide(m, n, t, w, q, r)
<1> DEFINE T == {k \in 0..m : n * SumTo(w, k) = SumTo(q, k) * t + SumTo(r, k)}
<1>1. 0 \in T
  <2>1. SumTo(w, 0) = 0 /\ SumTo(q, 0) = 0 /\ SumTo(r, 0) = 0
    BY SumToIsSum
  <2> QED
    BY <2>1
<1>2. ASSUME NEW k \in 0..(m - 1), k \in T PROVE k + 1 \in T
  <2>1. k + 1 \in 1..m /\ (k + 1) - 1 = k /\ k + 1 \in 0..m /\ k \in 0..m
    OBVIOUS
  <2>2. /\ SumTo(w, k + 1) = SumTo(w, k) + w[k + 1]
        /\ SumTo(q, k + 1) = SumTo(q, k) + q[k + 1]
        /\ SumTo(r, k + 1) = SumTo(r, k) + r[k + 1]
    BY <2>1, SumToIsSum
  <2>3. SumTo(w, k) \in Int /\ SumTo(q, k) \in Int /\ SumTo(r, k) \in Int
    BY <2>1, SumToIsSum
  <2>4. w[k + 1] \in Int /\ q[k + 1] \in Int /\ r[k + 1] \in Int
    BY <2>1
  <2>5. n * (SumTo(w, k) + w[k + 1]) = n * SumTo(w, k) + n * w[k + 1]
    BY <2>3, <2>4, Distribute
  <2>6. (SumTo(q, k) + q[k + 1]) * t = SumTo(q, k) * t + q[k + 1] * t
    BY <2>3, <2>4, Distribute
  <2>7. n * SumTo(w, k) = SumTo(q, k) * t + SumTo(r, k)
    BY <1>2
  <2>8. n * w[k + 1] = q[k + 1] * t + r[k + 1]
    BY <2>1 DEF Divides, Divided
  <2>9. n * SumTo(w, k) \in Int /\ n * w[k + 1] \in Int /\ SumTo(q, k) * t \in Int
        /\ q[k + 1] * t \in Int
    BY <2>3, <2>4
  <2>10. n * SumTo(w, k + 1) = SumTo(q, k + 1) * t + SumTo(r, k + 1)
    BY <2>2, <2>3, <2>4, <2>5, <2>6, <2>7, <2>8, <2>9
  <2> QED
    BY <2>1, <2>10
<1> HIDE DEF T
<1>3. \A k \in 0..m : k \in T
  BY <1>1, <1>2, Induction
<1> QED
  BY <1>3 DEF T, SumsDivide

\* How many of 1, ..., k are in A.
Count(A, k) == Cardinality({i \in A : i <= k})

OneIn(A, i) == IF i \in A THEN 1 ELSE 0

\* The count starts at 0, goes up by one at each member, and ends at the
\* cardinality.
LEMMA CountSteps ==
  ASSUME NEW m \in Nat, NEW A \in SUBSET (1..m)
  PROVE  /\ \A k \in 0..m : Count(A, k) \in Nat
         /\ Count(A, 0) = 0
         /\ \A k \in 0..(m - 1) :
              Count(A, k + 1) = Count(A, k) + OneIn(A, k + 1)
         /\ Count(A, m) = Cardinality(A)
<1>0. \A i \in A : i \in Int /\ 1 <= i /\ i <= m
  OBVIOUS
<1>1. IsFiniteSet(A)
  <2>1. IsFiniteSet(1..m)
    BY FS_Interval
  <2> QED
    BY <2>1, FS_Subset
<1>2. ASSUME NEW k PROVE IsFiniteSet({i \in A : i <= k}) /\ Count(A, k) \in Nat
  <2>1. {i \in A : i <= k} \in SUBSET A
    OBVIOUS
  <2>2. IsFiniteSet({i \in A : i <= k})
    BY <1>1, <2>1, FS_Subset
  <2> QED
    BY <2>2, FS_CardinalityType DEF Count
<1>3. Count(A, 0) = 0
  <2>1. \A i \in A : ~(i <= 0)
    BY <1>0
  <2>2. {i \in A : i <= 0} = {}
    BY <2>1, Zenon
  <2> QED
    BY <2>2, FS_EmptySet DEF Count
<1>4. ASSUME NEW k \in 0..(m - 1)
      PROVE  Count(A, k + 1) = Count(A, k) + OneIn(A, k + 1)
  <2> DEFINE B == {i \in A : i <= k}
  <2>1. IsFiniteSet(B) /\ Count(A, k) = Cardinality(B) /\ Cardinality(B) \in Nat
    BY <1>2 DEF Count
  <2>2. \A i \in A : i <= k + 1 <=> i <= k \/ i = k + 1
    BY <1>0
  <2>3. CASE k + 1 \in A
    <3>1. k + 1 \notin B
      BY <1>0
    <3>2. {i \in A : i <= k + 1} = B \cup {k + 1}
      <4> k + 1 \in Int /\ ~(k + 1 <= k) /\ k + 1 <= k + 1
        OBVIOUS
      <4> DEFINE C == {i \in A : i <= k + 1}
      <4>1. \A i : i \in C <=> i \in B \cup {k + 1}
        BY <2>2, <2>3, Zenon
      <4> QED
        BY <4>1, Zenon
    <3> HIDE DEF B
    <3>3. Cardinality(B \cup {k + 1}) = Cardinality(B) + 1
      BY <2>1, <3>1, FS_AddElement
    <3>4. Count(A, k + 1) = Cardinality(B) + 1
      BY <3>2, <3>3 DEF Count
    <3> QED
      BY <2>1, <2>3, <3>4 DEF OneIn
  <2>4. CASE k + 1 \notin A
    <3>1. {i \in A : i <= k + 1} = B
      <4> DEFINE C == {i \in A : i <= k + 1}
      <4>1. \A i : i \in C <=> i \in B
        BY <2>2, <2>4, Zenon
      <4> QED
        BY <4>1, Zenon
    <3> HIDE DEF B
    <3>2. Count(A, k + 1) = Cardinality(B)
      BY <3>1 DEF Count
    <3> QED
      BY <2>1, <2>4, <3>2 DEF OneIn
  <2> QED
    BY <2>3, <2>4
<1>5. Count(A, m) = Cardinality(A)
  <2>1. {i \in A : i <= m} = A
    BY <1>0, Zenon
  <2> QED
    BY <2>1 DEF Count
<1> QED
  BY <1>2, <1>3, <1>4, <1>5

\* Adding one where i is in A adds the number of these to the sum.
LEMMA SumWithExtras ==
  ASSUME NEW m \in Nat, NEW q \in [1..m -> Int], NEW A \in SUBSET (1..m),
         NEW s \in [1..m -> Int], \A i \in 1..m : s[i] = q[i] + OneIn(A, i)
  PROVE  \A k \in 0..m : SumTo(s, k) = SumTo(q, k) + Count(A, k)
<1> DEFINE T == {k \in 0..m : SumTo(s, k) = SumTo(q, k) + Count(A, k)}
<1>1. 0 \in T
  <2>1. SumTo(s, 0) = 0 /\ SumTo(q, 0) = 0
    BY SumToIsSum
  <2>2. Count(A, 0) = 0
    BY CountSteps
  <2> QED
    BY <2>1, <2>2
<1>2. ASSUME NEW k \in 0..(m - 1), k \in T PROVE k + 1 \in T
  <2>1. k + 1 \in 1..m /\ (k + 1) - 1 = k /\ k + 1 \in 0..m /\ k \in 0..m
    OBVIOUS
  <2>2. /\ SumTo(s, k + 1) = SumTo(s, k) + s[k + 1]
        /\ SumTo(q, k + 1) = SumTo(q, k) + q[k + 1]
    BY <2>1, SumToIsSum
  <2>6. Count(A, k + 1) = Count(A, k) + OneIn(A, k + 1)
    BY CountSteps, Zenon
  <2>7. Count(A, k) \in Nat
    BY <2>1, CountSteps, Zenon
  <2>3. SumTo(s, k) \in Int /\ SumTo(q, k) \in Int
    BY <2>1, SumToIsSum
  <2>4. s[k + 1] = q[k + 1] + OneIn(A, k + 1) /\ q[k + 1] \in Int
    BY <2>1
  <2>5. SumTo(s, k) = SumTo(q, k) + Count(A, k)
    BY <1>2
  <2> QED
    BY <2>1, <2>2, <2>3, <2>4, <2>5, <2>6, <2>7 DEF OneIn
<1> HIDE DEF T
<1>3. \A k \in 0..m : k \in T
  BY <1>1, <1>2, Induction
<1> QED
  BY <1>3 DEF T

Positive(m, r) == {i \in 1..m : r[i] > 0}

\* Remainders modulo t sum to less than t for each that is not zero.
LEMMA SumOfRemainders ==
  ASSUME NEW m \in Nat, NEW t \in Nat \ {0}, NEW r \in [1..m -> 0..(t - 1)]
  PROVE  \A k \in 0..m : SumTo(r, k) <= Count(Positive(m, r), k) * (t - 1)
<1> DEFINE A == Positive(m, r)
           T == {k \in 0..m : SumTo(r, k) <= Count(A, k) * (t - 1)}
<1>0. r \in [1..m -> Int] /\ A \in SUBSET (1..m)
  BY DEF Positive
<1>1. 0 \in T
  <2>1. SumTo(r, 0) = 0 /\ Count(A, 0) = 0
    BY <1>0, SumToIsSum, CountSteps
  <2> QED
    BY <2>1
<1>2. ASSUME NEW k \in 0..(m - 1), k \in T PROVE k + 1 \in T
  <2>1. k + 1 \in 1..m /\ (k + 1) - 1 = k /\ k + 1 \in 0..m /\ k \in 0..m
    OBVIOUS
  <2>2. SumTo(r, k + 1) = SumTo(r, k) + r[k + 1] /\ SumTo(r, k) \in Int
    BY <1>0, <2>1, SumToIsSum
  <2>3. /\ Count(A, k + 1) = Count(A, k) + OneIn(A, k + 1)
        /\ Count(A, k) \in Nat
    <3> HIDE DEF A
    <3>1. Count(A, k + 1) = Count(A, k) + OneIn(A, k + 1)
      BY <1>0, CountSteps, Zenon
    <3>2. Count(A, k) \in Nat
      BY <1>0, <2>1, CountSteps, Zenon
    <3> QED
      BY <3>1, <3>2
  <2>4. r[k + 1] \in 0..(t - 1) /\ (k + 1 \in A <=> r[k + 1] > 0)
    BY <2>1 DEF Positive
  <2>5. SumTo(r, k) <= Count(A, k) * (t - 1)
    BY <1>2
  <2> HIDE DEF A
  <2>6. SumTo(r, k + 1) <= Count(A, k + 1) * (t - 1)
    <3>1. (Count(A, k) + 1) * (t - 1) = Count(A, k) * (t - 1) + (t - 1)
      BY <2>3
    <3>2. Count(A, k) * (t - 1) \in Int
      BY <2>3
    <3>3. CASE k + 1 \in A
      BY <2>2, <2>3, <2>4, <2>5, <3>1, <3>2, <3>3 DEF OneIn
    <3>4. CASE k + 1 \notin A
      <4>1. r[k + 1] = 0 /\ Count(A, k + 1) = Count(A, k)
        BY <2>3, <2>4, <3>4 DEF OneIn
      <4> QED
        BY <2>2, <2>5, <3>2, <4>1
    <3> QED
      BY <3>3, <3>4
  <2> QED
    BY <2>1, <2>6
<1> HIDE DEF T
<1>3. m \in Nat
  OBVIOUS
<1>4. \A k \in 0..m : k \in T
  BY <1>1, <1>2, <1>3, Induction
<1> QED
  BY <1>4 DEF T

(***************************************************************************)
(* The order of the remainders                                             *)
(***************************************************************************)
\* Ahead is a strict total order: no index is ahead of itself, it is
\* transitive, and of two indices one is ahead of the other.
LEMMA AheadIsOrder ==
  ASSUME NEW m \in Nat, NEW r \in [1..m -> Int]
  PROVE  /\ \A i \in 1..m : Ahead(r, i) \in SUBSET ((1..m) \ {i})
         /\ \A i, j \in 1..m : i \in Ahead(r, j) => Ahead(r, i) \subseteq Ahead(r, j)
         /\ \A i, j \in 1..m : i # j => i \in Ahead(r, j) \/ j \in Ahead(r, i)
<1>1. DOMAIN r = 1..m
  OBVIOUS
<1>2. \A i \in 1..m : Ahead(r, i) \in SUBSET ((1..m) \ {i})
  BY <1>1 DEF Ahead
<1>3. \A i, j \in 1..m : i \in Ahead(r, j) => Ahead(r, i) \subseteq Ahead(r, j)
  BY <1>1 DEF Ahead
<1>4. \A i, j \in 1..m : i # j => i \in Ahead(r, j) \/ j \in Ahead(r, i)
  BY <1>1 DEF Ahead
<1> QED
  BY <1>2, <1>3, <1>4

\* Who is ahead of another has fewer ahead of itself.
LEMMA RankGrows ==
  ASSUME NEW m \in Nat, NEW r \in [1..m -> Int]
  PROVE  /\ \A i \in 1..m : Cardinality(Ahead(r, i)) \in 0..(m - 1)
         /\ \A i, j \in 1..m :
              i \in Ahead(r, j) => Cardinality(Ahead(r, i)) < Cardinality(Ahead(r, j))
<1>1. IsFiniteSet(1..m) /\ Cardinality(1..m) = m
  BY FS_Interval
<1>2. ASSUME NEW i \in 1..m
      PROVE  IsFiniteSet(Ahead(r, i)) /\ Cardinality(Ahead(r, i)) \in 0..(m - 1)
  <2>1. IsFiniteSet((1..m) \ {i}) /\ Cardinality((1..m) \ {i}) = m - 1
    BY <1>1, FS_RemoveElement
  <2>2. Ahead(r, i) \in SUBSET ((1..m) \ {i})
    BY AheadIsOrder
  <2>3. /\ IsFiniteSet(Ahead(r, i))
        /\ Cardinality(Ahead(r, i)) <= Cardinality((1..m) \ {i})
    BY <2>1, <2>2, FS_Subset
  <2>4. Cardinality(Ahead(r, i)) \in Nat
    BY <2>3, FS_CardinalityType
  <2> QED
    BY <2>1, <2>3, <2>4
<1>3. ASSUME NEW i \in 1..m, NEW j \in 1..m, i \in Ahead(r, j)
      PROVE  Cardinality(Ahead(r, i)) < Cardinality(Ahead(r, j))
  <2>1. Ahead(r, i) \in SUBSET Ahead(r, j) /\ i \notin Ahead(r, i)
    BY <1>3, AheadIsOrder
  <2>2. /\ Cardinality(Ahead(r, i)) <= Cardinality(Ahead(r, j))
        /\ Cardinality(Ahead(r, j)) = Cardinality(Ahead(r, i)) => Ahead(r, j) = Ahead(r, i)
    BY <1>2, <2>1, FS_Subset
  <2>3. Ahead(r, j) # Ahead(r, i)
    BY <1>3, <2>1
  <2>4. Cardinality(Ahead(r, i)) \in Int /\ Cardinality(Ahead(r, j)) \in Int
    BY <1>2
  <2> QED
    BY <2>2, <2>3, <2>4
<1> QED
  BY <1>2, <1>3

\* As many have a rank below l as there are ranks below l.
LEMMA RankCounts ==
  ASSUME NEW m \in Nat, NEW r \in [1..m -> Int], NEW l \in 0..m
  PROVE  Cardinality({i \in 1..m : Cardinality(Ahead(r, i)) < l}) = l
<1> DEFINE P == [i \in 1..m |-> Cardinality(Ahead(r, i))]
           S == {i \in 1..m : Cardinality(Ahead(r, i)) < l}
           Q == [i \in S |-> P[i]]
<1>1. \A i \in 1..m : P[i] \in 0..(m - 1)
  BY RankGrows
<1>2. \A i, j \in 1..m : i # j => P[i] # P[j]
  <2>1. ASSUME NEW i \in 1..m, NEW j \in 1..m, i # j PROVE P[i] # P[j]
    <3>1. i \in Ahead(r, j) \/ j \in Ahead(r, i)
      BY <2>1, AheadIsOrder
    <3>2. P[i] < P[j] \/ P[j] < P[i]
      BY <3>1, RankGrows
    <3> QED
      BY <1>1, <3>2
  <2> QED
    BY <2>1
<1>3. P \in Injection(1..m, 0..(m - 1))
  BY <1>1, <1>2 DEF Injection, IsInjective
<1>4. \A x \in 0..(m - 1) : \E i \in 1..m : P[i] = x
  <2>1. /\ IsFiniteSet(0..(m - 1)) /\ Cardinality(0..(m - 1)) = m
        /\ Cardinality(1..m) = m
    BY FS_Interval
  <2> HIDE DEF P
  <2>2. P \in Surjection(1..m, 0..(m - 1))
    BY <1>3, <2>1, FS_Injection
  <2> QED
    BY <2>2 DEF Surjection
<1>5. S \in SUBSET (1..m) /\ \A i \in 1..m : i \in S <=> P[i] < l
  OBVIOUS
<1> HIDE DEF P, S
<1>6. \A i \in S : Q[i] = P[i] /\ Q[i] \in 0..(l - 1)
  BY <1>1, <1>5
<1>7. Q \in Injection(S, 0..(l - 1))
  BY <1>2, <1>5, <1>6 DEF Injection, IsInjective
<1>8. Q \in Surjection(S, 0..(l - 1))
  <2>1. \A x \in 0..(l - 1) : \E i \in S : Q[i] = x
    <3>1. ASSUME NEW x \in 0..(l - 1) PROVE \E i \in S : Q[i] = x
      <4>1. x \in 0..(m - 1) /\ x < l
        OBVIOUS
      <4>2. PICK i \in 1..m : P[i] = x
        BY <1>4, <4>1
      <4> QED
        BY <1>5, <1>6, <4>1, <4>2
    <3> QED
      BY <3>1
  <2> QED
    BY <1>6, <2>1 DEF Surjection
<1> HIDE DEF Q
<1>9. IsFiniteSet(S)
  <2>1. IsFiniteSet(1..m)
    BY FS_Interval
  <2> QED
    BY <1>5, <2>1, FS_Subset
<1>10. ExistsBijection(S, 0..(l - 1))
  BY <1>7, <1>8 DEF ExistsBijection, Bijection
<1>11. Cardinality(0..(l - 1)) = Cardinality(S)
  BY <1>9, <1>10, FS_Bijection
<1>12. Cardinality(0..(l - 1)) = l
  BY FS_Interval
<1> QED
  BY <1>11, <1>12 DEF S

(***************************************************************************)
(* LargestRemainder and EvenSplit                                          *)
(***************************************************************************)
\* A function on 1..m is a sequence of length m.
LEMMA LengthOfFunction ==
  ASSUME NEW m \in Nat, NEW S, NEW f \in [1..m -> S]
  PROVE  f \in Seq(S) /\ Len(f) = m /\ DOMAIN f = 1..m
OBVIOUS

\* The sign of a product.
LEMMA NegativeProduct ==
  \A a \in Int : \A b \in Nat \ {0} : a <= -1 => a * b < 0
OBVIOUS

\* A larger factor, a larger product.
LEMMA ProductMonotone ==
  \A a, b, c \in Nat : a <= b => a * c <= b * c
OBVIOUS

\* Products with a factor one or two off.
LEMMA Shift ==
  \A a, t \in Int : /\ (a - 1) * t = a * t - t
                    /\ (a + 1) * t = a * t + t
                    /\ (a + 2) * t = a * t + t + t
                    /\ a * t \in Int
OBVIOUS

\* Quotient a, with one more when there is a remainder, is less than one off.
LEMMA WithinOne ==
  ASSUME NEW a \in Nat, NEW t \in Nat \ {0}, NEW r \in Nat, r < t, NEW z, z = a * t + r
  PROVE  /\ (a - 1) * t < z /\ z < (a + 1) * t
         /\ r > 0 => ((a + 1) - 1) * t < z /\ z < ((a + 1) + 1) * t
<1> DEFINE p == a * t
<1>1. (a - 1) * t = p - t /\ (a + 1) * t = p + t /\ (a + 2) * t = p + t + t /\ p \in Int
  BY Shift
<1>2. (a + 1) - 1 = a /\ (a + 1) + 1 = a + 2 /\ z = p + r
  OBVIOUS
<1>3. ((a + 1) - 1) * t = p /\ ((a + 1) + 1) * t = p + t + t
  BY <1>1, <1>2
<1> HIDE DEF p
<1> QED
  BY <1>1, <1>2, <1>3

\* Of two dividends, the larger has the larger quotient, or the same and the
\* larger remainder.
LEMMA QuotientGrows ==
  ASSUME NEW n \in Nat, NEW t \in Nat \ {0}, NEW x \in Nat, NEW y \in Nat, x < y,
         NEW a \in Nat, NEW b \in Nat, NEW c \in Nat, NEW d \in Nat,
         Divided(n, x, t, a, c), Divided(n, y, t, b, d)
  PROVE  a <= b /\ (a = b /\ c > 0 => c < d)
<1>0. n * x = a * t + c /\ n * y = b * t + d /\ d < t
  BY DEF Divided
<1>1. n * x <= n * y /\ n * x \in Nat /\ n * y \in Nat
  <2>1. x * n <= y * n /\ x * n = n * x /\ y * n = n * y
    BY ProductMonotone
  <2> QED
    BY <2>1
<1>2. a * t \in Nat /\ b * t \in Nat
  OBVIOUS
<1>3. a <= b
  <2>1. SUFFICES ASSUME b + 1 <= a PROVE FALSE
    BY <2>1
  <2>2. (b + 1) * t <= a * t
    <3>1. t \in Nat /\ b + 1 \in Nat
      OBVIOUS
    <3> QED
      BY <2>1, <3>1, ProductMonotone
  <2>3. (b + 1) * t = b * t + t
    BY Shift
  <2> DEFINE p == a * t
             u == b * t
  <2>4. p \in Nat /\ u \in Nat /\ u + t <= p /\ p + c <= u + d
    BY <1>0, <1>1, <1>2, <2>2, <2>3
  <2> HIDE DEF p, u
  <2> QED
    BY <1>0, <2>4
<1>4. a = b => c <= d
  BY <1>0, <1>1, <1>2
<1>5. ASSUME a = b, c > 0 PROVE c # d
  <2>1. SUFFICES ASSUME c = d PROVE FALSE
    BY <2>1
  <2>2. n * x = n * y
    BY <1>0, <1>5, <2>1
  <2>3. n * (y - x) = 0
    <3>1. n * (y + (-x)) = n * y + n * (-x) /\ n * (-x) = -(n * x)
      BY Distribute
    <3> QED
      BY <1>1, <2>2, <3>1
  <2>4. n = 0
    <3>1. \A e, f \in Int : e * f = 0 => e = 0 \/ f = 0
      OBVIOUS
    <3> QED
      BY <2>3, <3>1
  <2>5. n * x = 0
    BY <2>4
  <2> QED
    BY <1>0, <1>2, <1>5, <2>5
<1> QED
  BY <1>3, <1>4, <1>5

\* Nothing divided is nothing, and leaves nothing.
LEMMA NoQuotient ==
  ASSUME NEW t \in Nat \ {0}, NEW a \in Nat, NEW r \in Nat, a * t + r = 0
  PROVE  a = 0 /\ r = 0
<1>1. a * t \in Nat
  OBVIOUS
<1>2. a * t = 0 /\ r = 0
  BY <1>1
<1>3. \A e, f \in Int : e * f = 0 => e = 0 \/ f = 0
  OBVIOUS
<1> QED
  BY <1>2, <1>3

\* With quotas q and remainders r of dividing n * w[i] by the sum t of the w[i],
\* what the quotas leave of n is at most the number of remainders above zero.
LEMMA Leftover ==
  ASSUME NEW m \in Nat, NEW n \in Nat, NEW t \in Nat \ {0}, NEW w \in [1..m -> Nat],
         NEW q \in [1..m -> Nat], NEW r \in [1..m -> Nat], t = SumTo(w, m),
         Divides(m, n, t, w, q, r)
  PROVE  /\ n - SumTo(q, m) \in 0..Cardinality(Positive(m, r))
         /\ Cardinality(Positive(m, r)) \in 0..m
<1> DEFINE A == Positive(m, r)
           left == n - SumTo(q, m)
<1>1. w \in [1..m -> Int] /\ q \in [1..m -> Int] /\ r \in [1..m -> Int] /\ m \in 0..m
  OBVIOUS
<1>2. SumTo(r, m) \in Nat /\ SumTo(q, m) \in Nat
  <2>1. SumTo(r, m) \in Nat
    BY <1>1, SumGrows
  <2>2. SumTo(q, m) \in Nat
    BY <1>1, SumGrows
  <2> QED
    BY <2>1, <2>2
<1>3. n * t = SumTo(q, m) * t + SumTo(r, m)
  <2>1. n \in Int /\ t \in Int
    OBVIOUS
  <2>2. SumsDivide(m, n, t, w, q, r)
    BY <1>1, <2>1, SumOfShares
  <2> QED
    BY <1>1, <2>2, Zenon DEF SumsDivide
<1>4. IsFiniteSet(A) /\ A \in SUBSET (1..m) /\ Cardinality(A) \in 0..m
  <2>1. IsFiniteSet(1..m) /\ Cardinality(1..m) = m
    BY FS_Interval
  <2>2. A \in SUBSET (1..m)
    BY DEF Positive
  <2> HIDE DEF A
  <2>3. IsFiniteSet(A)
    BY <2>1, <2>2, FS_Subset
  <2>4. Cardinality(A) <= Cardinality(1..m)
    BY <2>1, <2>2, FS_Subset
  <2>5. Cardinality(A) \in Nat
    BY <2>3, FS_CardinalityType
  <2> QED
    BY <2>1, <2>2, <2>3, <2>4, <2>5
<1>5. SumTo(r, m) <= Cardinality(A) * (t - 1)
  <2>1. r \in [1..m -> 0..(t - 1)]
    BY DEF Divides, Divided
  <2>2. SumTo(r, m) <= Count(A, m) * (t - 1)
    BY <1>1, <2>1, SumOfRemainders
  <2> HIDE DEF A
  <2>3. Count(A, m) = Cardinality(A)
    BY <1>4, CountSteps
  <2> QED
    BY <2>2, <2>3
<1>6. left \in Int
  BY <1>2
<1>7. left * t = SumTo(r, m)
  <2>1. n = SumTo(q, m) + left
    BY <1>2
  <2> HIDE DEF left
  <2>2. n * t = SumTo(q, m) * t + left * t
    BY <1>2, <1>6, <2>1, Distribute
  <2>3. SumTo(q, m) * t \in Int /\ left * t \in Int
    BY <1>2, <1>6
  <2> QED
    BY <1>2, <1>3, <2>2, <2>3
<1> HIDE DEF A, left
<1>8. left >= 0
  <2>1. SUFFICES ASSUME left <= -1 PROVE FALSE
    BY <1>6, <2>1
  <2>2. left * t < 0
    BY <1>6, <2>1, NegativeProduct
  <2> QED
    BY <1>2, <1>7, <2>2
<1>9. left <= Cardinality(A)
  <2>1. SUFFICES ASSUME left >= Cardinality(A) + 1 PROVE FALSE
    BY <1>4, <1>6, <2>1
  <2>2. (Cardinality(A) + 1) * t <= left * t
    <3>1. left \in Nat /\ Cardinality(A) + 1 \in Nat /\ t \in Nat
      BY <1>4, <1>6, <1>8
    <3> QED
      BY <2>1, <3>1, ProductMonotone
  <2>3. (Cardinality(A) + 1) * t = Cardinality(A) * (t - 1) + Cardinality(A) + t
    BY <1>4
  <2>4. Cardinality(A) * (t - 1) \in Int
    BY <1>4
  <2> QED
    BY <1>2, <1>4, <1>5, <1>7, <2>2, <2>3, <2>4
<1> QED
  BY <1>4, <1>6, <1>8, <1>9 DEF A, left

\* The fair share of each of m weights: n * w[i] divided by their sum.
Quota(n, w) == [i \in DOMAIN w |-> (n * w[i]) \div Sum(w)]
Remainder(n, w) == [i \in DOMAIN w |-> (n * w[i]) % Sum(w)]
\* The buckets that get one more.
Lucky(n, w) ==
  {i \in DOMAIN w : Cardinality(Ahead(Remainder(n, w), i)) < n - Sum(Quota(n, w))}

\* LargestRemainder adds one to the quotas of the lucky, and its quotas and
\* remainders are those of a division.
LEMMA LargestRemainderShape ==
  ASSUME NEW m \in Nat, NEW n \in Nat, NEW w \in [1..m -> Nat], Sum(w) # 0
  PROVE  /\ Quota(n, w) \in [1..m -> Nat] /\ Remainder(n, w) \in [1..m -> Nat]
         /\ Sum(w) = SumTo(w, m) /\ Sum(w) \in Nat \ {0}
         /\ Sum(Quota(n, w)) = SumTo(Quota(n, w), m)
         /\ Divides(m, n, Sum(w), w, Quota(n, w), Remainder(n, w))
         /\ LargestRemainder(n, w) =
              [i \in 1..m |-> Quota(n, w)[i] + OneIn(Lucky(n, w), i)]
<1> DEFINE q == Quota(n, w)
           r == Remainder(n, w)
           t == Sum(w)
<1>1. DOMAIN w = 1..m /\ t = SumTo(w, m) /\ m \in 0..m
  BY LengthOfFunction DEF Sum
<1>2. t \in Nat \ {0}
  <2>1. SumTo(w, m) \in Nat
    BY <1>1, SumGrows
  <2> QED
    BY <1>1, <2>1
<1>3. DOMAIN q = 1..m /\ DOMAIN r = 1..m /\ q = [i \in 1..m |-> q[i]] /\ r = [i \in 1..m |-> r[i]]
  BY <1>1 DEF Quota, Remainder
<1>4. \A i \in 1..m : q[i] = (n * w[i]) \div t /\ r[i] = (n * w[i]) % t
  BY <1>1 DEF Quota, Remainder
<1>5. LargestRemainder(n, w) = [i \in 1..m |-> q[i] + OneIn(Lucky(n, w), i)]
  <2>1. \A i \in 1..m :
          OneIn(Lucky(n, w), i) = IF Cardinality(Ahead(r, i)) < n - Sum(q) THEN 1 ELSE 0
    BY <1>1 DEF OneIn, Lucky
  <2>2. LargestRemainder(n, w) =
          [i \in 1..m |-> q[i] + (IF Cardinality(Ahead(r, i)) < n - Sum(q) THEN 1 ELSE 0)]
    BY <1>1, Zenon DEF LargestRemainder, Quota, Remainder
  <2> HIDE DEF q, r
  <2> QED
    BY <2>1, <2>2
<1> HIDE DEF q, r, t
<1>6. ASSUME NEW i \in 1..m
      PROVE  q[i] \in Nat /\ r[i] \in Nat /\ n * w[i] = q[i] * t + r[i] /\ r[i] <= t - 1
  <2>1. n * w[i] \in Nat
    OBVIOUS
  <2> DEFINE a == n * w[i]
  <2> HIDE DEF a
  <2>2. a \div t \in Nat /\ (a % t) \in 0..(t - 1) /\ a = (a \div t) * t + (a % t)
    BY <1>2, <2>1, Division DEF a
  <2>3. q[i] = a \div t /\ r[i] = a % t
    BY <1>4 DEF a
  <2>4. q[i] \in Nat /\ r[i] \in Nat /\ a = q[i] * t + r[i] /\ r[i] <= t - 1
    BY <1>2, <2>2, <2>3
  <2> QED
    BY <2>4 DEF a
<1>7. q \in [1..m -> Nat] /\ r \in [1..m -> Nat]
  BY <1>3, <1>6
<1>8. Sum(q) = SumTo(q, m)
  BY <1>7, LengthOfFunction DEF Sum
<1> QED
  BY <1>1, <1>2, <1>5, <1>6, <1>7, <1>8 DEF q, r, t, Divides, Divided

\* As many get one more as the quotas leave over, and none of them had its
\* exact share.
LEMMA LuckyOnes ==
  ASSUME NEW m \in Nat, NEW n \in Nat, NEW w \in [1..m -> Nat], Sum(w) # 0
  PROVE  /\ Lucky(n, w) \in SUBSET (1..m)
         /\ Cardinality(Lucky(n, w)) = n - Sum(Quota(n, w))
         /\ \A i \in Lucky(n, w) : Remainder(n, w)[i] > 0
<1> DEFINE q == Quota(n, w)
           r == Remainder(n, w)
           left == n - Sum(q)
           A == Positive(m, r)
<1>1. /\ q \in [1..m -> Nat] /\ r \in [1..m -> Nat] /\ DOMAIN w = 1..m
      /\ Sum(w) = SumTo(w, m) /\ Sum(w) \in Nat \ {0} /\ Sum(q) = SumTo(q, m)
      /\ Divides(m, n, Sum(w), w, q, r)
  BY LargestRemainderShape
<1> HIDE DEF q, r
<1>2. left \in 0..Cardinality(A) /\ Cardinality(A) \in 0..m
  <2>1. n - SumTo(q, m) \in 0..Cardinality(A) /\ Cardinality(A) \in 0..m
    BY <1>1, Leftover
  <2> QED
    BY <1>1, <2>1
<1> HIDE DEF left
<1>3. r \in [1..m -> Int] /\ left \in 0..m
  BY <1>1, <1>2
<1>4. Lucky(n, w) = {i \in 1..m : Cardinality(Ahead(r, i)) < left}
  BY <1>1 DEF Lucky, q, r, left
<1>5. Cardinality(Lucky(n, w)) = left
  BY <1>3, <1>4, RankCounts
<1>6. ASSUME NEW i \in Lucky(n, w) PROVE r[i] > 0
  <2>1. i \in 1..m /\ Cardinality(Ahead(r, i)) < left
    BY <1>4
  <2>2. SUFFICES ASSUME r[i] = 0 PROVE FALSE
    BY <1>1, <2>1, <2>2
  <2>3. A \in SUBSET Ahead(r, i)
    BY <1>1, <2>1, <2>2 DEF Ahead, Positive
  <2>4. IsFiniteSet(Ahead(r, i)) /\ Cardinality(Ahead(r, i)) \in Int
    <3>1. Ahead(r, i) \in SUBSET (1..m)
      BY <1>3, <2>1, AheadIsOrder
    <3>2. IsFiniteSet(1..m)
      BY FS_Interval
    <3>3. IsFiniteSet(Ahead(r, i))
      BY <3>1, <3>2, FS_Subset
    <3> QED
      BY <3>3, FS_CardinalityType
  <2> HIDE DEF A
  <2>5. Cardinality(A) <= Cardinality(Ahead(r, i))
    BY <2>3, <2>4, FS_Subset
  <2> QED
    BY <1>2, <1>3, <2>1, <2>4, <2>5
<1> QED
  BY <1>4, <1>5, <1>6 DEF q, r, left

\* All of n, each bucket within one of its exact share, a heavier bucket never
\* less, a weightless one nothing.
FairSplit(m, n, w, s) ==
  /\ s \in [1..m -> Nat]
  /\ SumTo(s, m) = n
  /\ \A i \in 1..m : /\ (s[i] - 1) * Sum(w) < n * w[i]
                     /\ n * w[i] < (s[i] + 1) * Sum(w)
  /\ \A i, j \in 1..m : w[i] > w[j] => s[i] >= s[j]
  /\ \A i \in 1..m : w[i] = 0 => s[i] = 0

\* Largest remainder splits fairly.
LEMMA LargestRemainderSplits ==
  ASSUME NEW m \in Nat, NEW n \in Nat, NEW w \in [1..m -> Nat], Sum(w) # 0,
         NEW s, s = LargestRemainder(n, w)
  PROVE  FairSplit(m, n, w, s)
<1> DEFINE q == Quota(n, w)
           r == Remainder(n, w)
           t == Sum(w)
           L == Lucky(n, w)
           left == n - SumTo(q, m)
<1>1. /\ q \in [1..m -> Nat] /\ r \in [1..m -> Nat] /\ DOMAIN w = 1..m
      /\ t = SumTo(w, m) /\ t \in Nat \ {0} /\ Sum(q) = SumTo(q, m)
      /\ Divides(m, n, t, w, q, r)
      /\ s = [i \in 1..m |-> q[i] + OneIn(L, i)]
  BY LargestRemainderShape
<1>2. /\ L \in SUBSET (1..m) /\ Cardinality(L) = left
      /\ \A i \in L : r[i] > 0
  BY <1>1, LuckyOnes
<1>3. \A i \in 1..m : i \in L <=> Cardinality(Ahead(r, i)) < left
  BY <1>1 DEF Lucky
<1> HIDE DEF q, r, t, L
<1>4. ASSUME NEW i \in 1..m
      PROVE  /\ q[i] \in Nat /\ r[i] \in Nat /\ w[i] \in Nat /\ r[i] < t
             /\ n * w[i] = q[i] * t + r[i]
             /\ s[i] = q[i] + OneIn(L, i)
             /\ s[i] = (IF i \in L THEN q[i] + 1 ELSE q[i])
             /\ q[i] * t \in Nat
  <2>1. q[i] \in Nat /\ r[i] \in Nat /\ w[i] \in Nat
    BY <1>1
  <2>2. r[i] <= t - 1 /\ n * w[i] = q[i] * t + r[i]
    BY <1>1, Zenon DEF Divides, Divided
  <2>3. s[i] = q[i] + OneIn(L, i)
    BY <1>1
  <2>4. s[i] = IF i \in L THEN q[i] + 1 ELSE q[i]
    BY <2>1, <2>3 DEF OneIn
  <2>5. q[i] * t \in Nat
    BY <1>1, <2>1
  <2> QED
    BY <1>1, <2>1, <2>2, <2>3, <2>4, <2>5
<1>5. s \in [1..m -> Nat]
  <2>1. \A i \in 1..m : q[i] + OneIn(L, i) \in Nat
    BY <1>1 DEF OneIn
  <2> QED
    BY <1>1, <2>1
<1>6. SumTo(s, m) = n
  <2>1. s \in [1..m -> Int] /\ q \in [1..m -> Int] /\ m \in 0..m
    BY <1>1, <1>5
  <2>2. \A i \in 1..m : s[i] = q[i] + OneIn(L, i)
    BY <1>4
  <2>3. SumTo(s, m) = SumTo(q, m) + Count(L, m)
    BY <1>2, <2>1, <2>2, SumWithExtras
  <2>4. Count(L, m) = Cardinality(L)
    BY <1>2, CountSteps
  <2>5. SumTo(q, m) \in Int
    BY <2>1, SumToIsSum
  <2> QED
    BY <1>2, <2>3, <2>4, <2>5
<1> HIDE DEF left
<1>7. ASSUME NEW i \in 1..m
      PROVE  (s[i] - 1) * t < n * w[i] /\ n * w[i] < (s[i] + 1) * t
  <2>1. q[i] \in Nat /\ r[i] \in Nat /\ r[i] < t /\ n * w[i] = q[i] * t + r[i]
    BY <1>4
  <2>2. /\ (q[i] - 1) * t < n * w[i] /\ n * w[i] < (q[i] + 1) * t
        /\ r[i] > 0 => /\ ((q[i] + 1) - 1) * t < n * w[i]
                       /\ n * w[i] < ((q[i] + 1) + 1) * t
    BY <1>1, <2>1, WithinOne
  <2>3. CASE i \in L
    <3>1. s[i] = q[i] + 1 /\ r[i] > 0
      BY <1>2, <1>4, <2>3
    <3> QED
      BY <2>2, <3>1, Zenon
  <2>4. CASE i \notin L
    <3>1. s[i] = q[i]
      BY <1>4, <2>4
    <3> QED
      BY <2>2, <3>1, Zenon
  <2> QED
    BY <2>3, <2>4
<1>8. ASSUME NEW i \in 1..m, NEW j \in 1..m, w[i] > w[j] PROVE s[i] >= s[j]
  <2>1. /\ q[i] \in Nat /\ r[i] \in Nat /\ w[i] \in Nat /\ r[i] < t
        /\ n * w[i] = q[i] * t + r[i]
    BY <1>4
  <2>2. /\ q[j] \in Nat /\ r[j] \in Nat /\ w[j] \in Nat
        /\ n * w[j] = q[j] * t + r[j]
    BY <1>4
  <2>3. q[j] <= q[i] /\ (q[j] = q[i] /\ r[j] > 0 => r[j] < r[i])
    <3>1. w[j] < w[i] /\ n \in Nat
      BY <1>8, <2>1, <2>2
    <3>2. Divided(n, w[i], t, q[i], r[i]) /\ Divided(n, w[j], t, q[j], r[j])
      BY <1>1 DEF Divides
    <3> QED
      BY <1>1, <2>1, <2>2, <3>1, <3>2, QuotientGrows
  <2>6. /\ s[i] = (IF i \in L THEN q[i] + 1 ELSE q[i])
        /\ s[j] = (IF j \in L THEN q[j] + 1 ELSE q[j])
    BY <1>4, Zenon
  <2> DEFINE a == q[i]
             b == q[j]
  <2>7. a \in Nat /\ b \in Nat /\ b <= a
    BY <2>1, <2>2, <2>3
  <2>4. CASE q[j] # q[i]
    <3>1. b + 1 <= a
      BY <2>4, <2>7
    <3> HIDE DEF a, b
    <3>2. (IF i \in L THEN a + 1 ELSE a) >= (IF j \in L THEN b + 1 ELSE b)
      BY <2>7, <3>1
    <3> QED
      BY <2>6, <3>2 DEF a, b
  <2>5. CASE q[j] = q[i]
    <3>2. SUFFICES ASSUME j \in L, i \notin L PROVE FALSE
      <4>1. a = b
        BY <2>5
      <4> HIDE DEF a, b
      <4>2. (j \in L => i \in L)
              => (IF i \in L THEN a + 1 ELSE a) >= (IF j \in L THEN b + 1 ELSE b)
        BY <2>7, <4>1
      <4> QED
        BY <2>6, <3>2, <4>2 DEF a, b
    <3>3. r[j] < r[i]
      BY <1>2, <2>3, <2>5, <3>2
    <3>4. i \in Ahead(r, j)
      BY <1>1, <2>1, <3>3 DEF Ahead
    <3>5. r \in [1..m -> Int]
      BY <1>1
    <3>6. Cardinality(Ahead(r, i)) < Cardinality(Ahead(r, j))
      BY <3>4, <3>5, RankGrows
    <3>7. Cardinality(Ahead(r, i)) \in Int /\ Cardinality(Ahead(r, j)) \in Int
      BY <3>5, RankGrows
    <3>8. left \in Int
      <4>1. q \in [1..m -> Int] /\ m \in 0..m
        BY <1>1
      <4>2. SumTo(q, m) \in Int
        BY <4>1, SumToIsSum
      <4> QED
        BY <4>2 DEF left
    <3> QED
      BY <1>3, <3>2, <3>6, <3>7, <3>8
  <2> QED
    BY <2>4, <2>5
<1>9. ASSUME NEW i \in 1..m, w[i] = 0 PROVE s[i] = 0
  <2>1. n * w[i] = 0
    BY <1>9
  <2>2. q[i] * t + r[i] = 0 /\ q[i] \in Nat /\ r[i] \in Nat
    BY <1>4, <2>1
  <2>3. q[i] = 0 /\ r[i] = 0
    BY <1>1, <2>2, NoQuotient
  <2>4. i \notin L
    BY <1>2, <2>3
  <2> QED
    BY <1>4, <2>3, <2>4
<1> QED
  BY <1>5, <1>6, <1>7, <1>8, <1>9 DEF t, FairSplit

\* The sum of m times a.
LEMMA SumOfConstant ==
  ASSUME NEW m \in Nat, NEW a \in Int, NEW c, c = [i \in 1..m |-> a]
  PROVE  SumTo(c, m) = m * a
<1> DEFINE T == {k \in 0..m : SumTo(c, k) = k * a}
<1>0. c \in [1..m -> Int] /\ \A i \in 1..m : c[i] = a
  OBVIOUS
<1>1. 0 \in T
  <2>1. SumTo(c, 0) = 0
    BY <1>0, SumToIsSum
  <2> QED
    BY <2>1
<1>2. ASSUME NEW k \in 0..(m - 1), k \in T PROVE k + 1 \in T
  <2>1. k + 1 \in 1..m /\ (k + 1) - 1 = k /\ k + 1 \in 0..m
    OBVIOUS
  <2>2. SumTo(c, k + 1) = SumTo(c, k) + a
    BY <1>0, <2>1, SumToIsSum
  <2>3. SumTo(c, k) = k * a /\ (k + 1) * a = k * a + a
    BY <1>2
  <2> QED
    BY <2>1, <2>2, <2>3
<1> HIDE DEF T
<1>3. \A k \in 0..m : k \in T
  BY <1>1, <1>2, Induction
<1> QED
  BY <1>3 DEF T

\* An even split is all of n as well.
LEMMA EvenSplitSplits ==
  ASSUME NEW m \in Nat \ {0}, NEW n \in Nat, NEW s, s = EvenSplit(n, m)
  PROVE  s \in [1..m -> Nat] /\ SumTo(s, m) = n
<1> DEFINE a == n \div m
           b == n % m
           q == [i \in 1..m |-> a]
           L == 1..b
<1>1. a \in Nat /\ b \in 0..(m - 1) /\ n = a * m + b
  BY Division
<1>2. s = [i \in 1..m |-> a + (IF i <= b THEN 1 ELSE 0)]
  BY Zenon DEF EvenSplit
<1> HIDE DEF a, b
<1>3. s \in [1..m -> Nat] /\ s \in [1..m -> Int] /\ q \in [1..m -> Int]
  BY <1>1, <1>2
<1>4. L \in SUBSET (1..m) /\ Cardinality(L) = b
  BY <1>1, FS_Interval
<1>5. \A i \in 1..m : s[i] = q[i] + OneIn(L, i)
  BY <1>1, <1>2 DEF OneIn
<1>6. m \in Nat /\ m \in 0..m
  OBVIOUS
<1>7. SumTo(q, m) = m * a
  <2>1. a \in Int /\ q = [i \in 1..m |-> a]
    BY <1>1
  <2> HIDE DEF q
  <2> QED
    BY <1>6, <2>1, SumOfConstant
<1> HIDE DEF q, L
<1>8. SumTo(s, m) = SumTo(q, m) + Count(L, m)
  BY <1>3, <1>4, <1>5, <1>6, SumWithExtras
<1>9. Count(L, m) = Cardinality(L)
  BY <1>4, <1>6, CountSteps
<1>10. m * a = a * m /\ a * m \in Int
  BY <1>1
<1> QED
  BY <1>1, <1>3, <1>4, <1>7, <1>8, <1>9, <1>10

(***************************************************************************)
(* WeightedSplit                                                           *)
(***************************************************************************)
\* The clamped weights are naturals, as many as there are weights.
LEMMA ClampedWeights ==
  ASSUME NEW weights \in Seq(Int)
  PROVE  /\ Clamped(weights) \in [1..Len(weights) -> Nat]
         /\ Len(Clamped(weights)) = Len(weights) /\ Len(weights) \in Nat
         /\ Sum(Clamped(weights)) = SumTo(Clamped(weights), Len(weights))
         /\ Sum(Clamped(weights)) \in Nat
<1> DEFINE m == Len(weights)
           w == Clamped(weights)
<1>1. m \in Nat /\ DOMAIN weights = 1..m /\ weights \in [1..m -> Int]
  OBVIOUS
<1>2. w \in [1..m -> Nat]
  BY <1>1 DEF Clamped
<1> HIDE DEF w, m
<1>3. Len(w) = m
  BY <1>1, <1>2, LengthOfFunction
<1>4. Sum(w) = SumTo(w, m)
  BY <1>3 DEF Sum
<1>5. SumTo(w, m) \in Nat
  <2>1. m \in 0..m
    BY <1>1
  <2> QED
    BY <1>1, <1>2, <2>1, SumGrows
<1> QED
  BY <1>1, <1>2, <1>3, <1>4, <1>5 DEF w, m

\* What weighted_split returns in all of its cases: no layers, no weight at all,
\* and the largest remainders.
LEMMA WeightedSplitSplits ==
  ASSUME NEW n \in Int, NEW weights \in Seq(Int), NEW s, s = WeightedSplit(n, weights),
         NEW m, m = Len(weights), NEW w, w = Clamped(weights)
  PROVE  /\ s \in [1..m -> Nat]
         /\ n > 0 /\ m > 0 => SumTo(s, m) = n
         /\ n <= 0 => \A i \in 1..m : s[i] = 0
         /\ n > 0 /\ Sum(w) > 0 =>
              \A i \in 1..m : /\ (s[i] - 1) * Sum(w) < n * w[i]
                              /\ n * w[i] < (s[i] + 1) * Sum(w)
         /\ \A i, j \in 1..m : w[i] > w[j] => s[i] >= s[j]
         /\ Sum(w) > 0 => \A i \in 1..m : w[i] = 0 => s[i] = 0
<1>1. /\ w \in [1..m -> Nat] /\ m \in Nat /\ DOMAIN weights = 1..m
      /\ Sum(w) = SumTo(w, m) /\ Sum(w) \in Nat
  <2>1. DOMAIN weights = 1..m
    OBVIOUS
  <2> QED
    BY <2>1, ClampedWeights
<1>2. CASE n <= 0
  <2>1. s = [i \in 1..m |-> 0]
    BY <1>1, <1>2 DEF WeightedSplit
  <2> QED
    BY <1>2, <2>1
<1>3. CASE n > 0 /\ Sum(w) = 0
  <2>1. n \in Nat /\ s = EvenSplit(n, m)
    BY <1>3 DEF WeightedSplit
  <2>2. ASSUME NEW i \in 1..m PROVE w[i] = 0
    <3>1. w[i] <= SumTo(w, m)
      BY <1>1, ElementAtMostSum
    <3> QED
      BY <1>1, <1>3, <3>1
  <2>3. CASE m = 0
    <3>1. s = [i \in 1..m |-> (n \div m) + (IF i <= n % m THEN 1 ELSE 0)]
      BY <2>1 DEF EvenSplit
    <3>2. 1..m = {}
      BY <2>3
    <3>3. s \in [1..m -> Nat]
      BY <3>1, <3>2
    <3> QED
      BY <1>3, <2>3, <3>2, <3>3
  <2>4. CASE m # 0
    <3>1. m \in Nat \ {0}
      BY <1>1, <2>4
    <3>2. s \in [1..m -> Nat] /\ SumTo(s, m) = n
      BY <2>1, <3>1, EvenSplitSplits
    <3> QED
      BY <1>3, <2>2, <3>2
  <2> QED
    BY <2>3, <2>4
<1>4. CASE n > 0 /\ Sum(w) # 0
  <2>1. n \in Nat /\ s = LargestRemainder(n, w)
    BY <1>4 DEF WeightedSplit
  <2>2. FairSplit(m, n, w, s)
    BY <1>1, <1>4, <2>1, LargestRemainderSplits
  <2>3. ~(n <= 0)
    BY <1>4
  <2> QED
    BY <2>2, <2>3, Zenon DEF FairSplit
<1> QED
  BY <1>1, <1>2, <1>3, <1>4

\* Every number up to the sum falls to exactly one element.
LEMMA Locate ==
  ASSUME NEW m \in Nat, NEW s \in [1..m -> Nat]
  PROVE  \A b \in 1..SumTo(s, m) : \E i \in 1..m : SumTo(s, i - 1) < b /\ b <= SumTo(s, i)
<1> DEFINE Found(k) ==
             \A b \in 1..SumTo(s, k) : \E i \in 1..k : SumTo(s, i - 1) < b /\ b <= SumTo(s, i)
           T == {k \in 0..m : Found(k)}
<1>0. s \in [1..m -> Int]
  OBVIOUS
<1>1. 0 \in T
  <2>1. SumTo(s, 0) = 0
    BY <1>0, SumToIsSum
  <2> QED
    BY <2>1
<1>2. ASSUME NEW k \in 0..(m - 1), k \in T PROVE k + 1 \in T
  <2>1. k + 1 \in 0..m /\ k \in Nat /\ k \in 0..m /\ (k + 1) - 1 = k
    OBVIOUS
  <2>2. SumTo(s, k + 1) \in Nat /\ SumTo(s, k) \in Nat
    BY <2>1, SumGrows
  <2>3. ASSUME NEW b \in 1..SumTo(s, k + 1)
        PROVE  \E i \in 1..(k + 1) : SumTo(s, i - 1) < b /\ b <= SumTo(s, i)
    <3>1. CASE b <= SumTo(s, k)
      <4>1. b \in 1..SumTo(s, k)
        BY <2>2, <3>1
      <4>2. PICK i \in 1..k : SumTo(s, i - 1) < b /\ b <= SumTo(s, i)
        BY <1>2, <4>1
      <4>3. i \in 1..(k + 1)
        BY <2>1
      <4> QED
        BY <4>2, <4>3
    <3>2. CASE ~(b <= SumTo(s, k))
      <4>1. k + 1 \in 1..(k + 1)
        BY <2>1
      <4>2. SumTo(s, (k + 1) - 1) < b /\ b <= SumTo(s, k + 1)
        BY <2>1, <2>2, <3>2
      <4> QED
        BY <4>1, <4>2
    <3> QED
      BY <3>1, <3>2
  <2> QED
    BY <2>1, <2>3
<1> HIDE DEF T
<1>3. \A k \in 0..m : k \in T
  BY <1>1, <1>2, Induction
<1>4. m \in 0..m
  OBVIOUS
<1> QED
  BY <1>3, <1>4 DEF T
=============================================================================

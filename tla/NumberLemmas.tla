--------------------------- MODULE NumberLemmas ---------------------------
(***************************************************************************)
(* Facts about numbers and finite sets that several modules' proofs need.  *)
(***************************************************************************)
EXTENDS Integers, FiniteSetTheorems, WellFoundedInduction, TLAPS

\* Every non-empty set of natural numbers has a least element.
LEMMA LeastElement ==
  ASSUME NEW T \in SUBSET Nat, T # {}
  PROVE  \E n \in T : \A m \in T : n <= m
<1> DEFINE Less == {p \in Nat \X Nat : p[1] < p[2]}
<1>1. \A x, y \in Nat : <<y, x>> \in Less <=> y < x
  OBVIOUS
<1>2. IsWellFoundedOn(Less, Nat)
  BY NatLessThanWellFounded, Zenon DEF OpToRel
<1> HIDE DEF Less
<1>3. PICK n \in T : \A m \in T : ~(<<m, n>> \in Less)
  BY <1>2, WFMin
<1>4. \A m \in T : n \in Nat /\ m \in Nat /\ ~(m < n)
  BY <1>1, <1>3
<1>5. \A m \in T : n <= m
  BY <1>4
<1> QED
  BY <1>5

\* Induction up to m, for a set of numbers.
LEMMA Induction ==
  ASSUME NEW m \in Nat, NEW T, 0 \in T, \A k \in 0..(m - 1) : k \in T => k + 1 \in T
  PROVE  \A k \in 0..m : k \in T
<1> DEFINE Missing == {k \in 0..m : k \notin T}
<1>1. SUFFICES ASSUME Missing # {} PROVE FALSE
  BY <1>1
<1>2. PICK k \in Missing : \A j \in Missing : k <= j
  <2>1. Missing \in SUBSET Nat
    OBVIOUS
  <2> HIDE DEF Missing
  <2> QED
    BY <1>1, <2>1, LeastElement
<1>3. k \in Nat /\ k # 0 /\ k <= m /\ k \notin T
  BY <1>2
<1>4. k - 1 \in 0..(m - 1) /\ k - 1 \notin Missing
  <2>1. k - 1 \in 0..(m - 1) /\ ~(k <= k - 1)
    BY <1>3
  <2> QED
    BY <1>2, <2>1
<1>5. k - 1 \in T /\ (k - 1) + 1 = k
  BY <1>3, <1>4
<1> QED
  BY <1>3, <1>4, <1>5

\* A list of numbers has a greatest one.
LEMMA GreatestOfList ==
  ASSUME NEW n \in Nat, NEW a \in [1..n -> Int]
  PROVE  \A k \in 0..n : k # 0 => \E i \in 1..k : \A j \in 1..k : a[j] <= a[i]
<1> DEFINE Has(k) == \E i \in 1..k : \A j \in 1..k : a[j] <= a[i]
           T == {k \in 0..n : k # 0 => Has(k)}
<1>1. 0 \in T
  OBVIOUS
<1>2. ASSUME NEW k \in 0..(n - 1), k \in T PROVE k + 1 \in T
  <2>1. k + 1 \in 1..n /\ k \in Nat /\ k + 1 # 0 /\ k + 1 \in 1..(k + 1)
    OBVIOUS
  <2>2. \A j \in 1..(k + 1) : a[j] \in Int /\ (j = k + 1 \/ j \in 1..k)
    BY <2>1
  <2>3. CASE k = 0
    <3>1. \A j \in 1..(k + 1) : a[j] <= a[k + 1]
      BY <2>2, <2>3
    <3> QED
      BY <2>1, <3>1
  <2>4. CASE k # 0
    <3>1. PICK i \in 1..k : \A j \in 1..k : a[j] <= a[i]
      BY <1>2, <2>4
    <3>2. i \in 1..(k + 1) /\ a[i] \in Int
      BY <2>1, <2>2
    <3>3. CASE a[k + 1] <= a[i]
      <4>1. \A j \in 1..(k + 1) : a[j] <= a[i]
        BY <2>2, <3>1, <3>3
      <4> QED
        BY <2>1, <3>2, <4>1
    <3>4. CASE ~(a[k + 1] <= a[i])
      <4>1. \A j \in 1..(k + 1) : a[j] <= a[k + 1]
        BY <2>1, <2>2, <3>1, <3>2, <3>4
      <4> QED
        BY <2>1, <4>1
    <3> QED
      BY <3>3, <3>4
  <2> QED
    BY <2>3, <2>4
<1> HIDE DEF T
<1>3. \A k \in 0..n : k \in T
  BY <1>1, <1>2, Induction
<1> QED
  BY <1>3 DEF T

\* Multiplication distributes over addition.
LEMMA Distribute ==
  \A a, b, c \in Int : a * (b + c) = a * b + a * c /\ (b + c) * a = b * a + c * a
OBVIOUS

\* Quotient and remainder of a natural number.
LEMMA Division ==
  ASSUME NEW a \in Nat, NEW t \in Nat \ {0}
  PROVE  /\ a \div t \in Nat /\ (a % t) \in 0..(t - 1)
         /\ a = (a \div t) * t + (a % t)
OBVIOUS

(***************************************************************************)
(* Counting in an interval                                                 *)
(***************************************************************************)
\* An interval has as many elements as its ends are apart.
LEMMA CountInterval ==
  ASSUME NEW lo \in Int, NEW hi \in Int
  PROVE  /\ Cardinality(lo..(hi - 1)) = IF lo < hi THEN hi - lo ELSE 0
         /\ Cardinality(lo..(hi - 1)) \in Nat
<1>1. hi - 1 \in Int /\ (lo > hi - 1 <=> ~(lo < hi)) /\ hi - 1 - lo + 1 = hi - lo
  OBVIOUS
<1>2. Cardinality(lo..(hi - 1)) = IF lo > hi - 1 THEN 0 ELSE hi - 1 - lo + 1
  BY <1>1, FS_Interval
<1> QED
  BY <1>1, <1>2

\* How many elements of S are below i.
Below(S, i) == Cardinality({j \in S : j < i})

\* An element's rank in an interval is its distance from the start.
LEMMA BelowInInterval ==
  ASSUME NEW lo \in Int, NEW hi \in Int, NEW i \in lo..(hi - 1)
  PROVE  Below(lo..(hi - 1), i) = i - lo
<1>1. {j \in lo..(hi - 1) : j < i} = lo..(i - 1)
  OBVIOUS
<1>2. Cardinality(lo..(i - 1)) = i - lo
  BY CountInterval
<1> QED
  BY <1>1, <1>2 DEF Below

\* The element of an interval that has so many before it.
LEMMA NthOfInterval ==
  ASSUME NEW lo \in Int, NEW hi \in Int, NEW index \in 0..(hi - lo - 1)
  PROVE  (CHOOSE i \in lo..(hi - 1) : Below(lo..(hi - 1), i) = index) = lo + index
<1>1. lo + index \in lo..(hi - 1)
  OBVIOUS
<1>2. ASSUME NEW i \in lo..(hi - 1)
      PROVE  Below(lo..(hi - 1), i) = index <=> i = lo + index
  <2>1. Below(lo..(hi - 1), i) = i - lo
    BY BelowInInterval
  <2> QED
    BY <2>1
<1> HIDE DEF Below
<1> QED
  BY <1>1, <1>2

(***************************************************************************)
(* Sums                                                                    *)
(***************************************************************************)
\* f holds the sums of the first 0, 1, ..., n elements of s.
IsSum(f, s, n) == f = [i \in 0..n |-> IF i = 0 THEN 0 ELSE f[i - 1] + s[i]]

\* The sums of any list of integers exist, up to any length.
LEMMA SumExists ==
  ASSUME NEW m \in Nat, NEW s \in [1..m -> Int]
  PROVE  \A n \in 0..m : \E f \in [0..n -> Int] : IsSum(f, s, n)
<1> DEFINE T == {n \in 0..m : \E f \in [0..n -> Int] : IsSum(f, s, n)}
<1>1. 0 \in T
  <2> DEFINE f == [i \in 0..0 |-> 0]
  <2>1. f \in [0..0 -> Int] /\ IsSum(f, s, 0)
    BY DEF IsSum
  <2> QED
    BY <2>1
<1>2. ASSUME NEW n \in 0..(m - 1), n \in T PROVE n + 1 \in T
  <2>1. PICK g \in [0..n -> Int] : IsSum(g, s, n)
    BY <1>2
  <2> DEFINE f == [i \in 0..(n + 1) |-> IF i = n + 1 THEN g[n] + s[n + 1] ELSE g[i]]
  <2>2. n \in Nat /\ n + 1 \in 1..m
    OBVIOUS
  <2>3. f \in [0..(n + 1) -> Int]
    BY <2>2
  <2>4. ASSUME NEW i \in 0..(n + 1) PROVE f[i] = IF i = 0 THEN 0 ELSE f[i - 1] + s[i]
    <3>1. CASE i = n + 1
      BY <2>2, <3>1
    <3>2. CASE i # n + 1
      <4>1. i \in 0..n /\ f[i] = g[i] /\ (i # 0 => f[i - 1] = g[i - 1])
        BY <2>2, <3>2
      <4> QED
        BY <2>1, <4>1 DEF IsSum
    <3> QED
      BY <3>1, <3>2
  <2>5. IsSum(f, s, n + 1)
    <3> HIDE DEF f
    <3> QED
      BY <2>3, <2>4 DEF IsSum
  <2>6. n + 1 \in 0..m
    BY <2>2
  <2> QED
    BY <2>3, <2>5, <2>6
<1> HIDE DEF T
<1>3. \A n \in 0..m : n \in T
  BY <1>1, <1>2, Induction
<1> QED
  BY <1>3 DEF T

\* And two lists of such sums agree where both are defined.
LEMMA SumUnique ==
  ASSUME NEW m \in Nat, NEW s \in [1..m -> Int], NEW n \in 0..m, NEW k \in 0..n,
         NEW f, IsSum(f, s, n), NEW g, IsSum(g, s, k)
  PROVE  \A i \in 0..k : f[i] = g[i]
<1> DEFINE T == {i \in 0..k : f[i] = g[i]}
<1>1. 0 \in T
  BY DEF IsSum
<1>2. ASSUME NEW i \in 0..(k - 1), i \in T PROVE i + 1 \in T
  <2>1. i + 1 \in 0..k /\ i + 1 \in 0..n /\ i + 1 # 0 /\ (i + 1) - 1 = i
    OBVIOUS
  <2>2. f[i + 1] = f[i] + s[i + 1] /\ g[i + 1] = g[i] + s[i + 1]
    BY <2>1 DEF IsSum
  <2> QED
    BY <1>2, <2>1, <2>2
<1> HIDE DEF T
<1>3. k \in Nat
  OBVIOUS
<1>4. \A i \in 0..k : i \in T
  BY <1>1, <1>2, <1>3, Induction
<1> QED
  BY <1>4 DEF T

\* The sum of the first n elements of s.
SumOfFirst(s, n) == (CHOOSE f : IsSum(f, s, n))[n]

\* SumOfFirst(s, n) is what the name says.
LEMMA FirstSums ==
  ASSUME NEW m \in Nat, NEW s \in [1..m -> Int]
  PROVE  /\ SumOfFirst(s, 0) = 0
         /\ \A n \in 1..m : SumOfFirst(s, n) = SumOfFirst(s, n - 1) + s[n]
         /\ \A n \in 0..m : SumOfFirst(s, n) \in Int
<1> DEFINE The(n) == CHOOSE f : IsSum(f, s, n)
<1>1. \A n : SumOfFirst(s, n) = The(n)[n]
  BY DEF SumOfFirst
<1>2. \A n \in 0..m : IsSum(The(n), s, n)
  BY SumExists
<1>3. \A n \in 0..m : The(n) \in [0..n -> Int]
  <2>1. ASSUME NEW n \in 0..m PROVE The(n) \in [0..n -> Int]
    <3>1. PICK f \in [0..n -> Int] : IsSum(f, s, n)
      BY SumExists
    <3>2. \A i \in 0..n : f[i] = The(n)[i]
      BY <1>2, <3>1, SumUnique
    <3>3. The(n) = [i \in 0..n |-> The(n)[i]]
      BY <1>2 DEF IsSum
    <3> HIDE DEF The
    <3> QED
      BY <3>1, <3>2, <3>3
  <2> QED
    BY <2>1
<1> HIDE DEF The
<1>4. SumOfFirst(s, 0) = 0
  BY <1>1, <1>2 DEF IsSum
<1>5. ASSUME NEW n \in 1..m PROVE SumOfFirst(s, n) = SumOfFirst(s, n - 1) + s[n]
  <2>1. n \in 0..m /\ n - 1 \in 0..m /\ n - 1 \in 0..n /\ n \in 0..n /\ n # 0
    OBVIOUS
  <2>2. The(n)[n] = The(n)[n - 1] + s[n]
    BY <1>2, <2>1 DEF IsSum
  <2>3. The(n)[n - 1] = The(n - 1)[n - 1]
    <3>1. \A i \in 0..(n - 1) : The(n)[i] = The(n - 1)[i]
      BY <1>2, <2>1, SumUnique
    <3> QED
      BY <2>1, <3>1
  <2> QED
    BY <1>1, <2>2, <2>3
<1>6. \A n \in 0..m : SumOfFirst(s, n) \in Int
  BY <1>1, <1>3
<1> QED
  BY <1>4, <1>5, <1>6

\* A sum depends on the elements summed only.
LEMMA SameSums ==
  ASSUME NEW m \in Nat, NEW s \in [1..m -> Int], NEW l \in Nat, NEW t \in [1..l -> Int],
         NEW k \in Nat, k <= m, k <= l, \A i \in 1..k : s[i] = t[i]
  PROVE  SumOfFirst(s, k) = SumOfFirst(t, k)
<1> DEFINE T == {i \in 0..k : SumOfFirst(s, i) = SumOfFirst(t, i)}
<1>1. 0 \in T
  BY FirstSums
<1>2. ASSUME NEW i \in 0..(k - 1), i \in T PROVE i + 1 \in T
  <2>1. i + 1 \in 1..k /\ i + 1 \in 1..m /\ i + 1 \in 1..l /\ (i + 1) - 1 = i
    OBVIOUS
  <2>2. /\ SumOfFirst(s, i + 1) = SumOfFirst(s, i) + s[i + 1]
        /\ SumOfFirst(t, i + 1) = SumOfFirst(t, i) + t[i + 1]
    BY <2>1, FirstSums
  <2> QED
    BY <1>2, <2>1, <2>2
<1> HIDE DEF T
<1>3. \A i \in 0..k : i \in T
  BY <1>1, <1>2, Induction
<1> QED
  BY <1>3 DEF T

\* The first element can be added last.
LEMMA FirstApart ==
  ASSUME NEW m \in Nat, NEW s \in [1..m -> Int], NEW t \in [1..(m + 1) -> Int],
         \A i \in 1..m : t[i + 1] = s[i]
  PROVE  SumOfFirst(t, m + 1) = t[1] + SumOfFirst(s, m)
<1> DEFINE T == {k \in 0..m : SumOfFirst(t, k + 1) = t[1] + SumOfFirst(s, k)}
<1>0. t[1] \in Int /\ 1 \in 1..(m + 1) /\ m + 1 \in Nat /\ 1 - 1 = 0
  OBVIOUS
<1>a. /\ SumOfFirst(t, 0) = 0
      /\ \A n \in 1..(m + 1) : SumOfFirst(t, n) = SumOfFirst(t, n - 1) + t[n]
  <2> DEFINE l == m + 1
  <2>1. l \in Nat /\ t \in [1..l -> Int]
    BY <1>0
  <2> HIDE DEF l
  <2>2. /\ SumOfFirst(t, 0) = 0
        /\ \A n \in 1..l : SumOfFirst(t, n) = SumOfFirst(t, n - 1) + t[n]
    BY <2>1, FirstSums
  <2> QED
    BY <2>2 DEF l
<1>1. 0 \in T
  <2>1. SumOfFirst(t, 1) = SumOfFirst(t, 0) + t[1] /\ SumOfFirst(t, 0) = 0
    BY <1>0, <1>a
  <2>2. SumOfFirst(s, 0) = 0
    BY FirstSums
  <2> QED
    BY <1>0, <2>1, <2>2
<1>2. ASSUME NEW k \in 0..(m - 1), k \in T PROVE k + 1 \in T
  <2>1. /\ k + 1 \in 1..m /\ k + 2 \in 1..(m + 1) /\ (k + 1) - 1 = k
        /\ (k + 1) + 1 = k + 2 /\ (k + 2) - 1 = k + 1 /\ k \in 0..m
    OBVIOUS
  <2>2. SumOfFirst(s, k + 1) = SumOfFirst(s, k) + s[k + 1] /\ SumOfFirst(s, k) \in Int
    BY <2>1, FirstSums
  <2>3. SumOfFirst(t, k + 2) = SumOfFirst(t, k + 1) + t[k + 2]
    BY <2>1, <1>a
  <2>4. t[k + 2] = s[k + 1] /\ s[k + 1] \in Int
    BY <2>1
  <2> QED
    BY <1>0, <1>2, <2>1, <2>2, <2>3, <2>4
<1> HIDE DEF T
<1>3. \A k \in 0..m : k \in T
  BY <1>1, <1>2, Induction
<1> QED
  BY <1>3 DEF T

(***************************************************************************)
(* Folding a sum over a set, in whatever order CHOOSE picks                *)
(***************************************************************************)
Only(g, n, s) == [i \in 1..n |-> IF i \in s THEN g[i] ELSE 0]
SumOver(g, n, s) == SumOfFirst(Only(g, n, s), n)

\* F folds g over every subset of 1, ..., n.
IsFold(F, g, n) ==
  F = [s \in SUBSET (1..n) |->
         IF s = {} THEN 0
         ELSE LET x == CHOOSE x \in s : TRUE IN g[x] + F[s \ {x}]]

\* Any member of a set can be added last.
LEMMA AddedLast ==
  ASSUME NEW n \in Nat, NEW g \in [1..n -> Int], NEW s \in SUBSET (1..n),
         NEW x \in 1..n, x \in s
  PROVE  /\ SumOver(g, n, s) = g[x] + SumOver(g, n, s \ {x})
         /\ SumOver(g, n, s) \in Int /\ SumOver(g, n, {}) = 0
<1> DEFINE a == Only(g, n, s)
           b == Only(g, n, s \ {x})
           T == {k \in 0..n : SumOfFirst(a, k) = SumOfFirst(b, k) + IF x <= k THEN g[x] ELSE 0}
<1>1. /\ a \in [1..n -> Int] /\ b \in [1..n -> Int] /\ x \in 1..n /\ g[x] \in Int
      /\ a[x] = g[x] /\ b[x] = 0 /\ \A i \in 1..n : i # x => a[i] = b[i]
  BY DEF Only
<1> HIDE DEF a, b
<1>2. SumOfFirst(a, 0) = 0 /\ SumOfFirst(b, 0) = 0
  BY <1>1, FirstSums
<1>3. \A k \in 1..n : /\ SumOfFirst(a, k) = SumOfFirst(a, k - 1) + a[k]
                      /\ SumOfFirst(b, k) = SumOfFirst(b, k - 1) + b[k]
  BY <1>1, FirstSums
<1>4. \A k \in 0..n : SumOfFirst(a, k) \in Int /\ SumOfFirst(b, k) \in Int
  BY <1>1, FirstSums
<1>5. 0 \in T
  BY <1>1, <1>2
<1>6. ASSUME NEW k \in 0..(n - 1), k \in T PROVE k + 1 \in T
  <2>1. k + 1 \in 1..n /\ (k + 1) - 1 = k /\ k \in 0..n /\ k + 1 \in 0..n
    OBVIOUS
  <2>2. /\ SumOfFirst(a, k + 1) = SumOfFirst(a, k) + a[k + 1]
        /\ SumOfFirst(b, k + 1) = SumOfFirst(b, k) + b[k + 1]
        /\ SumOfFirst(a, k) \in Int /\ SumOfFirst(b, k) \in Int
    BY <1>3, <1>4, <2>1
  <2>3. SumOfFirst(a, k) = SumOfFirst(b, k) + IF x <= k THEN g[x] ELSE 0
    BY <1>6
  <2>4. CASE x = k + 1
    <3>1. ~(x <= k) /\ x <= k + 1 /\ a[k + 1] = g[x] /\ b[k + 1] = 0
      BY <1>1, <2>1, <2>4
    <3> QED
      BY <1>1, <2>1, <2>2, <2>3, <3>1
  <2>5. CASE x # k + 1
    <3>1. /\ x <= k <=> x <= k + 1
          /\ a[k + 1] = b[k + 1] /\ b[k + 1] \in Int
      BY <1>1, <2>1, <2>5
    <3> QED
      BY <1>1, <2>1, <2>2, <2>3, <3>1
  <2> QED
    BY <2>4, <2>5
<1> HIDE DEF T
<1>7. \A k \in 0..n : k \in T
  BY <1>5, <1>6, Induction
<1>8. n \in T /\ n \in 0..n /\ x <= n
  BY <1>1, <1>7
<1>9. SumOver(g, n, {}) = 0
  <2> DEFINE z == Only(g, n, {})
             U == {k \in 0..n : SumOfFirst(z, k) = 0}
  <2>1. z \in [1..n -> Int] /\ \A i \in 1..n : z[i] = 0
    BY DEF Only
  <2> HIDE DEF z
  <2>2. SumOfFirst(z, 0) = 0 /\ \A k \in 1..n : SumOfFirst(z, k) = SumOfFirst(z, k - 1) + z[k]
    BY <2>1, FirstSums
  <2>3. 0 \in U
    BY <2>2
  <2>4. ASSUME NEW k \in 0..(n - 1), k \in U PROVE k + 1 \in U
    <3>1. k + 1 \in 1..n /\ (k + 1) - 1 = k /\ k + 1 \in 0..n
      OBVIOUS
    <3> QED
      BY <2>1, <2>2, <2>4, <3>1
  <2> HIDE DEF U
  <2>5. \A k \in 0..n : k \in U
    BY <2>3, <2>4, Induction
  <2> QED
    BY <1>8, <2>5 DEF U, SumOver, z
<1>10. /\ SumOver(g, n, s) = SumOfFirst(a, n)
       /\ SumOver(g, n, s \ {x}) = SumOfFirst(b, n)
  BY DEF SumOver, a, b
<1>11. SumOfFirst(a, n) = SumOfFirst(b, n) + g[x]
  BY <1>8 DEF T
<1> QED
  BY <1>1, <1>4, <1>8, <1>9, <1>10, <1>11

\* So the fold exists, and is the sum.
LEMMA FoldExists ==
  ASSUME NEW n \in Nat, NEW g \in [1..n -> Int]
  PROVE  \E F : IsFold(F, g, n)
<1>0. ASSUME NEW s \in SUBSET (1..n), NEW x \in 1..n, x \in s
      PROVE  SumOver(g, n, s) = g[x] + SumOver(g, n, s \ {x})
  BY <1>0, AddedLast
<1> DEFINE F == [s \in SUBSET (1..n) |-> IF s = {} THEN 0 ELSE SumOver(g, n, s)]
<1>1. ASSUME NEW s \in SUBSET (1..n), NEW x \in s
      PROVE  F[s] = g[x] + F[s \ {x}]
  <2>0. x \in 1..n /\ x \in s
    OBVIOUS
  <2>1. SumOver(g, n, s) = g[x] + SumOver(g, n, s \ {x})
    BY <1>0, <2>0
  <2>a. SumOver(g, n, {}) = 0
    BY <2>0, AddedLast
  <2>2. s \ {x} \in SUBSET (1..n)
    OBVIOUS
  <2>3. F[s \ {x}] = SumOver(g, n, s \ {x})
    BY <2>a, <2>2
  <2> QED
    BY <2>0, <2>1, <2>3
<1>2. ASSUME NEW s \in SUBSET (1..n)
      PROVE  F[s] = IF s = {} THEN 0
                    ELSE LET x == CHOOSE x \in s : TRUE IN g[x] + F[s \ {x}]
  <2>1. s # {} => (CHOOSE x \in s : TRUE) \in s
    OBVIOUS
  <2>2. s = {} => F[s] = 0
    OBVIOUS
  <2> HIDE DEF F
  <2> QED
    BY <1>1, <2>1, <2>2
<1>3. F = [s \in SUBSET (1..n) |-> F[s]]
  OBVIOUS
<1> HIDE DEF F
<1>4. IsFold(F, g, n)
  BY <1>2, <1>3 DEF IsFold
<1> QED
  BY <1>4

\* And whatever folds g adds it up.
LEMMA FoldIsSum ==
  ASSUME NEW n \in Nat, NEW g \in [1..n -> Int], NEW F, IsFold(F, g, n)
  PROVE  F[1..n] = SumOfFirst(g, n)
<1> DEFINE Sum(s) == IF s = {} THEN 0 ELSE SumOver(g, n, s)
           Wrong == {s \in SUBSET (1..n) : F[s] # Sum(s)}
           T == {Cardinality(s) : s \in Wrong}
<1>1. \A s \in SUBSET (1..n) : IsFiniteSet(s) /\ Cardinality(s) \in Nat
  <2>1. IsFiniteSet(1..n)
    BY FS_Interval
  <2> QED
    BY <2>1, FS_Subset, FS_CardinalityType
<1>2. Wrong = {}
  <2> SUFFICES ASSUME Wrong # {} PROVE FALSE
    OBVIOUS
  <2>1. T \in SUBSET Nat /\ T # {}
    BY <1>1
  <2>2. PICK c \in T : \A d \in T : c <= d
    BY <2>1, LeastElement
  <2>3. PICK s \in Wrong : Cardinality(s) = c
    BY <2>2
  <2>4. s \in SUBSET (1..n) /\ s # {}
    BY <2>3 DEF IsFold
  <2> DEFINE x == CHOOSE x \in s : TRUE
             rest == s \ {x}
  <2>5. x \in s /\ F[s] = g[x] + F[rest]
    BY <2>4 DEF IsFold
  <2> HIDE DEF x
  <2>6. rest \in SUBSET (1..n) /\ Cardinality(rest) = c - 1 /\ c \in Nat
    <3>1. Cardinality(s \ {x}) = Cardinality(s) - 1
      BY <1>1, <2>4, <2>5, FS_RemoveElement
    <3> QED
      BY <1>1, <2>3, <2>4, <3>1
  <2>7. rest \notin Wrong
    <3> SUFFICES ASSUME rest \in Wrong PROVE FALSE
      OBVIOUS
    <3>1. c - 1 \in T
      BY <2>6
    <3>2. c <= c - 1
      BY <2>2, <3>1
    <3> QED
      BY <2>6, <3>2
  <2>8. F[rest] = Sum(rest)
    BY <2>6, <2>7
  <2>9. SumOver(g, n, s) = g[x] + SumOver(g, n, rest)
    <3>1. x \in 1..n
      BY <2>4, <2>5
    <3> QED
      BY <2>4, <2>5, <3>1, AddedLast
  <2>a. SumOver(g, n, {}) = 0
    <3>1. x \in 1..n
      BY <2>4, <2>5
    <3> QED
      BY <2>4, <2>5, <3>1, AddedLast
  <2> HIDE DEF rest
  <2>10. F[s] = Sum(s)
    BY <2>4, <2>5, <2>8, <2>9, <2>a
  <2> QED
    BY <2>3, <2>10
<1>3. F[1..n] = Sum(1..n)
  BY <1>2
<1>4. CASE n = 0
  <2>1. 1..n = {}
    BY <1>4
  <2>2. SumOfFirst(g, n) = 0
    BY <1>4, FirstSums
  <2> QED
    BY <1>3, <2>1, <2>2
<1>5. CASE n # 0
  <2>1. 1..n # {}
    BY <1>5
  <2>2. Only(g, n, 1..n) = g
    BY DEF Only
  <2> QED
    BY <1>3, <2>1, <2>2 DEF SumOver
<1> QED
  BY <1>4, <1>5
=============================================================================

---------------------------- MODULE CollectorProofs ----------------------------
(***************************************************************************)
(* What the reports make of the rows of the collector, for every interval, *)
(* list of phases, reading and clock: the scrapes have the phase of their  *)
(* row, the two reports agree, a minute of the comparison that the samples *)
(* reach has a reading, and the summaries of the phase are sound.          *)
(***************************************************************************)
EXTENDS Collector, WellFoundedInduction, FiniteSetTheorems, TLAPS

(* Least and greatest numbers *)

\* There is a least member.
LEMMA Least ==
  ASSUME NEW S, S \subseteq Nat, S # {}
  PROVE  \E m \in S : \A n \in S : m <= n
<1> DEFINE R == {ss \in Nat \X Nat : ss[1] < ss[2]}
<1>1. R = OpToRel(<, Nat)
  BY DEF OpToRel
<1>2. IsWellFoundedOn(R, Nat)
  BY <1>1, NatLessThanWellFounded
<1>3. PICK m \in S : \A y \in S : <<y, m>> \notin R
  <2> HIDE DEF R
  <2> QED BY <1>2, WFMin
<1>4. \A n \in S : m <= n
  <2> TAKE n \in S
  <2>1. m \in Nat /\ n \in Nat /\ ~(n < m)
    BY <1>3
  <2> QED BY <2>1
<1> QED BY <1>4

\* Something has the least number.
LEMMA LeastBy ==
  ASSUME NEW D, D # {}, NEW f \in [D -> Nat]
  PROVE  \E i \in D : \A j \in D : f[i] <= f[j]
<1> DEFINE S == {f[i] : i \in D}
<1>1. S \subseteq Nat /\ S # {}
  OBVIOUS
<1>2. PICK m \in S : \A n \in S : m <= n
  <2> HIDE DEF S
  <2> QED BY <1>1, Least
<1> QED BY <1>2

\* Some positions have a last one.
LEMMA Greatest ==
  ASSUME NEW N \in Nat, NEW I \in SUBSET (1 .. N), I # {}
  PROVE  \E m \in I : \A i \in I : i <= m
<1> DEFINE B == {b \in Nat : \A i \in I : i <= b}
<1>1. N \in B /\ B \subseteq Nat
  OBVIOUS
<1>2. PICK b \in B : \A c \in B : b <= c
  <2> HIDE DEF B
  <2> QED BY <1>1, Least
<1>3. b \in I
  <2> SUFFICES ASSUME b \notin I PROVE FALSE
    OBVIOUS
  <2>1. b \in Nat /\ \A i \in I : i \in Nat \ {0} /\ i < b
    BY <1>2
  <2>2. b - 1 \in B
    <3>1. PICK i \in I : TRUE
      OBVIOUS
    <3> QED BY <2>1, <3>1
  <2> QED BY <1>2, <2>1, <2>2
<1> QED BY <1>2, <1>3

-----------------------------------------------------------------------------
(* Sums *)

\* What holds of 0 and goes on holds up to any number.
LEMMA UpwardsTo ==
  ASSUME NEW N \in Nat, NEW S, 0 \in S, \A k \in 0 .. N - 1 : k \in S => k + 1 \in S
  PROVE  0 .. N \subseteq S
<1> DEFINE D == {k \in 0 .. N : k \notin S}
<1> SUFFICES ASSUME D # {} PROVE FALSE
  OBVIOUS
<1>1. D \subseteq Nat
  OBVIOUS
<1>2. PICK k \in D : \A i \in D : k <= i
  <2> HIDE DEF D
  <2> QED BY <1>1, Least
<1>3. k \in 0 .. N /\ k \notin S /\ k # 0
  OBVIOUS
<1>4. k - 1 \in 0 .. N - 1 /\ k - 1 \in 0 .. N /\ (k - 1) + 1 = k /\ ~(k <= k - 1)
  BY <1>3
<1>5. k - 1 \in S
  <2>1. k - 1 \notin D
    <3> HIDE DEF D
    <3> QED BY <1>2, <1>4
  <2> QED BY <1>4, <2>1
<1> QED BY <1>3, <1>4, <1>5

\* The sums of the first numbers.
LEMMA SumsIs ==
  ASSUME NEW f \in Seq(Int)
  PROVE  /\ Sums(f) \in [0 .. Len(f) -> Int] /\ Sums(f)[0] = 0
         /\ \A k \in 0 .. Len(f) - 1 : Sums(f)[k + 1] = Sums(f)[k] + f[k + 1]
         /\ Total(f) = Sums(f)[Len(f)]
<1> DEFINE N == Len(f)
           IsSums(g, m) == /\ g \in [0 .. m -> Int] /\ g[0] = 0
                           /\ \A k \in 1 .. m : g[k] = g[k - 1] + f[k]
           S == {m \in 0 .. N : \E g : IsSums(g, m)}
<1>1. N \in Nat /\ \A i \in 1 .. N : f[i] \in Int
  OBVIOUS
<1>2. 0 \in S
  <2>1. IsSums([i \in 0 .. 0 |-> 0], 0)
    OBVIOUS
  <2>2. 0 \in 0 .. N
    BY <1>1
  <2> HIDE DEF IsSums
  <2> QED BY <2>1, <2>2
<1>3. ASSUME NEW m \in 0 .. N - 1, m \in S PROVE m + 1 \in S
  <2>1. PICK g : IsSums(g, m)
    BY <1>3
  <2> DEFINE h == [k \in 0 .. m + 1 |-> IF k = m + 1 THEN g[m] + f[m + 1] ELSE g[k]]
  <2>2. m + 1 \in 1 .. N /\ m + 1 \in 0 .. N /\ m \in 0 .. m
    BY <1>1
  <2>3. f[m + 1] \in Int /\ g[m] \in Int
    BY <1>1, <2>1, <2>2
  <2>4. h \in [0 .. m + 1 -> Int] /\ h[0] = 0
    BY <1>1, <2>1, <2>3
  <2>5. ASSUME NEW k \in 1 .. m + 1 PROVE h[k] = h[k - 1] + f[k]
    <3>1. CASE k = m + 1
      BY <2>2, <3>1
    <3>2. CASE k \in 1 .. m
      <4>1. h[k] = g[k] /\ h[k - 1] = g[k - 1]
        BY <1>1, <3>2
      <4> QED BY <2>1, <3>2, <4>1
    <3>3. k = m + 1 \/ k \in 1 .. m
      OBVIOUS
    <3> QED BY <3>1, <3>2, <3>3
  <2>6. IsSums(h, m + 1)
    <3> HIDE DEF h
    <3> QED BY <2>4, <2>5
  <2> HIDE DEF IsSums, h
  <2> QED BY <2>2, <2>6
<1>4. PICK g : IsSums(g, N)
  <2> HIDE DEF IsSums
  <2>1. N \in 0 .. N
    BY <1>1
  <2>2. 0 .. N \subseteq S
    <3> HIDE DEF S
    <3> QED BY <1>1, <1>2, <1>3, UpwardsTo
  <2> QED BY <2>1, <2>2
<1>5. g = [n \in 0 .. N |-> IF n = 0 THEN 0 ELSE g[n - 1] + f[n]]
  <2>1. \A n \in 0 .. N : g[n] = IF n = 0 THEN 0 ELSE g[n - 1] + f[n]
    BY <1>1, <1>4
  <2>2. g \in [0 .. N -> Int]
    BY <1>4
  <2> QED BY <2>1, <2>2
<1>6. Sums(f) = [n \in 0 .. N |-> IF n = 0 THEN 0 ELSE Sums(f)[n - 1] + f[n]]
  BY <1>5, Zenon DEF Sums
<1> DEFINE s == Sums(f)
           V == {n \in 0 .. N : s[n] \in Int}
<1> HIDE DEF s
<1>7. \A n \in 0 .. N : s[n] = IF n = 0 THEN 0 ELSE s[n - 1] + f[n]
  BY <1>6 DEF s
<1>8. 0 \in V
  BY <1>1, <1>7
<1>9. ASSUME NEW n \in 0 .. N - 1 PROVE s[n + 1] = s[n] + f[n + 1]
  <2>1. n + 1 \in 0 .. N /\ n + 1 # 0 /\ (n + 1) - 1 = n
    BY <1>1
  <2> QED BY <1>7, <2>1
<1>10. ASSUME NEW n \in 0 .. N - 1, n \in V PROVE n + 1 \in V
  <2>1. n + 1 \in 0 .. N /\ n + 1 \in 1 .. N
    BY <1>1
  <2> QED BY <1>1, <1>9, <1>10, <2>1
<1>11. 0 .. N \subseteq V
  <2> HIDE DEF V
  <2> QED BY <1>1, <1>8, <1>10, UpwardsTo
<1>12. s \in [0 .. N -> Int]
  <2>1. s = [n \in 0 .. N |-> s[n]]
    BY <1>6, Zenon DEF s
  <2> QED BY <1>11, <2>1
<1>13. s[0] = 0
  BY <1>1, <1>7
<1> QED BY <1>9, <1>12, <1>13 DEF s, Total

\* The arithmetic of one more number.
LEMMA ProductSign ==
  ASSUME NEW c \in Nat, NEW d \in Nat
  PROVE  0 <= c * d
OBVIOUS

LEMMA MoreBelow ==
  ASSUME NEW X \in Int, NEW Y \in Int, NEW Z \in Int, NEW k \in Int,
         NEW a \in Int, NEW b \in Int, NEW u \in Int, NEW v \in Int, u <= a, v <= b,
         0 <= Z - a * Y - b * X + k * (a * b)
  PROVE  0 <= (Z + u * v) - a * (Y + v) - b * (X + u) + (k + 1) * (a * b)
<1>1. 0 <= (a - u) * (b - v)
  <2>1. a - u \in Nat /\ b - v \in Nat
    OBVIOUS
  <2> QED BY <2>1, ProductSign
<1>2. (Z + u * v) - a * (Y + v) - b * (X + u) + (k + 1) * (a * b)
        = (Z - a * Y - b * X + k * (a * b)) + (a - u) * (b - v)
  OBVIOUS
<1> DEFINE l == (Z + u * v) - a * (Y + v) - b * (X + u) + (k + 1) * (a * b)
           m == Z - a * Y - b * X + k * (a * b)
           d == (a - u) * (b - v)
<1>3. l \in Int /\ m \in Int /\ d \in Int /\ l = m + d /\ 0 <= m /\ 0 <= d
  BY <1>1, <1>2
<1> HIDE DEF l, m, d
<1>4. 0 <= l
  BY <1>3
<1> QED BY <1>4 DEF l

LEMMA MoreAbove ==
  ASSUME NEW X \in Int, NEW Y \in Int, NEW Z \in Int, NEW k \in Int,
         NEW a \in Int, NEW b \in Int,
         X * Y <= k * Z, 0 <= Z - a * Y - b * X + k * (a * b)
  PROVE  (X + a) * (Y + b) <= (k + 1) * (Z + a * b)
<1>1. (k + 1) * (Z + a * b) - (X + a) * (Y + b)
        = (k * Z - X * Y) + (Z - a * Y - b * X + k * (a * b))
  OBVIOUS
<1> DEFINE l == (k + 1) * (Z + a * b)
           r == (X + a) * (Y + b)
           c == k * Z
           d == X * Y
           m == Z - a * Y - b * X + k * (a * b)
<1>2. /\ l \in Int /\ r \in Int /\ c \in Int /\ d \in Int /\ m \in Int
      /\ l - r = (c - d) + m /\ d <= c /\ 0 <= m
  BY <1>1
<1> HIDE DEF l, r, c, d, m
<1>3. r <= l
  BY <1>2
<1> QED BY <1>3 DEF r, l

\* Two lists in the same order: the sum of the products is at least the product of the
\* sums, divided by the length.
LEMMA SameOrder ==
  ASSUME NEW n \in Nat, NEW x \in [1 .. n -> Int], NEW y \in [1 .. n -> Int],
         NEW z \in [1 .. n -> Int], \A i \in 1 .. n : z[i] = x[i] * y[i],
         \A i, j \in 1 .. n : i <= j => x[i] <= x[j] /\ y[i] <= y[j]
  PROVE  /\ Total(x) \in Int /\ Total(y) \in Int /\ Total(z) \in Int
         /\ Total(x) * Total(y) <= n * Total(z)
<1> DEFINE X == Sums(x)
           Y == Sums(y)
           Z == Sums(z)
<1>1. /\ x \in Seq(Int) /\ y \in Seq(Int) /\ z \in Seq(Int)
      /\ Len(x) = n /\ Len(y) = n /\ Len(z) = n
  OBVIOUS
<1>2. /\ X \in [0 .. n -> Int] /\ X[0] = 0 /\ \A k \in 0 .. n - 1 : X[k + 1] = X[k] + x[k + 1]
      /\ Y \in [0 .. n -> Int] /\ Y[0] = 0 /\ \A k \in 0 .. n - 1 : Y[k + 1] = Y[k] + y[k + 1]
      /\ Z \in [0 .. n -> Int] /\ Z[0] = 0 /\ \A k \in 0 .. n - 1 : Z[k + 1] = Z[k] + z[k + 1]
      /\ Total(x) = X[n] /\ Total(y) = Y[n] /\ Total(z) = Z[n]
  BY <1>1, SumsIs
<1>3. \A i \in 1 .. n : x[i] \in Int /\ y[i] \in Int /\ z[i] = x[i] * y[i]
  OBVIOUS
<1> HIDE DEF X, Y, Z
<1>4. \A k \in 0 .. n : X[k] \in Int /\ Y[k] \in Int /\ Z[k] \in Int
  BY <1>2
\* The products of the differences from one of the numbers after them.
<1>5. ASSUME NEW m \in 0 .. n - 1
      PROVE  LET a == x[m + 1]
                 b == y[m + 1]
             IN 0 <= Z[m] - a * Y[m] - b * X[m] + m * (a * b)
  <2> DEFINE a == x[m + 1]
             b == y[m + 1]
             S == {k \in 0 .. m : 0 <= Z[k] - a * Y[k] - b * X[k] + k * (a * b)}
  <2>1. m + 1 \in 1 .. n /\ m \in Nat /\ a \in Int /\ b \in Int
    BY <1>3
  <2>2. 0 \in S
    BY <1>2, <2>1
  <2>3. ASSUME NEW k \in 0 .. m - 1, k \in S PROVE k + 1 \in S
    <3> DEFINE u == x[k + 1]
               v == y[k + 1]
    <3>1. k \in 0 .. n - 1 /\ k \in 0 .. n /\ k + 1 \in 1 .. n /\ k + 1 <= m + 1 /\ k + 1 \in 0 .. m
      BY <2>1
    <3>2. u \in Int /\ v \in Int /\ u <= a /\ v <= b /\ z[k + 1] = u * v
      BY <1>3, <2>1, <3>1
    <3>3. X[k + 1] = X[k] + u /\ Y[k + 1] = Y[k] + v /\ Z[k + 1] = Z[k] + u * v
      BY <1>2, <3>1, <3>2
    <3>4. X[k] \in Int /\ Y[k] \in Int /\ Z[k] \in Int /\ k \in Int
      BY <1>4, <3>1
    <3>5. 0 <= Z[k] - a * Y[k] - b * X[k] + k * (a * b)
      BY <2>3
    <3> HIDE DEF a, b, u, v
    <3>6. 0 <= (Z[k] + u * v) - a * (Y[k] + v) - b * (X[k] + u) + (k + 1) * (a * b)
      BY <2>1, <3>2, <3>4, <3>5, MoreBelow
    <3>7. 0 <= Z[k + 1] - a * Y[k + 1] - b * X[k + 1] + (k + 1) * (a * b)
      BY <3>3, <3>6
    <3> QED BY <3>1, <3>7 DEF a, b
  <2>4. 0 .. m \subseteq S
    <3> HIDE DEF S
    <3> QED BY <2>1, <2>2, <2>3, UpwardsTo
  <2>5. m \in S
    <3> HIDE DEF S
    <3> QED BY <2>1, <2>4
  <2> QED BY <2>5
<1> DEFINE P == {k \in 0 .. n : X[k] * Y[k] <= k * Z[k]}
<1>6. 0 \in P
  BY <1>2
<1>7. ASSUME NEW m \in 0 .. n - 1, m \in P PROVE m + 1 \in P
  <2> DEFINE a == x[m + 1]
             b == y[m + 1]
  <2>1. m + 1 \in 1 .. n /\ m + 1 \in 0 .. n /\ m \in 0 .. n /\ m \in Int
    OBVIOUS
  <2>2. a \in Int /\ b \in Int /\ z[m + 1] = a * b
    BY <1>3, <2>1
  <2>3. X[m + 1] = X[m] + a /\ Y[m + 1] = Y[m] + b /\ Z[m + 1] = Z[m] + a * b
    BY <1>2, <2>2
  <2>4. X[m] \in Int /\ Y[m] \in Int /\ Z[m] \in Int
    BY <1>4, <2>1
  <2>5. 0 <= Z[m] - a * Y[m] - b * X[m] + m * (a * b)
    BY <1>5
  <2>6. X[m] * Y[m] <= m * Z[m]
    BY <1>7
  <2> HIDE DEF a, b, P
  <2>7. (X[m] + a) * (Y[m] + b) <= (m + 1) * (Z[m] + a * b)
    BY <2>1, <2>2, <2>4, <2>5, <2>6, MoreAbove
  <2>8. X[m + 1] * Y[m + 1] <= (m + 1) * Z[m + 1]
    BY <2>3, <2>7
  <2> QED BY <2>1, <2>8 DEF P
<1>8. n \in P
  <2>1. 0 .. n \subseteq P
    <3> HIDE DEF P
    <3> QED BY <1>6, <1>7, UpwardsTo
  <2> QED BY <2>1
<1> QED BY <1>2, <1>4, <1>8

LEMMA Neighbours ==
  ASSUME NEW n \in Nat, NEW i \in 1 .. n - 1
  PROVE  i \in Nat /\ i \in 1 .. n /\ i + 1 \in 1 .. n
OBVIOUS

\* Numbers that never fall from one to the next are in order.
LEMMA Ascending ==
  ASSUME NEW n \in Nat, NEW t \in [1 .. n -> Int],
         \A i \in 1 .. n - 1 : t[i] <= t[i + 1]
  PROVE  \A i, j \in 1 .. n : i <= j => t[i] <= t[j]
<1> SUFFICES ASSUME NEW i \in 1 .. n PROVE \A j \in 1 .. n : i <= j => t[i] <= t[j]
  OBVIOUS
<1> DEFINE S == {k \in 0 .. n - i : t[i] <= t[i + k]}
<1>1. i \in Nat /\ n - i \in Nat /\ 0 \in 0 .. n - i
  OBVIOUS
<1>2. 0 \in S
  BY <1>1
<1>3. ASSUME NEW k \in 0 .. (n - i) - 1, k \in S PROVE k + 1 \in S
  <2>1. i + k \in 1 .. n - 1 /\ i + k \in 1 .. n /\ i + (k + 1) \in 1 .. n /\ k + 1 \in 0 .. n - i
        /\ i + (k + 1) = (i + k) + 1
    BY <1>1
  <2>2. t[i] <= t[i + k] /\ t[i + k] <= t[(i + k) + 1]
    BY <1>3, <2>1
  <2>3. t[i] \in Int /\ t[i + k] \in Int /\ t[(i + k) + 1] \in Int
    BY <2>1
  <2> QED BY <2>1, <2>2, <2>3
<1>4. 0 .. n - i \subseteq S
  <2> HIDE DEF S
  <2> QED BY <1>1, <1>2, <1>3, UpwardsTo
<1>5. ASSUME NEW j \in 1 .. n, i <= j PROVE t[i] <= t[j]
  <2>1. j - i \in 0 .. n - i /\ i + (j - i) = j
    BY <1>1, <1>5
  <2>2. j - i \in S
    <3> HIDE DEF S
    <3> QED BY <1>4, <2>1
  <2> QED BY <2>1, <2>2
<1> QED BY <1>5

\* Numbers that rise from one to the next are in strict order.
LEMMA AscendingStrictly ==
  ASSUME NEW n \in Nat, NEW t \in [1 .. n -> Int],
         \A i \in 1 .. n - 1 : t[i] < t[i + 1]
  PROVE  \A i, j \in 1 .. n : i < j => t[i] < t[j]
<1>1. \A i \in 1 .. n - 1 : t[i] <= t[i + 1]
  <2> TAKE i \in 1 .. n - 1
  <2>1. i \in 1 .. n /\ i + 1 \in 1 .. n
    BY Neighbours
  <2>2. t[i] \in Int /\ t[i + 1] \in Int
    BY <2>1
  <2> QED BY <2>2
<1>2. \A i, j \in 1 .. n : i <= j => t[i] <= t[j]
  BY <1>1, Ascending
<1>3. ASSUME NEW i \in 1 .. n, NEW j \in 1 .. n, i < j PROVE t[i] < t[j]
  <2>1. i \in 1 .. n - 1 /\ i + 1 \in 1 .. n /\ i + 1 <= j
    BY <1>3
  <2>2. t[i] < t[i + 1] /\ t[i + 1] <= t[j]
    BY <1>2, <2>1
  <2>3. t[i] \in Int /\ t[i + 1] \in Int /\ t[j] \in Int
    BY <2>1
  <2> QED BY <2>2, <2>3
<1> QED BY <1>3

-----------------------------------------------------------------------------
(* Selected rows *)

UpTo(positions, i) == {j \in positions : j <= i}

\* Positions are finitely many, and so are those up to one of them.
LEMMA Positions ==
  ASSUME NEW N \in Nat, NEW I \in SUBSET (1 .. N)
  PROVE  /\ IsFiniteSet(I) /\ Cardinality(I) \in Nat
         /\ \A i : IsFiniteSet(UpTo(I, i)) /\ Cardinality(UpTo(I, i)) \in Nat
<1>1. IsFiniteSet(1 .. N)
  BY FS_Interval
<1>2. IsFiniteSet(I)
  BY <1>1, FS_Subset
<1>3. ASSUME NEW i
      PROVE  IsFiniteSet(UpTo(I, i)) /\ Cardinality(UpTo(I, i)) \in Nat
  <2>1. UpTo(I, i) \in SUBSET I
    BY DEF UpTo
  <2> QED BY <1>2, <2>1, FS_Subset, FS_CardinalityType
<1> QED BY <1>2, <1>3, FS_CardinalityType

\* There is an n-th position.
LEMMA NthIs ==
  ASSUME NEW N \in Nat, NEW I \in SUBSET (1 .. N), NEW n \in 1 .. Cardinality(I)
  PROVE  Nth(I, n) \in I /\ Cardinality(UpTo(I, Nth(I, n))) = n
<1> DEFINE S == {i \in I : Cardinality(UpTo(I, i)) >= n}
<1> HIDE DEF S
<1>1. /\ IsFiniteSet(I) /\ Cardinality(I) \in Nat
      /\ n \in Nat /\ n <= Cardinality(I)
  <2>1. IsFiniteSet(I) /\ Cardinality(I) \in Nat
    BY Positions
  <2> QED BY <2>1
<1>2. ASSUME NEW i
      PROVE  IsFiniteSet(UpTo(I, i)) /\ Cardinality(UpTo(I, i)) \in Nat
  BY Positions
<1>3. S \subseteq I /\ S \subseteq Nat
  <2>1. I \subseteq Nat
    OBVIOUS
  <2>2. S \subseteq I
    BY DEF S
  <2> QED BY <2>1, <2>2
<1>4. S # {}
  <2>1. I # {}
    BY <1>1, FS_EmptySet
  <2>2. PICK m \in I : \A i \in I : i <= m
    BY <2>1, Greatest
  <2>3. UpTo(I, m) = I
    BY <2>2 DEF UpTo
  <2> QED BY <1>1, <2>3 DEF S
<1>5. PICK i \in S : \A j \in S : i <= j
  BY <1>3, <1>4, Least
<1>6. i \in I /\ i \in Nat /\ Cardinality(UpTo(I, i)) \in Nat /\ Cardinality(UpTo(I, i)) >= n
  BY <1>2, <1>3 DEF S
<1>7. Cardinality(UpTo(I, i)) = n
  <2> SUFFICES ASSUME Cardinality(UpTo(I, i)) # n PROVE FALSE
    OBVIOUS
  <2> DEFINE J == {j \in I : j < i}
  <2>1. I \subseteq Nat
    OBVIOUS
  <2>2. \A j \in I : j \in Nat /\ (j <= i <=> j < i \/ j = i)
    BY <1>6, <2>1
  <2>3. UpTo(I, i) = J \cup {i}
    BY <1>6, <2>2 DEF UpTo
  <2>4. J \in SUBSET I /\ i \notin J
    BY <1>6
  <2>5. UpTo(I, i) = J \cup {i} /\ i \notin J /\ J \in SUBSET I /\ J \in SUBSET (1 .. N)
    <3> HIDE DEF J
    <3> QED BY <2>3, <2>4
  <2>6. \A m \in J : m \in Nat /\ m < i
    BY <2>2
  <2>7. ASSUME NEW m \in J, \A j \in J : j <= m
        PROVE  UpTo(I, m) = J
    <3>1. m \in Nat /\ m < i
      BY <2>6
    <3>2. \A j \in I : j <= m => j < i
      BY <1>6, <2>2, <3>1
    <3> QED BY <2>7, <3>2 DEF UpTo
  <2> HIDE DEF J
  <2>8. IsFiniteSet(J) /\ Cardinality(J) \in Nat
    BY <1>1, <2>5, FS_Subset, FS_CardinalityType
  <2>9. Cardinality(UpTo(I, i)) = Cardinality(J) + 1
    BY <2>5, <2>8, FS_AddElement
  <2>10. Cardinality(J) >= n
    BY <1>1, <1>6, <2>8, <2>9
  <2>11. J # {}
    BY <1>1, <2>10, FS_EmptySet
  <2>12. PICK m \in J : \A j \in J : j <= m
    BY <2>5, <2>11, Greatest
  <2>13. UpTo(I, m) = J
    BY <2>7, <2>12
  <2>14. m \in S
    BY <2>5, <2>10, <2>13 DEF S
  <2> QED BY <1>5, <1>6, <2>6, <2>14
<1>8. \E k \in I : Cardinality(UpTo(I, k)) = n
  BY <1>6, <1>7
<1> QED BY <1>8, Zenon DEF Nth, UpTo

\* Of all positions the n-th is n.
LEMMA NthOfAll ==
  ASSUME NEW N \in Nat, NEW n \in 1 .. N
  PROVE  Nth(1 .. N, n) = n
<1>1. Cardinality(1 .. N) = N
  BY FS_Interval
<1>2. PICK m \in 1 .. N : m = Nth(1 .. N, n) /\ Cardinality(UpTo(1 .. N, m)) = n
  BY <1>1, NthIs
<1>3. UpTo(1 .. N, m) = 1 .. m
  BY DEF UpTo
<1>4. Cardinality(1 .. m) = m
  BY FS_Interval
<1> QED BY <1>2, <1>3, <1>4

\* What is at some positions.
LEMMA AtIs ==
  ASSUME NEW S, NEW s \in Seq(S), NEW I, I \subseteq DOMAIN s
  PROVE  /\ At(s, I) \in Seq(S) /\ Len(At(s, I)) = Cardinality(I)
         /\ Cardinality(I) \in Nat /\ DOMAIN At(s, I) = 1 .. Cardinality(I)
         /\ \A n \in 1 .. Cardinality(I) : \E i \in I : At(s, I)[n] = s[i]
<1>1. Len(s) \in Nat /\ DOMAIN s = 1 .. Len(s)
  OBVIOUS
<1>2. PICK c \in Nat : c = Cardinality(I)
  BY <1>1, Positions
<1>3. \A n \in 1 .. c : Nth(I, n) \in I
  BY <1>1, <1>2, NthIs
<1>4. At(s, I) = [n \in 1 .. c |-> s[Nth(I, n)]]
  BY <1>2 DEF At
<1>5. \A n \in 1 .. c : s[Nth(I, n)] \in S
  BY <1>1, <1>3
<1>6. At(s, I) \in [1 .. c -> S]
  BY <1>4, <1>5
<1>7. At(s, I) \in Seq(S) /\ Len(At(s, I)) = c /\ DOMAIN At(s, I) = 1 .. c
  BY <1>6
<1>8. \A n \in 1 .. c : At(s, I)[n] = s[Nth(I, n)]
  BY <1>4
<1> QED BY <1>2, <1>3, <1>7, <1>8

\* At all positions is all of it.
LEMMA AtAll ==
  ASSUME NEW S, NEW s \in Seq(S)
  PROVE  At(s, DOMAIN s) = s
<1>1. Len(s) \in Nat /\ DOMAIN s = 1 .. Len(s)
  OBVIOUS
<1>2. Cardinality(DOMAIN s) = Len(s)
  BY <1>1, FS_Interval
<1>3. \A n \in 1 .. Len(s) : Nth(1 .. Len(s), n) = n
  BY <1>1, NthOfAll
<1>4. At(s, DOMAIN s) = [n \in 1 .. Len(s) |-> s[Nth(1 .. Len(s), n)]]
  BY <1>1, <1>2 DEF At
<1>5. At(s, DOMAIN s) = [n \in 1 .. Len(s) |-> s[n]]
  BY <1>3, <1>4
<1> QED BY <1>1, <1>5

\* No rows are selected at no positions.
LEMMA AtNone ==
  ASSUME NEW s
  PROVE  At(s, {}) = <<>>
<1>1. Cardinality({}) = 0
  BY FS_EmptySet
<1>2. At(s, {}) = [n \in 1 .. 0 |-> s[Nth({}, n)]]
  BY <1>1, Zenon DEF At
<1>3. 1 .. 0 = {}
  OBVIOUS
<1> QED BY <1>2, <1>3

\* Positions without a hole are those from one to another.
LEMMA Convex ==
  ASSUME NEW N \in Nat, NEW I \in SUBSET (1 .. N), I # {},
         \A i, j \in I : \A k \in 1 .. N : i <= k /\ k <= j => k \in I
  PROVE  \E a, b \in I : a <= b /\ I = a .. b
<1>1. I \subseteq Nat
  OBVIOUS
<1>2. PICK a \in I : \A i \in I : a <= i
  BY <1>1, Least
<1>3. PICK b \in I : \A i \in I : i <= b
  BY Greatest
<1>4. a \in 1 .. N /\ b \in 1 .. N /\ a <= b
  BY <1>2, <1>3
<1>5. ASSUME NEW i \in I PROVE i \in a .. b
  <2>1. i \in Nat /\ a <= i /\ i <= b
    BY <1>1, <1>2, <1>3
  <2> QED BY <1>4, <2>1
<1>6. ASSUME NEW k \in a .. b PROVE k \in I
  <2>1. k \in 1 .. N /\ a <= k /\ k <= b
    BY <1>4
  <2> QED BY <1>2, <1>3, <2>1
<1> QED BY <1>4, <1>5, <1>6

\* What is at neighbouring positions.
LEMMA AtInterval ==
  ASSUME NEW S, NEW s \in Seq(S), NEW a \in 1 .. Len(s), NEW b \in 1 .. Len(s), a <= b
  PROVE  /\ At(s, a .. b) \in Seq(S) /\ Len(At(s, a .. b)) = b - a + 1
         /\ \A m \in 1 .. b - a + 1 :
              a + m - 1 \in a .. b /\ At(s, a .. b)[m] = s[a + m - 1]
<1> DEFINE I == a .. b
           c == b - a + 1
<1>1. a \in Nat /\ b \in Nat /\ c \in Nat /\ Len(s) \in Nat /\ I \in SUBSET (1 .. Len(s))
  OBVIOUS
<1>2. Cardinality(I) = c
  BY <1>1, FS_Interval
<1>3. I \subseteq DOMAIN s
  OBVIOUS
<1>4. At(s, I) \in Seq(S) /\ Len(At(s, I)) = c
  <2> HIDE DEF I, c
  <2> QED BY <1>2, <1>3, AtIs
<1>5. ASSUME NEW m \in 1 .. c
      PROVE  a + m - 1 \in I /\ At(s, I)[m] = s[a + m - 1]
  <2>1. Nth(I, m) \in I /\ Cardinality(UpTo(I, Nth(I, m))) = m
    <3> HIDE DEF I, c
    <3> QED BY <1>1, <1>2, <1>5, NthIs
  <2>2. PICK i \in I : i = Nth(I, m)
    BY <2>1
  <2>3. i \in Nat /\ a <= i /\ i <= b
    BY <1>1
  <2>4. UpTo(I, i) = a .. i
    BY <1>1, <2>3 DEF UpTo
  <2>5. Cardinality(a .. i) = i - a + 1
    BY <1>1, <2>3, FS_Interval
  <2>6. i - a + 1 = m
    BY <2>1, <2>2, <2>4, <2>5
  <2>7. i = a + m - 1
    BY <1>1, <2>3, <2>6
  <2>8. At(s, I)[m] = s[Nth(I, m)]
    <3> HIDE DEF I, c
    <3> QED BY <1>2, <1>5 DEF At
  <2> QED BY <2>2, <2>7, <2>8
<1> QED BY <1>4, <1>5

-----------------------------------------------------------------------------
(* The collector *)

Row == [elapsed : Int, phase : STRING, since : Int, used : Nat, cpu : Int]
Reading == [tick : Nat, now : Int, used : Nat, cpu : Int]
Entered == [name : STRING, epoch : Int]

Types ==
  /\ clock \in Nat /\ setbacks \in Nat /\ usage \in Nat
  /\ taken \in {None} \cup Reading
  /\ collector = "filing" => taken # None
  /\ previous \in {None} \cup Reading
  /\ rows \in Seq(Row)

\* The phases are entered in their order, and the rows of the measured one are
\* timed from one moment.
PhasesInv ==
  /\ phases \in Seq(Entered)
  /\ Len(phases) \in 1 .. Len(Planned)
  /\ \A i \in 1 .. Len(phases) : phases[i].name = Planned[i]
  /\ \A i \in 1 .. Len(rows) : rows[i].phase = Scenario =>
       /\ Len(phases) = Len(Planned)
       /\ rows[i].elapsed - rows[i].since = phases[Len(phases)].epoch

\* While the clock is not set back, the readings are in the order of its time.
TimesInv ==
  setbacks = 0 =>
    /\ taken # None => /\ taken.now = taken.tick /\ taken.tick <= clock
                       /\ previous # None => previous.tick < taken.tick
    /\ previous # None => previous.tick <= clock
    /\ rows # <<>> => previous # None
    /\ \A i \in 1 .. Len(rows) : rows[i].elapsed <= previous.tick
    /\ \A i, j \in 1 .. Len(rows) : i < j => rows[i].elapsed < rows[j].elapsed

CollectorInv == Types /\ PhasesInv /\ TimesInv

\* The wall clock shows a whole number, that of the other clock until it is set back.
LEMMA WallClock ==
  ASSUME clock \in Nat, setbacks \in Nat
  PROVE  Now \in Int /\ (setbacks = 0 => Now = clock)
<1>1. Shift \in Nat
  BY CollectorAssumption
<1>2. Shift * setbacks \in Nat
  BY <1>1
<1>3. setbacks = 0 => Shift * setbacks = 0
  BY <1>1
<1> QED BY <1>2, <1>3 DEF Now

LEMMA PlannedType ==
  /\ Planned \in Seq(STRING) /\ Len(Planned) \in Nat \ {0} /\ DOMAIN Planned = 1 .. Len(Planned)
  /\ Scenario = Planned[Len(Planned)]
<1>1. Planned \in Seq(STRING) /\ Planned # <<>>
  BY CollectorAssumption
<1> QED BY <1>1 DEF Scenario, Last

LEMMA InvInit == Init => CollectorInv
<1> SUFFICES ASSUME Init PROVE CollectorInv
  OBVIOUS
<1>1. clock = 0 /\ setbacks = 0 /\ usage = 0 /\ taken = None /\ previous = None /\ rows = <<>>
      /\ collector = "waiting" /\ phases = <<[name |-> Planned[1], epoch |-> 0]>>
  BY DEF Init
<1>2. Planned[1] \in STRING
  BY PlannedType
<1>3. [name |-> Planned[1], epoch |-> 0] \in Entered
  BY <1>2 DEF Entered
<1>4. Types
  BY <1>1 DEF Types
<1>5. PhasesInv
  BY <1>1, <1>3, PlannedType DEF PhasesInv
<1>6. TimesInv
  BY <1>1 DEF TimesInv
<1> QED BY <1>4, <1>5, <1>6 DEF CollectorInv

\* A reading is taken.
LEMMA InvMeasure ==
  ASSUME CollectorInv,
         NEW c \in Counters, NEW w \in Work, NEW lost \in BOOLEAN, Measure(c, w, lost)
  PROVE  CollectorInv'
<1>1. /\ Types /\ PhasesInv /\ TimesInv
  BY DEF CollectorInv
<1>2. /\ collector' = "filing" /\ usage' = usage + w
      /\ taken' = [tick |-> clock, now |-> Now, used |-> WorkingSet(c),
                   cpu |-> IF lost THEN Missing ELSE usage']
      /\ UNCHANGED <<clock, setbacks, phases, previous, rows>>
      /\ previous # None => clock > previous.tick
  BY DEF Measure, Look
<1>3. c[1] \in Nat /\ c[2] \in Nat /\ w \in Nat
  BY CollectorAssumption
<1>4. WorkingSet(c) \in Nat
  BY <1>3 DEF WorkingSet
<1>5. clock \in Nat /\ setbacks \in Nat /\ usage \in Nat /\ usage' \in Nat
  BY <1>1, <1>2, <1>3 DEF Types
<1>6. Now \in Int /\ (setbacks = 0 => Now = clock)
  BY <1>5, WallClock
<1>7. taken' \in Reading
  BY <1>2, <1>4, <1>5, <1>6 DEF Reading, Missing
<1>8. taken' # None
  <2>1. DOMAIN taken' = {"tick", "now", "used", "cpu"}
    BY <1>2
  <2>2. DOMAIN None = {}
    BY DEF None
  <2> QED BY <2>1, <2>2
<1>9. Types'
  BY <1>1, <1>2, <1>5, <1>7, <1>8 DEF Types
<1>10. PhasesInv'
  BY <1>1, <1>2 DEF PhasesInv
<1>11. taken'.now = Now /\ taken'.tick = clock
  BY <1>2
<1>12. TimesInv'
  BY <1>1, <1>2, <1>5, <1>6, <1>11 DEF TimesInv
<1> QED BY <1>9, <1>10, <1>12 DEF CollectorInv

\* It is filed.
LEMMA InvFile ==
  ASSUME CollectorInv, File
  PROVE  CollectorInv'
<1> DEFINE phase == phases[Len(phases)]
           row == [elapsed |-> taken.now, phase |-> phase.name,
                   since |-> taken.now - phase.epoch, used |-> taken.used, cpu |-> taken.cpu]
<1>1. /\ Types /\ PhasesInv /\ TimesInv
  BY DEF CollectorInv
<1>2. /\ collector = "filing" /\ collector' # "filing"
      /\ previous' = taken /\ taken' = None /\ rows' = Append(rows, row)
      /\ UNCHANGED <<clock, setbacks, phases, usage>>
  BY DEF File, Last, container
<1>3. taken \in Reading /\ taken # None
  BY <1>1, <1>2 DEF Types
<1>4. phase \in Entered /\ Len(phases) \in 1 .. Len(Planned) /\ phase.name = Planned[Len(phases)]
  BY <1>1, PlannedType DEF PhasesInv
<1>5. row \in Row
  BY <1>3, <1>4 DEF Row, Reading, Entered
<1>6. /\ row.elapsed = taken.now /\ row.since = taken.now - phase.epoch
      /\ row.phase = Planned[Len(phases)]
  BY <1>4
<1>7. rows \in Seq(Row) /\ clock \in Nat /\ setbacks \in Nat
  BY <1>1 DEF Types
<1> HIDE DEF row, phase
<1>8. /\ rows' \in Seq(Row) /\ Len(rows) \in Nat /\ Len(rows') = Len(rows) + 1
      /\ \A i \in 1 .. Len(rows) : rows'[i] = rows[i]
      /\ rows'[Len(rows')] = row
  BY <1>2, <1>5, <1>7
<1>9. Types'
  BY <1>1, <1>2, <1>3, <1>8 DEF Types
<1>10. taken.now \in Int /\ taken.tick \in Nat /\ phase.epoch \in Int
  BY <1>3, <1>4 DEF Reading, Entered
<1>11. row.phase = Scenario => Len(phases) = Len(Planned)
  BY <1>4, <1>6, CollectorAssumption, PlannedType DEF Scenario
<1>12. PhasesInv'
  <2>1. UNCHANGED phases
    BY <1>2
  <2>2. ASSUME NEW i \in 1 .. Len(rows'), rows'[i].phase = Scenario
        PROVE  /\ Len(phases) = Len(Planned)
               /\ rows'[i].elapsed - rows'[i].since = phases[Len(phases)].epoch
    <3>1. CASE i = Len(rows')
      BY <1>6, <1>8, <1>10, <1>11, <2>2, <3>1 DEF phase
    <3>2. CASE i # Len(rows')
      <4>1. i \in 1 .. Len(rows) /\ rows'[i] = rows[i]
        BY <1>8, <3>2
      <4> QED BY <1>1, <2>2, <4>1 DEF PhasesInv
    <3> QED BY <3>1, <3>2
  <2>3. Scenario' = Scenario
    BY DEF Scenario
  <2> QED BY <1>1, <2>1, <2>2, <2>3 DEF PhasesInv
<1>13. TimesInv'
  <2> SUFFICES ASSUME setbacks = 0 PROVE TimesInv'
    BY <1>2 DEF TimesInv
  <2>1. /\ taken.now = taken.tick /\ taken.tick <= clock
        /\ previous # None => previous.tick < taken.tick
        /\ previous # None => previous.tick <= clock
        /\ rows # <<>> => previous # None
        /\ \A i \in 1 .. Len(rows) : rows[i].elapsed <= previous.tick
        /\ \A i, j \in 1 .. Len(rows) : i < j => rows[i].elapsed < rows[j].elapsed
    BY <1>1, <1>3 DEF TimesInv
  <2>2. ASSUME NEW i \in 1 .. Len(rows)
        PROVE  rows[i].elapsed < taken.tick
    <3>1. rows # <<>> /\ previous # None
      BY <1>7, <2>1, <2>2
    <3>2. previous \in Reading
      BY <1>1, <3>1 DEF Types
    <3>3. rows[i] \in Row
      BY <1>7, <2>2
    <3>4. previous.tick \in Nat /\ rows[i].elapsed \in Int
      BY <3>2, <3>3 DEF Reading, Row
    <3> QED BY <1>10, <2>1, <3>1, <3>4
  <2>3. \A i \in 1 .. Len(rows') :
          i \in 1 .. Len(rows) \/ (i = Len(rows') /\ rows'[i].elapsed = taken.tick)
    BY <1>6, <1>8, <2>1
  <2>4. \A i \in 1 .. Len(rows) : rows'[i].elapsed = rows[i].elapsed /\ rows[i].elapsed \in Int
    <3>1. \A i \in 1 .. Len(rows) : rows[i] \in Row
      BY <1>7
    <3> QED BY <1>8, <3>1 DEF Row
  <2>5. \A i \in 1 .. Len(rows') : rows'[i].elapsed <= taken.tick
    BY <1>10, <2>2, <2>3, <2>4
  <2>6. \A i, j \in 1 .. Len(rows') : i < j => rows'[i].elapsed < rows'[j].elapsed
    <3> TAKE i, j \in 1 .. Len(rows')
    <3> HAVE i < j
    <3>1. i \in 1 .. Len(rows)
      BY <1>8
    <3>2. CASE j \in 1 .. Len(rows)
      BY <2>1, <2>4, <3>1, <3>2
    <3>3. CASE j = Len(rows') /\ rows'[j].elapsed = taken.tick
      BY <2>2, <2>4, <3>1, <3>3
    <3> QED BY <2>3, <3>2, <3>3
  <2> QED BY <1>2, <1>3, <2>1, <2>5, <2>6 DEF TimesInv
<1> QED BY <1>9, <1>12, <1>13 DEF CollectorInv

\* A phase is entered.
LEMMA InvEnterPhase ==
  ASSUME CollectorInv, EnterPhase
  PROVE  CollectorInv'
<1> DEFINE entered == [name |-> Planned[Len(phases) + 1], epoch |-> Now]
<1>1. /\ Types /\ PhasesInv /\ TimesInv
  BY DEF CollectorInv
<1>2. /\ Len(phases) < Len(Planned) /\ phases' = Append(phases, entered)
      /\ UNCHANGED <<clock, setbacks, collector, usage, taken, previous, rows>>
  BY DEF EnterPhase, loop, container
<1>3. Now \in Int
  BY <1>1, WallClock DEF Types
<1>4. phases \in Seq(Entered) /\ Len(phases) \in 1 .. Len(Planned)
  BY <1>1 DEF PhasesInv
<1>5. Len(phases) + 1 \in 1 .. Len(Planned)
  BY <1>2, <1>4, PlannedType
<1>6. Planned[Len(phases) + 1] \in STRING
  BY <1>5, PlannedType
<1>7. entered \in Entered /\ entered.name = Planned[Len(phases) + 1]
  BY <1>3, <1>6 DEF Entered
<1> HIDE DEF entered
<1>8. /\ phases' \in Seq(Entered) /\ Len(phases') = Len(phases) + 1
      /\ \A i \in 1 .. Len(phases) : phases'[i] = phases[i]
      /\ phases'[Len(phases) + 1] = entered
  BY <1>2, <1>4, <1>7
<1>9. \A i \in 1 .. Len(phases') : phases'[i].name = Planned[i]
  <2> TAKE i \in 1 .. Len(phases')
  <2>1. CASE i = Len(phases) + 1
    BY <1>7, <1>8, <2>1
  <2>2. CASE i # Len(phases) + 1
    <3>1. i \in 1 .. Len(phases)
      BY <1>4, <1>8, <2>2
    <3> QED BY <1>1, <1>8, <3>1 DEF PhasesInv
  <2> QED BY <2>1, <2>2
<1>10. \A i \in 1 .. Len(rows) : rows[i].phase # Scenario
  BY <1>1, <1>2, <1>4, PlannedType DEF PhasesInv
<1>11. PhasesInv'
  <2>1. Len(phases') \in 1 .. Len(Planned) /\ Scenario' = Scenario
    BY <1>5, <1>8 DEF Scenario
  <2> QED BY <1>2, <1>8, <1>9, <1>10, <2>1 DEF PhasesInv
<1>12. Types' /\ TimesInv'
  BY <1>1, <1>2 DEF Types, TimesInv
<1> QED BY <1>11, <1>12 DEF CollectorInv

LEMMA InvNext == CollectorInv /\ [Next]_vars => CollectorInv'
<1> SUFFICES ASSUME CollectorInv, [Next]_vars PROVE CollectorInv'
  OBVIOUS
<1>1. /\ Types /\ PhasesInv /\ TimesInv
  BY DEF CollectorInv
<1>2. ASSUME UNCHANGED <<clock, setbacks, phases, usage, taken, previous, rows>>,
             collector' = "filing" => collector = "filing"
      PROVE  CollectorInv'
  <2>1. Types' /\ PhasesInv' /\ TimesInv'
    BY <1>1, <1>2 DEF Types, PhasesInv, TimesInv, Scenario
  <2> QED BY <2>1 DEF CollectorInv
<1>3. CASE Advance
  <2>1. /\ clock' = clock + Tick
        /\ UNCHANGED <<setbacks, phases, collector, usage, taken, previous, rows>>
    BY <1>3 DEF Advance, loop, container
  <2>2. clock \in Nat /\ clock' \in Nat /\ clock' >= clock
    BY <1>1, <2>1, CollectorAssumption DEF Types
  <2>3. Types' /\ PhasesInv'
    BY <1>1, <2>1, <2>2 DEF Types, PhasesInv, Scenario
  <2>4. (taken # None => taken.tick \in Nat) /\ (previous # None => previous.tick \in Nat)
    BY <1>1 DEF Types, Reading
  <2>5. TimesInv'
    BY <1>1, <2>1, <2>2, <2>4 DEF TimesInv
  <2> QED BY <2>3, <2>5 DEF CollectorInv
<1>4. CASE SetBack
  <2>1. /\ setbacks' = setbacks + 1
        /\ UNCHANGED <<clock, phases, collector, usage, taken, previous, rows>>
    BY <1>4 DEF SetBack, loop, container
  <2>2. setbacks' \in Nat /\ setbacks' # 0
    BY <1>1, <2>1 DEF Types
  <2>3. Types' /\ PhasesInv' /\ TimesInv'
    BY <1>1, <2>1, <2>2 DEF Types, PhasesInv, TimesInv, Scenario
  <2> QED BY <2>3 DEF CollectorInv
<1>5. CASE EnterPhase
  BY <1>5, InvEnterPhase
<1>6. CASE RequestStop
  BY <1>2, <1>6 DEF RequestStop, loop, container
<1>7. CASE \E c \in Counters, w \in Work, lost \in BOOLEAN : Measure(c, w, lost)
  BY <1>7, InvMeasure
<1>8. CASE MeasureFails
  BY <1>2, <1>8 DEF MeasureFails, container
<1>9. CASE ShareFails
  BY <1>2, <1>9 DEF ShareFails, container
<1>10. CASE File
  BY <1>10, InvFile
<1>11. CASE UNCHANGED vars
  BY <1>2, <1>11 DEF vars, loop, container
<1> QED BY <1>3, <1>4, <1>5, <1>6, <1>7, <1>8, <1>9, <1>10, <1>11 DEF Next

LEMMA Invariant == Spec => []CollectorInv
<1> QED BY InvInit, InvNext, PTL DEF Spec

-----------------------------------------------------------------------------
(* Scrapes *)

\* A scrape is that of the first row with its time: of the only one.
LEMMA ScrapesOf == CollectorInv => ScrapesFiled
<1> SUFFICES ASSUME CollectorInv, setbacks = 0, NEW i \in DOMAIN rows
             PROVE  PhaseOfScrape(rows, ScrapeName(rows[i])) = <<rows[i].phase>>
  BY DEF ScrapesFiled
<1> DEFINE I == {j \in 1 .. Len(rows) : rows[j].elapsed = rows[i].elapsed}
<1>1. rows \in Seq(Row) /\ i \in 1 .. Len(rows) /\ Len(rows) \in Nat
  BY DEF CollectorInv, Types
<1>2. \A j, k \in 1 .. Len(rows) : j < k => rows[j].elapsed < rows[k].elapsed
  BY DEF CollectorInv, TimesInv
<1>3. \A j \in 1 .. Len(rows) : rows[j].elapsed \in Int
  <2>1. \A j \in 1 .. Len(rows) : rows[j] \in Row
    BY <1>1
  <2> QED BY <2>1 DEF Row
<1>4. I = {i}
  <2>1. ASSUME NEW j \in 1 .. Len(rows), rows[j].elapsed = rows[i].elapsed PROVE j = i
    BY <1>1, <1>2, <1>3, <2>1
  <2> QED BY <1>1, <2>1
<1>5. SelectInSeq(rows, LAMBDA r : r.elapsed = rows[i].elapsed) = IF I # {} THEN Min(I) ELSE 0
  BY DEF SelectInSeq
<1>6. Min({i}) = i
  <2>1. i <= i
    BY <1>1
  <2> QED BY <2>1 DEF Min
<1>7. SelectInSeq(rows, LAMBDA r : r.elapsed = rows[i].elapsed) = i
  BY <1>4, <1>5, <1>6
<1>8. i # 0
  BY <1>1
<1> QED BY <1>7, <1>8 DEF PhaseOfScrape, ScrapeName

\* While the clock is not set back, phase-report.py attributes every scrape to the
\* phase its row was filed under.
THEOREM ScrapesHavePhases == Spec => []ScrapesFiled
<1> QED BY Invariant, ScrapesOf, PTL

-----------------------------------------------------------------------------
(* The samples of an admitted run *)

\* Points of rows that all have the field.
LEMMA PointsIs ==
  ASSUME NEW r \in Seq(Row), NEW time \in {"elapsed", "since"}
  PROVE  Points(r, time, "used") = [i \in 1 .. Len(r) |-> <<r[i][time], r[i].used>>]
<1>1. \A i \in DOMAIN r : r[i] \in Row
  OBVIOUS
<1>2. \A i \in DOMAIN r : r[i]["used"] # Missing
  BY <1>1 DEF Row, Missing
<1>3. {i \in DOMAIN r : r[i]["used"] # Missing} = DOMAIN r
  BY <1>2
<1>4. At(r, {i \in DOMAIN r : r[i]["used"] # Missing}) = r
  BY <1>3, AtAll
<1>5. Points(r, time, "used") = [i \in DOMAIN r |-> <<r[i][time], r[i]["used"]>>]
  BY <1>4 DEF Points
<1> QED BY <1>5

\* The samples of the measured phase, timed from one moment.
LEMMA OwnIs ==
  ASSUME CollectorInv
  PROVE  /\ Own \in Seq(Row) /\ Len(Own) \in Nat
         /\ \E e \in Int : \A i \in 1 .. Len(Own) : Own[i].elapsed = Own[i].since + e
<1> DEFINE I == {i \in DOMAIN rows : rows[i].phase = Scenario}
<1>1. rows \in Seq(Row) /\ I \subseteq DOMAIN rows
  BY DEF CollectorInv, Types
<1>2. Own = At(rows, I)
  BY DEF Own, OfPhase
<1>3. \A i \in I : i \in 1 .. Len(rows) /\ rows[i].phase = Scenario /\ rows[i] \in Row
  BY <1>1
<1> HIDE DEF I
<1>4. /\ Own \in Seq(Row) /\ Len(Own) = Cardinality(I) /\ Cardinality(I) \in Nat
      /\ \A n \in 1 .. Cardinality(I) : \E i \in I : Own[n] = rows[i]
  BY <1>1, <1>2, AtIs
<1>5. CASE I = {}
  BY <1>4, <1>5, FS_EmptySet
<1>6. CASE I # {}
  <2> DEFINE e == phases[Len(phases)].epoch
  <2>1. e \in Int
    <3>1. phases \in Seq(Entered) /\ Len(phases) \in 1 .. Len(Planned) /\ Len(Planned) \in Nat
      BY PlannedType DEF CollectorInv, PhasesInv
    <3>2. Len(phases) \in DOMAIN phases
      BY <3>1
    <3>3. phases[Len(phases)] \in Entered
      BY <3>1, <3>2
    <3> QED BY <3>3 DEF Entered
  <2>2. \A i \in I : rows[i].elapsed - rows[i].since = e
    BY <1>3 DEF CollectorInv, PhasesInv
  <2>3. \A i \in I : rows[i].elapsed \in Int /\ rows[i].since \in Int
    BY <1>3 DEF Row
  <2> HIDE DEF e
  <2>4. \A i \in I : rows[i].elapsed = rows[i].since + e
    BY <2>1, <2>2, <2>3
  <2> QED BY <1>4, <2>1, <2>4
<1> QED BY <1>4, <1>5, <1>6

\* A largest number.
LEMMA GreatestBy ==
  ASSUME NEW n \in Nat \ {0}, NEW f \in [1 .. n -> Nat]
  PROVE  \E i \in 1 .. n : \A j \in 1 .. n : f[j] <= f[i]
<1> DEFINE Bounded(k) == \E i \in 1 .. k : \A j \in 1 .. k : f[j] <= f[i]
           B == {k \in 1 .. n : ~Bounded(k)}
<1> SUFFICES ASSUME ~Bounded(n) PROVE FALSE
  OBVIOUS
<1>1. B \subseteq Nat /\ n \in B
  OBVIOUS
<1>2. PICK k \in B : \A i \in B : k <= i
  <2> HIDE DEF B
  <2> QED BY <1>1, Least
<1>3. k \in 1 .. n /\ k \in Nat /\ ~Bounded(k)
  OBVIOUS
<1>4. k # 1
  <2>1. \A j \in 1 .. 1 : f[j] <= f[1]
    OBVIOUS
  <2>2. Bounded(1)
    BY <2>1
  <2> QED BY <1>3, <2>2
<1>5. k - 1 \in 1 .. n /\ k - 1 \notin B
  <2>1. k - 1 \in 1 .. n /\ ~(k <= k - 1)
    BY <1>3, <1>4
  <2> HIDE DEF B
  <2> QED BY <1>2, <2>1
<1>6. Bounded(k - 1)
  <2> HIDE DEF Bounded
  <2> QED BY <1>5
<1> HIDE DEF B
<1>7. PICK i \in 1 .. k - 1 : \A j \in 1 .. k - 1 : f[j] <= f[i]
  BY <1>6
<1> HIDE DEF Bounded
<1>8. k \in 1 .. n /\ k \in Nat
  BY <1>3
<1>9. ASSUME NEW j \in 1 .. k PROVE j \in 1 .. n /\ f[j] \in Nat
  <2>1. j \in 1 .. n
    BY <1>8
  <2> QED BY <2>1
<1>10. i \in 1 .. k /\ f[i] \in Nat /\ f[k] \in Nat
  <2>1. i \in 1 .. k /\ k \in 1 .. k
    BY <1>8
  <2> QED BY <1>9, <2>1
<1>11. \A j \in 1 .. k : j \in 1 .. k - 1 \/ j = k
  BY <1>8
<1>12. CASE f[k] <= f[i]
  <2>1. \A j \in 1 .. k : f[j] <= f[i]
    BY <1>7, <1>11, <1>12
  <2> QED BY <1>3, <1>10, <2>1 DEF Bounded
<1>13. CASE f[i] < f[k]
  <2>1. ASSUME NEW j \in 1 .. k PROVE f[j] <= f[k]
    <3>1. CASE j = k
      BY <1>10, <3>1
    <3>2. CASE j \in 1 .. k - 1
      <4>1. f[j] <= f[i] /\ f[j] \in Nat
        BY <1>7, <1>9, <3>2
      <4> QED BY <1>10, <1>13, <4>1
    <3> QED BY <1>11, <3>1, <3>2
  <2>2. k \in 1 .. k
    BY <1>3
  <2> QED BY <1>3, <2>1, <2>2 DEF Bounded
<1> QED BY <1>10, <1>12, <1>13

-----------------------------------------------------------------------------
(* The reports *)

\* The samples of an admitted run, as the two reports see them.
LEMMA AdmittedRun ==
  ASSUME CollectorInv, Taken
  PROVE  LET n == Len(Own)
             p == Compared(rows, Scenario)
         IN /\ n \in Nat /\ n >= 2
            /\ \A i \in 1 .. n : Own[i].since \in Int /\ Own[i].used \in Nat
            /\ p = [i \in 1 .. n |-> <<Own[i].since, Own[i].used>>]
            /\ p # <<>> /\ Len(p) = n /\ DOMAIN p = 1 .. n
            /\ Own[1].since <= Tolerance(Interval)
            /\ \A i \in 1 .. n - 1 :
                 Own[i].since <= Own[i + 1].since
                 /\ Own[i + 1].since - Own[i].since <= Tolerance(Interval)
<1> DEFINE n == Len(Own)
           p == Compared(rows, Scenario)
           t == [i \in DOMAIN Own |-> Own[i].since]
<1>1. Own \in Seq(Row) /\ n \in Nat /\ DOMAIN Own = 1 .. n
  BY OwnIs
<1>2. \A i \in 1 .. n : Own[i].since \in Int /\ Own[i].used \in Nat
  <2>1. \A i \in 1 .. n : Own[i] \in Row
    BY <1>1
  <2> QED BY <2>1 DEF Row
<1>3. /\ Len(t) >= 2 /\ t[1] <= Tolerance(Interval) /\ NoGaps(t, Interval)
  BY DEF Taken, Admissible, Covered, Own
<1>4. p = [i \in 1 .. n |-> <<Own[i].since, Own[i].used>>]
  <2>1. p = Points(Own, "since", "used")
    BY DEF Compared, Own
  <2>2. Points(Own, "since", "used") = [i \in 1 .. n |-> <<Own[i]["since"], Own[i].used>>]
    BY <1>1, PointsIs
  <2> QED BY <2>1, <2>2
<1>5. t \in [1 .. n -> Int]
  BY <1>1, <1>2
<1>6. t \in Seq(Int) /\ Len(t) = n
  BY <1>1, <1>5
<1>7. \A i \in 1 .. n : t[i] = Own[i].since
  BY <1>1
<1>8. n >= 2 /\ Own[1].since <= Tolerance(Interval)
  BY <1>1, <1>3, <1>6, <1>7
<1>9. Tolerance(Interval) \in Int
  BY CollectorAssumption DEF Tolerance, Greater
<1>10. ASSUME NEW i \in 1 .. n - 1
       PROVE  /\ Own[i].since <= Own[i + 1].since
              /\ Own[i + 1].since - Own[i].since <= Tolerance(Interval)
  <2>1. i \in 1 .. n /\ i + 1 \in 1 .. n
    BY <1>1
  <2>2. 0 <= t[i + 1] - t[i] /\ t[i + 1] - t[i] <= Tolerance(Interval)
    BY <1>3, <1>6 DEF NoGaps, Between
  <2> QED BY <1>2, <1>7, <2>1, <2>2
<1>11. p \in Seq(Int \X Nat) /\ Len(p) = n /\ DOMAIN p = 1 .. n
  <2>1. p \in [1 .. n -> Int \X Nat]
    BY <1>2, <1>4
  <2> QED BY <1>1, <2>1
<1>12. p # <<>>
  BY <1>8, <1>11
<1> HIDE DEF n, p, t
<1> QED BY <1>1, <1>2, <1>4, <1>8, <1>10, <1>11, <1>12 DEF n, p

\* The samples as the summary of the phase sees them.
LEMMA SummarisedRun ==
  ASSUME CollectorInv, Taken
  PROVE  LET n == Len(Own)
             q == Points(Own, "elapsed", "used")
         IN /\ q = [i \in 1 .. n |-> <<Own[i].elapsed, Own[i].used>>]
            /\ q # <<>> /\ Len(q) = n /\ DOMAIN q = 1 .. n
<1> DEFINE n == Len(Own)
           q == Points(Own, "elapsed", "used")
<1>1. n \in Nat /\ n >= 2
  BY AdmittedRun
<1>2. Own \in Seq(Row)
  BY OwnIs
<1>3. q = [i \in 1 .. n |-> <<Own[i].elapsed, Own[i].used>>]
  <2>1. q = [i \in 1 .. n |-> <<Own[i]["elapsed"], Own[i].used>>]
    BY <1>2, PointsIs
  <2> QED BY <2>1
<1>4. \A i \in 1 .. n : Own[i].elapsed \in Int /\ Own[i].used \in Nat
  <2>1. \A i \in 1 .. n : Own[i] \in Row
    BY <1>1, <1>2
  <2> QED BY <2>1 DEF Row
<1>5. q \in [1 .. n -> Int \X Nat]
  BY <1>3, <1>4
<1> HIDE DEF n, q
<1>6. q \in Seq(Int \X Nat) /\ Len(q) = n /\ DOMAIN q = 1 .. n
  BY <1>1, <1>5
<1>7. q # <<>>
  BY <1>1, <1>6
<1> QED BY <1>3, <1>6, <1>7 DEF n, q

\* The averages are of the same area and the same time.
LEMMA SameAverage ==
  ASSUME CollectorInv, Taken, Whole.mean # None
  PROVE  LET p == Compared(rows, Scenario)
         IN Whole.mean[1] * MemoryAverage(p)[2] = MemoryAverage(p)[1] * Whole.mean[2]
<1> DEFINE n == Len(Own)
           p == Compared(rows, Scenario)
           q == Points(Own, "elapsed", "used")
<1>1. /\ n \in Nat /\ n >= 2
      /\ \A i \in 1 .. n : Own[i].since \in Int /\ Own[i].used \in Nat
      /\ p = [i \in 1 .. n |-> <<Own[i].since, Own[i].used>>]
      /\ p # <<>> /\ Len(p) = n
      /\ \A i \in 1 .. n - 1 : Own[i].since <= Own[i + 1].since
  BY AdmittedRun
<1>2. PICK e \in Int : \A i \in 1 .. n : Own[i].elapsed = Own[i].since + e
  BY OwnIs
<1>3. /\ q = [i \in 1 .. n |-> <<Own[i].elapsed, Own[i].used>>]
      /\ q # <<>> /\ Len(q) = n
  BY SummarisedRun
<1> DEFINE since == [i \in 1 .. n |-> Own[i].since]
<1>4. Own[1].since <= Own[n].since
  <2>1. since \in [1 .. n -> Int]
    BY <1>1
  <2>2. \A i \in 1 .. n - 1 : since[i] <= since[i + 1]
    <3> TAKE i \in 1 .. n - 1
    <3>1. i \in 1 .. n /\ i + 1 \in 1 .. n
      BY <1>1
    <3> QED BY <1>1, <3>1
  <2>3. n \in 1 .. n /\ 1 \in 1 .. n /\ 1 <= n
    BY <1>1
  <2> HIDE DEF since, n
  <2>4. since[1] <= since[n]
    BY <1>1, <2>1, <2>2, <2>3, Ascending
  <2> QED BY <2>3, <2>4 DEF since
<1> HIDE DEF n, p, q, since
<1>5. 1 \in 1 .. n /\ n \in 1 .. n
  BY <1>1
<1>6. /\ p[n][1] - p[1][1] = Own[n].since - Own[1].since
      /\ q[n][1] - q[1][1] = Own[n].since - Own[1].since
  <2>1. q[n][1] = Own[n].since + e /\ q[1][1] = Own[1].since + e
    BY <1>2, <1>3, <1>5
  <2> QED BY <1>1, <1>2, <1>5, <2>1
<1>7. Span(p) = Span(q) /\ Span(q) \in Nat
  <2>1. Span(p) = p[n][1] - p[1][1] /\ Span(q) = q[n][1] - q[1][1]
    BY <1>1, <1>3 DEF Span, Last
  <2> QED BY <1>1, <1>4, <1>5, <1>6, <2>1
<1>8. Area(p) = Area(q)
  <2>1. ASSUME NEW i \in 1 .. n - 1
        PROVE  (p[i + 1][1] - p[i][1]) * (p[i][2] + p[i + 1][2])
                 = (q[i + 1][1] - q[i][1]) * (q[i][2] + q[i + 1][2])
    <3>1. i \in 1 .. n /\ i + 1 \in 1 .. n
      BY <1>1
    <3>2. /\ p[i] = <<Own[i].since, Own[i].used>>
          /\ p[i + 1] = <<Own[i + 1].since, Own[i + 1].used>>
          /\ q[i] = <<Own[i].since + e, Own[i].used>>
          /\ q[i + 1] = <<Own[i + 1].since + e, Own[i + 1].used>>
      BY <1>1, <1>2, <1>3, <3>1
    <3>3. p[i + 1][1] - p[i][1] = q[i + 1][1] - q[i][1]
      BY <1>1, <1>2, <3>1, <3>2
    <3> QED BY <3>2, <3>3
  <2>2. [i \in 1 .. n - 1 |-> (p[i + 1][1] - p[i][1]) * (p[i][2] + p[i + 1][2])]
          = [i \in 1 .. n - 1 |-> (q[i + 1][1] - q[i][1]) * (q[i][2] + q[i + 1][2])]
    BY <2>1
  <2> QED BY <1>1, <1>3, <2>2 DEF Area
<1>9. Whole.mean = WeightedMean(q)
  BY DEF Whole, PhaseReport, Summary, Own, q
<1>10. Span(q) # 0
  BY <1>9 DEF WeightedMean
<1>11. Whole.mean = <<Area(q), 2 * Span(q)>>
  BY <1>7, <1>9, <1>10 DEF WeightedMean, Quotient
<1>12. MemoryAverage(p) = <<Area(q), 2 * Span(q)>>
  BY <1>1, <1>7, <1>8, <1>10 DEF MemoryAverage
<1> QED BY <1>11, <1>12 DEF p

\* The peaks are the largest of the same values, and none of the curve exceeds them.
LEMMA SamePeak ==
  ASSUME CollectorInv, Taken
  PROVE  LET p == Compared(rows, Scenario)
             drawn == Drawn(rows, Scenario)
         IN /\ MemoryPeak(p) = Whole.max
            /\ \A i \in DOMAIN drawn : AtMost(<<drawn[i][2], 1>>, MemoryPeak(p))
<1> DEFINE n == Len(Own)
           p == Compared(rows, Scenario)
           q == Points(Own, "elapsed", "used")
           drawn == Drawn(rows, Scenario)
           values == {p[i][2] : i \in DOMAIN p}
           K == {i \in DOMAIN p : p[i][1] >= 0}
<1>1. /\ n \in Nat /\ n >= 2
      /\ \A i \in 1 .. n : Own[i].since \in Int /\ Own[i].used \in Nat
      /\ p = [i \in 1 .. n |-> <<Own[i].since, Own[i].used>>]
      /\ p # <<>> /\ DOMAIN p = 1 .. n
  BY AdmittedRun
<1>2. /\ q = [i \in 1 .. n |-> <<Own[i].elapsed, Own[i].used>>]
      /\ q # <<>> /\ DOMAIN q = 1 .. n
  BY SummarisedRun
<1>3. Whole.max = IF q = <<>> THEN None ELSE <<Max({q[i][2] : i \in DOMAIN q}), 1>>
  BY DEF Whole, PhaseReport, Summary, Own
<1>4. p \in Seq(Int \X Nat)
  <2>1. p \in [1 .. n -> Int \X Nat]
    BY <1>1
  <2> QED BY <1>1, <2>1
<1>5. drawn = At(p, K) /\ K \subseteq DOMAIN p
  BY DEF Drawn
<1> HIDE DEF n, p, q, drawn, K
<1>6. \A i \in 1 .. n : q[i][2] = p[i][2] /\ p[i][2] = Own[i].used
  BY <1>1, <1>2
<1>7. {q[i][2] : i \in DOMAIN q} = values
  BY <1>1, <1>2, <1>6
<1>8. MemoryPeak(p) = <<Max(values), 1>>
  BY <1>1 DEF MemoryPeak
<1>9. Whole.max = <<Max(values), 1>>
  BY <1>2, <1>3, <1>7
<1>10. values \subseteq Nat /\ \E x \in values : \A y \in values : x >= y
  <2> DEFINE f == [i \in 1 .. n |-> p[i][2]]
  <2>1. f \in [1 .. n -> Nat]
    BY <1>1, <1>6
  <2>2. n \in Nat \ {0}
    BY <1>1
  <2>3. PICK i \in 1 .. n : \A j \in 1 .. n : f[j] <= f[i]
    <3> HIDE DEF f
    <3> QED BY <2>1, <2>2, GreatestBy
  <2>4. \A j \in 1 .. n : f[j] = p[j][2] /\ f[j] \in Nat
    BY <2>1
  <2> HIDE DEF f
  <2>5. \A y \in values : y \in Nat /\ p[i][2] >= y
    BY <1>1, <2>3, <2>4
  <2>6. p[i][2] \in values
    BY <1>1
  <2> QED BY <2>5, <2>6
<1> HIDE DEF values
<1>11. Max(values) \in values /\ \A y \in values : Max(values) >= y
  BY <1>10 DEF Max
<1>12. ASSUME NEW i \in DOMAIN drawn PROVE AtMost(<<drawn[i][2], 1>>, MemoryPeak(p))
  <2>0. /\ DOMAIN At(p, K) = 1 .. Cardinality(K)
        /\ \A m \in 1 .. Cardinality(K) : \E k \in K : At(p, K)[m] = p[k]
    <3> DEFINE Point == Int \X Nat
    <3> HIDE DEF Point
    <3>1. p \in Seq(Point)
      BY <1>4 DEF Point
    <3> QED BY <1>5, <3>1, AtIs
  <2>1. PICK k \in K : drawn[i] = p[k]
    BY <1>5, <2>0
  <2>2. drawn[i][2] \in values
    BY <1>5, <2>1 DEF values
  <2>3. drawn[i][2] \in Nat /\ Max(values) \in Nat /\ drawn[i][2] <= Max(values)
    BY <1>10, <1>11, <2>2
  <2> QED BY <1>8, <2>3 DEF AtMost
<1> QED BY <1>8, <1>9, <1>12 DEF p, drawn

LEMMA ReportsOf == CollectorInv => ReportsAgree
<1> SUFFICES ASSUME CollectorInv, Taken
             PROVE  LET p == Compared(rows, Scenario)
                        drawn == Drawn(rows, Scenario)
                    IN /\ Whole.mean # None =>
                            Whole.mean[1] * MemoryAverage(p)[2]
                              = MemoryAverage(p)[1] * Whole.mean[2]
                       /\ MemoryPeak(p) = Whole.max
                       /\ \A i \in DOMAIN drawn : AtMost(<<drawn[i][2], 1>>, MemoryPeak(p))
  BY DEF ReportsAgree
<1> QED BY SameAverage, SamePeak

\* The average and the peak of compare-results.py are those of phase-report.py, though
\* the one times the samples from the beginning of the phase and the other from that
\* of the observation, and the curve of chart_report.py never exceeds the peak.
THEOREM TheReportsAgree == Spec => []ReportsAgree
<1> QED BY Invariant, ReportsOf, PTL

-----------------------------------------------------------------------------
(* The minutes of the comparison *)

\* Around a time the samples reach there is a close one: if the first one is later
\* it is by less than an interval more than the validator tolerates, and otherwise
\* the time lies in a gap that is not too wide.
LEMMA CloseSample ==
  ASSUME Interval <= 300,
         NEW n \in Nat \ {0}, NEW t \in [1 .. n -> Int],
         t[1] <= Tolerance(Interval),
         \A i \in 1 .. n - 1 : t[i + 1] - t[i] <= Tolerance(Interval),
         NEW target \in Nat, target >= 300, \E i \in 1 .. n : t[i] >= target
  PROVE  \E i \in 1 .. n : Distance(t[i], target) <= CloseEnough(Interval)
<1> DEFINE S == {i \in 1 .. n : t[i] >= target}
<1>1. S \subseteq Nat /\ S # {}
  <2>1. S \subseteq 1 .. n /\ 1 .. n \subseteq Nat
    OBVIOUS
  <2>2. \E i \in 1 .. n : i \in S
    OBVIOUS
  <2> HIDE DEF S
  <2> QED BY <2>1, <2>2
<1>2. PICK m \in S : \A i \in S : m <= i
  <2> HIDE DEF S
  <2> QED BY <1>1, Least
<1>3. m \in 1 .. n /\ t[m] >= target /\ t[m] \in Int
  OBVIOUS
<1>4. Interval \in Nat \ {0}
  BY CollectorAssumption
<1>5. /\ Tolerance(Interval) = 3 * Interval
      /\ CloseEnough(Interval) \in Int
      /\ CloseEnough(Interval) >= 2 * Interval /\ CloseEnough(Interval) >= 5
  BY <1>4 DEF Tolerance, CloseEnough, Greater
<1>6. Distance(t[m], target) = t[m] - target
  BY <1>3 DEF Distance
<1>7. CASE m = 1
  <2>1. t[m] - target <= 2 * Interval
    BY <1>3, <1>4, <1>5, <1>7
  <2> QED BY <1>3, <1>4, <1>5, <1>6, <2>1
<1>8. CASE m # 1
  <2>1. m - 1 \in 1 .. n /\ m - 1 \in 1 .. n - 1 /\ (m - 1) + 1 = m /\ ~(m <= m - 1)
    BY <1>3, <1>8
  <2>2. m - 1 \notin S
    <3> HIDE DEF S
    <3> QED BY <1>2, <2>1
  <2>3. t[m - 1] \in Int /\ t[m - 1] < target
    BY <2>1, <2>2
  <2> HIDE DEF S
  <2>4. t[(m - 1) + 1] - t[m - 1] <= Tolerance(Interval)
    BY <2>1
  <2>5. t[m] - t[m - 1] <= 3 * Interval
    BY <1>5, <2>1, <2>4
  <2>6. Distance(t[m - 1], target) = target - t[m - 1]
    BY <2>3 DEF Distance
  <2>7. t[m] - target <= 2 * Interval \/ target - t[m - 1] <= 2 * Interval
    BY <1>3, <1>4, <2>3, <2>5
  <2> QED BY <1>3, <1>4, <1>5, <1>6, <2>1, <2>3, <2>6, <2>7
<1> QED BY <1>7, <1>8

\* The closest sample is one no other is closer than, if there is such a one.
LEMMA ClosestIs ==
  ASSUME NEW p, NEW target,
         \E i \in DOMAIN p : \A j \in DOMAIN p :
           Distance(p[i][1], target) <= Distance(p[j][1], target)
  PROVE  /\ Closest(p, target) \in DOMAIN p
         /\ \A j \in DOMAIN p :
              Distance(p[Closest(p, target)][1], target) <= Distance(p[j][1], target)
<1> QED BY Zenon DEF Closest

\* Of points without wide gaps.
LEMMA MinuteOf ==
  ASSUME Interval <= 300,
         NEW n \in Nat \ {0}, NEW p, DOMAIN p = 1 .. n, \A i \in 1 .. n : p[i][1] \in Int,
         p[1][1] <= Tolerance(Interval),
         \A i \in 1 .. n - 1 : p[i + 1][1] - p[i][1] <= Tolerance(Interval),
         NEW target \in Nat, target >= 300, \E i \in DOMAIN p : p[i][1] >= target
  PROVE  /\ MemoryAt(p, Interval, target) # None
         /\ \E i \in DOMAIN p :
              /\ MemoryAt(p, Interval, target) = <<p[i][2], 1>>
              /\ \A j \in DOMAIN p : Distance(p[i][1], target) <= Distance(p[j][1], target)
<1> DEFINE t == [i \in 1 .. n |-> p[i][1]]
           c == Closest(p, target)
<1>1. t \in [1 .. n -> Int] /\ \A i \in 1 .. n : t[i] = p[i][1]
  OBVIOUS
<1>2. \A i \in 1 .. n - 1 : t[i + 1] - t[i] <= Tolerance(Interval)
  <2> TAKE i \in 1 .. n - 1
  <2>1. i \in 1 .. n /\ i + 1 \in 1 .. n
    OBVIOUS
  <2> QED BY <1>1, <2>1
<1>3. t[1] <= Tolerance(Interval)
  BY <1>1
<1>4. \E i \in 1 .. n : t[i] >= target
  BY <1>1
<1> HIDE DEF t
<1>5. PICK k \in 1 .. n : Distance(t[k], target) <= CloseEnough(Interval)
  BY <1>1, <1>2, <1>3, <1>4, CloseSample
<1>6. \A i \in 1 .. n : Distance(t[i], target) \in Nat
  BY <1>1 DEF Distance
<1>7. PICK i \in 1 .. n : \A j \in 1 .. n : Distance(t[i], target) <= Distance(t[j], target)
  <2> DEFINE f == [i \in 1 .. n |-> Distance(t[i], target)]
             D == 1 .. n
  <2>1. f \in [D -> Nat] /\ D # {}
    BY <1>6
  <2>2. \A i \in D : f[i] = Distance(t[i], target)
    OBVIOUS
  <2> HIDE DEF f, D
  <2>3. \E i \in D : \A j \in D : f[i] <= f[j]
    BY <2>1, LeastBy
  <2> QED BY <2>2, <2>3 DEF D
<1>8. \A j \in DOMAIN p : Distance(p[i][1], target) <= Distance(p[j][1], target)
  BY <1>1, <1>7
<1>9. /\ c \in DOMAIN p
      /\ \A j \in DOMAIN p : Distance(p[c][1], target) <= Distance(p[j][1], target)
  BY <1>8, ClosestIs
<1> HIDE DEF c
<1>10. Distance(p[c][1], target) <= CloseEnough(Interval)
  <2>1. CloseEnough(Interval) \in Int
    BY CollectorAssumption DEF CloseEnough, Greater
  <2>2. c \in 1 .. n /\ p[c][1] = t[c] /\ p[k][1] = t[k]
    BY <1>1, <1>9
  <2>3. Distance(t[c], target) <= Distance(t[k], target)
    BY <1>9, <2>2
  <2>4. Distance(t[c], target) \in Nat /\ Distance(t[k], target) \in Nat
    BY <1>6, <2>2
  <2> QED BY <1>5, <2>1, <2>2, <2>3, <2>4
<1>11. ~ \A j \in DOMAIN p : p[j][1] < target
  <2>1. PICK j \in DOMAIN p : p[j][1] >= target
    OBVIOUS
  <2>2. ~(p[j][1] < target)
    BY <2>1
  <2> QED BY <2>2
<1>12. MemoryAt(p, Interval, target) = <<p[c][2], 1>>
  BY <1>10, <1>11 DEF MemoryAt, c
<1>13. <<p[c][2], 1>> # None
  BY DEF None
<1> QED BY <1>9, <1>12, <1>13

LEMMA MinutesOf ==
  ASSUME Interval <= 300
  PROVE  CollectorInv => MinuteReadings
<1> SUFFICES ASSUME CollectorInv, Taken,
                    NEW p, p = Compared(rows, Scenario),
                    NEW target \in Nat, target >= 300, \E i \in DOMAIN p : p[i][1] >= target
             PROVE  /\ MemoryAt(p, Interval, target) # None
                    /\ \E i \in DOMAIN p :
                         /\ MemoryAt(p, Interval, target) = <<p[i][2], 1>>
                         /\ \A j \in DOMAIN p :
                              Distance(p[i][1], target) <= Distance(p[j][1], target)
  BY DEF MinuteReadings
<1>1. PICK n \in Nat : n = Len(Own)
  BY OwnIs
<1>2. /\ n >= 2
      /\ \A i \in 1 .. n : Own[i].since \in Int /\ Own[i].used \in Nat
      /\ p = [i \in 1 .. n |-> <<Own[i].since, Own[i].used>>]
      /\ DOMAIN p = 1 .. n
      /\ Own[1].since <= Tolerance(Interval)
      /\ \A i \in 1 .. n - 1 : Own[i + 1].since - Own[i].since <= Tolerance(Interval)
  BY <1>1, AdmittedRun
<1>3. \A i \in 1 .. n : p[i][1] = Own[i].since /\ p[i][1] \in Int
  BY <1>2
<1>4. p[1][1] <= Tolerance(Interval) /\ n \in Nat \ {0}
  BY <1>2, <1>3
<1>5. ASSUME NEW i \in 1 .. n - 1
      PROVE  p[i + 1][1] - p[i][1] <= Tolerance(Interval)
  <2>1. i \in 1 .. n /\ i + 1 \in 1 .. n
    OBVIOUS
  <2>2. p[i][1] = Own[i].since /\ p[i + 1][1] = Own[i + 1].since
    BY <1>3, <2>1
  <2> QED BY <1>2, <2>2
<1>6. DOMAIN p = 1 .. n /\ \A i \in 1 .. n : p[i][1] \in Int
  BY <1>2, <1>3
<1> QED BY <1>4, <1>5, <1>6, MinuteOf

\* With an interval of at most five minutes, an admitted run that was
\* sampled up to a minute of the comparison has a reading there, of a sample no other
\* one is closer than.  (With a longer interval the first sample the validator admits
\* may be too late for minute five.)
THEOREM MinutesAreRead ==
  ASSUME Interval <= 300
  PROVE  Spec => []MinuteReadings
<1> QED BY Invariant, MinutesOf, PTL

-----------------------------------------------------------------------------
(* Trends *)

\* Of points that rise in both directions the trend does not fall.
LEMMA RisingSlope ==
  ASSUME NEW n \in Nat, NEW p \in Seq(Int \X Int), Len(p) = n,
         \A i, j \in 1 .. n : i <= j => p[i][1] <= p[j][1] /\ p[i][2] <= p[j][2]
  PROVE  LinearSlope(p) # None => LinearSlope(p)[1] >= 0
<1> DEFINE x == [i \in 1 .. n |-> p[i][1] - p[1][1]]
           y == [i \in 1 .. n |-> p[i][2]]
           xx == [i \in 1 .. n |-> x[i] * x[i]]
           xy == [i \in 1 .. n |-> x[i] * y[i]]
           d == n * Total(xx) - Total(x) * Total(x)
           e == n * Total(xy) - Total(x) * Total(y)
<1>0. n \in Nat
  OBVIOUS
<1>1. \A i \in 1 .. n : p[i][1] \in Int /\ p[i][2] \in Int /\ p[1][1] \in Int
  <2> TAKE i \in 1 .. n
  <2>1. i \in DOMAIN p /\ 1 \in DOMAIN p
    OBVIOUS
  <2> QED BY <2>1
<1>2. x \in [1 .. n -> Int] /\ y \in [1 .. n -> Int]
  BY <1>1
<1>3. \A i, j \in 1 .. n : i <= j => x[i] <= x[j] /\ y[i] <= y[j]
  BY <1>1
<1>4. /\ xx \in [1 .. n -> Int] /\ \A i \in 1 .. n : xx[i] = x[i] * x[i]
      /\ xy \in [1 .. n -> Int] /\ \A i \in 1 .. n : xy[i] = x[i] * y[i]
  <2> HIDE DEF x, y
  <2>1. \A i \in 1 .. n : x[i] * x[i] \in Int /\ x[i] * y[i] \in Int
    BY <1>2
  <2> QED BY <2>1
<1>5. /\ Total(x) \in Int /\ Total(xx) \in Int /\ Total(x) * Total(x) <= n * Total(xx)
      /\ Total(y) \in Int /\ Total(xy) \in Int /\ Total(x) * Total(y) <= n * Total(xy)
  <2> HIDE DEF x, y, xx, xy, d, e
  <2>1. \A i, j \in 1 .. n : i <= j => x[i] <= x[j] /\ x[i] <= x[j]
    BY <1>3
  <2>2. /\ Total(x) \in Int /\ Total(xx) \in Int /\ Total(x) * Total(x) <= n * Total(xx)
    BY ONLY <1>0, <1>2, <1>4, <2>1, SameOrder
  <2>3. /\ Total(x) \in Int /\ Total(y) \in Int /\ Total(xy) \in Int
        /\ Total(x) * Total(y) <= n * Total(xy)
    <3>1. xy \in [1 .. n -> Int] /\ \A i \in 1 .. n : xy[i] = x[i] * y[i]
      BY <1>4
    <3> QED BY ONLY <1>0, <1>2, <1>3, <3>1, SameOrder
  <2> QED BY <2>2, <2>3
<1>6. LinearSlope(p) = IF n < 2 \/ d = 0 THEN None ELSE Quotient(e, d)
  BY Zenon DEF LinearSlope
<1> DEFINE sx == Total(x)
           sy == Total(y)
           sxx == Total(xx)
           sxy == Total(xy)
<1> HIDE DEF x, y, xx, xy
<1>7. d \in Nat /\ e \in Nat
  <2>1. sx \in Int /\ sy \in Int /\ sxx \in Int /\ sxy \in Int
    BY <1>5
  <2>2. sx * sx <= n * sxx /\ sx * sy <= n * sxy
    BY <1>5
  <2> HIDE DEF sx, sy, sxx, sxy
  <2>3. n * sxx - sx * sx \in Nat /\ n * sxy - sx * sy \in Nat
    <3> DEFINE a == n * sxx
               b == sx * sx
               c == n * sxy
               f == sx * sy
    <3>1. a \in Int /\ b \in Int /\ c \in Int /\ f \in Int /\ b <= a /\ f <= c
      BY <2>1, <2>2
    <3> HIDE DEF a, b, c, f
    <3>2. a - b \in Nat /\ c - f \in Nat
      BY <3>1
    <3> QED BY <3>2 DEF a, b, c, f
  <2> QED BY <2>3 DEF sx, sy, sxx, sxy
<1> HIDE DEF d, e
<1> QED BY <1>6, <1>7 DEF Quotient

-----------------------------------------------------------------------------
(* Means *)

\* The arithmetic of one more trapezoid.
LEMMA MoreArea ==
  ASSUME NEW F \in Int, NEW lo \in Int, NEW hi \in Int, NEW e \in Int, NEW d \in Nat,
         NEW u \in Int, NEW v \in Int, lo <= u, lo <= v, u <= hi, v <= hi,
         lo * (2 * e) <= F, F <= hi * (2 * e)
  PROVE  /\ lo * (2 * (e + d)) <= F + d * (u + v)
         /\ F + d * (u + v) <= hi * (2 * (e + d))
<1> DEFINE below == d * ((u + v) - 2 * lo)
           above == d * (2 * hi - (u + v))
           l == lo * (2 * e)
           h == hi * (2 * e)
<1>1. 0 <= below /\ 0 <= above /\ below \in Int /\ above \in Int
  <2>1. (u + v) - 2 * lo \in Nat /\ 2 * hi - (u + v) \in Nat
    OBVIOUS
  <2> QED BY <2>1, ProductSign
<1>2. /\ (F + d * (u + v)) - lo * (2 * (e + d)) = (F - l) + below
      /\ hi * (2 * (e + d)) - (F + d * (u + v)) = (h - F) + above
  OBVIOUS
<1>3. l \in Int /\ h \in Int /\ l <= F /\ F <= h
  OBVIOUS
<1> DEFINE a == F + d * (u + v)
           ll == lo * (2 * (e + d))
           hh == hi * (2 * (e + d))
<1>4. a \in Int /\ ll \in Int /\ hh \in Int /\ a - ll = (F - l) + below /\ hh - a = (h - F) + above
  BY <1>2
<1> HIDE DEF below, above, l, h, a, ll, hh
<1>5. ll <= a /\ a <= hh
  BY <1>1, <1>3, <1>4
<1> QED BY <1>5 DEF ll, a, hh

\* The area below points between two heights.
LEMMA AreaBetween ==
  ASSUME NEW n \in Nat \ {0}, NEW p \in Seq(Int \X Nat), Len(p) = n,
         \A i \in 1 .. n - 1 : p[i][1] <= p[i + 1][1],
         NEW lo \in Int, NEW hi \in Int, \A i \in 1 .. n : lo <= p[i][2] /\ p[i][2] <= hi
  PROVE  /\ Area(p) \in Int /\ Span(p) \in Nat
         /\ lo * (2 * Span(p)) <= Area(p) /\ Area(p) <= hi * (2 * Span(p))
<1> DEFINE f == [i \in 1 .. n - 1 |-> (p[i + 1][1] - p[i][1]) * (p[i][2] + p[i + 1][2])]
           F == Sums(f)
           t == [i \in 1 .. n |-> p[i][1]]
           S == {k \in 0 .. n - 1 : /\ lo * (2 * (t[k + 1] - t[1])) <= F[k]
                                    /\ F[k] <= hi * (2 * (t[k + 1] - t[1]))}
<1>0. n \in Nat
  OBVIOUS
<1>1. \A i \in 1 .. n : p[i][1] \in Int /\ p[i][2] \in Nat
  <2> TAKE i \in 1 .. n
  <2>1. i \in DOMAIN p
    OBVIOUS
  <2> QED BY <2>1
<1>2. f \in Seq(Int) /\ Len(f) = n - 1
  <2>1. \A i \in 1 .. n - 1 : (p[i + 1][1] - p[i][1]) * (p[i][2] + p[i + 1][2]) \in Int
    <3> TAKE i \in 1 .. n - 1
    <3> DEFINE d == p[i + 1][1] - p[i][1]
               u == p[i][2] + p[i + 1][2]
    <3>1. i \in 1 .. n /\ i + 1 \in 1 .. n
      BY <1>0, Neighbours
    <3>2. d \in Int /\ u \in Int
      BY <1>1, <3>1
    <3> HIDE DEF d, u
    <3>3. d * u \in Int
      BY <3>2
    <3> QED BY <3>3 DEF d, u
  <2>2. f \in [1 .. n - 1 -> Int] /\ n - 1 \in Nat
    BY <2>1
  <2> HIDE DEF f
  <2> QED BY <2>2
<1>3. /\ F \in [0 .. n - 1 -> Int] /\ F[0] = 0
      /\ \A k \in 0 .. (n - 1) - 1 : F[k + 1] = F[k] + f[k + 1]
      /\ Area(p) = F[n - 1]
  <2>1. Area(p) = Total(f)
    BY DEF Area
  <2> HIDE DEF f
  <2> QED BY <1>2, <2>1, SumsIs
<1>4. t \in [1 .. n -> Int] /\ \A i \in 1 .. n : t[i] = p[i][1]
  BY <1>1
<1>5. \A i \in 1 .. n - 1 :
        f[i] = (t[i + 1] - t[i]) * (p[i][2] + p[i + 1][2]) /\ t[i + 1] - t[i] \in Nat
  <2> TAKE i \in 1 .. n - 1
  <2>1. i \in 1 .. n /\ i + 1 \in 1 .. n
    BY <1>0, Neighbours
  <2> QED BY <1>1, <2>1
<1> HIDE DEF f, F, t
<1>6. 0 \in S
  <2>1. t[0 + 1] - t[1] = 0 /\ 0 \in 0 .. n - 1
    BY <1>4
  <2> QED BY <1>3, <2>1
<1>7. ASSUME NEW k \in 0 .. (n - 1) - 1, k \in S PROVE k + 1 \in S
  <2> DEFINE e == t[k + 1] - t[1]
             d == t[(k + 1) + 1] - t[k + 1]
             u == p[k + 1][2]
             v == p[(k + 1) + 1][2]
  <2>1. k + 1 \in 1 .. n - 1 /\ k + 1 \in 1 .. n /\ (k + 1) + 1 \in 1 .. n /\ 1 \in 1 .. n
        /\ k \in 0 .. n - 1 /\ k + 1 \in 0 .. n - 1
    OBVIOUS
  <2>2. e \in Int /\ d \in Nat /\ u \in Int /\ v \in Int /\ F[k] \in Int
    <3>1. e \in Int /\ F[k] \in Int
      <4>1. t[k + 1] \in Int /\ t[1] \in Int
        BY <1>4, <2>1
      <4> HIDE DEF S
      <4>2. F[k] \in Int
        BY <1>3, <2>1
      <4>3. e \in Int
        BY <4>1
      <4> QED BY <4>2, <4>3
    <3>2. d \in Nat
      BY <1>5, <2>1
    <3>3. u \in Int /\ v \in Int
      BY <1>1, <2>1
    <3> QED BY <3>1, <3>2, <3>3
  <2>3. lo <= u /\ u <= hi /\ lo <= v /\ v <= hi
    BY <2>1
  <2>4. F[k + 1] = F[k] + d * (u + v)
    BY <1>3, <1>5, <2>1
  <2>5. t[(k + 1) + 1] - t[1] = e + d
    BY <1>4, <2>1
  <2>6. lo * (2 * e) <= F[k] /\ F[k] <= hi * (2 * e)
    BY <1>7
  <2> HIDE DEF e, d, u, v, S
  <2>7. /\ lo * (2 * (e + d)) <= F[k] + d * (u + v)
        /\ F[k] + d * (u + v) <= hi * (2 * (e + d))
    BY <2>2, <2>3, <2>6, MoreArea
  <2> QED BY <2>1, <2>4, <2>5, <2>7 DEF S
<1>8. n - 1 \in S /\ n - 1 \in Nat
  <2>1. n - 1 \in Nat /\ n - 1 \in 0 .. n - 1
    OBVIOUS
  <2>2. 0 .. n - 1 \subseteq S
    <3> HIDE DEF S
    <3> QED BY <1>6, <1>7, <2>1, UpwardsTo
  <2> QED BY <2>1, <2>2
<1>9. Span(p) = t[n] - t[1] /\ (n - 1) + 1 = n
  <2>1. p # <<>> /\ 1 \in 1 .. n /\ n \in 1 .. n
    OBVIOUS
  <2> QED BY <1>4, <2>1 DEF Span, Last
<1>10. t[1] <= t[n] /\ t[1] \in Int /\ t[n] \in Int
  <2>1. \A i \in 1 .. n - 1 : t[i] <= t[i + 1]
    <3> TAKE i \in 1 .. n - 1
    <3>1. i \in 1 .. n /\ i + 1 \in 1 .. n
      BY <1>0, Neighbours
    <3> QED BY <1>4, <3>1
  <2>2. 1 \in 1 .. n /\ n \in 1 .. n /\ n \in Nat /\ 1 <= n
    OBVIOUS
  <2>3. \A i, j \in 1 .. n : i <= j => t[i] <= t[j]
    BY <1>4, <2>1, <2>2, Ascending
  <2> QED BY <1>4, <2>2, <2>3
<1>11. F[n - 1] \in Int
  BY <1>3, <1>8
<1> QED BY <1>3, <1>8, <1>9, <1>10, <1>11

-----------------------------------------------------------------------------
(* Summaries of some rows *)

\* The points of rows.
LEMMA PointsType ==
  ASSUME NEW r \in Seq(Row), NEW time \in {"elapsed", "since"}
  PROVE  LET p == Points(r, time, "used")
         IN /\ p \in Seq(Int \X Nat) /\ Len(p) = Len(r)
            /\ \A i \in 1 .. Len(r) :
                 /\ p[i][1] = r[i][time] /\ p[i][2] = r[i].used
                 /\ r[i][time] \in Int /\ r[i].used \in Nat
<1> DEFINE n == Len(r)
           p == Points(r, time, "used")
<1>1. p = [i \in 1 .. n |-> <<r[i][time], r[i].used>>]
  BY PointsIs
<1>2. n \in Nat /\ \A i \in 1 .. n : r[i] \in Row
  OBVIOUS
<1>3. \A i \in 1 .. n : r[i][time] \in Int /\ r[i].used \in Nat
  BY <1>2 DEF Row
<1> HIDE DEF n
<1>4. p \in [1 .. n -> Int \X Nat]
  BY <1>1, <1>3
<1>5. \A i \in 1 .. n : p[i][1] = r[i][time] /\ p[i][2] = r[i].used
  <2> DEFINE x(i) == r[i][time]
             u(i) == r[i].used
  <2>1. p = [i \in 1 .. n |-> <<x(i), u(i)>>]
    BY <1>1
  <2> HIDE DEF x, u, p
  <2>2. \A i \in 1 .. n : p[i][1] = x(i) /\ p[i][2] = u(i)
    BY <2>1
  <2> QED BY <2>2 DEF x, u
<1> HIDE DEF p
<1>6. p \in Seq(Int \X Nat) /\ Len(p) = n
  BY <1>2, <1>4
<1> QED BY <1>3, <1>5, <1>6 DEF n, p

\* The smallest and the largest of some numbers.
LEMMA Extremes ==
  ASSUME NEW n \in Nat \ {0}, NEW f \in [1 .. n -> Nat]
  PROVE  LET S == {f[i] : i \in 1 .. n}
         IN /\ Min(S) \in Nat /\ Max(S) \in Nat
            /\ \A i \in 1 .. n : Min(S) <= f[i] /\ f[i] <= Max(S)
<1> DEFINE S == {f[i] : i \in 1 .. n}
<1>1. S \subseteq Nat /\ S # {}
  <2>1. 1 \in 1 .. n
    OBVIOUS
  <2> QED BY <2>1
<1>2. \E x \in S : \A y \in S : x <= y
  <2> HIDE DEF S
  <2> QED BY <1>1, Least
<1>3. \E x \in S : \A y \in S : x >= y
  <2>1. PICK i \in 1 .. n : \A j \in 1 .. n : f[j] <= f[i]
    BY GreatestBy
  <2> QED BY <2>1
<1>4. \A i \in 1 .. n : f[i] \in S
  OBVIOUS
<1> HIDE DEF S
<1>5. Min(S) \in S /\ \A y \in S : Min(S) <= y
  BY <1>2, Zenon DEF Min
<1>6. Max(S) \in S /\ \A y \in S : Max(S) >= y
  BY <1>3, Zenon DEF Max
<1>7. \A i \in 1 .. n : Min(S) <= f[i] /\ f[i] <= Max(S)
  <2> TAKE i \in 1 .. n
  <2>1. f[i] \in S /\ f[i] \in Nat /\ Max(S) \in Nat
    BY <1>1, <1>4, <1>6
  <2> QED BY <1>5, <1>6, <2>1
<1> QED BY <1>1, <1>5, <1>6, <1>7 DEF S

\* The mean of rows in the order of their time lies between the smallest and the
\* largest of their samples.
LEMMA MeanOf ==
  ASSUME NEW r \in Seq(Row), r # <<>>,
         \A i \in 1 .. Len(r) - 1 : r[i].elapsed <= r[i + 1].elapsed
  PROVE  MeanSound(r, Summary(r))
<1> DEFINE n == Len(r)
           p == Points(r, "elapsed", "used")
           used == {r[i].used : i \in DOMAIN r}
           lo == Min(used)
           hi == Max(used)
           mean == WeightedMean(p)
<1>1. n \in Nat \ {0} /\ n \in Nat /\ DOMAIN r = 1 .. n
  OBVIOUS
<1>2. /\ p \in Seq(Int \X Nat) /\ Len(p) = n
      /\ \A i \in 1 .. n : /\ p[i][1] = r[i].elapsed /\ p[i][2] = r[i].used
                           /\ r[i].elapsed \in Int /\ r[i].used \in Nat
  <2>1. /\ p \in Seq(Int \X Nat) /\ Len(p) = n
        /\ \A i \in 1 .. n : /\ p[i][1] = r[i]["elapsed"] /\ p[i][2] = r[i].used
                             /\ r[i]["elapsed"] \in Int /\ r[i].used \in Nat
    BY PointsType
  <2> QED BY <2>1
<1>3. Summary(r).mean = mean
  BY DEF Summary
<1>4. lo \in Nat /\ hi \in Nat /\ \A i \in 1 .. n : lo <= r[i].used /\ r[i].used <= hi
  <2> DEFINE f == [i \in 1 .. n |-> r[i].used]
  <2>1. f \in [1 .. n -> Nat] /\ used = {f[i] : i \in 1 .. n} /\ \A i \in 1 .. n : f[i] = r[i].used
    BY <1>1, <1>2
  <2> HIDE DEF f, n, used
  <2> QED BY <1>1, <2>1, Extremes
<1>5. \A i \in 1 .. n - 1 : p[i][1] <= p[i + 1][1]
  <2> TAKE i \in 1 .. n - 1
  <2>1. i \in 1 .. n /\ i + 1 \in 1 .. n
    BY <1>1, Neighbours
  <2> QED BY <1>2, <2>1
<1>6. MeanSound(r, Summary(r)) <=> (mean # None => AtMost(<<lo, 1>>, mean) /\ AtMost(mean, <<hi, 1>>))
  BY <1>3, Zenon DEF MeanSound
<1> HIDE DEF n, p, used
<1>7. /\ Area(p) \in Int /\ Span(p) \in Nat
      /\ lo * (2 * Span(p)) <= Area(p) /\ Area(p) <= hi * (2 * Span(p))
  <2>1. \A i \in 1 .. n : lo <= p[i][2] /\ p[i][2] <= hi
    BY <1>2, <1>4
  <2>2. lo \in Int /\ hi \in Int
    BY <1>4
  <2> HIDE DEF lo, hi
  <2> QED BY <1>1, <1>2, <1>5, <2>1, <2>2, AreaBetween
<1>8. mean = IF Span(p) = 0 THEN None ELSE <<Area(p), 2 * Span(p)>>
  <2>1. 2 * Span(p) >= 0
    BY <1>7
  <2> QED BY <2>1 DEF WeightedMean, Quotient
<1> HIDE DEF mean, lo, hi
<1>9. ASSUME mean # None PROVE AtMost(<<lo, 1>>, mean) /\ AtMost(mean, <<hi, 1>>)
  <2>1. mean[1] = Area(p) /\ mean[2] = 2 * Span(p)
    BY <1>8, <1>9
  <2>2. /\ lo * (2 * Span(p)) <= Area(p) * 1
        /\ Area(p) * 1 <= hi * (2 * Span(p))
    BY <1>7
  <2> QED BY <2>1, <2>2 DEF AtMost
<1> QED BY <1>6, <1>9

\* The trend of rows that rise in time and in memory does not fall.
LEMMA TrendOf ==
  ASSUME NEW r \in Seq(Row),
         \A i, j \in 1 .. Len(r) : i <= j => r[i].since <= r[j].since /\ r[i].used <= r[j].used
  PROVE  LET slope == LinearSlope(Points(r, "since", "used"))
         IN slope # None => slope[1] >= 0
<1> DEFINE n == Len(r)
           p == Points(r, "since", "used")
<1>1. n \in Nat
  OBVIOUS
<1>2. /\ p \in Seq(Int \X Nat) /\ Len(p) = n
      /\ \A i \in 1 .. n : p[i][1] = r[i].since /\ p[i][2] = r[i].used
  <2>1. /\ p \in Seq(Int \X Nat) /\ Len(p) = n
        /\ \A i \in 1 .. n : p[i][1] = r[i]["since"] /\ p[i][2] = r[i].used
    BY PointsType
  <2> QED BY <2>1
<1> HIDE DEF p
<1>3. p \in Seq(Int \X Int)
  <2>1. \A i \in 1 .. Len(p) : p[i] \in Int \X Int
    <3> TAKE i \in 1 .. Len(p)
    <3>1. p[i] \in Int \X Nat
      BY <1>2
    <3> QED BY <3>1
  <2>2. DOMAIN p = 1 .. Len(p) /\ Len(p) \in Nat /\ p = [i \in 1 .. Len(p) |-> p[i]]
    BY <1>2
  <2>3. p \in [1 .. Len(p) -> Int \X Int]
    BY <2>1, <2>2
  <2> QED BY <2>2, <2>3
<1>4. \A i, j \in 1 .. n : i <= j => p[i][1] <= p[j][1] /\ p[i][2] <= p[j][2]
  BY <1>2
<1>5. LinearSlope(p) # None => LinearSlope(p)[1] >= 0
  <2> HIDE DEF n
  <2> QED BY <1>1, <1>2, <1>3, <1>4, RisingSlope
<1> QED BY <1>5 DEF p

-----------------------------------------------------------------------------
(* Consecutive windows *)

Rising(n, t) == \A i, j \in 1 .. n : i < j => t[i] < t[j]
NotFalling(n, c) == \A i, j \in 1 .. n : i <= j => c[i] <= c[j]

\* The last position up to a border, or the first position of all.
LastUpTo(n, t, border, l) ==
  /\ l = 1 \/ t[l] <= border
  /\ \A i \in 1 .. n : t[i] <= border => i <= l

\* There is a position on a border that has positions on both sides.
OnBorder(n, t, border) == t[1] < border /\ border < t[n] => \E i \in 1 .. n : t[i] = border

\* What a window counts: the difference of its last and its first count.
Counts(n, t, c, lo, hi, d) ==
  LET W == {i \in 1 .. n : lo <= t[i] /\ t[i] <= hi}
  IN \/ W = {} /\ d = 0
     \/ \E a, b \in W : (\A i \in W : a <= i /\ i <= b) /\ d = c[b] - c[a]

\* The arithmetic of differences.
LEMMA Within ==
  ASSUME NEW p \in Int, NEW a \in Int, NEW b \in Int, NEW q \in Int, p <= a, b <= q
  PROVE  b - a <= q - p
OBVIOUS

LEMMA Together ==
  ASSUME NEW s \in Int, NEW d \in Int, NEW x \in Int, NEW y \in Int, NEW z \in Int
  PROVE  /\ s <= y - x /\ d <= z - y => s + d <= z - x
         /\ s = y - x /\ d = z - y => s + d = z - x
OBVIOUS

LEMMA LastUpToIs ==
  ASSUME NEW n \in Nat \ {0}, NEW t \in [1 .. n -> Int], NEW border \in Int
  PROVE  \E l \in 1 .. n : LastUpTo(n, t, border, l)
<1> DEFINE U == {1} \cup {i \in 1 .. n : t[i] <= border}
<1>1. n \in Nat /\ U \in SUBSET (1 .. n) /\ U # {}
  OBVIOUS
<1>2. PICK l \in U : \A i \in U : i <= l
  <2> HIDE DEF U
  <2> QED BY <1>1, Greatest
<1> QED BY <1>1, <1>2 DEF LastUpTo

\* A window counts no more than what was counted between its borders, and all of it
\* if there is a position on its lower border, or none beyond it.
LEMMA WindowCounts ==
  ASSUME NEW n \in Nat \ {0}, NEW t \in [1 .. n -> Int], NEW c \in [1 .. n -> Int],
         Rising(n, t), NotFalling(n, c),
         NEW lo \in Int, NEW hi \in Int, lo <= hi, NEW d \in Int, Counts(n, t, c, lo, hi, d),
         NEW p \in 1 .. n, NEW q \in 1 .. n, LastUpTo(n, t, lo, p), LastUpTo(n, t, hi, q)
  PROVE  /\ d <= c[q] - c[p]
         /\ OnBorder(n, t, lo) => d >= c[q] - c[p]
<1> DEFINE W == {i \in 1 .. n : lo <= t[i] /\ t[i] <= hi}
<1>1. /\ 1 \in 1 .. n /\ n \in 1 .. n /\ n \in Nat /\ n >= 1
      /\ \A i \in 1 .. n : i \in Nat /\ 1 <= i /\ i <= n /\ t[i] \in Int /\ c[i] \in Int
  OBVIOUS
<1>2. p <= q
  <2>1. p = 1 \/ t[p] <= lo
    BY DEF LastUpTo
  <2>2. t[p] <= lo => t[p] <= hi
    BY <1>1
  <2>3. t[p] <= hi => p <= q
    BY DEF LastUpTo
  <2> QED BY <1>1, <2>1, <2>2, <2>3
<1>3. c[p] <= c[q]
  BY <1>2 DEF NotFalling
<1>4. \A i \in W : p <= i /\ i <= q
  <2> TAKE i \in W
  <2>1. i \in 1 .. n /\ lo <= t[i] /\ t[i] <= hi
    OBVIOUS
  <2>2. i <= q
    BY <2>1 DEF LastUpTo
  <2>3. CASE p = 1
    BY <1>1, <2>1, <2>2, <2>3
  <2>4. CASE t[p] <= lo
    <3>1. i < p => t[i] < t[p]
      BY <2>1 DEF Rising
    <3>2. i \in Nat /\ p \in Nat /\ t[i] \in Int /\ t[p] \in Int
      BY <1>1, <2>1
    <3>3. p <= i
      BY <2>1, <2>4, <3>1, <3>2
    <3> QED BY <2>2, <3>3
  <2> QED BY <2>3, <2>4 DEF LastUpTo
<1>5. (W = {} /\ d = 0) \/ \E a, b \in W : (\A i \in W : a <= i /\ i <= b) /\ d = c[b] - c[a]
  BY Zenon DEF Counts
<1>6. d <= c[q] - c[p]
  <2>1. CASE W = {} /\ d = 0
    BY <1>1, <1>3, <2>1
  <2>2. ASSUME NEW a \in W, NEW b \in W, d = c[b] - c[a]
        PROVE  d <= c[q] - c[p]
    <3>1. a \in 1 .. n /\ b \in 1 .. n
      OBVIOUS
    <3>2. p <= a /\ b <= q
      BY <1>4
    <3> HIDE DEF W
    <3>3. c[p] <= c[a] /\ c[b] <= c[q]
      BY <3>1, <3>2 DEF NotFalling
    <3>4. c[p] \in Int /\ c[a] \in Int /\ c[b] \in Int /\ c[q] \in Int
      BY <1>1, <3>1
    <3>5. c[b] - c[a] <= c[q] - c[p]
      BY <3>3, <3>4, Within
    <3> QED BY <2>2, <3>5
  <2> HIDE DEF W
  <2> QED BY <1>5, <2>1, <2>2
<1>7. ASSUME OnBorder(n, t, lo), p < q
      PROVE  p \in W /\ q \in W
  <2>1. t[p] < t[q]
    BY <1>7 DEF Rising
  <2>2. q # 1
    BY <1>1, <1>7
  <2>3. t[q] <= hi
    BY <2>2 DEF LastUpTo
  <2>4. lo < t[q]
    <3>1. ~(q <= p)
      BY <1>1, <1>7
    <3>2. ~(t[q] <= lo)
      BY <3>1 DEF LastUpTo
    <3> QED BY <1>1, <3>2
  <2>5. lo <= t[p]
    <3> SUFFICES ASSUME t[p] < lo PROVE FALSE
      BY <1>1
    <3>1. t[1] <= t[p] /\ t[q] <= t[n]
      <4>1. 1 < p => t[1] < t[p]
        BY <1>1 DEF Rising
      <4>2. q < n => t[q] < t[n]
        BY <1>1 DEF Rising
      <4>3. 1 < p \/ p = 1
        BY <1>1
      <4>4. q < n \/ q = n
        BY <1>1
      <4> QED BY <1>1, <4>1, <4>2, <4>3, <4>4
    <3>2. t[1] < lo /\ lo < t[n]
      <4>1. t[1] \in Int /\ t[p] \in Int /\ t[q] \in Int /\ t[n] \in Int
        BY <1>1
      <4> QED BY <2>4, <3>1, <4>1
    <3>3. PICK i \in 1 .. n : t[i] = lo
      BY <1>7, <3>2 DEF OnBorder
    <3>4. i <= p
      BY <3>3 DEF LastUpTo
    <3>5. i < p => t[i] < t[p]
      BY DEF Rising
    <3>6. i < p \/ i = p
      BY <1>1, <3>4
    <3>7. t[i] <= t[p] /\ t[i] \in Int /\ t[p] \in Int
      BY <1>1, <3>5, <3>6
    <3> QED BY <3>3, <3>7
  <2>6. t[p] <= hi /\ lo <= t[q]
    <3>1. t[p] \in Int /\ t[q] \in Int
      BY <1>1
    <3> QED BY <2>1, <2>3, <2>4, <3>1
  <2> QED BY <2>3, <2>5, <2>6
<1> HIDE DEF W
<1>8. ASSUME OnBorder(n, t, lo)
      PROVE  d = c[q] - c[p]
  <2>1. CASE p = q
    <3>1. W = {} \/ \E a, b \in W : d = c[b] - c[a]
      BY <1>5
    <3>2. \A i \in W : i = p
      <4> TAKE i \in W
      <4>1. p <= i /\ i <= q /\ i \in Nat /\ p \in Nat
        BY <1>1, <1>4 DEF W
      <4> QED BY <2>1, <4>1
    <3>3. d = 0
      <4>1. c[p] \in Int
        BY <1>1
      <4>2. CASE W = {}
        BY <1>5, <4>2
      <4>3. CASE W # {}
        <5>1. PICK a \in W, b \in W : d = c[b] - c[a]
          BY <1>5, <4>3
        <5>2. a = p /\ b = p
          BY <3>2
        <5> QED BY <4>1, <5>1, <5>2
      <4> QED BY <4>2, <4>3
    <3> QED BY <1>1, <2>1, <3>3
  <2>2. CASE p < q
    <3>1. p \in W /\ q \in W
      BY <1>7, <1>8, <2>2
    <3>2. PICK a \in W, b \in W : (\A i \in W : a <= i /\ i <= b) /\ d = c[b] - c[a]
      BY <1>5, <3>1
    <3>3. a = p /\ b = q
      <4>1. a <= p /\ q <= b /\ p <= a /\ b <= q
        BY <1>4, <3>1, <3>2
      <4>2. a \in Nat /\ b \in Nat
        BY <1>1 DEF W
      <4> QED BY <4>1, <4>2
    <3> QED BY <3>2, <3>3
  <2>3. p = q \/ p < q
    BY <1>1, <1>2
  <2> QED BY <2>1, <2>2, <2>3
<1>9. c[p] \in Int /\ c[q] \in Int
  BY <1>1
<1> QED BY <1>6, <1>8, <1>9

\* The windows between consecutive borders together count no more than was counted, and
\* all of it if what was counted lies within the borders and no border between is
\* without a position.
LEMMA WindowsCount ==
  ASSUME NEW n \in Nat \ {0}, NEW t \in [1 .. n -> Int], NEW c \in [1 .. n -> Int],
         Rising(n, t), NotFalling(n, c),
         NEW m \in Nat, NEW B \in [1 .. m + 1 -> Int], \A k \in 1 .. m : B[k] <= B[k + 1],
         NEW d \in [1 .. m -> Int], \A k \in 1 .. m : Counts(n, t, c, B[k], B[k + 1], d[k])
  PROVE  /\ Total(d) <= c[n] - c[1]
         /\ /\ t[1] >= B[1] /\ t[n] <= B[m + 1]
            /\ \A k \in 1 .. m : OnBorder(n, t, B[k])
            => Total(d) >= c[n] - c[1]
<1> DEFINE L == [k \in 1 .. m + 1 |-> CHOOSE l \in 1 .. n : LastUpTo(n, t, B[k], l)]
           x == [k \in 1 .. m + 1 |-> c[L[k]]]
           D == Sums(d)
           whole == c[n] - c[1]
           Seam == \A k \in 1 .. m : OnBorder(n, t, B[k])
<1>1. ASSUME NEW k \in 1 .. m + 1
      PROVE  L[k] \in 1 .. n /\ LastUpTo(n, t, B[k], L[k]) /\ x[k] = c[L[k]] /\ x[k] \in Int
  <2>1. B[k] \in Int
    OBVIOUS
  <2>2. \E l \in 1 .. n : LastUpTo(n, t, B[k], l)
    BY <2>1, LastUpToIs
  <2>3. L[k] = CHOOSE l \in 1 .. n : LastUpTo(n, t, B[k], l)
    BY Zenon
  <2>4. L[k] \in 1 .. n /\ LastUpTo(n, t, B[k], L[k])
    BY <2>2, <2>3, Zenon
  <2> HIDE DEF L
  <2> QED BY <2>4
<1>2. /\ 1 \in 1 .. n /\ n \in 1 .. n /\ n \in Nat /\ n >= 1
      /\ \A i \in 1 .. n : i \in Nat /\ 1 <= i /\ i <= n /\ t[i] \in Int /\ c[i] \in Int
  OBVIOUS
<1>3. /\ D \in [0 .. m -> Int] /\ D[0] = 0 /\ Total(d) = D[m]
      /\ \A k \in 0 .. m - 1 : D[k + 1] = D[k] + d[k + 1]
  <2>1. d \in Seq(Int) /\ Len(d) = m
    OBVIOUS
  <2> QED BY <2>1, SumsIs
<1> HIDE DEF L, x, D
<1>4. ASSUME NEW k \in 1 .. m
      PROVE  /\ d[k] \in Int /\ x[k] \in Int /\ x[k + 1] \in Int
             /\ d[k] <= x[k + 1] - x[k]
             /\ Seam => d[k] = x[k + 1] - x[k]
  <2>1. k \in 1 .. m + 1 /\ k + 1 \in 1 .. m + 1
    OBVIOUS
  <2>2. B[k] \in Int /\ B[k + 1] \in Int /\ d[k] \in Int /\ B[k] <= B[k + 1]
    BY <2>1
  <2>3. Counts(n, t, c, B[k], B[k + 1], d[k])
    OBVIOUS
  <2> DEFINE p == L[k]
             q == L[k + 1]
             lo == B[k]
             hi == B[k + 1]
             e == d[k]
  <2>4. /\ p \in 1 .. n /\ LastUpTo(n, t, lo, p) /\ x[k] = c[p] /\ x[k] \in Int
        /\ q \in 1 .. n /\ LastUpTo(n, t, hi, q) /\ x[k + 1] = c[q] /\ x[k + 1] \in Int
    BY <1>1, <2>1
  <2>5. Seam => OnBorder(n, t, lo)
    OBVIOUS
  <2> HIDE DEF p, q, lo, hi, e, Seam
  <2>6. /\ e <= c[q] - c[p]
        /\ OnBorder(n, t, lo) => e = c[q] - c[p]
    <3>1. lo \in Int /\ hi \in Int /\ lo <= hi /\ e \in Int /\ Counts(n, t, c, lo, hi, e)
      BY <2>2, <2>3 DEF lo, hi, e
    <3>3. p \in 1 .. n /\ LastUpTo(n, t, lo, p) /\ q \in 1 .. n /\ LastUpTo(n, t, hi, q)
      BY <2>4
    <3>2. /\ n \in Nat \ {0} /\ t \in [1 .. n -> Int] /\ c \in [1 .. n -> Int]
          /\ Rising(n, t) /\ NotFalling(n, c)
      OBVIOUS
    <3>4. e <= c[q] - c[p]
      BY ONLY <3>1, <3>2, <3>3, WindowCounts
    <3>5. ASSUME OnBorder(n, t, lo) PROVE e >= c[q] - c[p]
      BY ONLY <3>1, <3>2, <3>3, <3>5, WindowCounts
    <3>6. c[q] - c[p] \in Int
      <4>1. c[p] \in Int /\ c[q] \in Int
        BY ONLY <3>2, <3>3
      <4> QED BY <4>1
    <3>7. ASSUME OnBorder(n, t, lo) PROVE e = c[q] - c[p]
      BY <3>1, <3>4, <3>5, <3>6, <3>7
    <3> QED BY <3>4, <3>7
  <2> QED BY <2>2, <2>4, <2>5, <2>6 DEF e
<1>5. ASSUME NEW k \in 1 .. m + 1
      PROVE  x[k] \in Int
  BY <1>1
<1>6. ASSUME NEW k \in 0 .. m - 1
      PROVE  k \in 0 .. m /\ k + 1 \in 0 .. m /\ k + 1 \in 1 .. m /\ (k + 1) + 1 \in 1 .. m + 1
             /\ k + 1 \in 1 .. m + 1 /\ 1 \in 1 .. m + 1
  OBVIOUS
<1>7. /\ 0 \in 0 .. m /\ m \in 0 .. m /\ 1 \in 1 .. m + 1 /\ m + 1 \in 1 .. m + 1 /\ 0 + 1 = 1
  OBVIOUS
<1>8. D[m] <= x[m + 1] - x[1]
  <2> DEFINE S == {k \in 0 .. m : D[k] <= x[k + 1] - x[1]}
  <2>1. 0 \in S
    BY <1>3, <1>5, <1>7
  <2>2. ASSUME NEW k \in 0 .. m - 1, k \in S PROVE k + 1 \in S
    <3>1. D[k] <= x[k + 1] - x[1] /\ D[k + 1] = D[k] + d[k + 1]
      BY <1>3, <2>2
    <3>2. d[k + 1] <= x[(k + 1) + 1] - x[k + 1]
      BY <1>4, <1>6
    <3>3. D[k] \in Int /\ d[k + 1] \in Int /\ x[k + 1] \in Int /\ x[(k + 1) + 1] \in Int /\ x[1] \in Int
      BY <1>3, <1>4, <1>5, <1>6
    <3>4. D[k + 1] <= x[(k + 1) + 1] - x[1]
      <4> DEFINE s == D[k]
                 e == d[k + 1]
                 y == x[k + 1]
                 z == x[(k + 1) + 1]
                 a == x[1]
      <4> HIDE DEF s, e, y, z, a
      <4>1. s + e <= z - a
        BY <3>1, <3>2, <3>3, Together DEF s, e, y, z, a
      <4> QED BY <3>1, <4>1 DEF s, e, z, a
    <3> QED BY <1>6, <3>4
  <2>3. 0 .. m \subseteq S
    <3> HIDE DEF S
    <3> QED BY <2>1, <2>2, UpwardsTo
  <2> QED BY <1>7, <2>3
<1>9. ASSUME Seam PROVE D[m] = x[m + 1] - x[1]
  <2> DEFINE S == {k \in 0 .. m : D[k] = x[k + 1] - x[1]}
  <2>1. 0 \in S
    BY <1>3, <1>5, <1>7
  <2>2. ASSUME NEW k \in 0 .. m - 1, k \in S PROVE k + 1 \in S
    <3> HIDE DEF Seam
    <3>1. D[k] = x[k + 1] - x[1] /\ D[k + 1] = D[k] + d[k + 1]
      BY <1>3, <2>2
    <3>2. d[k + 1] = x[(k + 1) + 1] - x[k + 1]
      BY <1>4, <1>6, <1>9
    <3>3. D[k] \in Int /\ d[k + 1] \in Int /\ x[k + 1] \in Int /\ x[(k + 1) + 1] \in Int /\ x[1] \in Int
      BY <1>3, <1>4, <1>5, <1>6
    <3>4. D[k + 1] = x[(k + 1) + 1] - x[1]
      <4> DEFINE s == D[k]
                 e == d[k + 1]
                 y == x[k + 1]
                 z == x[(k + 1) + 1]
                 a == x[1]
      <4> HIDE DEF s, e, y, z, a
      <4>1. s = y - a /\ e = z - y
        BY <3>1, <3>2 DEF s, e, y, z, a
      <4>2. s \in Int /\ e \in Int /\ y \in Int /\ z \in Int /\ a \in Int
        BY <3>3 DEF s, e, y, z, a
      <4>3. s + e = z - a
        BY <4>1, <4>2, Together
      <4> QED BY <3>1, <4>3 DEF s, e, z, a
    <3> QED BY <1>6, <3>4
  <2>3. 0 .. m \subseteq S
    <3> HIDE DEF S, Seam
    <3> QED BY <2>1, <2>2, UpwardsTo
  <2> QED BY <1>7, <2>3
<1>10. /\ L[1] \in 1 .. n /\ L[m + 1] \in 1 .. n /\ x[1] = c[L[1]] /\ x[m + 1] = c[L[m + 1]]
       /\ LastUpTo(n, t, B[1], L[1]) /\ LastUpTo(n, t, B[m + 1], L[m + 1])
  BY <1>1, <1>7
<1>11. x[m + 1] - x[1] <= whole
  <2>1. 1 <= L[1] /\ L[m + 1] <= n
    BY <1>2, <1>10
  <2>2. c[1] <= c[L[1]] /\ c[L[m + 1]] <= c[n]
    BY <1>2, <1>10, <2>1 DEF NotFalling
  <2>3. c[1] \in Int /\ c[n] \in Int /\ x[1] \in Int /\ x[m + 1] \in Int
    BY <1>2, <1>5, <1>7
  <2> QED BY <1>10, <2>2, <2>3
<1>12. ASSUME t[1] >= B[1], t[n] <= B[m + 1]
       PROVE  x[m + 1] - x[1] = whole
  <2>1. L[1] = 1
    <3>1. 1 < L[1] => t[1] < t[L[1]]
      BY <1>2, <1>10 DEF Rising
    <3>2. L[1] = 1 \/ t[L[1]] <= B[1]
      BY <1>10 DEF LastUpTo
    <3>3. t[1] \in Int /\ t[L[1]] \in Int /\ B[1] \in Int /\ L[1] \in Nat /\ 1 <= L[1]
      BY <1>2, <1>7, <1>10
    <3> QED BY <1>12, <3>1, <3>2, <3>3
  <2>2. L[m + 1] = n
    <3>1. n <= L[m + 1]
      BY <1>2, <1>10, <1>12 DEF LastUpTo
    <3> QED BY <1>2, <1>10, <3>1
  <2> QED BY <1>10, <2>1, <2>2
<1>13. D[m] \in Int /\ x[1] \in Int /\ x[m + 1] \in Int /\ whole \in Int
  BY <1>2, <1>3, <1>5, <1>7
<1> HIDE DEF whole, Seam
<1>14. D[m] <= whole
  BY <1>8, <1>11, <1>13
<1>15. t[1] >= B[1] /\ t[n] <= B[m + 1] /\ Seam => D[m] = whole
  BY <1>9, <1>12
<1>16. D[m] = whole => D[m] >= whole
  BY <1>13
<1> QED BY <1>3, <1>14, <1>15, <1>16 DEF whole, Seam

-----------------------------------------------------------------------------
(* Parts of the rows *)

\* Rows selected without a hole are a part of the rows, from one to another.
Part(r, s, a, b) ==
  /\ r \in Seq(Row) /\ Len(r) = b - a + 1
  /\ \A m \in 1 .. b - a + 1 : a + m - 1 \in a .. b /\ r[m] = s[a + m - 1]

LEMMA PartIs ==
  ASSUME NEW s \in Seq(Row), NEW I \in SUBSET (1 .. Len(s)), I # {},
         \A i, j \in I : \A k \in 1 .. Len(s) : i <= k /\ k <= j => k \in I
  PROVE  \E a, b \in I : a <= b /\ I = a .. b /\ Part(At(s, I), s, a, b)
<1>1. Len(s) \in Nat
  OBVIOUS
<1>2. PICK a \in I, b \in I : a <= b /\ I = a .. b
  BY <1>1, Convex
<1>3. a \in 1 .. Len(s) /\ b \in 1 .. Len(s)
  OBVIOUS
<1>4. Part(At(s, a .. b), s, a, b)
  BY <1>2, <1>3, AtInterval DEF Part
<1> QED BY <1>2, <1>4

-----------------------------------------------------------------------------
(* The samples of the measured phase *)

\* The row before a reading is the last one; no two rows after one another have the
\* same time; the rows of the measured phase come last; and the CPU counter, where it
\* could be read, does not fall.
RowsInv ==
  /\ previous = None <=> rows = <<>>
  /\ rows # <<>> => previous.now = rows[Len(rows)].elapsed
  /\ \A i \in 1 .. Len(rows) - 1 :
       /\ rows[i].elapsed # rows[i + 1].elapsed
       /\ rows[i].phase = Scenario => rows[i + 1].phase = Scenario
  /\ \A i \in 1 .. Len(rows) : rows[i].cpu <= usage
  /\ taken # None =>
       /\ taken.cpu <= usage
       /\ taken.cpu # Missing => \A i \in 1 .. Len(rows) : rows[i].cpu <= taken.cpu
  /\ \A i, j \in 1 .. Len(rows) : i <= j /\ rows[j].cpu # Missing => rows[i].cpu <= rows[j].cpu

LEMMA RowsInit == Init => RowsInv
<1> SUFFICES ASSUME Init PROVE RowsInv
  OBVIOUS
<1>1. taken = None /\ previous = None /\ rows = <<>>
  BY DEF Init
<1> QED BY <1>1 DEF RowsInv

\* The rows are of their type.
LEMMA RowType ==
  ASSUME Types
  PROVE  /\ rows \in Seq(Row) /\ Len(rows) \in Nat /\ usage \in Nat
         /\ \A i \in 1 .. Len(rows) :
              rows[i].elapsed \in Int /\ rows[i].cpu \in Int /\ rows[i].used \in Nat
              /\ rows[i].since \in Int
<1>1. rows \in Seq(Row) /\ Len(rows) \in Nat /\ usage \in Nat
  BY DEF Types
<1>2. \A i \in 1 .. Len(rows) : rows[i] \in Row
  BY <1>1
<1> QED BY <1>1, <1>2 DEF Row

\* A reading shows at least what the rows show, if it shows the counter.
LEMMA RowsMeasure ==
  ASSUME CollectorInv, RowsInv,
         NEW c \in Counters, NEW w \in Work, NEW lost \in BOOLEAN, Measure(c, w, lost)
  PROVE  RowsInv'
<1>1. /\ usage' = usage + w
      /\ taken' = [tick |-> clock, now |-> Now, used |-> WorkingSet(c),
                   cpu |-> IF lost THEN Missing ELSE usage']
      /\ UNCHANGED <<previous, rows>>
  BY DEF Measure
<1>2. w \in Nat
  BY CollectorAssumption
<1>3. /\ rows \in Seq(Row) /\ Len(rows) \in Nat /\ usage \in Nat
      /\ \A i \in 1 .. Len(rows) : rows[i].cpu \in Int
  BY RowType DEF CollectorInv
<1>4. usage' \in Nat /\ usage <= usage'
  BY <1>1, <1>2, <1>3
<1>5. taken'.cpu \in {Missing, usage'} /\ taken'.cpu <= usage'
  BY <1>1, <1>4 DEF Missing
<1>6. \A i \in 1 .. Len(rows) : rows[i].cpu <= usage'
  <2>1. \A i \in 1 .. Len(rows) : rows[i].cpu <= usage
    BY DEF RowsInv
  <2> QED BY <1>3, <1>4, <2>1
<1>7. taken'.cpu # Missing => \A i \in 1 .. Len(rows) : rows[i].cpu <= taken'.cpu
  BY <1>5, <1>6
<1> QED BY <1>1, <1>5, <1>6, <1>7 DEF RowsInv, Scenario

\* It is filed after them.
LEMMA RowsFile ==
  ASSUME CollectorInv, RowsInv, File
  PROVE  RowsInv'
<1> DEFINE phase == phases[Len(phases)]
           row == [elapsed |-> taken.now, phase |-> phase.name,
                   since |-> taken.now - phase.epoch, used |-> taken.used, cpu |-> taken.cpu]
<1>1. /\ Types /\ PhasesInv
  BY DEF CollectorInv
<1>2. /\ collector = "filing" /\ ~NoShare
      /\ previous' = taken /\ taken' = None /\ rows' = Append(rows, row)
      /\ UNCHANGED <<phases, usage>>
  BY DEF File, Last, container
<1>3. taken \in Reading /\ taken # None
  BY <1>1, <1>2 DEF Types
<1>4. phase \in Entered /\ Len(phases) \in 1 .. Len(Planned) /\ phase.name = Planned[Len(phases)]
  BY <1>1, PlannedType DEF PhasesInv
<1>5. row \in Row
  BY <1>3, <1>4 DEF Row, Reading, Entered
<1>6. row.elapsed = taken.now /\ row.phase = Planned[Len(phases)] /\ row.cpu = taken.cpu
  BY <1>4
<1>7. /\ rows \in Seq(Row) /\ Len(rows) \in Nat /\ usage \in Nat
      /\ \A i \in 1 .. Len(rows) : rows[i].elapsed \in Int /\ rows[i].cpu \in Int
  BY <1>1, RowType
<1> HIDE DEF row, phase
<1>8. /\ Len(rows') = Len(rows) + 1 /\ rows' # <<>>
      /\ \A i \in 1 .. Len(rows) : rows'[i] = rows[i]
      /\ rows'[Len(rows')] = row
  BY <1>2, <1>5, <1>7
<1>9. taken.now \in Int /\ taken.cpu \in Int
  BY <1>3 DEF Reading
<1>10. /\ taken.cpu <= usage
       /\ taken.cpu # Missing => \A i \in 1 .. Len(rows) : rows[i].cpu <= taken.cpu
       /\ \A i \in 1 .. Len(rows) : rows[i].cpu <= usage
       /\ \A i, j \in 1 .. Len(rows) :
            i <= j /\ rows[j].cpu # Missing => rows[i].cpu <= rows[j].cpu
  BY <1>3 DEF RowsInv
<1>11. \A i \in 1 .. Len(rows') : i \in 1 .. Len(rows) \/ i = Len(rows')
  BY <1>7, <1>8
<1>12. ASSUME NEW i \in 1 .. Len(rows') - 1
       PROVE  /\ rows'[i].elapsed # rows'[i + 1].elapsed
              /\ rows'[i].phase = Scenario => rows'[i + 1].phase = Scenario
  <2>1. i \in 1 .. Len(rows)
    BY <1>7, <1>8
  <2>2. CASE i = Len(rows)
    <3>1. rows'[i] = rows[i] /\ rows'[i + 1] = row
      BY <1>8, <2>1, <2>2
    <3>2. previous # None /\ previous.now = rows[i].elapsed
      BY <1>7, <2>1, <2>2 DEF RowsInv
    <3>3. taken.now # previous.now
      BY <1>2, <3>2 DEF NoShare
    <3>4. rows[i].phase = Scenario => row.phase = Scenario
      BY <1>1, <1>6, <2>1, PlannedType DEF PhasesInv
    <3> QED BY <1>6, <3>1, <3>2, <3>3, <3>4
  <2>3. CASE i # Len(rows)
    <3>1. i \in 1 .. Len(rows) - 1 /\ i + 1 \in 1 .. Len(rows)
      BY <1>7, <2>1, <2>3
    <3>2. rows'[i] = rows[i] /\ rows'[i + 1] = rows[i + 1]
      BY <1>8, <2>1, <3>1
    <3> QED BY <3>1, <3>2 DEF RowsInv
  <2> QED BY <2>2, <2>3
<1>13. \A i \in 1 .. Len(rows') : rows'[i].cpu <= usage
  <2> TAKE i \in 1 .. Len(rows')
  <2>1. CASE i \in 1 .. Len(rows)
    BY <1>8, <1>10, <2>1
  <2>2. CASE i = Len(rows')
    BY <1>6, <1>8, <1>10, <2>2
  <2> QED BY <1>11, <2>1, <2>2
<1>14. ASSUME NEW i \in 1 .. Len(rows'), NEW j \in 1 .. Len(rows'), i <= j, rows'[j].cpu # Missing
       PROVE  rows'[i].cpu <= rows'[j].cpu
  <2>1. CASE j \in 1 .. Len(rows)
    <3>1. i \in 1 .. Len(rows)
      BY <1>7, <1>14, <2>1
    <3> QED BY <1>8, <1>10, <1>14, <2>1, <3>1
  <2>2. CASE j = Len(rows')
    <3>1. rows'[j].cpu = taken.cpu
      BY <1>6, <1>8, <2>2
    <3>2. CASE i = Len(rows')
      BY <1>9, <2>2, <3>1, <3>2
    <3>3. CASE i \in 1 .. Len(rows)
      BY <1>8, <1>10, <1>14, <3>1, <3>3
    <3> QED BY <1>11, <3>2, <3>3
  <2> QED BY <1>11, <2>1, <2>2
<1>15. rows'[Len(rows')].elapsed = taken.now
  BY <1>6, <1>8
<1>16. Scenario' = Scenario
  BY DEF Scenario
<1> QED BY <1>2, <1>3, <1>8, <1>12, <1>13, <1>14, <1>15, <1>16 DEF RowsInv

LEMMA RowsNext == CollectorInv /\ RowsInv /\ [Next]_vars => RowsInv'
<1> SUFFICES ASSUME CollectorInv, RowsInv, [Next]_vars PROVE RowsInv'
  OBVIOUS
<1>1. ASSUME UNCHANGED <<usage, taken, previous, rows>> PROVE RowsInv'
  BY <1>1 DEF RowsInv, Scenario
<1>2. CASE Advance
  BY <1>1, <1>2 DEF Advance, container
<1>3. CASE SetBack
  BY <1>1, <1>3 DEF SetBack, container
<1>4. CASE EnterPhase
  BY <1>1, <1>4 DEF EnterPhase, container
<1>5. CASE RequestStop
  BY <1>1, <1>5 DEF RequestStop, container
<1>6. CASE \E c \in Counters, w \in Work, lost \in BOOLEAN : Measure(c, w, lost)
  BY <1>6, RowsMeasure
<1>7. CASE MeasureFails
  BY <1>1, <1>7 DEF MeasureFails, container
<1>8. CASE ShareFails
  BY <1>1, <1>8 DEF ShareFails, container
<1>9. CASE File
  BY <1>9, RowsFile
<1>10. CASE UNCHANGED vars
  BY <1>1, <1>10 DEF vars, container
<1> QED BY <1>2, <1>3, <1>4, <1>5, <1>6, <1>7, <1>8, <1>9, <1>10 DEF Next

LEMMA RowsInvariant == Spec => [](CollectorInv /\ RowsInv)
<1>1. Init => CollectorInv /\ RowsInv
  BY InvInit, RowsInit
<1>2. (CollectorInv /\ RowsInv) /\ [Next]_vars => (CollectorInv /\ RowsInv)'
  BY InvNext, RowsNext
<1> QED BY <1>1, <1>2, PTL DEF Spec

\* The measured phase is not left.
LEMMA PhaseKept ==
  ASSUME CollectorInv, RowsInv, NEW i \in 1 .. Len(rows), rows[i].phase = Scenario
  PROVE  \A k \in 1 .. Len(rows) : i <= k => rows[k].phase = Scenario
<1> DEFINE N == Len(rows)
           S == {d \in 0 .. N - i : rows[i + d].phase = Scenario}
<1>1. N \in Nat
  BY RowType DEF CollectorInv
<1>2. i \in Nat /\ N - i \in Nat /\ i + 0 = i /\ 0 \in 0 .. N - i
  BY <1>1
<1>3. 0 \in S
  BY <1>2
<1>4. ASSUME NEW d \in 0 .. (N - i) - 1, d \in S PROVE d + 1 \in S
  <2>1. d + 1 \in 0 .. N - i /\ i + d \in 1 .. N - 1 /\ i + (d + 1) = (i + d) + 1
    BY <1>1, <1>2
  <2>2. rows[i + d].phase = Scenario
    BY <1>4
  <2>3. rows[(i + d) + 1].phase = Scenario
    BY <2>1, <2>2 DEF RowsInv
  <2> QED BY <2>1, <2>3
<1>5. 0 .. N - i \subseteq S
  <2> HIDE DEF S
  <2> QED BY <1>2, <1>3, <1>4, UpwardsTo
<1>6. ASSUME NEW k \in 1 .. N, i <= k PROVE rows[k].phase = Scenario
  <2>1. k - i \in 0 .. N - i /\ i + (k - i) = k
    BY <1>1, <1>2, <1>6
  <2>2. k - i \in S
    <3> HIDE DEF S
    <3> QED BY <1>5, <2>1
  <2> QED BY <2>1, <2>2
<1> QED BY <1>6

\* The samples of an admitted run are in the order of their time, and of the CPU
\* counter, which is known.
Orderly(own) ==
  /\ own \in Seq(Row) /\ Len(own) \in Nat /\ Len(own) >= 2
  /\ \A i \in 1 .. Len(own) :
       /\ own[i].since \in Int /\ own[i].elapsed \in Int /\ own[i].used \in Nat
       /\ own[i].cpu \in Int /\ own[i].cpu # Missing
  /\ \A i, j \in 1 .. Len(own) :
       i < j => own[i].since < own[j].since /\ own[i].elapsed < own[j].elapsed
  /\ \A i, j \in 1 .. Len(own) : i <= j => own[i].cpu <= own[j].cpu

LEMMA OwnOrderly ==
  ASSUME CollectorInv, RowsInv, Taken
  PROVE  Orderly(Own)
<1> DEFINE n == Len(Own)
           I == {i \in DOMAIN rows : rows[i].phase = Scenario}
<1>1. /\ n \in Nat /\ n >= 2 /\ Own \in Seq(Row)
      /\ \A i \in 1 .. n : Own[i].since \in Int
      /\ \A i \in 1 .. n - 1 : Own[i].since <= Own[i + 1].since
  BY AdmittedRun, OwnIs
<1>2. PICK e \in Int : \A i \in 1 .. n : Own[i].elapsed = Own[i].since + e
  BY OwnIs
<1>3. /\ rows \in Seq(Row) /\ Len(rows) \in Nat /\ DOMAIN rows = 1 .. Len(rows)
      /\ \A i \in 1 .. Len(rows) : rows[i].cpu \in Int
  BY RowType DEF CollectorInv
<1>4. Own = At(rows, I)
  BY DEF Own, OfPhase
<1>5. I # {}
  <2>1. I = {} => Own = <<>>
    BY <1>4, AtNone
  <2> QED BY <1>1, <2>1
<1>6. \A i, j \in I : \A k \in 1 .. Len(rows) : i <= k /\ k <= j => k \in I
  BY <1>3, PhaseKept
<1>7. PICK a \in I, b \in I : a <= b /\ I = a .. b /\ Part(Own, rows, a, b)
  <2>1. I \in SUBSET (1 .. Len(rows))
    BY <1>3
  <2> HIDE DEF I
  <2> QED BY <1>3, <1>4, <1>5, <1>6, <2>1, PartIs
<1>8. a \in 1 .. Len(rows) /\ b \in 1 .. Len(rows) /\ a \in Nat /\ b \in Nat
  BY <1>3
<1>9. n = b - a + 1
  BY <1>7 DEF Part
<1> HIDE DEF I
<1>10. ASSUME NEW m \in 1 .. n
       PROVE  a + m - 1 \in 1 .. Len(rows) /\ Own[m] = rows[a + m - 1]
  <2>1. Own[m] = rows[a + m - 1]
    BY <1>7, <1>9 DEF Part
  <2>2. a + m - 1 \in 1 .. Len(rows)
    BY <1>3, <1>8, <1>9
  <2> QED BY <2>1, <2>2
<1> HIDE DEF n
<1>11. \A i \in 1 .. n : /\ Own[i].since \in Int /\ Own[i].elapsed \in Int /\ Own[i].used \in Nat
                         /\ Own[i].cpu \in Int
  <2>1. \A i \in 1 .. n : Own[i] \in Row
    BY <1>1 DEF n
  <2> QED BY <2>1 DEF Row
<1>12. \A i \in 1 .. Len(rows) : rows[i].cpu # Missing
  BY <1>3 DEF Taken, Admissible
<1>13. ASSUME NEW i \in 1 .. n - 1 PROVE Own[i].since < Own[i + 1].since
  <2>1. i \in 1 .. n /\ i + 1 \in 1 .. n
    BY <1>1, Neighbours
  <2>2. Own[i] = rows[a + i - 1] /\ Own[i + 1] = rows[a + (i + 1) - 1]
    BY <1>10, <2>1
  <2> DEFINE k == a + i - 1
  <2>3. a + (i + 1) - 1 = k + 1
    BY <1>8
  <2>4. k \in 1 .. Len(rows) - 1
    <3>1. k \in 1 .. Len(rows) /\ a + (i + 1) - 1 \in 1 .. Len(rows)
      BY <1>10, <2>1
    <3> QED BY <1>3, <1>8, <2>3, <3>1
  <2>5. rows[k].elapsed # rows[k + 1].elapsed
    BY <2>4 DEF RowsInv
  <2>6. Own[i].elapsed # Own[i + 1].elapsed
    BY <2>2, <2>3, <2>5
  <2>7. Own[i].since # Own[i + 1].since
    BY <1>2, <2>1, <2>6
  <2>8. Own[i].since <= Own[i + 1].since /\ Own[i].since \in Int /\ Own[i + 1].since \in Int
    BY <1>1, <2>1
  <2> QED BY <2>7, <2>8
<1>14. \A i, j \in 1 .. n : i < j => Own[i].since < Own[j].since
  <2> DEFINE t == [i \in 1 .. n |-> Own[i].since]
  <2>1. t \in [1 .. n -> Int] /\ \A i \in 1 .. n : t[i] = Own[i].since
    BY <1>11
  <2> HIDE DEF t
  <2>2. \A i \in 1 .. n - 1 : t[i] < t[i + 1]
    <3> TAKE i \in 1 .. n - 1
    <3>1. i \in 1 .. n /\ i + 1 \in 1 .. n
      BY <1>1, Neighbours
    <3> QED BY <1>13, <2>1, <3>1
  <2>3. \A i, j \in 1 .. n : i < j => t[i] < t[j]
    BY <1>1, <2>1, <2>2, AscendingStrictly
  <2> QED BY <2>1, <2>3
<1>15. \A i, j \in 1 .. n : i < j => Own[i].elapsed < Own[j].elapsed
  <2> TAKE i, j \in 1 .. n
  <2> HAVE i < j
  <2>1. Own[i].since < Own[j].since /\ Own[i].since \in Int /\ Own[j].since \in Int
    BY <1>11, <1>14
  <2>2. Own[i].elapsed = Own[i].since + e /\ Own[j].elapsed = Own[j].since + e
    BY <1>2
  <2> QED BY <1>2, <2>1, <2>2
<1>16. ASSUME NEW i \in 1 .. n PROVE Own[i].cpu # Missing
  BY <1>10, <1>12
<1>17. ASSUME NEW i \in 1 .. n, NEW j \in 1 .. n, i <= j PROVE Own[i].cpu <= Own[j].cpu
  <2> DEFINE k == a + i - 1
             l == a + j - 1
  <2>1. k \in 1 .. Len(rows) /\ l \in 1 .. Len(rows) /\ Own[i] = rows[k] /\ Own[j] = rows[l]
    BY <1>10
  <2>2. k <= l
    BY <1>8, <1>17
  <2> HIDE DEF k, l
  <2>3. rows[k].cpu <= rows[l].cpu
    BY <1>12, <2>1, <2>2 DEF RowsInv
  <2> QED BY <2>1, <2>3
<1> QED BY <1>1, <1>11, <1>14, <1>15, <1>16, <1>17 DEF Orderly, n

-----------------------------------------------------------------------------
(* The summaries of an admitted run *)

LEMMA BordersAre ==
  /\ Len(Borders) = 9 /\ DOMAIN Borders = 1 .. 9
  /\ Borders \in [1 .. 8 + 1 -> Int]
  /\ \A k \in 1 .. 8 : Borders[k] <= Borders[k + 1]
  /\ Borders[1] = 0 /\ Last(Borders) = 10800 /\ Borders[9] = 10800
<1>1. /\ Len(Borders) = 9 /\ DOMAIN Borders = 1 .. 9
      /\ Borders[1] = 0 /\ Borders[2] = 60 /\ Borders[3] = 300 /\ Borders[4] = 600
      /\ Borders[5] = 1200 /\ Borders[6] = 1800 /\ Borders[7] = 3600 /\ Borders[8] = 7200
      /\ Borders[9] = 10800
  BY DEF Borders
<1>2. \A k \in 1 .. 8 : k = 1 \/ k = 2 \/ k = 3 \/ k = 4 \/ k = 5 \/ k = 6 \/ k = 7 \/ k = 8
  OBVIOUS
<1>3. \A k \in 1 .. 8 : Borders[k] <= Borders[k + 1]
  BY <1>1, <1>2
<1>4. \A k \in 1 .. 9 : k \in 1 .. 8 \/ k = 9
  OBVIOUS
<1>5. \A k \in 1 .. 9 : Borders[k] \in Int
  BY <1>1, <1>2, <1>4
<1>6. Borders \in Seq(Int)
  BY DEF Borders
<1>7. Borders \in [1 .. 9 -> Int]
  BY <1>1, <1>6
<1> QED BY <1>1, <1>3, <1>7 DEF Last

LEMMA BorderType ==
  ASSUME NEW k \in 1 .. 8
  PROVE  Borders[k] \in Int /\ Borders[k + 1] \in Int
<1>1. k \in 1 .. 8 + 1 /\ k + 1 \in 1 .. 8 + 1
  OBVIOUS
<1> QED BY <1>1, BordersAre

\* The rows of a window are a part of the samples.
LEMMA WindowIs ==
  ASSUME NEW own, Orderly(own), NEW lo \in Int, NEW hi \in Int
  PROVE  LET W == {i \in 1 .. Len(own) : lo <= own[i].since /\ own[i].since <= hi}
             r == InWindow(own, <<lo, hi>>)
         IN \/ W = {} /\ r = <<>>
            \/ \E a, b \in W : a <= b /\ W = a .. b /\ Part(r, own, a, b)
<1> DEFINE n == Len(own)
           W == {i \in 1 .. n : lo <= own[i].since /\ own[i].since <= hi}
           r == InWindow(own, <<lo, hi>>)
<1>1. /\ own \in Seq(Row) /\ n \in Nat /\ DOMAIN own = 1 .. n
      /\ \A i \in 1 .. n : own[i].since \in Int
      /\ \A i, j \in 1 .. n : i < j => own[i].since < own[j].since
  BY DEF Orderly
<1>2. r = At(own, W)
  BY <1>1 DEF InWindow, Between
<1>3. \A i, j \in W : \A k \in 1 .. n : i <= k /\ k <= j => k \in W
  <2> TAKE i, j \in W
  <2> TAKE k \in 1 .. n
  <2> HAVE i <= k /\ k <= j
  <2>1. i \in 1 .. n /\ j \in 1 .. n /\ lo <= own[i].since /\ own[j].since <= hi
    OBVIOUS
  <2> HIDE DEF W
  <2>2. (i < k \/ i = k) /\ (k < j \/ k = j)
    BY <2>1
  <2>3. own[i].since <= own[k].since /\ own[k].since <= own[j].since
    BY <1>1, <2>1, <2>2
  <2>4. own[i].since \in Int /\ own[k].since \in Int /\ own[j].since \in Int
    BY <1>1, <2>1
  <2>5. lo <= own[k].since /\ own[k].since <= hi
    BY <2>1, <2>3, <2>4
  <2> QED BY <2>5 DEF W
<1>4. W \in SUBSET (1 .. n)
  OBVIOUS
<1> HIDE DEF W, r
<1>5. CASE W = {}
  <2>1. r = <<>>
    BY <1>2, <1>5, AtNone
  <2> QED BY <1>5, <2>1 DEF W, r
<1>6. CASE W # {}
  <2>1. \E a, b \in W : a <= b /\ W = a .. b /\ Part(r, own, a, b)
    BY <1>1, <1>2, <1>3, <1>4, <1>6, PartIs
  <2> QED BY <2>1 DEF W, r
<1> QED BY <1>5, <1>6

\* What a summary tells of a part of the samples.
LEMMA PartSummary ==
  ASSUME NEW own, Orderly(own), NEW a \in 1 .. Len(own), NEW b \in 1 .. Len(own), a <= b,
         NEW r, Part(r, own, a, b)
  PROVE  /\ MeanSound(r, Summary(r))
         /\ Summary(r).cpu = <<own[b].cpu - own[a].cpu, 1>>
<1>1. /\ own \in Seq(Row) /\ Len(own) \in Nat
      /\ \A i \in 1 .. Len(own) : own[i].elapsed \in Int /\ own[i].cpu \in Int /\ own[i].cpu # Missing
      /\ \A i, j \in 1 .. Len(own) : i < j => own[i].elapsed < own[j].elapsed
  BY DEF Orderly
<1>2. a \in Nat /\ b \in Nat
  BY <1>1
<1>3. /\ r \in Seq(Row) /\ Len(r) = b - a + 1
      /\ \A m \in 1 .. Len(r) : r[m] = own[a + m - 1]
  BY DEF Part
<1>4. r # <<>>
  BY <1>2, <1>3
<1>5. \A i \in 1 .. Len(r) - 1 : r[i].elapsed <= r[i + 1].elapsed
  <2> TAKE i \in 1 .. Len(r) - 1
  <2>1. i \in 1 .. Len(r) /\ i + 1 \in 1 .. Len(r)
    BY <1>2, <1>3
  <2>2. r[i] = own[a + i - 1] /\ r[i + 1] = own[a + (i + 1) - 1]
    BY <1>3, <2>1
  <2> DEFINE k == a + i - 1
             l == a + (i + 1) - 1
  <2>3. k \in 1 .. Len(own) /\ l \in 1 .. Len(own) /\ k < l
    BY <1>1, <1>2, <1>3, <2>1
  <2> HIDE DEF k, l
  <2>4. own[k].elapsed < own[l].elapsed /\ own[k].elapsed \in Int /\ own[l].elapsed \in Int
    BY <1>1, <2>3
  <2>5. own[k].elapsed <= own[l].elapsed
    BY <2>4
  <2> QED BY <2>2, <2>5 DEF k, l
<1>6. MeanSound(r, Summary(r))
  BY <1>3, <1>4, <1>5, MeanOf
<1>7. r[1] = own[a] /\ Last(r) = own[b]
  <2>1. 1 \in 1 .. Len(r) /\ Len(r) \in 1 .. Len(r) /\ a + 1 - 1 = a /\ a + Len(r) - 1 = b
    BY <1>2, <1>3
  <2> QED BY <1>3, <2>1 DEF Last
<1>8. Delta(r, "cpu") = <<own[b].cpu - own[a].cpu, 1>>
  BY <1>1, <1>7 DEF Delta
<1>9. Summary(r).cpu = Delta(r, "cpu")
  BY DEF Summary
<1> QED BY <1>6, <1>8, <1>9

\* The report on the measured phase.
LEMMA WindowsAre ==
  /\ Whole = Summary(Own)
  /\ DOMAIN Windows = {w \in Steps \cup Hours : InWindow(Own, w) # <<>>}
  /\ \A w \in DOMAIN Windows : Windows[w] = Summary(InWindow(Own, w))
<1> DEFINE present == {w \in Steps \cup Hours : InWindow(Own, w) # <<>>}
<1>1. Whole = Summary(Own)
  BY DEF Whole, PhaseReport, Own
<1>2. Windows = [w \in present |-> Summary(InWindow(Own, w))]
  BY DEF Windows, PhaseReport, Own
<1> HIDE DEF present
<1>3. DOMAIN Windows = present
  BY <1>2
<1>4. \A w \in present : Windows[w] = Summary(InWindow(Own, w))
  BY <1>2
<1> QED BY <1>1, <1>3, <1>4 DEF present

\* A window goes from one number to another.
LEMMA WindowType ==
  ASSUME NEW w \in Steps \cup Hours
  PROVE  \E lo, hi \in Int : w = <<lo, hi>>
<1>1. CASE w \in Steps
  <2>1. PICK k \in 1 .. Len(Borders) - 1 : w = Step(k)
    BY <1>1 DEF Steps
  <2>2. k \in 1 .. 8 + 1 /\ k + 1 \in 1 .. 8 + 1
    BY <2>1, BordersAre
  <2>3. Borders[k] \in Int /\ Borders[k + 1] \in Int
    BY <2>2, BordersAre
  <2> QED BY <2>1, <2>3 DEF Step
<1>2. CASE w \in Hours
  BY <1>2 DEF Hours
<1> QED BY <1>1, <1>2

\* The mean of every window lies within its samples.
LEMMA MeansSound ==
  ASSUME Orderly(Own)
  PROVE  /\ MeanSound(Own, Whole)
         /\ \A w \in DOMAIN Windows : MeanSound(InWindow(Own, w), Windows[w])
<1>1. MeanSound(Own, Whole)
  <2>1. /\ Own \in Seq(Row) /\ Len(Own) \in Nat /\ Len(Own) >= 2
        /\ \A i \in 1 .. Len(Own) : Own[i].elapsed \in Int
        /\ \A i, j \in 1 .. Len(Own) : i < j => Own[i].elapsed < Own[j].elapsed
    BY DEF Orderly
  <2>2. Own # <<>>
    BY <2>1
  <2>3. \A i \in 1 .. Len(Own) - 1 : Own[i].elapsed <= Own[i + 1].elapsed
    <3> TAKE i \in 1 .. Len(Own) - 1
    <3>1. i \in 1 .. Len(Own) /\ i + 1 \in 1 .. Len(Own) /\ i < i + 1
      BY <2>1, Neighbours
    <3>2. Own[i].elapsed < Own[i + 1].elapsed /\ Own[i].elapsed \in Int /\ Own[i + 1].elapsed \in Int
      BY <2>1, <3>1
    <3> QED BY <3>2
  <2> QED BY <2>1, <2>2, <2>3, WindowsAre, MeanOf
<1>2. ASSUME NEW w \in DOMAIN Windows PROVE MeanSound(InWindow(Own, w), Windows[w])
  <2>1. w \in Steps \cup Hours /\ InWindow(Own, w) # <<>> /\ Windows[w] = Summary(InWindow(Own, w))
    BY WindowsAre
  <2>2. PICK lo \in Int, hi \in Int : w = <<lo, hi>>
    BY <2>1, WindowType
  <2> DEFINE W == {i \in 1 .. Len(Own) : lo <= Own[i].since /\ Own[i].since <= hi}
  <2>3. PICK a \in W, b \in W : a <= b /\ Part(InWindow(Own, w), Own, a, b)
    BY <2>1, <2>2, WindowIs
  <2>4. a \in 1 .. Len(Own) /\ b \in 1 .. Len(Own)
    OBVIOUS
  <2> HIDE DEF W
  <2> QED BY <2>1, <2>3, <2>4, PartSummary
<1> QED BY <1>1, <1>2

\* A sample of the first three hours is in a window.
LEMMA SamplesCovered ==
  ASSUME Orderly(Own), NEW i \in DOMAIN Own, Between(Borders[1], Last(Borders), Own[i].since)
  PROVE  \E w \in DOMAIN Windows \cap Steps : Between(w[1], w[2], Own[i].since)
<1> DEFINE s == Own[i].since
<1>1. /\ Own \in Seq(Row) /\ i \in 1 .. Len(Own) /\ s \in Int
  BY DEF Orderly
<1> HIDE DEF s
<1>2. 0 <= s /\ s <= 10800
  BY BordersAre DEF Between, s
<1>3. \E k \in 1 .. 8 : Borders[k] <= s /\ s <= Borders[k + 1]
  <2>1. /\ Borders[1] = 0 /\ Borders[2] = 60 /\ Borders[3] = 300 /\ Borders[4] = 600
        /\ Borders[5] = 1200 /\ Borders[6] = 1800 /\ Borders[7] = 3600 /\ Borders[8] = 7200
        /\ Borders[9] = 10800
    BY DEF Borders
  <2>2. \/ s <= 60 \/ (60 <= s /\ s <= 300) \/ (300 <= s /\ s <= 600) \/ (600 <= s /\ s <= 1200)
        \/ (1200 <= s /\ s <= 1800) \/ (1800 <= s /\ s <= 3600) \/ (3600 <= s /\ s <= 7200)
        \/ 7200 <= s
    BY <1>1
  <2>3. /\ 1 \in 1 .. 8 /\ 2 \in 1 .. 8 /\ 3 \in 1 .. 8 /\ 4 \in 1 .. 8
        /\ 5 \in 1 .. 8 /\ 6 \in 1 .. 8 /\ 7 \in 1 .. 8 /\ 8 \in 1 .. 8
        /\ 1 + 1 = 2 /\ 2 + 1 = 3 /\ 3 + 1 = 4 /\ 4 + 1 = 5 /\ 5 + 1 = 6 /\ 6 + 1 = 7 /\ 7 + 1 = 8
        /\ 8 + 1 = 9
    OBVIOUS
  <2> QED BY <1>2, <2>1, <2>2, <2>3
<1>4. PICK k \in 1 .. 8 : Borders[k] <= s /\ s <= Borders[k + 1]
  BY <1>3
<1> DEFINE lo == Borders[k]
           hi == Borders[k + 1]
<1>5. lo \in Int /\ hi \in Int
  <2>1. k \in 1 .. 8 + 1 /\ k + 1 \in 1 .. 8 + 1
    OBVIOUS
  <2> QED BY <2>1, BordersAre
<1>6. Step(k) = <<lo, hi>> /\ Step(k) \in Steps
  <2>1. k \in 1 .. Len(Borders) - 1
    BY BordersAre
  <2> QED BY <2>1 DEF Step, Steps
<1>7. lo <= s /\ s <= hi
  BY <1>4
<1> HIDE DEF lo, hi
<1> DEFINE W == {j \in 1 .. Len(Own) : lo <= Own[j].since /\ Own[j].since <= hi}
<1>8. i \in W
  BY <1>1, <1>7 DEF s
<1>9. PICK a \in W, b \in W : a <= b /\ Part(InWindow(Own, <<lo, hi>>), Own, a, b)
  BY <1>5, <1>8, WindowIs
<1>10. InWindow(Own, <<lo, hi>>) # <<>>
  <2>1. a \in Nat /\ b \in Nat
    BY <1>1
  <2>2. Len(InWindow(Own, <<lo, hi>>)) = b - a + 1
    BY <1>9 DEF Part
  <2> QED BY <1>9, <2>1, <2>2
<1>11. Step(k) \in DOMAIN Windows \cap Steps
  BY <1>6, <1>10, WindowsAre
<1>12. Between(Step(k)[1], Step(k)[2], Own[i].since)
  BY <1>6, <1>7 DEF Between, s
<1> QED BY <1>11, <1>12

\* A step counts what its samples count.
LEMMA StepCounts ==
  ASSUME Orderly(Own), NEW k \in 1 .. 8,
         NEW n \in Nat, n = Len(Own),
         NEW t, t = [i \in 1 .. n |-> Own[i].since], NEW c, c = [i \in 1 .. n |-> Own[i].cpu],
         NEW d, d = IF Step(k) \in DOMAIN Windows THEN Windows[Step(k)].cpu[1] ELSE 0
  PROVE  d \in Int /\ Counts(n, t, c, Borders[k], Borders[k + 1], d)
<1>0. Borders[k] \in Int /\ Borders[k + 1] \in Int
  BY BorderType
<1> DEFINE lo == Borders[k]
           hi == Borders[k + 1]
           w == Step(k)
           r == InWindow(Own, <<lo, hi>>)
           V == {i \in 1 .. n : lo <= Own[i].since /\ Own[i].since <= hi}
           W == {i \in 1 .. n : lo <= t[i] /\ t[i] <= hi}
<1>1. lo \in Int /\ hi \in Int
  BY <1>0
<1>2. w = <<lo, hi>> /\ w \in Steps
  <2>1. k \in 1 .. Len(Borders) - 1
    BY BordersAre
  <2> QED BY <2>1 DEF Step, Steps
<1>3. V = W /\ \A i \in 1 .. n : c[i] = Own[i].cpu
  OBVIOUS
<1>4. w \in DOMAIN Windows <=> r # <<>>
  BY <1>2, WindowsAre
<1> HIDE DEF lo, hi, r, w
<1>5. \/ V = {} /\ r = <<>>
      \/ \E a, b \in V : a <= b /\ V = a .. b /\ Part(r, Own, a, b)
  BY <1>1, WindowIs DEF r
<1>6. \A i \in V : i \in 1 .. n
  OBVIOUS
<1> HIDE DEF V, W
<1>7. CASE V = {}
  <2>1. r = <<>>
    BY <1>5, <1>7
  <2>2. d = 0
    BY <1>4, <2>1 DEF w
  <2>3. {i \in 1 .. n : Borders[k] <= t[i] /\ t[i] <= Borders[k + 1]} = {}
    BY <1>3, <1>7 DEF W, lo, hi
  <2>4. Counts(n, t, c, Borders[k], Borders[k + 1], d)
    BY <2>2, <2>3 DEF Counts
  <2> QED BY <2>2, <2>4
<1>8. CASE V # {}
  <2>1. PICK a \in V, b \in V : a <= b /\ V = a .. b /\ Part(r, Own, a, b)
    BY <1>5, <1>8
  <2>2. a \in 1 .. n /\ b \in 1 .. n /\ a \in Nat /\ b \in Nat
    BY <1>6, <2>1
  <2>3. r # <<>>
    <3>1. Len(r) = b - a + 1
      BY <2>1 DEF Part
    <3> QED BY <2>1, <2>2, <3>1
  <2>4. w \in DOMAIN Windows /\ Windows[w] = Summary(r)
    BY <1>2, <1>4, <2>3, WindowsAre DEF r
  <2>5. Summary(r).cpu = <<Own[b].cpu - Own[a].cpu, 1>>
    BY <2>1, <2>2, PartSummary
  <2>6. d = Own[b].cpu - Own[a].cpu
    BY <2>4, <2>5 DEF w
  <2>7. Own[b].cpu \in Int /\ Own[a].cpu \in Int
    BY <2>2 DEF Orderly
  <2>8. d = c[b] - c[a] /\ d \in Int
    BY <1>3, <2>2, <2>6, <2>7
  <2>9. \A i \in W : a <= i /\ i <= b
    BY <1>3, <2>1, <2>2
  <2>10. a \in W /\ b \in W
    BY <1>3, <2>1
  <2> QED BY <2>8, <2>9, <2>10 DEF Counts, W, lo, hi
<1> QED BY <1>7, <1>8

\* The steps together count no more CPU time than the phase, and all of it where samples
\* lie on their borders.
LEMMA CountedSound ==
  ASSUME Orderly(Own)
  PROVE  /\ Counted(Windows) <= Whole.cpu[1]
         /\ Seamless(Own) => Counted(Windows) = Whole.cpu[1]
<1> DEFINE n == Len(Own)
           t == [i \in 1 .. n |-> Own[i].since]
           c == [i \in 1 .. n |-> Own[i].cpu]
           d == [k \in 1 .. 8 |->
                   IF Step(k) \in DOMAIN Windows THEN Windows[Step(k)].cpu[1] ELSE 0]
<1>1. /\ Own \in Seq(Row) /\ n \in Nat /\ n >= 2 /\ DOMAIN Own = 1 .. n
      /\ \A i \in 1 .. n : Own[i].since \in Int /\ Own[i].cpu \in Int /\ Own[i].cpu # Missing
      /\ \A i, j \in 1 .. n : i < j => Own[i].since < Own[j].since
      /\ \A i, j \in 1 .. n : i <= j => Own[i].cpu <= Own[j].cpu
  BY DEF Orderly
<1>2. 1 \in 1 .. n /\ n \in 1 .. n /\ n \in Nat \ {0}
  BY <1>1
<1>3. Counted(Windows) = Total(d)
  BY BordersAre DEF Counted
<1>4. \A k \in 1 .. 8 :
        d[k] \in Int /\ Counts(n, t, c, Borders[k], Borders[k + 1], d[k])
  <2> TAKE k \in 1 .. 8
  <2>1. d[k] = IF Step(k) \in DOMAIN Windows THEN Windows[Step(k)].cpu[1] ELSE 0
    OBVIOUS
  <2> HIDE DEF d
  <2>2. n = Len(Own) /\ t = [i \in 1 .. n |-> Own[i].since] /\ c = [i \in 1 .. n |-> Own[i].cpu]
    OBVIOUS
  <2> HIDE DEF n, t, c
  <2> QED BY <1>1, <2>1, <2>2, StepCounts
<1>5. /\ t \in [1 .. n -> Int] /\ c \in [1 .. n -> Int]
      /\ \A i \in 1 .. n : t[i] = Own[i].since /\ c[i] = Own[i].cpu
  BY <1>1
<1>6. d \in [1 .. 8 -> Int]
  <2>1. d = [k \in 1 .. 8 |-> d[k]]
    OBVIOUS
  <2> HIDE DEF d
  <2> QED BY <1>4, <2>1
<1>7. Whole.cpu[1] = c[n] - c[1]
  <2>1. Whole.cpu = Delta(Own, "cpu")
    BY WindowsAre DEF Summary
  <2>2. Last(Own) = Own[n]
    BY DEF Last
  <2>3. Delta(Own, "cpu") = <<Own[n].cpu - Own[1].cpu, 1>>
    <3> HIDE DEF n
    <3> QED BY <1>1, <1>2, <2>2 DEF Delta
  <2> QED BY <1>2, <1>5, <2>1, <2>3
<1> HIDE DEF n, t, c, d
<1>8. Rising(n, t) /\ NotFalling(n, c)
  BY <1>1, <1>5 DEF Rising, NotFalling
<1> DEFINE Seam == /\ t[1] >= Borders[1] /\ t[n] <= Borders[8 + 1]
                   /\ \A k \in 1 .. 8 : OnBorder(n, t, Borders[k])
<1>9. /\ Total(d) <= c[n] - c[1]
      /\ Seam => Total(d) = c[n] - c[1]
  <2> DEFINE m == 8
             B == Borders
  <2>1. /\ m \in Nat /\ B \in [1 .. m + 1 -> Int] /\ \A k \in 1 .. m : B[k] <= B[k + 1]
        /\ d \in [1 .. m -> Int]
    BY <1>6, BordersAre
  <2>2. \A k \in 1 .. m : Counts(n, t, c, B[k], B[k + 1], d[k])
    BY <1>4
  <2>3. Seam => t[1] >= B[1] /\ t[n] <= B[m + 1] /\ \A k \in 1 .. m : OnBorder(n, t, B[k])
    OBVIOUS
  <2>4. n \in Nat \ {0} /\ t \in [1 .. n -> Int] /\ c \in [1 .. n -> Int]
    BY <1>2, <1>5
  <2> HIDE DEF m, B, Seam
  <2>5. Total(d) <= c[n] - c[1]
    BY ONLY <1>8, <2>1, <2>2, <2>4, WindowsCount
  <2>6. ASSUME Seam PROVE Total(d) >= c[n] - c[1]
    BY ONLY <1>8, <2>1, <2>2, <2>3, <2>4, <2>6, WindowsCount
  <2>7. Total(d) \in Int
    <3>1. d \in Seq(Int) /\ Len(d) \in Nat
      BY ONLY <2>1
    <3>2. Len(d) \in 0 .. Len(d)
      BY <3>1
    <3> QED BY <3>1, <3>2, SumsIs
  <2>8. c[n] - c[1] \in Int
    <3>1. c[n] \in Int /\ c[1] \in Int
      BY <1>2, <2>4
    <3> QED BY <3>1
  <2>9. ASSUME Seam PROVE Total(d) = c[n] - c[1]
    BY <2>5, <2>6, <2>7, <2>8, <2>9
  <2> QED BY <2>5, <2>9
<1>10. ASSUME Seamless(Own) PROVE Seam
  <2>1. /\ Own[1].since >= Borders[1] /\ Own[n].since <= Borders[8 + 1]
        /\ \A k \in 1 .. 9 : Own[1].since < Borders[k] /\ Borders[k] < Own[n].since =>
             \E i \in DOMAIN Own : Own[i].since = Borders[k]
    <3>1. Last(Own) = Own[n]
      BY DEF Last, n
    <3> QED BY <1>10, <3>1, BordersAre DEF Seamless
  <2>2. \A k \in 1 .. 8 : OnBorder(n, t, Borders[k])
    <3> TAKE k \in 1 .. 8
    <3>1. k \in 1 .. 9
      OBVIOUS
    <3> QED BY <1>1, <1>2, <1>5, <2>1, <3>1 DEF OnBorder
  <2> QED BY <1>2, <1>5, <2>1, <2>2
<1> HIDE DEF Seam
<1> QED BY <1>3, <1>7, <1>9, <1>10

\* Memory that only grows has no falling trend.
LEMMA TrendsSound ==
  ASSUME Orderly(Own), \A i \in 1 .. Len(Own) - 1 : Own[i].used <= Own[i + 1].used,
         NEW span \in Trends
  PROVE  Trend(Own, span) # None => Trend(Own, span)[1] >= 0
<1> DEFINE n == Len(Own)
           J == {i \in DOMAIN Own : Own[i].since >= Last(Own).since - span /\ Own[i].used # Missing}
           r == At(Own, J)
<1>1. /\ Own \in Seq(Row) /\ n \in Nat /\ n >= 2 /\ DOMAIN Own = 1 .. n
      /\ \A i \in 1 .. n : Own[i].since \in Int /\ Own[i].used \in Nat
      /\ \A i, j \in 1 .. n : i < j => Own[i].since < Own[j].since
  BY DEF Orderly
<1>2. span \in Nat
  BY DEF Trends
<1>3. Last(Own) = Own[n] /\ n \in 1 .. n
  BY <1>1 DEF Last
<1>4. \A i, j \in 1 .. n : i <= j => Own[i].used <= Own[j].used
  <2> DEFINE u == [i \in 1 .. n |-> Own[i].used]
  <2>1. u \in [1 .. n -> Int] /\ \A i \in 1 .. n : u[i] = Own[i].used
    BY <1>1
  <2> HIDE DEF u
  <2>2. \A i \in 1 .. n - 1 : u[i] <= u[i + 1]
    <3> TAKE i \in 1 .. n - 1
    <3>1. i \in 1 .. n /\ i + 1 \in 1 .. n
      BY <1>1, Neighbours
    <3> QED BY <2>1, <3>1
  <2> HIDE DEF n
  <2>3. \A i, j \in 1 .. n : i <= j => u[i] <= u[j]
    BY <1>1, <2>1, <2>2, Ascending
  <2> QED BY <2>1, <2>3
<1>5. Trend(Own, span) = LinearSlope(Points(r, "since", "used"))
  BY DEF Trend, Recent
<1>6. J \in SUBSET (1 .. n)
  BY <1>1
<1>7. J # {}
  <2>1. Own[n].since >= Own[n].since - span /\ Own[n].used # Missing
    BY <1>1, <1>2, <1>3 DEF Missing
  <2> QED BY <1>1, <1>3, <2>1
<1>8. \A i, j \in J : \A k \in 1 .. n : i <= k /\ k <= j => k \in J
  <2> TAKE i, j \in J
  <2> TAKE k \in 1 .. n
  <2> HAVE i <= k /\ k <= j
  <2>1. i \in 1 .. n /\ Own[i].since >= Own[n].since - span
    BY <1>1, <1>3
  <2> HIDE DEF J
  <2>2. i < k \/ i = k
    BY <2>1
  <2>3. Own[i].since <= Own[k].since
    BY <1>1, <2>1, <2>2
  <2>4. Own[k].since >= Own[n].since - span
    <3>1. Own[i].since \in Int /\ Own[k].since \in Int /\ Own[n].since \in Int
      BY <1>1, <1>3, <2>1
    <3> QED BY <1>2, <2>1, <2>3, <3>1
  <2>5. Own[k].used # Missing
    BY <1>1 DEF Missing
  <2> QED BY <1>1, <1>3, <2>4, <2>5 DEF J
<1> HIDE DEF n, J, r
<1>9. PICK a \in J, b \in J : a <= b /\ J = a .. b /\ Part(r, Own, a, b)
  BY <1>1, <1>6, <1>7, <1>8, PartIs DEF n, r
<1>10. a \in 1 .. n /\ b \in 1 .. n /\ a \in Nat /\ b \in Nat
  BY <1>1, <1>6
<1>11. /\ r \in Seq(Row) /\ Len(r) = b - a + 1
       /\ \A m \in 1 .. Len(r) : r[m] = Own[a + m - 1]
  BY <1>9 DEF Part
<1>12. ASSUME NEW i \in 1 .. Len(r), NEW j \in 1 .. Len(r), i <= j
       PROVE  r[i].since <= r[j].since /\ r[i].used <= r[j].used
  <2> DEFINE k == a + i - 1
             l == a + j - 1
  <2>1. k \in 1 .. n /\ l \in 1 .. n /\ k <= l
    BY <1>1, <1>10, <1>11, <1>12
  <2>2. r[i] = Own[k] /\ r[j] = Own[l]
    BY <1>11
  <2> HIDE DEF k, l
  <2>3. k < l \/ k = l
    BY <2>1
  <2>4. Own[k].since <= Own[l].since
    <3>1. Own[k].since \in Int /\ Own[l].since \in Int
      BY <1>1, <2>1
    <3>2. k < l => Own[k].since < Own[l].since
      BY <1>1, <2>1
    <3> QED BY <2>3, <3>1, <3>2
  <2> QED BY <1>4, <2>1, <2>2, <2>4
<1>13. LinearSlope(Points(r, "since", "used")) # None
         => LinearSlope(Points(r, "since", "used"))[1] >= 0
  BY <1>11, <1>12, TrendOf
<1> QED BY <1>5, <1>13

LEMMA SummariesOf == CollectorInv /\ RowsInv => SummariesSound
<1> SUFFICES ASSUME CollectorInv, RowsInv, Taken
             PROVE  /\ MeanSound(Own, Whole)
                    /\ \A w \in DOMAIN Windows : MeanSound(InWindow(Own, w), Windows[w])
                    /\ \A i \in DOMAIN Own : Between(Borders[1], Last(Borders), Own[i].since) =>
                         \E w \in DOMAIN Windows \cap Steps : Between(w[1], w[2], Own[i].since)
                    /\ Counted(Windows) <= Whole.cpu[1]
                    /\ Seamless(Own) => Counted(Windows) = Whole.cpu[1]
                    /\ (\A i \in 1 .. Len(Own) - 1 : Own[i].used <= Own[i + 1].used)
                         => \A t \in Trends : LET trend == Trend(Own, t)
                                              IN trend # None => trend[1] >= 0
  BY Zenon DEF SummariesSound
<1>1. Orderly(Own)
  BY OwnOrderly
<1>2. /\ MeanSound(Own, Whole)
      /\ \A w \in DOMAIN Windows : MeanSound(InWindow(Own, w), Windows[w])
  BY <1>1, MeansSound
<1>3. \A i \in DOMAIN Own : Between(Borders[1], Last(Borders), Own[i].since) =>
        \E w \in DOMAIN Windows \cap Steps : Between(w[1], w[2], Own[i].since)
  BY <1>1, SamplesCovered
<1>4. Counted(Windows) <= Whole.cpu[1] /\ (Seamless(Own) => Counted(Windows) = Whole.cpu[1])
  BY <1>1, CountedSound
<1>5. ASSUME \A i \in 1 .. Len(Own) - 1 : Own[i].used <= Own[i + 1].used, NEW t \in Trends
      PROVE  LET trend == Trend(Own, t) IN trend # None => trend[1] >= 0
  BY <1>1, <1>5, TrendsSound
<1> QED BY <1>2, <1>3, <1>4, <1>5

\* phase-report.py summarises an admitted run soundly whatever happened to the clock:
\* means within their samples, no sample of three hours without a window, the CPU time of
\* consecutive windows never more than that of the phase, and no falling trend of memory
\* that only grows.
THEOREM SummariesAreSound == Spec => []SummariesSound
<1> QED BY RowsInvariant, SummariesOf, PTL
=============================================================================

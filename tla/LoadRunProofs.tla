---------------------------- MODULE LoadRunProofs ----------------------------
(***************************************************************************)
(* The properties of a load, for every plan: how the collection is         *)
(* seeded, how the trace uses the pool, what an admitted load means, that  *)
(* it is admitted when nothing goes wrong, and what the reports make of    *)
(* the stream of k6.                                                       *)
(***************************************************************************)
EXTENDS LoadRun, WellFoundedInduction, FiniteSetTheorems, TLAPS

(* SeededExactly: check and inserts of a seed request are not atomic; what decides
   between two of them is order 0, which every one inserts first. *)

Clients == {"runner", "other"}

SeedsTyped ==
  /\ DOMAIN seeds = Clients
  /\ seeds = [c \in Clients |-> seeds[c]]
  /\ \A c \in Clients : seeds[c].next \in Nat

\* The collection holds the orders that client c inserted, and no other.
Owned(c) == collection = 0 .. seeds[c].next - 1

\* A client that got past order 0 has inserted the whole collection, and there is at
\* most one; a collection that is not empty has order 0.
SeedInv ==
  /\ SeedsTyped
  /\ collection # {} => 0 \in collection
  /\ \A c \in Clients :
       /\ seeds[c].step = "inserting" /\ seeds[c].next > 0 => Owned(c)
       /\ seeds[c].step = "done" =>
            seeds[c].next > 0 /\ seeds[c].count = seeds[c].next /\ Owned(c)
       /\ seeds[c].next > 0 => 0 \in collection
  /\ \A c, d \in Clients : c # d => seeds[c].next = 0 \/ seeds[d].next = 0

\* Nothing is inserted at the beginning.
LEMMA SeedInvInit == Init => SeedInv
BY DEF Init, SeedInv, SeedsTyped, Clients

\* A step of client c replaces its own request.
LEMMA SeedingEffect ==
  ASSUME SeedsTyped, NEW c \in Clients, NEW step, NEW count, NEW next \in Nat,
         Seeding(c, step, count, next)
  PROVE  /\ SeedsTyped'
         /\ seeds'[c].step = step /\ seeds'[c].count = count /\ seeds'[c].next = next
         /\ \A d \in Clients : d # c => seeds'[d] = seeds[d]
<1>1. seeds' = [seeds EXCEPT ![c] = [step |-> step, count |-> count, next |-> next]]
  BY DEF Seeding
<1>2. seeds'[c] = [step |-> step, count |-> count, next |-> next]
  BY <1>1 DEF SeedsTyped
<1>3. \A d \in Clients : d # c => seeds'[d] = seeds[d]
  BY <1>1 DEF SeedsTyped
<1>4. DOMAIN seeds' = Clients /\ seeds' = [d \in Clients |-> seeds'[d]]
  BY <1>1 DEF SeedsTyped
<1>5. \A d \in Clients : seeds'[d].next \in Nat
  BY <1>2, <1>3 DEF SeedsTyped
<1> QED
  BY <1>2, <1>3, <1>4, <1>5 DEF SeedsTyped

\* A request that gives up keeps what it inserted; order 0 may be there now.
LEMMA RequestFails ==
  ASSUME SeedInv, NEW c \in Clients, NEW count, NEW next \in Nat,
         Seeding(c, "failed", count, next), next \in {0, seeds[c].next},
         collection' = collection
  PROVE  SeedInv'
<1>1. /\ SeedsTyped'
      /\ seeds'[c].step = "failed" /\ seeds'[c].next = next
      /\ \A d \in Clients : d # c => seeds'[d] = seeds[d]
  BY SeedingEffect DEF SeedInv
<1>2. ASSUME NEW d \in Clients
      PROVE  /\ seeds'[d].step = "inserting" /\ seeds'[d].next > 0 => Owned(d)'
             /\ seeds'[d].step = "done" =>
                  seeds'[d].next > 0 /\ seeds'[d].count = seeds'[d].next /\ Owned(d)'
             /\ seeds'[d].next > 0 => 0 \in collection'
  BY <1>1 DEF SeedInv, Owned
<1>3. ASSUME NEW d \in Clients, NEW e \in Clients, d # e
      PROVE  seeds'[d].next = 0 \/ seeds'[e].next = 0
  BY <1>1, <1>3 DEF SeedInv
<1> QED
  BY <1>1, <1>2, <1>3 DEF SeedInv

\* A request begins with an empty collection, before anybody has inserted order 0.
LEMMA RequestBegins ==
  ASSUME SeedInv, NEW c \in Clients, NEW count, SeedBegin(c, count)
  PROVE  SeedInv'
<1>1. CASE CountAllowed(count) /\ collection = {}
  <2>1. Seeding(c, "inserting", count, 0) /\ collection' = {}
    BY <1>1 DEF SeedBegin
  <2>2. /\ SeedsTyped'
        /\ seeds'[c].step = "inserting" /\ seeds'[c].next = 0
        /\ \A d \in Clients : d # c => seeds'[d] = seeds[d]
    BY <2>1, SeedingEffect DEF SeedInv
  <2>3. \A d \in Clients : seeds[d].next = 0 /\ seeds[d].step # "done"
    BY <1>1 DEF SeedInv, SeedsTyped
  <2>4. \A d \in Clients : seeds'[d].next = 0 /\ seeds'[d].step # "done"
    BY <2>2, <2>3
  <2> QED
    BY <2>1, <2>2, <2>4 DEF SeedInv
<1>2. CASE ~(CountAllowed(count) /\ collection = {})
  <2>1. Seeding(c, "failed", 0, 0) /\ collection' = collection
    BY <1>2 DEF SeedBegin
  <2> QED
    BY <2>1, RequestFails
<1> QED
  BY <1>1, <1>2

\* An order is inserted: the first, into an empty collection, or the next of the only
\* client that has got so far.
LEMMA RequestInserts ==
  ASSUME SeedInv, NEW c \in Clients, SeedInsert(c)
  PROVE  SeedInv'
<1> DEFINE n == seeds[c].next
<1>1. n \in Nat /\ seeds[c].step = "inserting"
  BY DEF SeedInv, SeedsTyped, SeedInsert
<1>2. CASE n \in collection
  <2>1. Seeding(c, "failed", seeds[c].count, n) /\ collection' = collection
    BY <1>2 DEF SeedInsert, Inserts
  <2> QED
    BY <1>1, <2>1, RequestFails
<1>3. CASE n \notin collection
  <2>1. /\ collection' = collection \cup {n}
        /\ Seeding(c, IF n + 1 = seeds[c].count THEN "done" ELSE "inserting",
                   seeds[c].count, n + 1)
    BY <1>3 DEF SeedInsert, Inserts
  <2>2. /\ SeedsTyped'
        /\ seeds'[c].step = (IF n + 1 = seeds[c].count THEN "done" ELSE "inserting")
        /\ seeds'[c].count = seeds[c].count /\ seeds'[c].next = n + 1
        /\ \A d \in Clients : d # c => seeds'[d] = seeds[d]
    <3>1. n + 1 \in Nat
      BY <1>1
    <3> QED
      BY <2>1, <3>1, SeedingEffect DEF SeedInv
  <2>3. \A d \in Clients : d # c => seeds[d].next = 0
    <3>1. CASE n = 0
      BY <1>3, <3>1 DEF SeedInv, SeedsTyped
    <3>2. CASE n > 0
      BY <3>2 DEF SeedInv
    <3> QED BY <1>1, <3>1, <3>2
  <2>4. collection' = 0 .. n
    <3>1. CASE n = 0
      <4>1. collection = {}
        BY <1>3, <3>1 DEF SeedInv
      <4> QED BY <2>1, <3>1, <4>1
    <3>2. CASE n > 0
      <4>1. collection = 0 .. n - 1
        BY <1>1, <3>2 DEF SeedInv, Owned
      <4> QED BY <1>1, <2>1, <4>1
    <3> QED BY <1>1, <3>1, <3>2
  <2>5. ASSUME NEW d \in Clients
        PROVE  /\ seeds'[d].step = "inserting" /\ seeds'[d].next > 0 => Owned(d)'
               /\ seeds'[d].step = "done" =>
                    seeds'[d].next > 0 /\ seeds'[d].count = seeds'[d].next /\ Owned(d)'
               /\ seeds'[d].next > 0 => 0 \in collection'
    <3>1. CASE d = c
      BY <1>1, <2>2, <2>4, <3>1 DEF Owned
    <3>2. CASE d # c
      <4>1. seeds'[d].next = 0 /\ seeds'[d].step # "done"
        BY <2>2, <2>3, <3>2 DEF SeedInv
      <4> QED BY <4>1
    <3> QED BY <3>1, <3>2
  <2>6. ASSUME NEW d \in Clients, NEW e \in Clients, d # e
        PROVE  seeds'[d].next = 0 \/ seeds'[e].next = 0
    BY <2>2, <2>3, <2>6
  <2>7. 0 \in collection'
    BY <1>1, <2>4
  <2> QED
    BY <2>2, <2>5, <2>6, <2>7 DEF SeedInv
<1> QED
  BY <1>2, <1>3

\* The order of a failed insert may be there: that is order 0, or the client was the
\* only one to get so far.
LEMMA RequestBreaks ==
  ASSUME SeedInv, NEW c \in Clients, SeedFails(c)
  PROVE  SeedInv'
<1> DEFINE n == seeds[c].next
<1>1. /\ n \in Nat
      /\ Seeding(c, "failed", seeds[c].count, n)
      /\ collection' \in {collection, collection \cup {n}}
  BY DEF SeedInv, SeedsTyped, SeedFails
<1>2. CASE collection' = collection
  BY <1>1, <1>2, RequestFails
<1>3. CASE collection' = collection \cup {n}
  <2>1. /\ SeedsTyped'
        /\ seeds'[c].step = "failed" /\ seeds'[c].next = n
        /\ \A d \in Clients : d # c => seeds'[d] = seeds[d]
    BY <1>1, SeedingEffect DEF SeedInv
  <2>2. 0 \in collection'
    <3>1. CASE n = 0
      BY <1>3, <3>1
    <3>2. CASE n > 0
      BY <1>3, <3>2 DEF SeedInv
    <3> QED BY <1>1, <3>1, <3>2
  <2>3. ASSUME NEW d \in Clients
        PROVE  /\ seeds'[d].step = "inserting" /\ seeds'[d].next > 0 => Owned(d)'
               /\ seeds'[d].step = "done" =>
                    seeds'[d].next > 0 /\ seeds'[d].count = seeds'[d].next /\ Owned(d)'
               /\ seeds'[d].next > 0 => 0 \in collection'
    <3>1. CASE d = c
      BY <2>1, <2>2, <3>1
    <3>2. CASE d # c /\ seeds[d].next > 0
      <4>1. n = 0 /\ 0 \in collection
        BY <3>2 DEF SeedInv
      <4>2. collection' = collection
        BY <1>3, <4>1
      <4> QED BY <2>1, <3>2, <4>2 DEF SeedInv, Owned
    <3>3. CASE d # c /\ ~(seeds[d].next > 0)
      <4>1. seeds'[d] = seeds[d] /\ seeds[d].step # "done"
        BY <2>1, <3>3 DEF SeedInv
      <4> QED BY <3>3, <4>1
    <3> QED BY <3>1, <3>2, <3>3
  <2>4. ASSUME NEW d \in Clients, NEW e \in Clients, d # e
        PROVE  seeds'[d].next = 0 \/ seeds'[e].next = 0
    BY <2>1, <2>4 DEF SeedInv
  <2> QED
    BY <2>1, <2>2, <2>3, <2>4 DEF SeedInv
<1> QED
  BY <1>1, <1>2, <1>3

\* Only the seed requests change the collection before the load.
LEMMA SeedInvStep == SeedInv /\ [Next]_vars => SeedInv'
<1> SUFFICES ASSUME SeedInv, [Next]_vars PROVE SeedInv'
  OBVIOUS
<1>1. DOMAIN seeds = Clients
  BY DEF SeedInv, SeedsTyped
<1>2. ASSUME NEW c \in Clients, NEW count, SeedBegin(c, count) PROVE SeedInv'
  BY <1>2, RequestBegins
<1>3. ASSUME NEW c \in Clients, SeedInsert(c) \/ SeedFails(c) PROVE SeedInv'
  BY <1>3, RequestInserts, RequestBreaks
<1>4. ASSUME UNCHANGED <<collection, seeds>> PROVE SeedInv'
  BY <1>4 DEF SeedInv, SeedsTyped, Owned
<1>5. CASE StartLoad \/ Arrive \/ End \/ UNCHANGED vars
  BY <1>4, <1>5 DEF StartLoad, Arrive, End, vars
<1>6. ASSUME NEW r, NEW b, Process(r, b) PROVE SeedInv'
  BY <1>4, <1>6 DEF Process
<1>7. ASSUME NEW r, NEW lost, Answer(r, lost) PROVE SeedInv'
  BY <1>4, <1>7 DEF Answer
<1> QED
  BY <1>1, <1>2, <1>3, <1>5, <1>6, <1>7 DEF Next, Clients

\* SeededExactly: whatever two seed requests do at the same time, and wherever they
\* fail, one that is acknowledged has inserted the whole collection itself.
THEOREM SeedsAreExact == Spec => []SeededExactly
<1>1. SeedInv => SeededExactly
  BY DEF SeedInv, SeedsTyped, SeededExactly, Owned
<1> QED
  BY <1>1, SeedInvInit, SeedInvStep, PTL DEF Spec

-----------------------------------------------------------------------------
(* PoolUsedEvenly. *)

LEMMA Least ==
  ASSUME NEW S, S \subseteq Nat, S # {}
  PROVE  \E m \in S : \A n \in S : m <= n
<1> DEFINE R == {ss \in Nat \X Nat : ss[1] < ss[2]}
<1>1. R = OpToRel(<, Nat)
  BY DEF OpToRel
<1>2. IsWellFoundedOn(R, Nat)
  BY <1>1, NatLessThanWellFounded
<1>3. PICK m \in S : \A y \in S : <<y, m>> \notin R
  <2> HIDE DEF R
  <2> QED BY <1>2, WFMin
<1>4. ASSUME NEW n \in S
      PROVE  m <= n
  <2>1. <<n, m>> \in Nat \X Nat /\ ~(n < m)
    BY <1>3
  <2> QED BY <2>1
<1> QED BY <1>4

LEMMA MinIs ==
  ASSUME NEW S, S \subseteq Nat, S # {}
  PROVE  Min(S) \in S /\ \A n \in S : Min(S) <= n
<1>1. \E m \in S : \A n \in S : m <= n
  BY Least
<1>2. Min(S) = CHOOSE m \in S : \A n \in S : m <= n
  BY Zenon DEF Min
<1> QED BY <1>1, <1>2, Zenon

LEMMA Division ==
  ASSUME NEW x \in Int, NEW p \in Nat \ {0}
  PROVE  /\ x \div p \in Int /\ x % p \in 0 .. p - 1
         /\ x = p * (x \div p) + (x % p)
  OBVIOUS

\* There is only one way to write a number as a multiple and a remainder.
LEMMA Remainders ==
  ASSUME NEW p \in Nat \ {0}, NEW q \in Int, NEW r \in 0 .. p - 1
  PROVE  (p * q + r) % p = r
<1> DEFINE x == p * q + r
<1>1. x \in Int
  OBVIOUS
<1>2. PICK d \in Int, m \in 0 .. p - 1 : d = x \div p /\ m = x % p /\ x = p * d + m
  BY <1>1, Division
<1>3. p * (q - d) = m - r
  BY <1>2
<1>4. q - d = 0
  <2>1. PICK k \in Int : k = q - d
    OBVIOUS
  <2>2. p * k < p /\ p * k > -p
    BY <1>2, <1>3, <2>1
  <2>3. k < 1
    <3>1. ASSUME k >= 1 PROVE p * k >= p
      BY <3>1
    <3> QED BY <2>2, <3>1
  <2>4. k > -1
    <3>1. ASSUME k <= -1 PROVE p * k <= -p
      BY <3>1
    <3> QED BY <2>2, <3>1
  <2> QED BY <2>1, <2>3, <2>4
<1>5. m = r
  BY <1>2, <1>3, <1>4
<1>6. x % p = r
  BY <1>2, <1>5
<1> QED BY <1>6

LEMMA ModShift ==
  ASSUME NEW p \in Nat \ {0}, NEW x \in Int, NEW k \in Int
  PROVE  (x + p * k) % p = x % p
<1>1. PICK d \in Int, m \in 0 .. p - 1 : m = x % p /\ x = p * d + m
  BY Division
<1>2. x + p * k = p * (d + k) + m
  BY <1>1
<1>3. PICK q \in Int : q = d + k
  OBVIOUS
<1>4. (p * q + m) % p = m
  BY Remainders
<1> QED BY <1>1, <1>2, <1>3, <1>4

\* A multiple.
LEMMA Multiples ==
  ASSUME NEW p \in Nat \ {0}, NEW k \in Int
  PROVE  (p * k) % p = 0
<1>1. 0 \in 0 .. p - 1 /\ p * k + 0 = p * k
  OBVIOUS
<1> QED BY <1>1, Remainders

\* Less one multiple of the pool or less another, the remainder is the same.
LEMMA Shifted ==
  ASSUME NEW p \in Nat \ {0}, NEW x \in Int, NEW y \in Int, x % p = y % p
  PROVE  \E k \in Int : x - y = p * k
<1>1. PICK a \in Int : x = p * a + (x % p)
  BY Division
<1>2. PICK b \in Int : y = p * b + (y % p)
  BY Division
<1>3. x % p \in Int
  BY Division
<1>4. x - y = p * (a - b)
  BY <1>1, <1>2, <1>3
<1> QED BY <1>4

\* Zero remainder: a multiple.
LEMMA Divides ==
  ASSUME NEW p \in Nat \ {0}, NEW x \in Int, x % p = 0
  PROVE  \E k \in Int : x = p * k
<1>1. PICK a \in Int : x = p * a + (x % p)
  BY Division
<1> QED BY <1>1

\* The candidate 2 * pool + 1 is coprime to the pool, so there is a stride.
LEMMA OneOverTwice ==
  ASSUME NEW p \in Nat \ {0}
  PROVE  Coprime(2 * p + 1, p)
<1> SUFFICES ASSUME NEW d \in 2 .. p, (2 * p + 1) % d = 0, p % d = 0
             PROVE  FALSE
  BY DEF Coprime
<1>1. PICK a \in Int : p = d * a
  BY Divides
<1>2. PICK b \in Int : 2 * p + 1 = d * b
  BY Divides
<1>3. PICK k \in Int : k = b - 2 * a
  OBVIOUS
<1>4. d * k = 1
  BY <1>1, <1>2, <1>3
<1>5. ASSUME k >= 1 PROVE d * k >= 2
  BY <1>5
<1>6. ASSUME k <= 0 PROVE d * k <= 0
  BY <1>6
<1> QED BY <1>4, <1>5, <1>6

LEMMA StrideCoprime ==
  ASSUME plan.pool \in Nat \ {0}, plan.seed \in Nat
  PROVE  Stride \in Nat /\ Coprime(Stride, plan.pool)
<1>1. PICK p \in Nat \ {0}, x \in Nat : p = plan.pool /\ x = plan.seed
  OBVIOUS
<1>2. x % p \in 0 .. p - 1
  BY <1>1
<1>3. PICK first \in Nat : first = 2 * (x % p) + 1
  BY <1>2
<1> DEFINE K == {k \in 0 .. p : Coprime(first + 2 * k, p)}
           S == {first + 2 * k : k \in K}
<1>4. Stride = Min(S)
  BY <1>1, <1>3 DEF Stride
<1>5. PICK k0 \in 0 .. p : k0 = p - (x % p)
  BY <1>2
<1>6. first + 2 * k0 = 2 * p + 1
  BY <1>2, <1>3, <1>5
<1>7. k0 \in K
  BY <1>6, OneOverTwice
<1>8. S \subseteq Nat /\ S # {}
  BY <1>7
<1>9. Min(S) \in S
  BY <1>8, MinIs
<1> QED BY <1>1, <1>4, <1>8, <1>9

\* A number coprime to p has no multiple by less than p that p divides.
LEMMA NoMultiple ==
  ASSUME NEW p \in Nat \ {0}, NEW s \in Nat, Coprime(s, p), NEW m \in 1 .. p - 1
  PROVE  (m * s) % p # 0
<1> SUFFICES ASSUME (m * s) % p = 0 PROVE FALSE
  OBVIOUS
<1> DEFINE T == {t \in 1 .. p : (t * s) % p = 0}
<1>1. m \in T /\ T \subseteq Nat
  OBVIOUS
<1>2. PICK t \in T : \A u \in T : t <= u
  <2> HIDE DEF T
  <2> QED BY <1>1, Least
<1>3. t \in Nat \ {0} /\ t < p /\ (t * s) % p = 0
  <2>1. t <= m
    BY <1>1, <1>2
  <2> QED BY <2>1
<1>4. PICK e \in Int : t * s = p * e
  <2>1. PICK x \in Int : x = t * s
    BY <1>3
  <2> QED BY <1>3, <2>1, Divides
<1>5. PICK q \in Int, r \in 0 .. t - 1 : p = t * q + r
  <2>1. /\ p \div t \in Int /\ p % t \in 0 .. t - 1
        /\ p = t * (p \div t) + (p % t)
    BY <1>3, Division
  <2> QED BY <2>1
<1>6. r = 0
  <2> SUFFICES ASSUME r # 0 PROVE FALSE
    OBVIOUS
  <2>1. r * s = p * (s - q * e)
    <3>1. r = p - t * q
      BY <1>3, <1>5
    <3>2. r * s = p * s - (t * q) * s
      BY <1>3, <3>1
    <3>3. (t * q) * s = q * (t * s)
      BY <1>3
    <3>4. q * (p * e) = p * (q * e)
      OBVIOUS
    <3>5. r * s = p * s - p * (q * e)
      BY <1>4, <3>2, <3>3, <3>4
    <3> QED BY <3>5
  <2>2. (r * s) % p = 0
    BY <2>1, Multiples
  <2>3. r \in T /\ r < t
    BY <1>3, <1>5, <2>2
  <2> QED BY <1>2, <1>3, <2>3
<1>7. p = t * q
  BY <1>3, <1>5, <1>6
<1>8. q \in 2 .. p
  <2>1. ASSUME q <= 0 PROVE FALSE
    <3>1. t * q <= 0
      BY <1>3, <2>1
    <3> QED BY <1>7, <3>1
  <2>2. q # 1
    BY <1>3, <1>7
  <2>3. q <= p
    <3>1. q <= t * q
      BY <1>3, <2>1
    <3> QED BY <1>7, <3>1
  <2> QED BY <2>1, <2>2, <2>3
<1>9. s = q * e
  <2>1. t * s = t * (q * e)
    BY <1>3, <1>4, <1>7
  <2>2. PICK z \in Int : z = s - q * e
    OBVIOUS
  <2>3. t * z = 0
    BY <1>3, <2>1, <2>2
  <2>4. z = 0
    BY <1>3, <2>3
  <2> QED BY <2>2, <2>4
<1>10. p % q = 0 /\ s % q = 0
  <2>1. q \in Nat \ {0}
    BY <1>8
  <2>2. (q * t) % q = 0 /\ (q * e) % q = 0
    BY <1>3, <2>1, Multiples
  <2>3. q * t = p
    BY <1>3, <1>7
  <2> QED BY <1>9, <2>2, <2>3
<1> QED BY <1>8, <1>10 DEF Coprime

\* The order of request i: i strides of s from x, in a pool of p.
At(x, s, p, i) == (x + i * s) % p

\* Two requests for the same order are a multiple of the pool apart.
LEMMA SameOrder ==
  ASSUME NEW p \in Nat \ {0}, NEW s \in Nat, Coprime(s, p), NEW x \in Nat,
         NEW i \in Int, NEW j \in Int, At(x, s, p, i) = At(x, s, p, j)
  PROVE  i % p = j % p
<1>1. PICK y \in Int, z \in Int : y = x + i * s /\ z = x + j * s
  OBVIOUS
<1>2. PICK k \in Int : y - z = p * k
  BY <1>1, Shifted DEF At
<1>3. PICK q \in Int, m \in 0 .. p - 1 : i - j = p * q + m
  <2>1. PICK d \in Int : d = i - j
    OBVIOUS
  <2>2. /\ d \div p \in Int /\ d % p \in 0 .. p - 1
        /\ d = p * (d \div p) + (d % p)
    BY <2>1, Division
  <2> QED BY <2>1, <2>2
<1>4. m * s = p * (k - q * s)
  <2>1. (i - j) * s = p * k
    BY <1>1, <1>2
  <2>2. (p * q + m) * s = p * k
    BY <1>3, <2>1
  <2>3. (p * q + m) * s = p * (q * s) + m * s
    OBVIOUS
  <2>4. p * (k - q * s) = p * k - p * (q * s)
    OBVIOUS
  <2> QED BY <2>2, <2>3, <2>4
<1>5. (m * s) % p = 0
  <2>1. PICK c \in Int : c = k - q * s
    OBVIOUS
  <2>2. (p * c) % p = 0
    BY Multiples
  <2> QED BY <1>4, <2>1, <2>2
<1>6. m = 0
  <2>1. CASE m \in 1 .. p - 1
    BY <1>5, <2>1, NoMultiple
  <2> QED BY <2>1
<1>7. i = j + p * q
  BY <1>3, <1>6
<1> QED BY <1>7, ModShift

\* Requests that are a multiple of the pool apart are for the same order.
LEMMA SameAgain ==
  ASSUME NEW p \in Nat \ {0}, NEW s \in Nat, NEW x \in Nat, NEW i \in Int, NEW j \in Int,
         j % p = i % p
  PROVE  At(x, s, p, j) = At(x, s, p, i)
<1>1. PICK k \in Int : j - i = p * k
  BY Shifted
<1>2. PICK y \in Int, c \in Int : y = x + i * s /\ c = k * s
  OBVIOUS
<1>3. x + j * s = y + p * c
  <2>1. j = i + p * k
    BY <1>1
  <2>2. (i + p * k) * s = i * s + p * (k * s)
    OBVIOUS
  <2> QED BY <1>2, <2>1, <2>2
<1>4. (y + p * c) % p = y % p
  BY ModShift
<1> QED BY <1>2, <1>3, <1>4 DEF At

\* One of the first p requests is for order o.
LEMMA EveryOrder ==
  ASSUME NEW p \in Nat \ {0}, NEW s \in Nat, Coprime(s, p), NEW x \in Nat, NEW o \in 0 .. p - 1
  PROVE  \E i \in 0 .. p - 1 : At(x, s, p, i) = o
<1> DEFINE P == 0 .. p - 1
           f == [i \in P |-> At(x, s, p, i)]
<1>1. \A i \in P : At(x, s, p, i) \in P
  <2> TAKE i \in P
  <2>1. PICK y \in Int : y = x + i * s
    OBVIOUS
  <2> QED BY <2>1, Division DEF At
<1>2. \A i, j \in P : f[i] = f[j] => i = j
  <2> SUFFICES ASSUME NEW i \in P, NEW j \in P, At(x, s, p, i) = At(x, s, p, j) PROVE i = j
    OBVIOUS
  <2>1. i % p = j % p
    BY SameOrder
  <2>2. (p * 0 + i) % p = i /\ (p * 0 + j) % p = j
    BY Remainders
  <2>3. p * 0 + i = i /\ p * 0 + j = j
    OBVIOUS
  <2> QED BY <2>1, <2>2, <2>3
<1>3. f \in Injection(P, P)
  <2>1. f \in [P -> P]
    BY <1>1
  <2> QED BY <1>2, <2>1 DEF Injection, IsInjective
<1>4. IsFiniteSet(P)
  BY FS_Interval
<1>5. f \in Surjection(P, P)
  BY <1>3, <1>4, FS_Injection
<1> QED BY <1>5 DEF Surjection

\* Among the first n requests, those for order o.
For(x, s, p, n, o) == {i \in 0 .. n - 1 : At(x, s, p, i) = o}

\* The requests for order a after its first one each follow one for order b.
LEMMA EvenUse ==
  ASSUME NEW p \in Nat \ {0}, NEW s \in Nat, Coprime(s, p), NEW x \in Nat, NEW n \in Int,
         NEW a \in 0 .. p - 1, NEW b \in 0 .. p - 1
  PROVE  Cardinality(For(x, s, p, n, a)) <= Cardinality(For(x, s, p, n, b)) + 1
<1> DEFINE A == For(x, s, p, n, a)
           B == For(x, s, p, n, b)
<1>1. PICK ia \in 0 .. p - 1 : At(x, s, p, ia) = a
  BY EveryOrder
<1>2. PICK ib \in 0 .. p - 1 : At(x, s, p, ib) = b
  BY EveryOrder
<1>3. IsFiniteSet(A) /\ IsFiniteSet(B)
  <2>1. IsFiniteSet(0 .. n - 1) /\ A \subseteq 0 .. n - 1 /\ B \subseteq 0 .. n - 1
    BY FS_Interval DEF For
  <2> QED BY <2>1, FS_Subset
<1> DEFINE C == A \ {ia}
           g == [i \in C |-> i - p + ib - ia]
<1>4. ASSUME NEW i \in C
      PROVE  i - p + ib - ia \in B
  <2>1. i \in 0 .. n - 1 /\ At(x, s, p, i) = a /\ i # ia
    BY DEF For
  <2>2. i % p = ia % p
    BY <1>1, <2>1, SameOrder
  <2>3. PICK k \in Int : i - ia = p * k
    <3>1. i \in Int /\ ia \in Int
      BY <2>1
    <3> QED BY ONLY <2>2, <3>1, p \in Nat \ {0}, Shifted
  <2>4. k >= 1
    <3>1. k # 0
      BY <2>1, <2>3
    <3>2. ASSUME k <= -1 PROVE FALSE
      <4>1. p * k <= -p
        BY <3>2
      <4> QED BY <2>1, <2>3, <4>1
    <3> QED BY <3>1, <3>2
  <2>5. p * k >= p
    BY <2>4
  <2>6. i - p + ib - ia \in 0 .. n - 1
    BY <2>1, <2>3, <2>5
  <2>7. i - p + ib - ia = ib + p * (k - 1)
    BY <2>1, <2>3
  <2>8. PICK j \in Int, c \in Int : j = i - p + ib - ia /\ c = k - 1
    BY <2>1
  <2>9. ib \in Int /\ j = ib + p * c
    BY <2>7, <2>8
  <2>10. At(x, s, p, j) = b
    <3>1. j % p = ib % p
      BY <2>9, ModShift
    <3> QED BY <1>2, <2>9, <3>1, SameAgain
  <2>11. j \in 0 .. n - 1
    BY <2>6, <2>8
  <2>12. j \in B
    BY <2>10, <2>11 DEF For
  <2> QED BY <2>8, <2>12
<1>5. g \in Injection(C, B)
  <2>1. C \subseteq Int
    BY DEF For
  <2>2. \A i, j \in C : g[i] = g[j] => i = j
    BY <2>1
  <2>3. g \in [C -> B]
    BY <1>4
  <2> HIDE DEF g, C, B
  <2> QED BY <2>2, <2>3 DEF Injection, IsInjective
<1>6. Cardinality(C) <= Cardinality(B)
  <2> HIDE DEF g, C, B
  <2> QED BY <1>3, <1>5, FS_Injection
<1>7. Cardinality(A) <= Cardinality(C) + 1
  <2>1. Cardinality(C) = IF ia \in A THEN Cardinality(A) - 1 ELSE Cardinality(A)
    <3> HIDE DEF A
    <3> QED BY <1>3, FS_RemoveElement
  <2>2. Cardinality(A) \in Nat
    BY <1>3, FS_CardinalityType
  <2> HIDE DEF A, C
  <2> QED BY <2>1, <2>2
<1>8. Cardinality(A) \in Nat /\ Cardinality(B) \in Nat /\ Cardinality(C) \in Int
  <2>1. Cardinality(A) \in Nat /\ Cardinality(B) \in Nat
    BY <1>3, FS_CardinalityType
  <2>2. IsFiniteSet(C)
    <3> HIDE DEF A
    <3> QED BY <1>3, FS_RemoveElement
  <2>3. Cardinality(C) \in Nat
    BY <2>2, FS_CardinalityType
  <2> QED BY <2>1, <2>3
<1> HIDE DEF A, B, C
<1> QED BY <1>6, <1>7, <1>8 DEF A, B

\* The experiment has one of the plans, and the trace is the one written for it.
PlanInv ==
  /\ plan \in Plans
  /\ trace = TraceOf
  /\ ticks \in Nat
  /\ dropped \in 0 .. ticks

LEMMA PlanTyped ==
  ASSUME plan \in Plans
  PROVE  /\ plan.profile \in {"normal", "faults"}
         /\ plan.rate \in Nat \ {0} /\ plan.duration \in Nat \ {0} /\ plan.unit \in Nat \ {0}
         /\ plan.pool \in Nat \ {0} /\ plan.seed \in Nat
         /\ plan.seedOrders \in Nat \ {0} /\ plan.seedOrders >= plan.pool
         /\ (plan.rate * plan.duration) % plan.unit = 0
         /\ plan.external \in [0 .. plan.pool - 1 -> Int]
         /\ plan.mongo \in [0 .. plan.pool - 1 -> Int]
BY LoadAssumption

\* The trace has a request at least.
LEMMA CountPositive ==
  ASSUME plan \in Plans
  PROVE  Count \in Nat \ {0}
<1>1. PICK u \in Nat \ {0}, w \in Nat \ {0} : u = plan.unit /\ w = plan.rate * plan.duration
  <2>1. PICK r \in Nat \ {0}, d \in Nat \ {0} : r = plan.rate /\ d = plan.duration
    BY PlanTyped
  <2>2. r * d \in Nat \ {0}
    OBVIOUS
  <2> QED BY <2>1, <2>2, PlanTyped
<1>2. PICK q \in Int : q = w \div u
  BY Division
<1>3. w % u = 0
  BY <1>1, PlanTyped
<1>4. w = u * q
  BY <1>2, <1>3, Division
<1>5. ASSUME q <= 0 PROVE FALSE
  <2>1. u * q <= 0
    BY <1>5
  <2> QED BY <1>4, <2>1
<1> QED BY <1>1, <1>2, <1>5 DEF Count

LEMMA PlanInvInit == Init => PlanInv
BY DEF Init, PlanInv

LEMMA TraceStays ==
  ASSUME UNCHANGED given
  PROVE  trace' = trace /\ plan' = plan /\ TraceOf' = TraceOf /\ Count' = Count
BY DEF given, TraceOf, Count, Stride

LEMMA PlanInvStep == PlanInv /\ [Next]_vars => PlanInv'
<1> SUFFICES ASSUME PlanInv, [Next]_vars PROVE PlanInv'
  OBVIOUS
<1>1. ASSUME UNCHANGED <<given, ticks, dropped>> PROVE PlanInv'
  BY <1>1, TraceStays DEF PlanInv
<1>2. ASSUME NEW c, NEW count, SeedBegin(c, count) PROVE PlanInv'
  BY <1>1, <1>2 DEF SeedBegin, load
<1>3. ASSUME NEW c, SeedInsert(c) \/ SeedFails(c) PROVE PlanInv'
  BY <1>1, <1>3 DEF SeedInsert, SeedFails, load
<1>4. CASE StartLoad \/ End \/ UNCHANGED vars
  BY <1>1, <1>4 DEF StartLoad, End, load, vars
<1>5. CASE Arrive
  <2>1. UNCHANGED given /\ ticks' = ticks + 1 /\ dropped' \in {dropped, dropped + 1}
    BY <1>5 DEF Arrive
  <2> QED BY <2>1, TraceStays DEF PlanInv
<1>6. ASSUME NEW r, NEW b, Process(r, b) PROVE PlanInv'
  BY <1>1, <1>6 DEF Process
<1>7. ASSUME NEW r, NEW lost, Answer(r, lost) PROVE PlanInv'
  BY <1>1, <1>7 DEF Answer
<1> QED
  BY <1>2, <1>3, <1>4, <1>5, <1>6, <1>7 DEF Next

\* Request i of the trace is for the order i strides from the seed.
LEMMA TraceOrder ==
  ASSUME PlanInv, NEW i \in 0 .. Count - 1
  PROVE  i \in DOMAIN trace /\ trace[i].order = At(plan.seed, Stride, plan.pool, i)
BY DEF PlanInv, TraceOf, At

LEMMA EvenlyUsed == PlanInv => PoolUsedEvenly
<1> SUFFICES ASSUME PlanInv, NEW a \in 0 .. plan.pool - 1, NEW b \in 0 .. plan.pool - 1
             PROVE  LET n == IF Iterations < Count THEN Iterations ELSE Count
                        requested(o) == Cardinality({i \in 0 .. n - 1 : trace[i].order = o})
                    IN requested(a) <= requested(b) + 1
  BY DEF PoolUsedEvenly
<1> DEFINE m == IF Iterations < Count THEN Iterations ELSE Count
<1>1. PICK n \in Int : n = m
  BY CountPositive DEF PlanInv, Iterations
<1>2. ASSUME NEW o
      PROVE  {i \in 0 .. n - 1 : trace[i].order = o} = For(plan.seed, Stride, plan.pool, n, o)
  <2>1. \A i \in 0 .. n - 1 : i \in 0 .. Count - 1
    BY <1>1, CountPositive DEF PlanInv, Iterations
  <2> QED BY <2>1, TraceOrder DEF For
<1>3. /\ plan.pool \in Nat \ {0} /\ plan.seed \in Nat
      /\ Stride \in Nat /\ Coprime(Stride, plan.pool)
  BY PlanTyped, StrideCoprime DEF PlanInv
<1>4. Cardinality(For(plan.seed, Stride, plan.pool, n, a))
        <= Cardinality(For(plan.seed, Stride, plan.pool, n, b)) + 1
  BY <1>3, EvenUse
<1> QED BY <1>1, <1>2, <1>4

\* PoolUsedEvenly: the stride is coprime to the pool, so as many requests in a row as
\* there are orders are for different orders.
THEOREM PoolIsUsedEvenly == Spec => []PoolUsedEvenly
BY PlanInvInit, PlanInvStep, EvenlyUsed, PTL DEF Spec

-----------------------------------------------------------------------------
(* AdmittedAsPlanned. *)

Outcomes == {"processed", "expected_fault", "unexpected"}

Requests == [index : Nat, outcome : Outcomes \cup {"none"}, ms : 0 .. ReadTimeout, start : Nat]

Entries ==
  [index : Nat, outcome : Outcomes, ms : 0 .. ReadTimeout, time : Nat, expected : BOOLEAN]

LoadTyped ==
  /\ inflight \subseteq Requests /\ IsFiniteSet(inflight)
  /\ log \in Seq(Entries)
  /\ app \in [Outcomes -> Nat]
  /\ faults \in Nat

\* A request has a number of the trace that was handed out, and no other has it, be it
\* in flight or answered.
IndexInv ==
  /\ \A r \in inflight : r.index < NextIndex /\ r.index < Count
  /\ \A k \in DOMAIN log : log[k].index < NextIndex /\ log[k].index < Count
  /\ \A r, q \in inflight : r.index = q.index => r = q
  /\ \A k, l \in DOMAIN log : log[k].index = log[l].index => k = l
  /\ \A r \in inflight, k \in DOMAIN log : r.index # log[k].index

Decided(o) == {r \in inflight : r.outcome = o}

Answered(o) == {k \in DOMAIN log : log[k].outcome = o}

\* The application counted every request it has decided, answered or not.
AppInv == \A o \in Outcomes : app[o] = Cardinality(Decided(o)) + Cardinality(Answered(o))

\* Every number handed out belongs to a request; the load is over when all are answered.
FlowInv ==
  /\ ticks <= Count + 1
  /\ Cardinality(inflight) + Len(log) = IF NextIndex < Count THEN NextIndex ELSE Count
  /\ inflight # {} => stage = "loading"
  /\ stage = "over" => ticks >= Count

LoadInv == PlanInv /\ LoadTyped /\ IndexInv /\ AppInv /\ FlowInv

LEMMA LoadInvInit == Init => LoadInv
<1> SUFFICES ASSUME Init PROVE LoadInv
  OBVIOUS
<1>1. PlanInv
  BY PlanInvInit
<1>2. inflight = {} /\ log = <<>> /\ ticks = 0 /\ dropped = 0 /\ faults = 0
  BY DEF Init
<1>3. app = [o \in Outcomes |-> 0]
  BY DEF Init, Outcomes
<1>4. IsFiniteSet({}) /\ Cardinality({}) = 0
  BY FS_EmptySet
<1>5. LoadTyped
  BY <1>2, <1>3, <1>4 DEF LoadTyped
<1>6. IndexInv
  BY <1>2 DEF IndexInv
<1>7. AppInv
  <2>1. \A o \in Outcomes : Decided(o) = {} /\ Answered(o) = {}
    BY <1>2 DEF Decided, Answered
  <2> QED BY <1>3, <1>4, <2>1 DEF AppInv
<1>8. FlowInv
  <2>1. stage = "seeding" /\ Count \in Nat \ {0}
    BY <1>1, CountPositive DEF Init, PlanInv
  <2> QED BY <1>2, <1>4, <2>1 DEF FlowInv, NextIndex, Iterations
<1> QED BY <1>1, <1>5, <1>6, <1>7, <1>8 DEF LoadInv

\* The numbers.
LEMMA Numbers ==
  ASSUME PlanInv
  PROVE  /\ Count \in Nat \ {0} /\ ticks \in Nat /\ dropped \in Nat /\ NextIndex \in Nat
         /\ NextIndex = ticks - dropped
BY CountPositive DEF PlanInv, NextIndex, Iterations

LEMMA DecidedFinite ==
  ASSUME LoadTyped, NEW o
  PROVE  /\ IsFiniteSet(Decided(o)) /\ Cardinality(Decided(o)) \in Nat
         /\ IsFiniteSet(Answered(o)) /\ Cardinality(Answered(o)) \in Nat
<1>1. Decided(o) \subseteq inflight /\ IsFiniteSet(inflight)
  BY DEF LoadTyped, Decided
<1>2. Answered(o) \subseteq DOMAIN log /\ DOMAIN log = 1 .. Len(log) /\ Len(log) \in Nat
  BY DEF LoadTyped, Answered
<1>3. IsFiniteSet(1 .. Len(log))
  BY <1>2, FS_Interval
<1>4. IsFiniteSet(Decided(o)) /\ IsFiniteSet(Answered(o))
  BY <1>1, <1>2, <1>3, FS_Subset
<1> QED BY <1>4, FS_CardinalityType

LEMMA EntryTyped ==
  ASSUME LoadTyped, NEW k \in DOMAIN log
  PROVE  log[k] \in Entries /\ log[k].index \in Nat
<1>1. k \in 1 .. Len(log) /\ log[k] \in Entries
  BY DEF LoadTyped
<1> QED BY <1>1 DEF Entries

\* k6 begins the next iteration, with the number that follows, or drops it.
LEMMA ArrivalKeeps ==
  ASSUME LoadInv, Arrive
  PROVE  LoadTyped' /\ IndexInv' /\ AppInv' /\ FlowInv'
<1> DEFINE new == [index |-> NextIndex, outcome |-> "none", ms |-> 0, start |-> ticks * Spacing]
<1>1. /\ UNCHANGED <<given, stage, log, app, faults>> /\ ticks' = ticks + 1 /\ ticks <= Count
      /\ stage = "loading" /\ Count' = Count
  BY TraceStays DEF Arrive
<1>2. PlanInv /\ LoadTyped /\ IndexInv /\ AppInv /\ FlowInv
  BY DEF LoadInv
<1>3. Count \in Nat \ {0} /\ ticks \in Nat /\ dropped \in Nat /\ NextIndex \in Nat
      /\ NextIndex = ticks - dropped /\ NextIndex' = ticks' - dropped' /\ dropped <= ticks
  BY <1>2, Numbers DEF NextIndex, Iterations, PlanInv
<1>4. \A o : Answered(o)' = Answered(o)
  BY <1>1 DEF Answered
<1>5. CASE inflight' = inflight /\ (dropped' = dropped + 1 \/ (dropped' = dropped /\ NextIndex = Count))
  <2>1. NextIndex' = NextIndex \/ (NextIndex' = NextIndex + 1 /\ NextIndex = Count)
    BY <1>1, <1>3, <1>5
  <2>2. LoadTyped'
    BY <1>1, <1>2, <1>5 DEF LoadTyped
  <2>3. IndexInv'
    <3>1. \A r \in inflight : r.index \in Nat
      BY <1>2 DEF LoadTyped, Requests
    <3>2. \A k \in DOMAIN log : log[k].index \in Nat
      BY <1>2, EntryTyped
    <3> QED BY <1>1, <1>2, <1>3, <1>5, <2>1, <3>1, <3>2 DEF IndexInv
  <2>4. AppInv'
    <3>1. \A o : Decided(o)' = Decided(o)
      BY <1>5 DEF Decided
    <3> QED BY <1>1, <1>2, <1>4, <3>1 DEF AppInv
  <2>5. FlowInv'
    BY <1>1, <1>2, <1>3, <1>5, <2>1 DEF FlowInv
  <2> QED BY <2>2, <2>3, <2>4, <2>5
<1>6. CASE inflight' = inflight \cup {new} /\ dropped' = dropped /\ NextIndex # Count
  <2>1. NextIndex < Count /\ NextIndex' = NextIndex + 1
    BY <1>1, <1>3, <1>6
  <2>2. new \in Requests /\ new.index = NextIndex /\ new.outcome = "none"
    <3>1. PICK u \in Nat \ {0}, r \in Nat \ {0} : u = plan.unit /\ r = plan.rate
      BY <1>2, PlanTyped DEF PlanInv
    <3>2. Spacing \in Nat
      BY <3>1 DEF Spacing
    <3>3. ticks * Spacing \in Nat
      BY <1>3, <3>2
    <3>4. 0 \in 0 .. ReadTimeout
      BY DEF ReadTimeout
    <3> QED BY <1>3, <3>3, <3>4 DEF Requests
  <2>3. PICK n \in Requests : n = new
    BY <2>2
  <2>4. n.index = NextIndex /\ n.outcome = "none" /\ inflight' = inflight \cup {n}
    BY <1>6, <2>2, <2>3
  <2> HIDE DEF new
  <2>5. n \notin inflight
    BY <1>2, <1>3, <2>4 DEF IndexInv
  <2>6. IsFiniteSet(inflight') /\ Cardinality(inflight') = Cardinality(inflight) + 1
    BY <1>2, <2>4, <2>5, FS_AddElement DEF LoadTyped
  <2>7. LoadTyped'
    BY <1>1, <1>2, <2>4, <2>6 DEF LoadTyped
  <2>8. IndexInv'
    <3>1. \A r \in inflight : r.index \in Nat
      BY <1>2 DEF LoadTyped, Requests
    <3>2. \A k \in DOMAIN log : log[k].index \in Nat
      BY <1>2, EntryTyped
    <3> QED BY <1>1, <1>2, <1>3, <2>1, <2>4, <3>1, <3>2 DEF IndexInv
  <2>9. AppInv'
    <3>1. \A o \in Outcomes : Decided(o)' = Decided(o)
      BY <2>4 DEF Decided, Outcomes
    <3> QED BY <1>1, <1>2, <1>4, <3>1 DEF AppInv
  <2>10. FlowInv'
    <3>1. Cardinality(inflight) \in Nat /\ Len(log) \in Nat
      BY <1>2, FS_CardinalityType DEF LoadTyped
    <3> QED BY <1>1, <1>2, <1>3, <2>1, <2>6, <3>1 DEF FlowInv
  <2> QED BY <2>7, <2>8, <2>9, <2>10
<1> QED BY <1>5, <1>6 DEF Arrive

\* The outcome of a request the application is done with.
LEMMA OutcomeTyped ==
  ASSUME NEW order, NEW b
  PROVE  Outcome(order, b) \in Outcomes
BY DEF Outcome, Outcomes

\* The application decides a request: one more is in flight with its outcome.
LEMMA ProcessKeeps ==
  ASSUME LoadInv, NEW r \in inflight, NEW b \in Behaviours, Process(r, b)
  PROVE  LoadTyped' /\ IndexInv' /\ AppInv' /\ FlowInv'
<1>1. PlanInv /\ LoadTyped /\ IndexInv /\ AppInv /\ FlowInv
  BY DEF LoadInv
<1>2. PICK o \in Outcomes : o = Outcome(trace[r.index].order, b)
  BY OutcomeTyped
<1>3. PICK m \in 0 .. ReadTimeout : m = IF b.delay > ReadTimeout THEN ReadTimeout ELSE b.delay
  BY DEF Behaviours, ReadTimeout
<1>4. /\ UNCHANGED <<given, stage, ticks, dropped, log>> /\ r.outcome = "none"
      /\ app' = [app EXCEPT ![o] = @ + 1]
      /\ inflight' = (inflight \ {r}) \cup {[r EXCEPT !.outcome = o, !.ms = m]}
      /\ faults' \in {faults, faults + 1}
  BY <1>2, <1>3 DEF Process, Fails
<1>5. PICK q \in Requests : q = [r EXCEPT !.outcome = o, !.ms = m]
  BY <1>1 DEF LoadTyped, Requests
<1>6. r \in Requests /\ q.index = r.index /\ q.outcome = o /\ q # r /\ inflight' = (inflight \ {r}) \cup {q}
  BY <1>1, <1>4, <1>5 DEF LoadTyped, Requests, Outcomes
<1>7. q \notin inflight
  BY <1>1, <1>6 DEF IndexInv
<1>8. IsFiniteSet(inflight') /\ Cardinality(inflight') = Cardinality(inflight)
  <2>1. IsFiniteSet(inflight) /\ Cardinality(inflight) \in Nat
    BY <1>1, FS_CardinalityType DEF LoadTyped
  <2>2. IsFiniteSet(inflight \ {r}) /\ Cardinality(inflight \ {r}) = Cardinality(inflight) - 1
    BY <2>1, FS_RemoveElement
  <2>3. q \notin inflight \ {r}
    BY <1>7
  <2>4. /\ IsFiniteSet((inflight \ {r}) \cup {q})
        /\ Cardinality((inflight \ {r}) \cup {q}) = Cardinality(inflight \ {r}) + 1
    BY <2>2, <2>3, FS_AddElement
  <2> QED BY <1>6, <2>1, <2>2, <2>4
<1>9. LoadTyped'
  BY <1>1, <1>4, <1>6, <1>8 DEF LoadTyped
<1>10. NextIndex' = NextIndex /\ Count' = Count
  BY <1>4, TraceStays DEF NextIndex, Iterations
<1>11. IndexInv'
  BY <1>1, <1>4, <1>6, <1>10 DEF IndexInv
<1>12. AppInv'
  <2>1. \A p : Answered(p)' = Answered(p)
    BY <1>4 DEF Answered
  <2>2. Decided(o)' = Decided(o) \cup {q} /\ q \notin Decided(o)
    BY <1>4, <1>6, <1>7 DEF Decided, Outcomes
  <2>3. Cardinality(Decided(o)') = Cardinality(Decided(o)) + 1
    BY <1>1, <2>2, DecidedFinite, FS_AddElement
  <2>4. \A p \in Outcomes : p # o => Decided(p)' = Decided(p)
    BY <1>4, <1>6 DEF Decided, Outcomes
  <2>5. \A p \in Outcomes : app'[p] = IF p = o THEN app[p] + 1 ELSE app[p]
    BY <1>1, <1>4 DEF LoadTyped
  <2>6. ASSUME NEW p \in Outcomes
        PROVE  app'[p] = Cardinality(Decided(p)') + Cardinality(Answered(p)')
    <3>1. app[p] = Cardinality(Decided(p)) + Cardinality(Answered(p))
      BY <1>1 DEF AppInv
    <3>2. Cardinality(Decided(p)) \in Nat /\ Cardinality(Answered(p)) \in Nat
      BY <1>1, DecidedFinite
    <3>3. CASE p = o
      BY <2>1, <2>3, <2>5, <3>1, <3>2, <3>3
    <3>4. CASE p # o
      BY <2>1, <2>4, <2>5, <3>1, <3>4
    <3> QED BY <3>3, <3>4
  <2> QED BY <2>6 DEF AppInv
<1>13. FlowInv'
  BY <1>1, <1>4, <1>8, <1>10 DEF FlowInv
<1> QED BY <1>9, <1>11, <1>12, <1>13

LEMMA AnswerAppends ==
  ASSUME LoadTyped, NEW r \in inflight, NEW lost \in BOOLEAN, Answer(r, lost)
  PROVE  \E e \in Entries :
           /\ log' = Append(log, e)
           /\ e.index = r.index /\ e.outcome = r.outcome /\ e.ms = r.ms
           /\ e.expected <=> (lost = FALSE /\ r.outcome # "unexpected")
<1>1. r \in Requests /\ r.outcome # "none"
  BY DEF LoadTyped, Answer
<1>2. PICK m \in Nat, s \in Nat : m = r.ms /\ s = r.start
  BY <1>1 DEF Requests
<1>3. r.start + r.ms \div 1000 \in Nat
  <2>1. m \div 1000 \in Nat
    OBVIOUS
  <2> QED BY <1>2, <2>1
<1> DEFINE x == [index |-> r.index, outcome |-> r.outcome, ms |-> r.ms,
                 time |-> r.start + r.ms \div 1000,
                 expected |-> ~lost /\ r.outcome # "unexpected"]
<1>4. x \in Entries
  BY <1>1, <1>3 DEF Entries, Requests
<1>5. x.index = r.index /\ x.outcome = r.outcome /\ x.ms = r.ms
  OBVIOUS
<1>6. x.expected <=> (lost = FALSE /\ r.outcome # "unexpected")
  OBVIOUS
<1>7. log' = Append(log, x)
  BY DEF Answer
<1> HIDE DEF x
<1> QED BY <1>4, <1>5, <1>6, <1>7

\* An answer moves the request to the log.
LEMMA AnswerKeeps ==
  ASSUME LoadInv, NEW r \in inflight, NEW lost \in BOOLEAN, Answer(r, lost)
  PROVE  LoadTyped' /\ IndexInv' /\ AppInv' /\ FlowInv'
<1>1. PlanInv /\ LoadTyped /\ IndexInv /\ AppInv /\ FlowInv
  BY DEF LoadInv
<1>2. /\ UNCHANGED <<given, stage, ticks, dropped, app>> /\ r.outcome # "none"
      /\ inflight' = inflight \ {r}
      /\ faults' \in {faults, faults + 1}
  BY DEF Answer, Fails
<1>3. r \in Requests /\ r.outcome \in Outcomes
  BY <1>1, <1>2 DEF LoadTyped, Requests
<1>4. PICK e \in Entries : e.index = r.index /\ e.outcome = r.outcome /\ log' = Append(log, e)
  BY <1>1, AnswerAppends
<1>5. PICK n \in Nat : n = Len(log) /\ DOMAIN log = 1 .. n
  BY <1>1 DEF LoadTyped
<1>6. /\ log' \in Seq(Entries) /\ Len(log') = n + 1 /\ DOMAIN log' = 1 .. n + 1
      /\ log'[n + 1] = e /\ \A k \in 1 .. n : log'[k] = log[k]
  BY <1>1, <1>4, <1>5 DEF LoadTyped
<1>7. IsFiniteSet(inflight') /\ Cardinality(inflight') = Cardinality(inflight) - 1
      /\ Cardinality(inflight) \in Nat
  BY <1>1, <1>2, FS_RemoveElement, FS_CardinalityType DEF LoadTyped
<1>8. LoadTyped'
  BY <1>1, <1>2, <1>6, <1>7 DEF LoadTyped
<1>9. NextIndex' = NextIndex /\ Count' = Count
  BY <1>2, TraceStays DEF NextIndex, Iterations
<1>10. IndexInv'
  <2>1. \A q \in inflight' : q \in inflight /\ q.index # e.index
    BY <1>1, <1>2, <1>4 DEF IndexInv
  <2>2. \A k \in 1 .. n : log[k].index # e.index
    BY <1>1, <1>4, <1>5 DEF IndexInv
  <2>3. \A k \in DOMAIN log' : k \in 1 .. n \/ (k = n + 1 /\ log'[k] = e)
    BY <1>5, <1>6
  <2> QED BY <1>1, <1>4, <1>5, <1>6, <1>9, <2>1, <2>2, <2>3 DEF IndexInv
<1>11. AppInv'
  <2>1. ASSUME NEW p \in Outcomes
        PROVE  app'[p] = Cardinality(Decided(p)') + Cardinality(Answered(p)')
    <3>1. app'[p] = Cardinality(Decided(p)) + Cardinality(Answered(p))
      BY <1>1, <1>2 DEF AppInv
    <3>2. /\ IsFiniteSet(Decided(p)) /\ Cardinality(Decided(p)) \in Nat
          /\ IsFiniteSet(Answered(p)) /\ Cardinality(Answered(p)) \in Nat
      BY <1>1, DecidedFinite
    <3>3. CASE r.outcome = p
      <4>1. Decided(p)' = Decided(p) \ {r} /\ r \in Decided(p)
        BY <1>2, <3>3 DEF Decided
      <4>2. Cardinality(Decided(p)') = Cardinality(Decided(p)) - 1
        BY <3>2, <4>1, FS_RemoveElement
      <4>3. Answered(p)' = Answered(p) \cup {n + 1} /\ n + 1 \notin Answered(p)
        BY <1>4, <1>5, <1>6, <3>3 DEF Answered
      <4>4. Cardinality(Answered(p)') = Cardinality(Answered(p)) + 1
        BY <3>2, <4>3, FS_AddElement
      <4> QED BY <3>1, <3>2, <4>2, <4>4
    <3>4. CASE r.outcome # p
      <4>1. Decided(p)' = Decided(p)
        BY <1>2, <3>4 DEF Decided
      <4>2. Answered(p)' = Answered(p)
        BY <1>4, <1>5, <1>6, <3>4 DEF Answered
      <4> QED BY <3>1, <4>1, <4>2
    <3> QED BY <3>3, <3>4
  <2> QED BY <2>1 DEF AppInv
<1>12. FlowInv'
  <2>1. Cardinality(inflight') + Len(log') = Cardinality(inflight) + Len(log)
    BY <1>5, <1>6, <1>7
  <2>2. inflight' # {} => stage' = "loading"
    BY <1>1, <1>2 DEF FlowInv
  <2> QED BY <1>1, <1>2, <1>9, <2>1, <2>2 DEF FlowInv
<1> QED BY <1>8, <1>10, <1>11, <1>12

LEMMA LoadInvStep == LoadInv /\ [Next]_vars => LoadInv'
<1> SUFFICES ASSUME LoadInv, [Next]_vars PROVE LoadInv'
  OBVIOUS
<1>1. PlanInv'
  BY PlanInvStep DEF LoadInv
<1>2. ASSUME UNCHANGED <<given, load>>, faults' \in {faults, faults + 1},
             \/ stage' = stage
             \/ stage = "seeding" /\ stage' \in {"loading", "aborted"}
             \/ stage' = "over" /\ inflight = {} /\ ticks >= Count
      PROVE  LoadTyped' /\ IndexInv' /\ AppInv' /\ FlowInv'
  <2>1. UNCHANGED <<ticks, dropped, inflight, log, app>> /\ Count' = Count /\ NextIndex' = NextIndex
    BY <1>2, TraceStays DEF load, NextIndex, Iterations
  <2>2. LoadTyped' /\ IndexInv'
    BY <1>2, <2>1 DEF LoadInv, LoadTyped, IndexInv
  <2>3. AppInv'
    BY <2>1 DEF LoadInv, AppInv, Decided, Answered
  <2>4. FlowInv'
    BY <1>2, <2>1 DEF LoadInv, FlowInv
  <2> QED BY <2>2, <2>3, <2>4
<1>3. ASSUME NEW c, NEW count, SeedBegin(c, count) PROVE LoadInv'
  BY <1>1, <1>2, <1>3 DEF SeedBegin, LoadInv
<1>4. ASSUME NEW c, SeedInsert(c) \/ SeedFails(c) PROVE LoadInv'
  BY <1>1, <1>2, <1>4 DEF SeedInsert, SeedFails, Fails, LoadInv
<1>5. CASE StartLoad
  BY <1>1, <1>2, <1>5 DEF StartLoad, LoadInv
<1>6. CASE End
  BY <1>1, <1>2, <1>6 DEF End, LoadInv
<1>7. CASE UNCHANGED vars
  BY <1>1, <1>2, <1>7 DEF vars, LoadInv
<1>8. CASE Arrive
  BY <1>1, <1>8, ArrivalKeeps DEF LoadInv
<1>9. ASSUME NEW r \in inflight, NEW b \in Behaviours, Process(r, b) PROVE LoadInv'
  BY <1>1, <1>9, ProcessKeeps DEF LoadInv
<1>10. ASSUME NEW r \in inflight, NEW lost \in BOOLEAN, Answer(r, lost) PROVE LoadInv'
  BY <1>1, <1>10, AnswerKeeps DEF LoadInv
<1> QED
  BY <1>3, <1>4, <1>5, <1>6, <1>7, <1>8, <1>9, <1>10 DEF Next

\* As many answers as requests: the answers are to the requests, each to another.
LEMMA EveryRequestAnswered ==
  ASSUME LoadInv, Len(log) = Count, NEW i \in 0 .. Count - 1
  PROVE  \E k \in DOMAIN log : log[k].index = i
<1>1. PICK n \in Nat : n = Count /\ n = Len(log) /\ DOMAIN log = 1 .. n
  BY Numbers DEF LoadInv, LoadTyped
<1> DEFINE f == [k \in 1 .. n |-> log[k].index]
<1>2. \A k \in 1 .. n : log[k].index \in 0 .. n - 1
  <2> TAKE k \in 1 .. n
  <2>1. log[k].index \in Nat /\ log[k].index < n
    BY <1>1, EntryTyped DEF LoadInv, IndexInv
  <2> QED BY <2>1
<1>3. f \in Injection(1 .. n, 0 .. n - 1)
  <2>1. f \in [1 .. n -> 0 .. n - 1]
    BY <1>2
  <2>2. \A k, l \in 1 .. n : f[k] = f[l] => k = l
    BY <1>1 DEF LoadInv, IndexInv
  <2> QED BY <2>1, <2>2 DEF Injection, IsInjective
<1>4. /\ IsFiniteSet(0 .. n - 1) /\ Cardinality(0 .. n - 1) = n
      /\ IsFiniteSet(1 .. n) /\ Cardinality(1 .. n) = n
  <2>1. 0 \in Int /\ 1 \in Int /\ n \in Int /\ n - 1 \in Int
    OBVIOUS
  <2>2. /\ IsFiniteSet(0 .. n - 1)
        /\ Cardinality(0 .. n - 1) = IF 0 > n - 1 THEN 0 ELSE (n - 1) - 0 + 1
    BY <2>1, FS_Interval
  <2>3. IsFiniteSet(1 .. n) /\ Cardinality(1 .. n) = IF 1 > n THEN 0 ELSE n - 1 + 1
    BY <2>1, FS_Interval
  <2>4. Cardinality(0 .. n - 1) = n
    BY <2>2
  <2>5. Cardinality(1 .. n) = n
    BY <2>3
  <2> QED BY <2>2, <2>3, <2>4, <2>5
<1>5. f \in Surjection(1 .. n, 0 .. n - 1)
  BY <1>3, <1>4, FS_Injection
<1> QED BY <1>1, <1>5 DEF Surjection

LEMMA AdmissionSound == LoadInv => AdmittedAsPlanned
<1> SUFFICES ASSUME LoadInv, stage = "over", Admitted
             PROVE  /\ \A i \in DOMAIN trace : \E k \in DOMAIN log :
                         log[k].index = i /\ log[k].outcome = trace[i].outcome
                    /\ \A o \in {"processed", "expected_fault"} :
                         app[o] = Planned(LAMBDA r : r.outcome = o)
  BY DEF AdmittedAsPlanned
<1>1. /\ Len(log) = Count
      /\ Cardinality({k \in DOMAIN log : ~Valid(log[k])}) = 0
      /\ \A o \in {"processed", "expected_fault"} :
           Cardinality({k \in DOMAIN log : Valid(log[k]) /\ log[k].outcome = o})
             = Planned(LAMBDA r : r.outcome = o)
  BY DEF Admitted, Logged
<1>2. \A k \in DOMAIN log : Valid(log[k])
  <2>1. DOMAIN log = 1 .. Len(log) /\ Len(log) \in Nat
    BY DEF LoadInv, LoadTyped
  <2>2. IsFiniteSet({k \in DOMAIN log : ~Valid(log[k])})
    <3>1. IsFiniteSet(DOMAIN log)
      BY <2>1, FS_Interval
    <3> QED BY <3>1, FS_Subset
  <2>3. {k \in DOMAIN log : ~Valid(log[k])} = {}
    BY <1>1, <2>2, FS_EmptySet
  <2> QED BY <2>3
<1>3. ASSUME NEW i \in DOMAIN trace
      PROVE  \E k \in DOMAIN log : log[k].index = i /\ log[k].outcome = trace[i].outcome
  <2>1. i \in 0 .. Count - 1
    BY DEF LoadInv, PlanInv, TraceOf
  <2>2. PICK k \in DOMAIN log : log[k].index = i
    BY <1>1, <2>1, EveryRequestAnswered
  <2>3. log[k].outcome = trace[i].outcome
    BY <1>2, <2>2 DEF Valid
  <2> QED BY <2>2, <2>3
<1>4. ASSUME NEW o \in {"processed", "expected_fault"}
      PROVE  app[o] = Planned(LAMBDA r : r.outcome = o)
  <2>1. inflight = {}
    BY DEF LoadInv, FlowInv
  <2>2. Decided(o) = {} /\ Cardinality({}) = 0
    BY <2>1, FS_EmptySet DEF Decided
  <2>3. Answered(o) = {k \in DOMAIN log : Valid(log[k]) /\ log[k].outcome = o}
    BY <1>2 DEF Answered
  <2>4. app[o] = Cardinality(Decided(o)) + Cardinality(Answered(o)) /\ Cardinality(Answered(o)) \in Nat
    BY DecidedFinite DEF LoadInv, AppInv, Outcomes
  <2>5. app[o] = Cardinality({k \in DOMAIN log : Valid(log[k]) /\ log[k].outcome = o})
    BY <2>2, <2>3, <2>4
  <2> QED BY <1>1, <2>5
<1> QED BY <1>3, <1>4

\* AdmittedAsPlanned: a number goes to one request, so as many answers as requests, all
\* as planned, are one for each.
THEOREM AdmissionIsSound == Spec => []AdmittedAsPlanned
BY LoadInvInit, LoadInvStep, AdmissionSound, PTL DEF Spec

-----------------------------------------------------------------------------
(* OutcomesPredicted. *)

LEMMA MinEquals ==
  ASSUME NEW S, S \subseteq Nat, NEW m \in S, \A n \in S : m <= n
  PROVE  Min(S) = m
<1>1. Min(S) \in S /\ \A n \in S : Min(S) <= n
  BY MinIs
<1>2. Min(S) <= m /\ m <= Min(S) /\ Min(S) \in Nat /\ m \in Nat
  BY <1>1
<1> QED BY <1>2

\* workload.py and TrafficProfile sort a hash code into the same mode.
LEMMA ModesAgree ==
  ASSUME plan.profile \in {"normal", "faults"}, NEW hash \in Int
  PROVE  /\ Mode(hash, Profiles[plan.profile]) = ExternalMode(hash)
         /\ hash % 100 < Profiles[plan.profile].mongo <=> MongoConflict(hash)
         /\ ExternalMode(hash) \in {"long_delay", "error", "bad_response", "slow", "ok"}
         /\ plan.profile = "normal" => ExternalMode(hash) \in {"slow", "ok"}
<1>1. PICK v \in 0 .. 99 : v = hash % 100
  BY Division
<1>2. \A k \in 1 .. 4 : Modes[k] = IF k = 1 THEN "long_delay" ELSE IF k = 2 THEN "error"
                                   ELSE IF k = 3 THEN "bad_response" ELSE "slow"
  BY DEF Modes
<1>3. ASSUME NEW a \in Nat, NEW b \in Nat, NEW d \in Nat, NEW e \in Nat, NEW f
      PROVE  Mode(hash, Config(a, b, d, e, f)) =
               IF v < a THEN "long_delay" ELSE IF v < a + b THEN "error"
               ELSE IF v < a + b + d THEN "bad_response"
               ELSE IF v < a + b + d + e THEN "slow" ELSE "ok"
  <2> DEFINE c == Config(a, b, d, e, f)
             bound == <<a, a + b, a + b + d, a + b + d + e>>
             above == {k \in 1 .. 4 : v < bound[k]}
  <2>1. c.long_delay = a /\ c.error = b /\ c.bad_response = d /\ c.slow = e
    BY DEF Config
  <2>2. Mode(hash, Config(a, b, d, e, f)) = IF above = {} THEN "ok" ELSE Modes[Min(above)]
    BY <1>1, <2>1 DEF Mode
  <2>3. bound[1] = a /\ bound[2] = a + b /\ bound[3] = a + b + d /\ bound[4] = a + b + d + e
    OBVIOUS
  <2>4. /\ 1 \in above <=> v < a
        /\ 2 \in above <=> v < a + b
        /\ 3 \in above <=> v < a + b + d
        /\ 4 \in above <=> v < a + b + d + e
    BY <2>3
  <2>5. above \subseteq 1 .. 4 /\ above \subseteq Nat
    OBVIOUS
  <2> HIDE DEF above, bound, c
  <2>6. CASE v < a
    <3>1. 1 \in above /\ \A n \in above : 1 <= n
      BY <2>4, <2>5, <2>6
    <3>2. Min(above) = 1
      BY <2>5, <3>1, MinEquals
    <3> QED BY <1>2, <2>1, <2>2, <2>6, <3>1, <3>2
  <2>7. CASE ~(v < a) /\ v < a + b
    <3>1. ~(v < a)
      BY <2>7
    <3>2. 2 \in above /\ \A n \in above : n \in 1 .. 4 /\ n # 1
      BY <2>4, <2>5, <2>7, <3>1
    <3>3. \A n \in above : 2 <= n
      BY <3>2
    <3>4. Min(above) = 2
      BY <2>5, <3>2, <3>3, MinEquals
    <3> QED BY <1>2, <2>1, <2>2, <2>7, <3>1, <3>2, <3>4
  <2>8. CASE ~(v < a + b) /\ v < a + b + d
    <3>1. ~(v < a) /\ ~(v < a + b)
      BY <2>8
    <3>2. 3 \in above /\ \A n \in above : n \in 1 .. 4 /\ n # 1 /\ n # 2
      BY <2>4, <2>5, <2>8, <3>1
    <3>3. \A n \in above : 3 <= n
      BY <3>2
    <3>4. Min(above) = 3
      BY <2>5, <3>2, <3>3, MinEquals
    <3> QED BY <1>2, <2>1, <2>2, <2>8, <3>1, <3>2, <3>4
  <2>9. CASE ~(v < a + b + d) /\ v < a + b + d + e
    <3>1. ~(v < a) /\ ~(v < a + b) /\ ~(v < a + b + d)
      BY <2>9
    <3>2. 4 \in above /\ \A n \in above : n \in 1 .. 4 /\ n # 1 /\ n # 2 /\ n # 3
      BY <2>4, <2>5, <2>9, <3>1
    <3>3. \A n \in above : 4 <= n
      BY <3>2
    <3>4. Min(above) = 4
      BY <2>5, <3>2, <3>3, MinEquals
    <3> QED BY <1>2, <2>1, <2>2, <2>9, <3>1, <3>2, <3>4
  <2>10. CASE ~(v < a + b + d + e)
    <3>1. ~(v < a) /\ ~(v < a + b) /\ ~(v < a + b + d)
      BY <2>10
    <3>2. above = {}
      BY <2>4, <2>5, <2>10, <3>1
    <3> QED BY <2>1, <2>2, <2>10, <3>1, <3>2
  <2> QED BY <2>6, <2>7, <2>8, <2>9, <2>10
<1>5. CASE plan.profile = "normal"
  <2>1. Profiles[plan.profile] = Config(0, 0, 0, 15, 0)
    BY <1>5 DEF Profiles
  <2>2. /\ Settings[plan.profile].longDelay = 0 /\ Settings[plan.profile].error = 0
        /\ Settings[plan.profile].invalid = 0 /\ Settings[plan.profile].slow = 15
        /\ Settings[plan.profile].mongoConflict = 0
    BY <1>5 DEF Settings
  <2>3. Mode(hash, Profiles[plan.profile]) = IF v < 15 THEN "slow" ELSE "ok"
    BY <1>1, <1>3, <2>1
  <2>4. ExternalMode(hash) = IF v < 15 THEN "slow" ELSE "ok"
    BY <1>1, <2>2 DEF ExternalMode, FloorMod
  <2>5. ~(hash % 100 < Profiles[plan.profile].mongo) /\ ~MongoConflict(hash)
    BY <1>1, <2>1, <2>2 DEF Config, MongoConflict, FloorMod
  <2> QED BY <2>3, <2>4, <2>5
<1>6. CASE plan.profile = "faults"
  <2>1. Profiles[plan.profile] = Config(3, 5, 2, 15, 2)
    BY <1>6 DEF Profiles
  <2>2. /\ Settings[plan.profile].longDelay = 3 /\ Settings[plan.profile].error = 5
        /\ Settings[plan.profile].invalid = 2 /\ Settings[plan.profile].slow = 15
        /\ Settings[plan.profile].mongoConflict = 2
    BY <1>6 DEF Settings
  <2>3. Mode(hash, Profiles[plan.profile]) =
          IF v < 3 THEN "long_delay" ELSE IF v < 8 THEN "error"
          ELSE IF v < 10 THEN "bad_response" ELSE IF v < 25 THEN "slow" ELSE "ok"
    BY <1>1, <1>3, <2>1
  <2>4. ExternalMode(hash) =
          IF v < 3 THEN "long_delay" ELSE IF v < 8 THEN "error"
          ELSE IF v < 10 THEN "bad_response" ELSE IF v < 25 THEN "slow" ELSE "ok"
    BY <1>1, <2>2 DEF ExternalMode, FloorMod
  <2>5. hash % 100 < Profiles[plan.profile].mongo <=> MongoConflict(hash)
    BY <1>1, <2>1, <2>2 DEF Config, MongoConflict, FloorMod
  <2> QED BY <1>6, <2>3, <2>4, <2>5
<1> QED BY <1>5, <1>6

\* The order of a request is one of the pool.
LEMMA OrderOfPool ==
  ASSUME PlanInv, NEW i \in 0 .. Count - 1
  PROVE  trace[i].order \in 0 .. plan.pool - 1
<1>1. PICK p \in Nat \ {0} : p = plan.pool
  BY PlanTyped DEF PlanInv
<1>2. PICK x \in Int : x = plan.seed + i * Stride
  BY PlanTyped, StrideCoprime DEF PlanInv
<1>3. x % p \in 0 .. p - 1
  BY Division
<1>4. trace[i].order = x % p
  BY <1>1, <1>2, TraceOrder DEF At
<1> QED BY <1>1, <1>3, <1>4

\* What the trace says of a request.
LEMMA TracePlanned ==
  ASSUME PlanInv, NEW i \in 0 .. Count - 1
  PROVE  LET o == trace[i].order
             mode == ExternalMode(plan.external[o])
         IN /\ trace[i].mode = mode
            /\ trace[i].outcome = IF mode \in Faulty \/ MongoConflict(plan.mongo[o])
                                  THEN "expected_fault" ELSE "processed"
<1>1. PICK o \in 0 .. plan.pool - 1 : o = trace[i].order
  BY OrderOfPool
<1>2. plan.external[o] \in Int /\ plan.mongo[o] \in Int /\ plan.profile \in {"normal", "faults"}
  BY PlanTyped DEF PlanInv
<1>3. trace[i] = [order |-> o, mode |-> Mode(plan.external[o], Profiles[plan.profile]),
        outcome |-> IF \/ Mode(plan.external[o], Profiles[plan.profile]) \in Faulty
                       \/ plan.mongo[o] % 100 < Profiles[plan.profile].mongo
                    THEN "expected_fault" ELSE "processed"]
  BY <1>1 DEF PlanInv, TraceOf
<1> QED BY <1>1, <1>2, <1>3, ModesAgree

\* The service behaves as probed, and the order is there: the outcome is the planned one.
LEMMA OutcomePlanned ==
  ASSUME PlanInv, NEW i \in 0 .. Count - 1, trace[i].order \in collection,
         NEW b \in Behaviours, b \in Probed(ExternalMode(plan.external[trace[i].order]))
  PROVE  /\ Outcome(trace[i].order, b) = trace[i].outcome
         /\ plan.profile = "normal" => b.delay <= 1200
<1>1. PICK o \in 0 .. plan.pool - 1 : o = trace[i].order
  BY OrderOfPool
<1>2. PICK mode \in {"long_delay", "error", "bad_response", "slow", "ok"} :
        /\ mode = ExternalMode(plan.external[o])
        /\ plan.profile = "normal" => mode \in {"slow", "ok"}
  BY PlanTyped, ModesAgree DEF PlanInv
<1>3. b.delay \in {0, 1200, 3000} /\ b.status \in {"200", "500", "503"} /\ b.json \in BOOLEAN
  BY DEF Behaviours
<1>4. /\ mode = "long_delay" => b.delay >= 2000
      /\ mode = "error" => b.delay < 2000 /\ b.status = "503"
      /\ mode = "bad_response" => b.delay < 2000 /\ b.status = "200" /\ ~b.json
      /\ mode = "slow" => b.delay < 2000 /\ b.status = "200" /\ b.json
      /\ mode = "ok" => b.delay < 2000 /\ b.status = "200" /\ b.json
  <2>1. b \in Probed(mode)
    BY <1>1, <1>2
  <2>2. CASE mode = "long_delay"
    BY <2>1, <2>2 DEF Probed
  <2>3. CASE mode = "error"
    BY <2>1, <2>3 DEF Probed
  <2>4. CASE mode = "bad_response"
    BY <2>1, <2>4 DEF Probed
  <2>5. CASE mode = "slow"
    BY <2>1, <2>5 DEF Probed
  <2>6. CASE mode = "ok"
    BY <2>1, <2>6 DEF Probed
  <2> QED BY <2>2, <2>3, <2>4, <2>5, <2>6
<1>5. /\ mode = "long_delay" => Observed(b) = "timeout"
      /\ mode = "error" => Observed(b) = "503"
      /\ mode = "bad_response" => Observed(b) = "unreadable"
      /\ mode \in {"slow", "ok"} => Observed(b) = "200"
  BY <1>3, <1>4 DEF Observed, ReadTimeout
<1>6. Outcome(o, b) = IF Observed(b) = "200"
                      THEN IF MongoConflict(plan.mongo[o]) THEN "expected_fault" ELSE "processed"
                      ELSE IF <<mode, Observed(b)>> \in Expected THEN "expected_fault" ELSE "unexpected"
  BY <1>1, <1>2 DEF Outcome
<1>7. trace[i].outcome = IF mode \in Faulty \/ MongoConflict(plan.mongo[o])
                         THEN "expected_fault" ELSE "processed"
  BY <1>1, <1>2, TracePlanned
<1>8. CASE mode \in {"slow", "ok"}
  BY <1>1, <1>3, <1>4, <1>5, <1>6, <1>7, <1>8 DEF Faulty
<1>9. CASE mode \in {"long_delay", "error", "bad_response"}
  <2>1. Observed(b) # "200" /\ <<mode, Observed(b)>> \in Expected
    BY <1>5, <1>9 DEF Expected
  <2>2. ~(plan.profile = "normal")
    BY <1>2, <1>9
  <2> QED BY <1>1, <1>6, <1>7, <1>9, <2>1, <2>2 DEF Faulty
<1> QED BY <1>2, <1>8, <1>9

Quick(ms) == plan.profile = "normal" => ms <= 1200

\* The load runs on a collection the runner seeded; while nothing failed, every request
\* met what the trace says, and in the normal profile without a wait for the timeout.
PredictInv ==
  /\ stage = "loading" => seeds["runner"].step = "done" /\ seeds["runner"].next = plan.seedOrders
  /\ faults = 0 =>
       /\ \A r \in inflight :
            r.outcome # "none" => r.outcome = trace[r.index].outcome /\ Quick(r.ms)
       /\ \A k \in DOMAIN log : Valid(log[k]) /\ Quick(log[k].ms)

PlannedInv == SeedInv /\ LoadInv /\ PredictInv

LEMMA PlannedInvInit == Init => PlannedInv
<1>1. Init => PredictInv
  BY DEF Init, PredictInv
<1> QED BY <1>1, SeedInvInit, LoadInvInit DEF PlannedInv

LEMMA PoolSeeded ==
  ASSUME PlannedInv, stage = "loading", NEW i \in 0 .. Count - 1
  PROVE  trace[i].order \in collection
<1>1. "runner" \in Clients /\ PlanInv
  BY DEF Clients, PlannedInv, LoadInv
<1>2. collection = 0 .. plan.seedOrders - 1
  BY <1>1 DEF PlannedInv, PredictInv, SeedInv, Owned
<1>3. trace[i].order \in 0 .. plan.pool - 1
  BY <1>1, OrderOfPool
<1> QED BY <1>1, <1>2, <1>3, PlanTyped DEF PlanInv

LEMMA SeedingKeeps ==
  ASSUME PlannedInv, NEW c \in Clients, NEW step, NEW count, NEW next \in Nat,
         Seeding(c, step, count, next), seeds[c].step \in {"idle", "inserting"},
         UNCHANGED <<given, stage, load>>, faults' \in {faults, faults + 1}
  PROVE  PredictInv'
<1>1. stage = "loading" => seeds'["runner"] = seeds["runner"]
  <2>1. ASSUME stage = "loading" PROVE c # "runner"
    BY <2>1 DEF PlannedInv, PredictInv
  <2> QED BY <2>1, SeedingEffect DEF PlannedInv, SeedInv, Clients
<1>2. UNCHANGED <<plan, trace, stage, inflight, log>>
  BY DEF given, load
<1>3. faults \in Nat
  BY DEF PlannedInv, LoadInv, LoadTyped
<1>4. faults' = 0 => faults = 0
  BY <1>3
<1> QED BY <1>1, <1>2, <1>4 DEF PlannedInv, PredictInv, Quick, Valid

LEMMA PredictArrive ==
  ASSUME PlannedInv, Arrive
  PROVE  PredictInv'
<1>1. UNCHANGED <<plan, trace, stage, seeds, log, faults>>
  BY DEF Arrive, given
<1>2. \A r \in inflight' : r \in inflight \/ r.outcome = "none"
  BY DEF Arrive
<1> QED BY <1>1, <1>2 DEF PlannedInv, PredictInv, Quick, Valid

LEMMA PredictProcess ==
  ASSUME PlannedInv, NEW r \in inflight, NEW b \in Behaviours, Process(r, b)
  PROVE  PredictInv'
<1>1. UNCHANGED <<plan, trace, stage, collection, seeds, log>>
  BY DEF Process, given
<1>2. PlanInv /\ LoadTyped /\ IndexInv /\ FlowInv
  BY DEF PlannedInv, LoadInv
<1>3. r \in Requests /\ r.index \in 0 .. Count - 1
  <2>1. r \in Requests /\ r.index < Count /\ Count \in Nat
    BY <1>2, Numbers DEF LoadTyped, IndexInv
  <2> QED BY <2>1 DEF Requests
<1>4. stage = "loading"
  BY <1>2 DEF FlowInv
<1>5. trace[r.index].order \in collection
  BY <1>3, <1>4, PoolSeeded
<1>6. ASSUME faults' = 0
      PROVE  faults = 0 /\ b \in Probed(ExternalMode(plan.external[trace[r.index].order]))
  BY <1>2, <1>6 DEF Process, Fails, LoadTyped
<1>7. PICK o \in Outcomes : o = Outcome(trace[r.index].order, b)
  BY OutcomeTyped
<1>8. PICK m \in 0 .. ReadTimeout : m = IF b.delay > ReadTimeout THEN ReadTimeout ELSE b.delay
  BY DEF Behaviours, ReadTimeout
<1>9. PICK q \in Requests : q = [r EXCEPT !.outcome = o, !.ms = m]
  BY <1>3 DEF Requests
<1>10. inflight' = (inflight \ {r}) \cup {q} /\ q.index = r.index /\ q.outcome = o /\ q.ms = m
  BY <1>3, <1>7, <1>8, <1>9 DEF Process, Requests
<1>11. ASSUME faults' = 0
       PROVE  q.outcome = trace[q.index].outcome /\ Quick(q.ms)
  <2>1. o = trace[r.index].outcome /\ (plan.profile = "normal" => b.delay <= 1200)
    BY <1>2, <1>3, <1>5, <1>6, <1>7, <1>11, OutcomePlanned
  <2>2. b.delay <= 1200 => m <= 1200
    BY <1>8 DEF Behaviours, ReadTimeout
  <2> QED BY <1>10, <2>1, <2>2 DEF Quick
<1> QED BY <1>1, <1>6, <1>10, <1>11 DEF PlannedInv, PredictInv, Quick, Valid

LEMMA PredictAnswer ==
  ASSUME PlannedInv, NEW r \in inflight, NEW lost \in BOOLEAN, Answer(r, lost)
  PROVE  PredictInv'
<1>1. UNCHANGED <<plan, trace, stage, collection, seeds>> /\ inflight' = inflight \ {r} /\ r.outcome # "none"
  BY DEF Answer, given
<1>2. PlanInv /\ LoadTyped /\ IndexInv
  BY DEF PlannedInv, LoadInv
<1>3. ASSUME faults' = 0
      PROVE  faults = 0 /\ lost = FALSE
  BY <1>2, <1>3 DEF Answer, Fails, LoadTyped
<1>5. PICK x \in Entries :
        /\ log' = Append(log, x)
        /\ x.index = r.index /\ x.outcome = r.outcome /\ x.ms = r.ms
        /\ x.expected <=> (lost = FALSE /\ r.outcome # "unexpected")
  BY <1>2, AnswerAppends
<1>6. PICK n \in Nat : n = Len(log) /\ DOMAIN log = 1 .. n
  BY <1>2 DEF LoadTyped
<1>7. \A k \in DOMAIN log' : (k \in DOMAIN log /\ log'[k] = log[k]) \/ log'[k] = x
  BY <1>2, <1>5, <1>6 DEF LoadTyped
<1>8. r.index \in 0 .. Count - 1
  <2>1. r \in Requests /\ r.index < Count /\ Count \in Nat
    BY <1>2, Numbers DEF LoadTyped, IndexInv
  <2> QED BY <2>1 DEF Requests
<1>9. trace[r.index].outcome \in {"expected_fault", "processed"}
  BY <1>2, <1>8, TracePlanned
<1>10. ASSUME faults' = 0
       PROVE  x.expected /\ x.outcome = trace[x.index].outcome /\ Quick(x.ms)
  <2>1. r.outcome = trace[r.index].outcome /\ Quick(r.ms)
    BY <1>1, <1>3, <1>10 DEF PlannedInv, PredictInv
  <2>2. r.outcome # "unexpected" /\ lost = FALSE
    BY <1>3, <1>9, <1>10, <2>1
  <2>3. x.expected
    BY <1>5, <2>2
  <2>4. x.outcome = trace[x.index].outcome
    BY <1>5, <2>1
  <2>5. Quick(x.ms)
    BY <1>5, <2>1
  <2> QED BY <2>3, <2>4, <2>5
<1>11. stage' = "loading" => seeds'["runner"].step = "done" /\ seeds'["runner"].next = plan'.seedOrders
  BY <1>1 DEF PlannedInv, PredictInv
<1>12. ASSUME faults' = 0, NEW q \in inflight', q.outcome # "none"
       PROVE  (q.outcome = trace[q.index].outcome /\ Quick(q.ms))'
  BY <1>1, <1>3, <1>12 DEF PlannedInv, PredictInv, Quick
<1>13. ASSUME faults' = 0, NEW k \in DOMAIN log'
       PROVE  (Valid(log[k]) /\ Quick(log[k].ms))'
  <2>1. CASE k \in DOMAIN log /\ log'[k] = log[k]
    <3>1. Valid(log[k]) /\ Quick(log[k].ms)
      BY <1>3, <1>13, <2>1 DEF PlannedInv, PredictInv
    <3> QED BY <1>1, <2>1, <3>1 DEF Valid, Quick
  <2>2. CASE log'[k] = x
    <3>1. x.expected /\ x.outcome = trace[x.index].outcome /\ Quick(x.ms)
      BY <1>10, <1>13
    <3> QED BY <1>1, <2>2, <3>1 DEF Valid, Quick
  <2> QED BY <1>7, <2>1, <2>2
<1> QED BY <1>11, <1>12, <1>13 DEF PredictInv

LEMMA PlannedInvStep == PlannedInv /\ [Next]_vars => PlannedInv'
<1> SUFFICES ASSUME PlannedInv, [Next]_vars PROVE PredictInv'
  BY SeedInvStep, LoadInvStep DEF PlannedInv
<1>1. DOMAIN seeds = Clients /\ \A c \in Clients : seeds[c].next \in Nat
  BY DEF PlannedInv, SeedInv, SeedsTyped
<1>2. ASSUME NEW c \in Clients, NEW count, SeedBegin(c, count) PROVE PredictInv'
  <2>1. PICK step, k : Seeding(c, step, k, 0)
    BY <1>2 DEF SeedBegin
  <2> QED BY <1>2, <2>1, SeedingKeeps DEF SeedBegin
<1>3. ASSUME NEW c \in Clients, SeedInsert(c) PROVE PredictInv'
  <2>1. PICK next \in Nat : \E step, k : Seeding(c, step, k, next)
    <3>1. seeds[c].next \in Nat /\ seeds[c].next + 1 \in Nat
      BY <1>1
    <3>2. CASE Inserts(seeds[c].next)
      BY <1>3, <3>1, <3>2 DEF SeedInsert
    <3>3. CASE ~Inserts(seeds[c].next)
      BY <1>3, <3>1, <3>3 DEF SeedInsert
    <3> QED BY <3>2, <3>3
  <2> QED BY <1>3, <2>1, SeedingKeeps DEF SeedInsert
<1>4. ASSUME NEW c \in Clients, SeedFails(c) PROVE PredictInv'
  BY <1>1, <1>4, SeedingKeeps DEF SeedFails, Fails
<1>5. CASE StartLoad
  <2>1. UNCHANGED <<plan, trace, seeds, inflight, log, faults>>
    BY <1>5 DEF StartLoad, given, load
  <2>2. stage' = "loading" => seeds["runner"].step = "done" /\ seeds["runner"].next = plan.seedOrders
    BY <1>5 DEF StartLoad
  <2> QED BY <2>1, <2>2 DEF PlannedInv, PredictInv, Quick, Valid
<1>6. CASE End \/ UNCHANGED vars
  <2>1. UNCHANGED <<plan, trace, seeds, inflight, log, faults>> /\ stage' \in {stage, "over"}
    BY <1>6 DEF End, given, load, vars
  <2> QED BY <2>1 DEF PlannedInv, PredictInv, Quick, Valid
<1>7. CASE Arrive
  BY <1>7, PredictArrive
<1>8. ASSUME NEW r \in inflight, NEW b \in Behaviours, Process(r, b) PROVE PredictInv'
  BY <1>8, PredictProcess
<1>9. ASSUME NEW r \in inflight, NEW lost \in BOOLEAN, Answer(r, lost) PROVE PredictInv'
  BY <1>9, PredictAnswer
<1> QED
  BY <1>1, <1>2, <1>3, <1>4, <1>5, <1>6, <1>7, <1>8, <1>9 DEF Next, Clients

\* Some values have a greatest: it is one that most of them do not exceed.
LEMMA GreatestValue ==
  ASSUME NEW D, IsFiniteSet(D), D # {}, NEW values \in [D -> Nat]
  PROVE  \E i \in D : \A j \in D : values[j] <= values[i]
<1> DEFINE U(i) == {j \in D : values[j] <= values[i]}
           S == {Cardinality(D) - Cardinality(U(i)) : i \in D}
<1>1. ASSUME NEW i \in D
      PROVE  /\ IsFiniteSet(U(i)) /\ Cardinality(U(i)) \in Nat
             /\ Cardinality(U(i)) <= Cardinality(D) /\ Cardinality(D) \in Nat
  BY FS_Subset, FS_CardinalityType
<1>2. S \subseteq Nat
  <2> SUFFICES ASSUME NEW i \in D PROVE Cardinality(D) - Cardinality(U(i)) \in Nat
    OBVIOUS
  <2> HIDE DEF U
  <2> QED BY <1>1
<1>3. S # {}
  OBVIOUS
<1>4. PICK m \in S : \A x \in S : m <= x
  <2> HIDE DEF S
  <2> QED BY <1>2, <1>3, Least
<1>5. PICK i \in D : m = Cardinality(D) - Cardinality(U(i))
  OBVIOUS
<1>6. ASSUME NEW j \in D, ~(values[j] <= values[i])
      PROVE  FALSE
  <2>1. values[i] \in Nat /\ values[j] \in Nat
    OBVIOUS
  <2>2. U(i) \cup {j} \in SUBSET U(j) /\ j \notin U(i)
    <3>1. \A x \in U(i) : x \in U(j)
      <4> TAKE x \in U(i)
      <4>1. values[x] \in Nat /\ values[x] <= values[i]
        OBVIOUS
      <4> QED BY <1>6, <2>1, <4>1
    <3> QED BY <1>6, <2>1, <3>1
  <2>3. Cardinality(D) - Cardinality(U(j)) \in S
    OBVIOUS
  <2> HIDE DEF U, S
  <2>4. Cardinality(U(i) \cup {j}) = Cardinality(U(i)) + 1
    BY <1>1, <2>2, FS_AddElement
  <2>5. Cardinality(U(i) \cup {j}) <= Cardinality(U(j))
    BY <1>1, <2>2, FS_Subset
  <2>6. m <= Cardinality(D) - Cardinality(U(j))
    BY <1>4, <2>3
  <2>7. /\ Cardinality(U(i)) \in Nat /\ Cardinality(U(j)) \in Nat /\ Cardinality(D) \in Nat
    BY <1>1
  <2> QED BY <1>5, <2>4, <2>5, <2>6, <2>7
<1> QED BY <1>6

\* The values in order are values, as many, and none is less than the one before it.
LEMMA OrderedValues ==
  ASSUME NEW D, IsFiniteSet(D), NEW values \in [D -> Nat]
  PROVE  LET n == Cardinality(D)
             s == Ordered(values)
         IN /\ n \in Nat /\ s \in Seq(Nat) /\ Len(s) = n
            /\ \A k \in 1 .. n : \E i \in D : s[k] = values[i]
            /\ \A j, k \in 1 .. n : j <= k => s[j] <= s[k]
<1> DEFINE upTo(v) == Cardinality({i \in D : values[i] <= v})
           V(k) == {v \in Range(values) : upTo(v) >= k}
<1>1. PICK n \in Nat : n = Cardinality(D)
  BY FS_CardinalityType
<1>2. PICK s : s = Ordered(values)
  BY Zenon
<1>3. DOMAIN values = D /\ Range(values) = {values[i] : i \in D}
  BY DEF Range
<1>4. s = [k \in 1 .. n |-> Min(V(k))]
  BY <1>1, <1>2, <1>3 DEF Ordered
<1>5. \A v : upTo(v) \in Nat
  <2> TAKE v
  <2>1. IsFiniteSet({i \in D : values[i] <= v})
    BY FS_Subset
  <2> QED BY <2>1, FS_CardinalityType
<1>6. ASSUME NEW k \in 1 .. n
      PROVE  V(k) \subseteq Nat /\ V(k) # {}
  <2>1. D # {}
    BY <1>1, FS_EmptySet
  <2>2. PICK i \in D : \A j \in D : values[j] <= values[i]
    BY <2>1, GreatestValue
  <2>3. {j \in D : values[j] <= values[i]} = D
    BY <2>2
  <2>4. upTo(values[i]) = n
    BY <1>1, <2>3
  <2>5. values[i] \in V(k)
    <3> HIDE DEF upTo
    <3> QED BY <1>3, <2>4
  <2>6. V(k) \subseteq Nat
    BY <1>3
  <2> QED BY <2>5, <2>6
<1>7. ASSUME NEW k \in 1 .. n
      PROVE  s[k] \in V(k) /\ \A v \in V(k) : s[k] <= v
  <2> HIDE DEF V
  <2>1. s[k] = Min(V(k))
    BY <1>4
  <2> QED BY <1>6, <2>1, MinIs
<1>8. \A k \in 1 .. n : s[k] \in Nat /\ \E i \in D : s[k] = values[i]
  <2> TAKE k \in 1 .. n
  <2>1. s[k] \in Range(values)
    BY <1>7
  <2> QED BY <1>3, <2>1
<1>9. s \in Seq(Nat) /\ Len(s) = n
  <2>1. s = [k \in 1 .. n |-> s[k]]
    BY <1>4
  <2>2. s \in [1 .. n -> Nat]
    BY <1>8, <2>1
  <2>3. s \in Seq(Nat)
    BY <2>2
  <2> QED BY <2>2, <2>3
<1>10. ASSUME NEW j \in 1 .. n, NEW k \in 1 .. n, j <= k
       PROVE  s[j] <= s[k]
  <2>1. \A v \in V(k) : v \in V(j)
    <3> TAKE v \in V(k)
    <3>1. v \in Range(values) /\ upTo(v) >= k /\ upTo(v) \in Nat
      BY <1>5
    <3> HIDE DEF upTo
    <3> QED BY <1>10, <3>1
  <2> HIDE DEF V
  <2> QED BY <1>7, <2>1
<1> QED BY <1>1, <1>2, <1>8, <1>9, <1>10

\* Where a percentile of n values lies: a hundred times its place, the places it is
\* between, and how far it is from the first to the second.
Spot(n, p) == (n - 1) * p
Below(n, p) == Spot(n, p) \div 100 + 1
Above(n, p) == (Spot(n, p) + 99) \div 100 + 1
Weight(n, p) == Spot(n, p) % 100

LEMMA SpotsGrow ==
  ASSUME NEW n \in Nat \ {0}, NEW p \in 0 .. 100, NEW r \in 0 .. 100, p <= r
  PROVE  /\ Spot(n, p) \in Nat /\ Spot(n, r) \in Nat
         /\ Spot(n, p) <= Spot(n, r) /\ Spot(n, r) <= 100 * (n - 1)
<1>1. PICK k \in Nat : k = n - 1
  OBVIOUS
<1>2. k * r \in Nat /\ k * r <= k * 100
  OBVIOUS
<1>3. k * p \in Nat /\ k * p <= k * r
  OBVIOUS
<1> QED BY <1>1, <1>2, <1>3 DEF Spot

LEMMA Hundreds ==
  ASSUME NEW x \in Nat, NEW y \in Nat, x <= y
  PROVE  /\ x \div 100 \in Nat /\ x % 100 \in 0 .. 99 /\ x = 100 * (x \div 100) + (x % 100)
         /\ x \div 100 <= (x + 99) \div 100 /\ (x + 99) \div 100 \in Nat
         /\ \/ x \div 100 = y \div 100 /\ (x + 99) \div 100 = x \div 100
            \/ /\ x \div 100 = y \div 100 /\ (x + 99) \div 100 = (y + 99) \div 100
               /\ x % 100 <= y % 100
            \/ (x + 99) \div 100 <= y \div 100
<1>1. PICK q \in Nat, w \in 0 .. 99 : q = x \div 100 /\ w = x % 100 /\ x = 100 * q + w
  OBVIOUS
<1>2. PICK k \in Nat, v \in 0 .. 99 : k = y \div 100 /\ v = y % 100 /\ y = 100 * k + v
  OBVIOUS
<1>3. (x + 99) \div 100 = IF w = 0 THEN q ELSE q + 1
  <2>1. CASE w = 0
    BY <1>1, <2>1
  <2>2. CASE w # 0
    BY <1>1, <2>2
  <2> QED BY <2>1, <2>2
<1>4. (y + 99) \div 100 = IF v = 0 THEN k ELSE k + 1
  <2>1. CASE v = 0
    BY <1>2, <2>1
  <2>2. CASE v # 0
    BY <1>2, <2>2
  <2> QED BY <2>1, <2>2
<1> QED BY <1>1, <1>2, <1>3, <1>4

LEMMA Places ==
  ASSUME NEW n \in Nat \ {0}, NEW p \in 0 .. 100
  PROVE  /\ Below(n, p) \in 1 .. n /\ Above(n, p) \in 1 .. n /\ Weight(n, p) \in 0 .. 99
         /\ Below(n, p) <= Above(n, p)
<1>1. PICK x \in Nat : x = Spot(n, p) /\ x <= 100 * (n - 1)
  <2>1. p <= p
    OBVIOUS
  <2> QED BY <2>1, SpotsGrow
<1>2. x \div 100 \in 0 .. n - 1 /\ (x + 99) \div 100 \in 0 .. n - 1 /\ x % 100 \in 0 .. 99
  BY <1>1
<1>3. x \div 100 <= (x + 99) \div 100
  BY Hundreds
<1> QED BY <1>1, <1>2, <1>3 DEF Below, Above, Weight

LEMMA PlacesGrow ==
  ASSUME NEW n \in Nat \ {0}, NEW p \in 0 .. 100, NEW r \in 0 .. 100, p <= r
  PROVE  \/ Below(n, p) = Below(n, r) /\ Above(n, p) = Below(n, p)
         \/ Below(n, p) = Below(n, r) /\ Above(n, p) = Above(n, r) /\ Weight(n, p) <= Weight(n, r)
         \/ Above(n, p) <= Below(n, r)
<1>1. PICK x \in Nat, y \in Nat : x = Spot(n, p) /\ y = Spot(n, r) /\ x <= y
  BY SpotsGrow
<1>2. \/ x \div 100 = y \div 100 /\ (x + 99) \div 100 = x \div 100
      \/ /\ x \div 100 = y \div 100 /\ (x + 99) \div 100 = (y + 99) \div 100
         /\ x % 100 <= y % 100
      \/ (x + 99) \div 100 <= y \div 100
  BY ONLY x \in Nat, y \in Nat, <1>1, Hundreds
<1>3. y \div 100 \in Nat /\ (x + 99) \div 100 \in Nat
  BY <1>1
<1> QED BY <1>1, <1>2, <1>3 DEF Below, Above, Weight

\* A hundred times a value between a and b.
Mixture(a, b, w) == a * 100 + (b - a) * w

LEMMA Mixed ==
  ASSUME NEW a \in Nat, NEW b \in Nat, NEW w \in 0 .. 99, NEW lo \in Nat, NEW hi \in Nat,
         lo <= a, lo <= b, a <= hi, b <= hi
  PROVE  /\ Mixture(a, b, w) \in Int
         /\ 100 * lo <= Mixture(a, b, w) /\ Mixture(a, b, w) <= 100 * hi
<1>1. PICK c \in Nat : c = 100 - w
  OBVIOUS
<1>2. a * 100 + (b - a) * w = a * c + b * w
  BY <1>1
<1>3. lo * c <= a * c /\ a * c <= hi * c
  OBVIOUS
<1>4. lo * w <= b * w /\ b * w <= hi * w
  OBVIOUS
<1>5. lo * c + lo * w = 100 * lo /\ hi * c + hi * w = 100 * hi
  BY <1>1
<1> QED BY <1>2, <1>3, <1>4, <1>5 DEF Mixture

LEMMA MixtureGrows ==
  ASSUME NEW a \in Nat, NEW b \in Nat, a <= b, NEW v \in 0 .. 99, NEW w \in 0 .. 99, v <= w
  PROVE  Mixture(a, b, v) <= Mixture(a, b, w)
<1>1. PICK d \in Nat : d = b - a
  OBVIOUS
<1>2. d * v <= d * w
  OBVIOUS
<1> QED BY <1>1, <1>2 DEF Mixture

\* A percentile is a mixture of two neighbours of the values in order.
LEMMA PercentileMixed ==
  ASSUME NEW D, IsFiniteSet(D), D # {}, NEW values \in [D -> Nat]
  PROVE  \E n \in Nat \ {0}, s \in Seq(Nat) :
           /\ Len(s) = n /\ \A k \in 1 .. n : \E i \in D : s[k] = values[i]
           /\ \A j, k \in 1 .. n : j <= k => s[j] <= s[k]
           /\ \A p : Percentile(values, p)
                       = Mixture(s[Below(n, p)], s[Above(n, p)], Weight(n, p))
<1>1. PICK n \in Nat, s \in Seq(Nat) :
        /\ s = Ordered(values) /\ Len(s) = n /\ n = Cardinality(D)
        /\ \A k \in 1 .. n : \E i \in D : s[k] = values[i]
        /\ \A j, k \in 1 .. n : j <= k => s[j] <= s[k]
  BY OrderedValues
<1>2. n \in Nat \ {0}
  BY <1>1, FS_EmptySet
<1>3. \A p : Percentile(values, p) = Mixture(s[Below(n, p)], s[Above(n, p)], Weight(n, p))
  BY <1>1 DEF Percentile, Interpolated, Mixture, Below, Above, Weight, Spot
<1> QED BY <1>1, <1>2, <1>3

\* A percentile is between the bounds of the values.
LEMMA PercentileBetween ==
  ASSUME NEW D, IsFiniteSet(D), D # {}, NEW values \in [D -> Nat], NEW p \in 0 .. 100,
         NEW lo \in Nat, NEW hi \in Nat, \A i \in D : lo <= values[i] /\ values[i] <= hi
  PROVE  /\ Percentile(values, p) \in Int
         /\ 100 * lo <= Percentile(values, p) /\ Percentile(values, p) <= 100 * hi
<1>1. PICK n \in Nat \ {0}, s \in Seq(Nat) :
        /\ Len(s) = n /\ \A k \in 1 .. n : \E i \in D : s[k] = values[i]
        /\ \A t : Percentile(values, t)
                    = Mixture(s[Below(n, t)], s[Above(n, t)], Weight(n, t))
  BY PercentileMixed
<1>2. PICK w \in 0 .. 99 : w = Weight(n, p)
  BY Places
<1>3. \A k \in 1 .. n : s[k] \in Nat /\ lo <= s[k] /\ s[k] <= hi
  BY <1>1
<1>4. PICK a \in Nat, b \in Nat : /\ a = s[Below(n, p)] /\ b = s[Above(n, p)]
                                  /\ lo <= a /\ a <= hi /\ lo <= b /\ b <= hi
  BY <1>3, Places
<1>5. /\ Mixture(a, b, w) \in Int
      /\ 100 * lo <= Mixture(a, b, w) /\ Mixture(a, b, w) <= 100 * hi
  BY <1>4, Mixed
<1>6. Percentile(values, p) = Mixture(a, b, w)
  BY <1>1, <1>2, <1>4
<1> QED BY <1>5, <1>6

LEMMA PercentileAtMost ==
  ASSUME NEW D, IsFiniteSet(D), D # {}, NEW values \in [D -> Nat], NEW p \in 0 .. 100,
         NEW hi \in Nat, \A i \in D : values[i] <= hi
  PROVE  Percentile(values, p) \in Int /\ Percentile(values, p) <= 100 * hi
<1>1. PICK lo \in Nat : lo = 0
  OBVIOUS
<1>2. \A i \in D : lo <= values[i] /\ values[i] <= hi
  BY <1>1
<1> QED BY <1>2, PercentileBetween

\* As many answers as requests: those to some requests are as many as these.
LEMMA AnswersMatch ==
  ASSUME LoadInv, Len(log) = Count, NEW T, T \subseteq 0 .. Count - 1
  PROVE  Cardinality({k \in DOMAIN log : log[k].index \in T}) = Cardinality(T)
<1>1. DOMAIN log = 1 .. Len(log) /\ Len(log) \in Nat
  BY DEF LoadInv, LoadTyped
<1> DEFINE K == {k \in DOMAIN log : log[k].index \in T}
           g == [k \in K |-> log[k].index]
<1>2. IsFiniteSet(K)
  <2>1. IsFiniteSet(DOMAIN log)
    BY <1>1, FS_Interval
  <2> QED BY <2>1, FS_Subset
<1>3. g \in [K -> T]
  OBVIOUS
<1>4. \A k, l \in K : g[k] = g[l] => k = l
  BY DEF LoadInv, IndexInv
<1>5. \A i \in T : \E k \in K : g[k] = i
  BY EveryRequestAnswered
<1> HIDE DEF g, K
<1>6. g \in Bijection(K, T)
  BY <1>3, <1>4, <1>5 DEF Bijection, Injection, Surjection, IsInjective
<1>7. Cardinality(T) = Cardinality(K)
  BY <1>2, <1>6, FS_Bijection DEF ExistsBijection
<1> QED BY <1>7 DEF K

LEMMA PredictionSound == PlannedInv => OutcomesPredicted
<1> SUFFICES ASSUME PlannedInv, stage = "over", faults = 0, dropped = 0
             PROVE  Admitted
  BY DEF OutcomesPredicted
<1>1. PlanInv /\ LoadTyped /\ IndexInv /\ AppInv /\ FlowInv /\ LoadInv
  BY DEF PlannedInv, LoadInv
<1>2. /\ Count \in Nat \ {0} /\ Iterations \in {Count, Count + 1} /\ Len(log) = Count
      /\ inflight = {} /\ DOMAIN log = 1 .. Count
  <2>1. inflight = {} /\ ticks >= Count /\ ticks <= Count + 1
    BY <1>1 DEF FlowInv
  <2>2. /\ Count \in Nat \ {0} /\ ticks \in Nat /\ NextIndex = ticks
        /\ Iterations = NextIndex
    BY <1>1, Numbers DEF NextIndex
  <2>3. Cardinality(inflight) = 0 /\ Len(log) \in Nat /\ DOMAIN log = 1 .. Len(log)
    BY <1>1, <2>1, FS_EmptySet DEF LoadTyped
  <2>4. Len(log) = Count
    <3>1. Cardinality(inflight) + Len(log) = IF NextIndex < Count THEN NextIndex ELSE Count
      BY <1>1 DEF FlowInv
    <3>2. ~(NextIndex < Count)
      BY <2>1, <2>2
    <3>3. Cardinality(inflight) + Len(log) = Count
      BY <3>1, <3>2
    <3> QED BY <2>3, <3>3
  <2> QED BY <2>1, <2>2, <2>3, <2>4
<1>3. \A k \in DOMAIN log : Valid(log[k]) /\ Quick(log[k].ms)
  BY DEF PlannedInv, PredictInv
<1>4. \A k \in DOMAIN log : /\ log[k] \in Entries /\ log[k].index \in 0 .. Count - 1
                            /\ log[k].expected /\ log[k].outcome = trace[log[k].index].outcome
  <2> TAKE k \in DOMAIN log
  <2>1. log[k] \in Entries /\ log[k].index \in Nat /\ log[k].index < Count
    BY <1>1, EntryTyped DEF IndexInv
  <2>2. log[k].expected /\ log[k].outcome = trace[log[k].index].outcome
    BY <1>3 DEF Valid
  <2> QED BY <1>2, <2>1, <2>2
<1>5. DOMAIN trace = 0 .. Count - 1
  BY <1>1 DEF PlanInv, TraceOf
<1>6. Logged(LAMBDA e : ~Valid(e)) = 0 /\ Logged(LAMBDA e : ~e.expected) = 0
  <2>1. {k \in DOMAIN log : ~Valid(log[k])} = {} /\ {k \in DOMAIN log : ~log[k].expected} = {}
    BY <1>3, <1>4
  <2> QED BY <2>1, FS_EmptySet DEF Logged
<1>7. ASSUME NEW o \in {"processed", "expected_fault"}
      PROVE  /\ Logged(LAMBDA e : Valid(e) /\ e.outcome = o) = Planned(LAMBDA r : r.outcome = o)
             /\ app[o] = Planned(LAMBDA r : r.outcome = o)
  <2> DEFINE T == {i \in DOMAIN trace : trace[i].outcome = o}
  <2>1. {k \in DOMAIN log : Valid(log[k]) /\ log[k].outcome = o}
          = {k \in DOMAIN log : log[k].index \in T}
    BY <1>3, <1>4, <1>5
  <2>2. Answered(o) = {k \in DOMAIN log : log[k].index \in T}
    BY <1>4, <1>5 DEF Answered
  <2>3. Cardinality({k \in DOMAIN log : log[k].index \in T}) = Cardinality(T)
    <3>1. T \subseteq 0 .. Count - 1
      BY <1>5
    <3> HIDE DEF T
    <3> QED BY <1>1, <1>2, <3>1, AnswersMatch
  <2>4. app[o] = Cardinality(Answered(o))
    <3>1. Decided(o) = {} /\ Cardinality({}) = 0
      BY <1>2, FS_EmptySet DEF Decided
    <3>2. app[o] = Cardinality(Decided(o)) + Cardinality(Answered(o)) /\ Cardinality(Answered(o)) \in Nat
      BY <1>1, DecidedFinite DEF AppInv, Outcomes
    <3> QED BY <3>1, <3>2
  <2>5. Planned(LAMBDA r : r.outcome = o) = Cardinality(T)
    BY DEF Planned
  <2>6. Logged(LAMBDA e : Valid(e) /\ e.outcome = o)
          = Cardinality({k \in DOMAIN log : Valid(log[k]) /\ log[k].outcome = o})
    BY DEF Logged
  <2> HIDE DEF T
  <2> QED BY <2>1, <2>2, <2>3, <2>4, <2>5, <2>6
<1>8. ASSUME NEW m \in ToSet(Modes)
      PROVE  Logged(LAMBDA e : trace[e.index].mode = m) = Planned(LAMBDA r : r.mode = m)
  <2> DEFINE T == {i \in DOMAIN trace : trace[i].mode = m}
  <2>1. {k \in DOMAIN log : trace[log[k].index].mode = m} = {k \in DOMAIN log : log[k].index \in T}
    BY <1>4, <1>5
  <2>2. Cardinality({k \in DOMAIN log : log[k].index \in T}) = Cardinality(T)
    <3>1. T \subseteq 0 .. Count - 1
      BY <1>5
    <3> HIDE DEF T
    <3> QED BY <1>1, <1>2, <3>1, AnswersMatch
  <2>3. Planned(LAMBDA r : r.mode = m) = Cardinality(T)
    BY DEF Planned
  <2>4. Logged(LAMBDA e : trace[e.index].mode = m)
          = Cardinality({k \in DOMAIN log : trace[log[k].index].mode = m})
    BY DEF Logged
  <2> HIDE DEF T
  <2> QED BY <2>1, <2>2, <2>3, <2>4
<1>9. app["unexpected"] = 0 /\ app["processed"] + app["expected_fault"] = Count
  <2>1. \A o \in Outcomes : app[o] = Cardinality(Answered(o))
    <3> TAKE o \in Outcomes
    <3>1. Decided(o) = {} /\ Cardinality({}) = 0
      BY <1>2, FS_EmptySet DEF Decided
    <3>2. app[o] = Cardinality(Decided(o)) + Cardinality(Answered(o)) /\ Cardinality(Answered(o)) \in Nat
      BY <1>1, DecidedFinite DEF AppInv
    <3> QED BY <3>1, <3>2
  <2>2. \A k \in DOMAIN log : log[k].outcome \in {"processed", "expected_fault"}
    BY <1>1, <1>4, TracePlanned
  <2>3. Answered("unexpected") = {}
    BY <2>2 DEF Answered
  <2>4. /\ Answered("processed") \cup Answered("expected_fault") = 1 .. Count
        /\ Answered("processed") \cap Answered("expected_fault") = {}
    BY <1>2, <2>2 DEF Answered
  <2>5. /\ IsFiniteSet(Answered("processed")) /\ IsFiniteSet(Answered("expected_fault"))
        /\ Cardinality(Answered("processed")) \in Nat /\ Cardinality(Answered("expected_fault")) \in Nat
    BY <1>1, DecidedFinite
  <2>6. Cardinality(1 .. Count) = Count
    <3>1. Cardinality(1 .. Count) = IF 1 > Count THEN 0 ELSE Count - 1 + 1
      BY <1>2, FS_Interval
    <3> QED BY <1>2, <3>1
  <2>7. Cardinality(Answered("processed")) + Cardinality(Answered("expected_fault")) = Count
    <3>1. Cardinality(1 .. Count) = Cardinality(Answered("processed")) + Cardinality(Answered("expected_fault"))
                                      - Cardinality({})
      BY <2>4, <2>5, FS_Union
    <3> QED BY <2>5, <2>6, <3>1, FS_EmptySet
  <2>8. {"processed", "expected_fault", "unexpected"} = Outcomes
    BY DEF Outcomes
  <2> QED BY <2>1, <2>3, <2>7, <2>8, FS_EmptySet
<1>10. /\ Percentile(ValuesOf(log), 95) < 100 * Slo[1]
       /\ Percentile(ValuesOf(log), 99) < 100 * Slo[2]
  <2>1. PICK D : D = DOMAIN log /\ IsFiniteSet(D) /\ D # {}
    <3>1. 1 \in 1 .. Count /\ IsFiniteSet(1 .. Count)
      BY <1>2, FS_Interval
    <3> QED BY <1>2, <3>1
  <2>2. PICK v \in [D -> Nat] : v = ValuesOf(log) /\ \A k \in D : v[k] = log[k].ms
    <3>1. \A k \in D : log[k].ms \in Nat
      BY <1>4, <2>1 DEF Entries
    <3>2. ValuesOf(log) = [k \in D |-> log[k].ms]
      BY <2>1 DEF ValuesOf
    <3> QED BY <3>1, <3>2
  <2>3. ASSUME NEW k \in D
        PROVE  log[k].ms \in 0 .. 2000 /\ Quick(log[k].ms)
    <3>1. log[k] \in Entries
      BY <1>4, <2>1
    <3>2. Quick(log[k].ms)
      BY <1>3, <2>1
    <3> QED BY <3>1, <3>2 DEF Entries, ReadTimeout
  <2>4. IsFiniteSet(D) /\ D # {}
    BY <2>1
  <2>5. CASE plan.profile = "normal"
    <3>1. PICK hi \in Nat : hi = 1200
      OBVIOUS
    <3>2. \A k \in D : v[k] <= hi
      BY <2>2, <2>3, <2>5, <3>1 DEF Quick
    <3>3. \A p \in 0 .. 100 : Percentile(v, p) \in Int /\ Percentile(v, p) <= 100 * hi
      BY <2>2, <2>4, <3>2, PercentileAtMost
    <3>4. Slo[1] = 1500 /\ Slo[2] = 2000
      BY <2>5 DEF Slo
    <3>5. 95 \in 0 .. 100 /\ 99 \in 0 .. 100
      OBVIOUS
    <3>6. Percentile(v, 95) \in Int /\ Percentile(v, 95) <= 100 * hi
      BY <3>3, <3>5
    <3>7. Percentile(v, 99) \in Int /\ Percentile(v, 99) <= 100 * hi
      BY <3>3, <3>5
    <3> QED BY <2>2, <3>1, <3>4, <3>6, <3>7
  <2>6. CASE plan.profile # "normal"
    <3>1. PICK hi \in Nat : hi = 2000
      OBVIOUS
    <3>2. ASSUME NEW k \in D PROVE v[k] <= hi
      <4>1. PICK m \in 0 .. 2000 : m = log[k].ms
        BY <2>3
      <4>2. v[k] = m
        BY <2>2, <4>1
      <4>3. m <= hi
        BY <3>1
      <4> QED BY <4>2, <4>3
    <3>3. \A p \in 0 .. 100 : Percentile(v, p) \in Int /\ Percentile(v, p) <= 100 * hi
      BY <2>2, <2>4, <3>2, PercentileAtMost
    <3>4. Slo[1] = 2500 /\ Slo[2] = 3000
      BY <2>6 DEF Slo
    <3>5. 95 \in 0 .. 100 /\ 99 \in 0 .. 100
      OBVIOUS
    <3>6. Percentile(v, 95) \in Int /\ Percentile(v, 95) <= 100 * hi
      BY <3>3, <3>5
    <3>7. Percentile(v, 99) \in Int /\ Percentile(v, 99) <= 100 * hi
      BY <3>3, <3>5
    <3> QED BY <2>2, <3>1, <3>4, <3>6, <3>7
  <2> QED BY <2>5, <2>6
<1>11. Iterations - Len(log) \in {0, 1} /\ Iterations = Count + (Iterations - Len(log))
  BY <1>2
<1>12. \A o \in {"processed", "expected_fault"} :
         Logged(LAMBDA e : Valid(e) /\ e.outcome = o) = Planned(LAMBDA r : r.outcome = o)
  BY <1>7
<1>13. \A m \in ToSet(Modes) :
         Logged(LAMBDA e : trace[e.index].mode = m) = Planned(LAMBDA r : r.mode = m)
  BY <1>8
<1>14. app.unexpected = 0 /\ app.processed + app.expected_fault = Count
  BY <1>9
<1> QED BY <1>2, <1>6, <1>10, <1>11, <1>12, <1>13, <1>14 DEF Admitted

\* OutcomesPredicted: workload.py and TrafficProfile sort every hash code alike, the
\* orders of the trace are seeded, and no answer takes as long as the limits.
THEOREM PredictionHolds == Spec => []OutcomesPredicted
BY PlannedInvInit, PlannedInvStep, PredictionSound, PTL DEF Spec

-----------------------------------------------------------------------------
(* LatencyAccounted. *)

\* Things in classes, counted class by class, are as many as the things.
Class(D, f, x) == {i \in D : f[i] = x}

LEMMA CountedByClass ==
  ASSUME NEW n, NEW D, IsFiniteSet(D), NEW f \in [D -> DOMAIN n],
         \A x \in DOMAIN n : n[x] = Cardinality(Class(D, f, x))
  PROVE  Altogether(n) = Cardinality(D)
<1> DEFINE X == DOMAIN n
           own(x) == {i \in D : f[i] = x}
           h == [x \in X |-> CHOOSE g : g \in Bijection(1 .. n[x], own(x))]
           S == UNION {{x} \X (1 .. n[x]) : x \in X}
           F == [s \in S |-> h[s[1]][s[2]]]
<1>1. ASSUME NEW x \in X
      PROVE  h[x] \in Bijection(1 .. n[x], own(x))
  <2>1. IsFiniteSet(own(x)) /\ n[x] = Cardinality(own(x))
    BY FS_Subset DEF Class
  <2>2. ExistsBijection(1 .. n[x], own(x))
    <3> HIDE DEF own
    <3> QED BY <2>1, FS_CardinalityType
  <2>3. \E g : g \in Bijection(1 .. n[x], own(x))
    BY <2>2 DEF ExistsBijection
  <2>4. h[x] = CHOOSE g : g \in Bijection(1 .. n[x], own(x))
    OBVIOUS
  <2> HIDE DEF h, own
  <2> QED BY <2>3, <2>4
<1>2. ASSUME NEW s \in S
      PROVE  s[1] \in X /\ s[2] \in 1 .. n[s[1]] /\ s = <<s[1], s[2]>>
  OBVIOUS
<1>3. \A x \in X : \A k \in 1 .. n[x] : <<x, k>> \in S
  OBVIOUS
<1>4. ASSUME NEW s \in S
      PROVE  F[s] \in D /\ f[F[s]] = s[1] /\ F[s] = h[s[1]][s[2]]
  <2>1. F[s] = h[s[1]][s[2]]
    OBVIOUS
  <2>2. h[s[1]] \in [1 .. n[s[1]] -> own(s[1])]
    <3> HIDE DEF h, own, S, F
    <3> QED BY <1>1, <1>2 DEF Bijection, Injection
  <2>3. h[s[1]][s[2]] \in own(s[1])
    <3> HIDE DEF h, own, S, F
    <3> QED BY <1>2, <2>2
  <2> QED BY <2>1, <2>3
<1>5. ASSUME NEW s \in S, NEW t \in S, F[s] = F[t]
      PROVE  s = t
  <2>1. s[1] = t[1]
    <3>1. f[F[s]] = s[1] /\ f[F[t]] = t[1]
      BY <1>4
    <3> HIDE DEF h, own, S, F
    <3> QED BY <1>5, <3>1
  <2>2. h[s[1]][s[2]] = h[s[1]][t[2]] /\ s[2] \in 1 .. n[s[1]] /\ t[2] \in 1 .. n[s[1]]
    <3> HIDE DEF h, own, S, F
    <3> QED BY <1>2, <1>4, <1>5, <2>1
  <2>3. s[2] = t[2]
    <3> HIDE DEF h, own, S, F
    <3>1. h[s[1]] \in Bijection(1 .. n[s[1]], own(s[1]))
      BY <1>1, <1>2
    <3>2. \A k, l \in 1 .. n[s[1]] : h[s[1]][k] = h[s[1]][l] => k = l
      BY <3>1 DEF Bijection, Injection, IsInjective
    <3> QED BY <2>2, <3>2
  <2> HIDE DEF h, own, S, F
  <2> QED BY <1>2, <2>1, <2>3
<1>6. ASSUME NEW i \in D
      PROVE  \E s \in S : F[s] = i
  <2>1. f[i] \in X /\ i \in own(f[i])
    OBVIOUS
  <2>2. PICK k \in 1 .. n[f[i]] : h[f[i]][k] = i
    <3> HIDE DEF h, own, S, F
    <3> QED BY <1>1, <2>1 DEF Bijection, Surjection
  <2>3. <<f[i], k>> \in S
    BY <1>3, <2>1
  <2>4. F[<<f[i], k>>] = h[f[i]][k]
    BY <2>3
  <2> HIDE DEF h, own, S, F
  <2> QED BY <2>2, <2>3, <2>4
<1>7. F \in Injection(S, D) /\ F \in Surjection(S, D)
  <2>1. F \in [S -> D]
    <3>1. F = [s \in S |-> F[s]]
      OBVIOUS
    <3> HIDE DEF F, S
    <3> QED BY <1>4, <3>1
  <2> HIDE DEF F, S, h, own
  <2> QED BY <1>5, <1>6, <2>1 DEF Injection, Surjection, IsInjective
<1>8. Cardinality(S) = Cardinality(D)
  <2> HIDE DEF F, S, h, own
  <2> QED BY <1>7, FS_Injection
<1> QED BY <1>8 DEF Altogether

\* A higher percentile is not less.
LEMMA PercentilesGrow ==
  ASSUME NEW D, IsFiniteSet(D), D # {}, NEW values \in [D -> Nat],
         NEW p \in 0 .. 100, NEW r \in 0 .. 100, p <= r
  PROVE  Percentile(values, p) <= Percentile(values, r)
<1>1. PICK n \in Nat \ {0}, s \in Seq(Nat) :
        /\ Len(s) = n /\ \A j, k \in 1 .. n : j <= k => s[j] <= s[k]
        /\ \A t : Percentile(values, t)
                    = Mixture(s[Below(n, t)], s[Above(n, t)], Weight(n, t))
  BY PercentileMixed
<1>2. PICK q1 \in 1 .. n, q2 \in 1 .. n, w1 \in 0 .. 99 :
        q1 = Below(n, p) /\ q2 = Above(n, p) /\ w1 = Weight(n, p) /\ q1 <= q2
  BY Places
<1>3. PICK r1 \in 1 .. n, r2 \in 1 .. n, w2 \in 0 .. 99 :
        r1 = Below(n, r) /\ r2 = Above(n, r) /\ w2 = Weight(n, r) /\ r1 <= r2
  BY Places
<1>4. \A k \in 1 .. n : s[k] \in Nat
  BY <1>1
<1>5. PICK a1 \in Nat, b1 \in Nat : a1 = s[q1] /\ b1 = s[q2] /\ a1 <= b1
  BY <1>1, <1>2, <1>4
<1>6. PICK a2 \in Nat, b2 \in Nat : a2 = s[r1] /\ b2 = s[r2] /\ a2 <= b2
  BY <1>1, <1>3, <1>4
<1>7. /\ Percentile(values, p) = Mixture(a1, b1, w1)
      /\ Percentile(values, r) = Mixture(a2, b2, w2)
  BY <1>1, <1>2, <1>3, <1>5, <1>6
<1>8. /\ Mixture(a1, b1, w1) \in Int
      /\ 100 * a1 <= Mixture(a1, b1, w1) /\ Mixture(a1, b1, w1) <= 100 * b1
  <2>1. a1 <= a1 /\ a1 <= b1 /\ b1 <= b1
    BY <1>5
  <2> QED BY ONLY a1 \in Nat, b1 \in Nat, w1 \in 0 .. 99, <2>1, Mixed
<1>9. /\ Mixture(a2, b2, w2) \in Int
      /\ 100 * a2 <= Mixture(a2, b2, w2) /\ Mixture(a2, b2, w2) <= 100 * b2
  <2>1. a2 <= a2 /\ a2 <= b2 /\ b2 <= b2
    BY <1>6
  <2> QED BY ONLY a2 \in Nat, b2 \in Nat, w2 \in 0 .. 99, <2>1, Mixed
<1>10. \/ q1 = r1 /\ q2 = q1
       \/ q1 = r1 /\ q2 = r2 /\ w1 <= w2
       \/ q2 <= r1
  BY <1>2, <1>3, PlacesGrow
<1>11. CASE q1 = r1 /\ q2 = r2 /\ w1 <= w2
  <2>1. Mixture(a1, b1, w1) <= Mixture(a1, b1, w2)
    BY <1>5, <1>11, MixtureGrows
  <2> QED BY <1>5, <1>6, <1>7, <1>11, <2>1
<1>12. CASE q2 <= r1
  <2>1. b1 <= a2
    BY <1>1, <1>5, <1>6, <1>12
  <2> QED BY <1>7, <1>8, <1>9, <2>1
<1> QED BY <1>10, <1>11, <1>12

\* The greatest of finitely many numbers.
LEMMA MaxIs ==
  ASSUME NEW S, S \subseteq Nat, S # {}, IsFiniteSet(S)
  PROVE  Max(S) \in S /\ \A n \in S : n <= Max(S)
<1>1. \E i \in S : \A j \in S : i >= j
  <2>1. PICK v \in [S -> Nat] : \A i \in S : v[i] = i
    <3>1. [i \in S |-> i] \in [S -> Nat]
      OBVIOUS
    <3> QED BY <3>1
  <2>2. PICK i \in S : \A j \in S : v[j] <= v[i]
    BY <2>1, GreatestValue
  <2> QED BY <2>1, <2>2
<1>2. Max(S) = CHOOSE i \in S : \A j \in S : i >= j
  BY Zenon DEF Max
<1>3. Max(S) \in S /\ \A j \in S : Max(S) >= j
  BY <1>1, <1>2, Zenon
<1> QED BY <1>3

\* A point of the stream is as its entry, and there are finitely many.
LEMMA PointsTyped ==
  ASSUME NEW points \in Seq(Entries), points # <<>>
  PROVE  /\ IsFiniteSet(DOMAIN points) /\ DOMAIN points # {} /\ 1 \in DOMAIN points
         /\ Cardinality(DOMAIN points) = Len(points)
         /\ \A i \in DOMAIN points : points[i].ms \in Nat /\ points[i].time \in Nat
<1>1. Len(points) \in Nat \ {0} /\ DOMAIN points = 1 .. Len(points)
  OBVIOUS
<1>2. \A i \in DOMAIN points : points[i] \in Entries
  OBVIOUS
<1>3. \A i \in DOMAIN points : points[i].ms \in Nat /\ points[i].time \in Nat
  BY <1>2 DEF Entries
<1>4. IsFiniteSet(1 .. Len(points)) /\ Cardinality(1 .. Len(points)) = Len(points)
  BY <1>1, FS_Interval
<1> QED BY <1>1, <1>3, <1>4

LEMMA MinutesSound ==
  ASSUME NEW points \in Seq(Entries), points # <<>>
  PROVE  LET minutes == Minutes(points)
         IN /\ \A m \in DOMAIN minutes : m >= 0
            /\ Altogether([m \in DOMAIN minutes |-> minutes[m].n]) = Len(points)
<1> DEFINE D == DOMAIN points
           X == {MinuteOf(points, i) : i \in D}
           f == [i \in D |-> MinuteOf(points, i)]
           n == [m \in X |-> Cardinality({i \in D : MinuteOf(points, i) = m})]
<1>1. \A i \in D : MinuteOf(points, i) \in Nat
  <2> SUFFICES ASSUME NEW i \in D PROVE MinuteOf(points, i) \in Nat
    OBVIOUS
  <2>1. points[i].time \in Nat /\ points[1].time \in Nat
    BY PointsTyped
  <2>2. (points[i].time - points[1].time) \div 60 \in Int
    BY <2>1
  <2> QED BY <2>2 DEF MinuteOf
<1>2. DOMAIN Minutes(points) = X /\ [m \in DOMAIN Minutes(points) |-> Minutes(points)[m].n] = n
  BY DEF Minutes
<1>3. f \in [D -> X] /\ DOMAIN n = X /\ \A m \in X : n[m] = Cardinality(Class(D, f, m))
  <2>1. f \in [D -> X] /\ DOMAIN n = X
    OBVIOUS
  <2>2. ASSUME NEW m \in X PROVE Class(D, f, m) = {i \in D : MinuteOf(points, i) = m}
    BY DEF Class
  <2> QED BY <2>1, <2>2
<1>4. Altogether(n) = Cardinality(D)
  <2>1. IsFiniteSet(D)
    BY PointsTyped
  <2> HIDE DEF D, X, f, n
  <2>2. f \in [D -> DOMAIN n] /\ \A m \in DOMAIN n : n[m] = Cardinality(Class(D, f, m))
    BY <1>3
  <2> QED BY <2>1, <2>2, CountedByClass
<1>5. \A m \in X : m >= 0
  BY <1>1
<1> HIDE DEF X, n
<1> QED BY <1>2, <1>4, <1>5, PointsTyped

\* The numbers of one bucket.
LEMMA AggregateSound ==
  ASSUME NEW points \in Seq(Entries), points # <<>>,
         NEW own, own \subseteq DOMAIN points, own # {}
  PROVE  LET bucket == Aggregate(points, own)
         IN /\ 100 * Min(Range(ValuesOf(points))) <= bucket.p50
            /\ bucket.p50 <= bucket.p95
            /\ bucket.p95 <= bucket.p99
            /\ bucket.p99 <= 100 * bucket.max
<1>1. PICK v \in [own -> Nat] : /\ v = [i \in own |-> points[i].ms]
                                /\ \A i \in own : v[i] = points[i].ms
  <2>1. [i \in own |-> points[i].ms] \in [own -> Nat]
    BY PointsTyped
  <2> QED BY <2>1
<1>2. IsFiniteSet(own)
  BY PointsTyped, FS_Subset
<1>3. PICK lo \in Nat : lo = Min(Range(ValuesOf(points))) /\ \A i \in own : lo <= v[i]
  <2>1. Range(ValuesOf(points)) = {points[i].ms : i \in DOMAIN points}
    BY DEF Range, ValuesOf
  <2>2. /\ Range(ValuesOf(points)) \subseteq Nat /\ Range(ValuesOf(points)) # {}
        /\ \A i \in own : v[i] \in Range(ValuesOf(points))
    BY <1>1, <2>1, PointsTyped
  <2>3. /\ Min(Range(ValuesOf(points))) \in Range(ValuesOf(points))
        /\ \A m \in Range(ValuesOf(points)) : Min(Range(ValuesOf(points))) <= m
    BY <2>2, MinIs
  <2> QED BY <2>2, <2>3
<1>4. PICK hi \in Nat : hi = Max(Range(v)) /\ \A i \in own : v[i] <= hi
  <2>1. Range(v) = {v[i] : i \in own}
    BY DEF Range
  <2>2. Range(v) \subseteq Nat /\ Range(v) # {} /\ \A i \in own : v[i] \in Range(v)
    BY <2>1
  <2>3. IsFiniteSet(Range(v))
    <3>1. v \in Surjection(own, Range(v))
      BY <2>1 DEF Surjection
    <3> QED BY <1>2, <3>1, FS_Surjection
  <2>4. Max(Range(v)) \in Range(v) /\ \A m \in Range(v) : m <= Max(Range(v))
    BY <2>2, <2>3, MaxIs
  <2> QED BY <2>2, <2>4
<1>5. \A i \in own : lo <= v[i] /\ v[i] <= hi
  BY <1>3, <1>4
<1>6. \A p \in 0 .. 100 : /\ Percentile(v, p) \in Int
                          /\ 100 * lo <= Percentile(v, p) /\ Percentile(v, p) <= 100 * hi
  BY <1>2, <1>5, PercentileBetween
<1>7. \A p, r \in 0 .. 100 : p <= r => Percentile(v, p) <= Percentile(v, r)
  BY <1>2, PercentilesGrow
<1>8. Percentile(v, 50) <= Percentile(v, 95) /\ Percentile(v, 95) <= Percentile(v, 99)
  BY <1>7
<1>9. 100 * lo <= Percentile(v, 50) /\ Percentile(v, 99) <= 100 * hi
  BY <1>6
<1>10. /\ Aggregate(points, own).p50 = Percentile(v, 50)
       /\ Aggregate(points, own).p95 = Percentile(v, 95)
       /\ Aggregate(points, own).p99 = Percentile(v, 99)
       /\ Aggregate(points, own).max = Max(Range(v))
  BY <1>1 DEF Aggregate
<1> QED BY <1>3, <1>4, <1>8, <1>9, <1>10

\* The bucket of a point, by the time since the first bucket.
LEMMA BucketsSound ==
  ASSUME NEW points \in Seq(Entries), points # <<>>
  PROVE  LET buckets == Buckets(points)
         IN /\ \A s \in DOMAIN buckets : s >= 0
            /\ Altogether([s \in DOMAIN buckets |-> buckets[s].requests]) = Len(points)
            /\ Altogether([s \in DOMAIN buckets |-> buckets[s].failures])
                 = Cardinality({i \in DOMAIN points : ~points[i].expected})
            /\ \A s \in DOMAIN buckets :
                 /\ 100 * Min(Range(ValuesOf(points))) <= buckets[s].p50
                 /\ buckets[s].p50 <= buckets[s].p95
                 /\ buckets[s].p95 <= buckets[s].p99
                 /\ buckets[s].p99 <= 100 * buckets[s].max
<1> DEFINE D == DOMAIN points
           bucket(i) == BucketOf(points[i])
           starts == {bucket(i) : i \in D}
           own(s) == {i \in D : bucket(i) = s}
<1>1. \A i \in D : bucket(i) \in Nat
  <2> SUFFICES ASSUME NEW i \in D PROVE bucket(i) \in Nat
    OBVIOUS
  <2>1. points[i].time \in Nat
    BY PointsTyped
  <2>2. points[i].time \div 10 \in Nat
    BY <2>1
  <2> QED BY <2>2 DEF BucketOf
<1>2. PICK first \in Nat : first = Min(starts) /\ \A i \in D : first <= bucket(i)
  <2>1. starts \subseteq Nat /\ starts # {} /\ \A i \in D : bucket(i) \in starts
    BY <1>1, PointsTyped
  <2>2. Min(starts) \in starts /\ \A s \in starts : Min(starts) <= s
    <3> HIDE DEF starts
    <3> QED BY <2>1, MinIs
  <2> HIDE DEF starts, bucket
  <2> QED BY <2>1, <2>2
<1> DEFINE X == {s - first : s \in starts}
           f == [i \in D |-> bucket(i) - first]
           requests == [x \in X |-> Cardinality(own(x + first))]
           failed == {i \in D : ~points[i].expected}
           g == [i \in failed |-> bucket(i) - first]
           failures == [x \in X |-> Cardinality({i \in own(x + first) : ~points[i].expected})]
<1>3. Buckets(points) = [x \in X |-> Aggregate(points, own(x + first))]
  BY <1>2 DEF Buckets
<1>4. X \subseteq Nat /\ \A x \in X : own(x + first) # {} /\ own(x + first) \subseteq D
  <2> SUFFICES ASSUME NEW x \in X
               PROVE  x \in Nat /\ own(x + first) # {} /\ own(x + first) \subseteq D
    OBVIOUS
  <2>1. PICK i \in D : x = bucket(i) - first
    OBVIOUS
  <2>2. bucket(i) \in Nat /\ first <= bucket(i)
    BY <1>1, <1>2
  <2>3. x \in Nat /\ x + first = bucket(i)
    <3> HIDE DEF bucket, X
    <3> QED BY <2>1, <2>2
  <2> QED BY <2>3
<1>5. /\ [x \in DOMAIN Buckets(points) |-> Buckets(points)[x].requests] = requests
      /\ [x \in DOMAIN Buckets(points) |-> Buckets(points)[x].failures] = failures
      /\ DOMAIN Buckets(points) = X
  BY <1>3 DEF Aggregate
<1>6. \A x \in X : \A i \in D : bucket(i) - first = x <=> bucket(i) = x + first
  <2> SUFFICES ASSUME NEW x \in X, NEW i \in D
               PROVE  bucket(i) - first = x <=> bucket(i) = x + first
    OBVIOUS
  <2>1. x \in Nat /\ bucket(i) \in Nat
    BY <1>1, <1>4
  <2> HIDE DEF bucket, X
  <2> QED BY <2>1
<1>7. IsFiniteSet(D) /\ IsFiniteSet(failed)
  <2>1. IsFiniteSet(D)
    BY PointsTyped
  <2> QED BY <2>1, FS_Subset
<1>8. Altogether(requests) = Cardinality(D)
  <2>1. f \in [D -> DOMAIN requests]
    OBVIOUS
  <2>2. ASSUME NEW x \in DOMAIN requests
        PROVE  requests[x] = Cardinality(Class(D, f, x))
    <3>1. Class(D, f, x) = own(x + first)
      <4>1. Class(D, f, x) = {i \in D : bucket(i) - first = x}
        BY DEF Class
      <4>2. {i \in D : bucket(i) - first = x} = {i \in D : bucket(i) = x + first}
        BY <1>6
      <4> QED BY <4>1, <4>2
    <3> QED BY <3>1
  <2> HIDE DEF D, f, requests
  <2> QED BY <1>7, <2>1, <2>2, CountedByClass
<1>9. Altogether(failures) = Cardinality(failed)
  <2>1. g \in [failed -> DOMAIN failures]
    OBVIOUS
  <2>2. ASSUME NEW x \in DOMAIN failures
        PROVE  failures[x] = Cardinality(Class(failed, g, x))
    <3>1. Class(failed, g, x) = {i \in own(x + first) : ~points[i].expected}
      <4>1. Class(failed, g, x) = {i \in failed : bucket(i) - first = x}
        BY DEF Class
      <4>2. {i \in failed : bucket(i) - first = x} = {i \in failed : bucket(i) = x + first}
        BY <1>6
      <4> QED BY <4>1, <4>2
    <3> QED BY <3>1
  <2> HIDE DEF failed, g, failures
  <2> QED BY <1>7, <2>1, <2>2, CountedByClass
<1>10. ASSUME NEW x \in X
       PROVE  LET b == Buckets(points)[x]
              IN /\ 100 * Min(Range(ValuesOf(points))) <= b.p50
                 /\ b.p50 <= b.p95 /\ b.p95 <= b.p99 /\ b.p99 <= 100 * b.max
  <2>1. own(x + first) # {} /\ own(x + first) \subseteq DOMAIN points
    BY <1>4
  <2>2. Buckets(points)[x] = Aggregate(points, own(x + first))
    BY <1>3
  <2> HIDE DEF own
  <2> QED BY <2>1, <2>2, AggregateSound
<1>11. Cardinality(D) = Len(points) /\ Cardinality(failed)
                                        = Cardinality({i \in DOMAIN points : ~points[i].expected})
  BY PointsTyped
<1>12. \A x \in X : x >= 0
  BY <1>4
<1> HIDE DEF D, X, requests, failures, failed
<1> QED BY <1>5, <1>8, <1>9, <1>10, <1>11, <1>12

LEMMA LatencySound == LoadInv => LatencyAccounted
<1> SUFFICES ASSUME LoadInv, log # <<>> PROVE LatencyAccounted
  BY DEF LatencyAccounted
<1>1. log \in Seq(Entries)
  BY DEF LoadInv, LoadTyped
<1>2. Logged(LAMBDA e : ~e.expected) = Cardinality({k \in DOMAIN log : ~log[k].expected})
  BY DEF Logged
<1> QED BY <1>1, <1>2, MinutesSound, BucketsSound DEF LatencyAccounted

\* LatencyAccounted: chart_report.py and plot-latency-over-time.py file every point of
\* the stream once, in a minute and a bucket not before the start, in any order of time.
THEOREM LatencyIsAccounted == Spec => []LatencyAccounted
BY LoadInvInit, LoadInvStep, LatencySound, PTL DEF Spec
=============================================================================

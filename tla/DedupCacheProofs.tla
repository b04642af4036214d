---------------------------- MODULE DedupCacheProofs ----------------------------
(***************************************************************************)
(* Theorems about DedupCache for any ids, capacity, time to live and       *)
(* clock.                                                                  *)
(***************************************************************************)
EXTENDS DedupCache, FiniteSetTheorems, TLAPS

Entry == [id: Ids, at: Times]

\* The entries t are the latest ids accepted.
Matches(t) ==
  /\ t \in Seq(Entry)
  /\ Len(t) <= Capacity
  /\ Len(t) <= Len(accepted)
  /\ \A i \in 1 .. Len(t) : /\ t[i].id = accepted[Len(accepted) - Len(t) + i].id
                            /\ t[i].at = accepted[Len(accepted) - Len(t) + i].at

\* Whatever t has forgotten, it had reason to.
Justified(t) ==
  \A n \in 1 .. Len(accepted) - Len(t) :
    \/ Len(accepted) - n >= Capacity
    \/ accepted[n].at + Ttl <= latest

Distinct(t) == \A i, j \in 1 .. Len(t) : t[i].id = t[j].id => i = j

ClockType ==
  /\ clock \in Times /\ latest \in Times /\ clock <= latest
  /\ accepted \in Seq([id: Ids, at: Times, latest: Times])

CacheInv ==
  /\ ClockType
  /\ Matches(entries) /\ Justified(entries) /\ Distinct(entries)
  /\ AcceptedOnce

-----------------------------------------------------------------------------
(* Sequences *)

\* A sequence without its first k elements holds the others, in their order.
LEMMA SuffixOf ==
  ASSUME NEW S, NEW s \in Seq(S), NEW k \in 0 .. Len(s)
  PROVE  /\ SubSeq(s, k + 1, Len(s)) \in Seq(S)
         /\ Len(SubSeq(s, k + 1, Len(s))) = Len(s) - k
         /\ \A i \in 1 .. Len(s) - k : SubSeq(s, k + 1, Len(s))[i] = s[k + i]
OBVIOUS

\* One more element.
LEMMA AppendOf ==
  ASSUME NEW S, NEW s \in Seq(S), NEW e \in S
  PROVE  /\ Append(s, e) \in Seq(S)
         /\ Len(Append(s, e)) = Len(s) + 1
         /\ \A i \in 1 .. Len(s) : Append(s, e)[i] = s[i]
         /\ Append(s, e)[Len(s) + 1] = e
OBVIOUS

\* An element of a sequence.
LEMMA ElementOf ==
  ASSUME NEW S, NEW s \in Seq(S), NEW i \in 1 .. Len(s)
  PROVE  s[i] \in S
OBVIOUS

\* A match without its first elements is one.
LEMMA SuffixMatches ==
  ASSUME ClockType, NEW t, Matches(t), Distinct(t), NEW k \in 0 .. Len(t)
  PROVE  /\ Matches(SubSeq(t, k + 1, Len(t)))
         /\ Distinct(SubSeq(t, k + 1, Len(t)))
<1> DEFINE u == SubSeq(t, k + 1, Len(t))
<1>1. t \in Seq(Entry) /\ Len(t) \in Nat /\ k \in Nat /\ Len(accepted) \in Nat
  BY DEF Matches, ClockType
<1>2. /\ u \in Seq(Entry) /\ Len(u) = Len(t) - k
      /\ \A i \in 1 .. Len(t) - k : u[i] = t[k + i]
  BY <1>1, SuffixOf
<1> HIDE DEF u
<1>3. ASSUME NEW i \in 1 .. Len(u)
      PROVE  /\ u[i].id = accepted[Len(accepted) - Len(u) + i].id
             /\ u[i].at = accepted[Len(accepted) - Len(u) + i].at
  <2>1. k + i \in 1 .. Len(t) /\ u[i] = t[k + i]
    BY <1>1, <1>2
  <2>2. Len(accepted) - Len(t) + (k + i) = Len(accepted) - Len(u) + i
    BY <1>1, <1>2
  <2> QED
    BY <2>1, <2>2 DEF Matches
<1>4. Len(u) <= Capacity /\ Len(u) <= Len(accepted)
  BY <1>1, <1>2, CacheAssumption DEF Matches
<1>5. Matches(u)
  BY <1>2, <1>3, <1>4 DEF Matches
<1>6. Distinct(u)
  <2> SUFFICES ASSUME NEW i \in 1 .. Len(u), NEW j \in 1 .. Len(u), u[i].id = u[j].id
               PROVE  i = j
    BY DEF Distinct
  <2>1. k + i \in 1 .. Len(t) /\ k + j \in 1 .. Len(t) /\ u[i] = t[k + i] /\ u[j] = t[k + j]
    BY <1>1, <1>2
  <2>2. k + i = k + j
    BY <2>1 DEF Distinct
  <2> QED BY <1>1, <2>2
<1> QED
  BY <1>5, <1>6 DEF u

-----------------------------------------------------------------------------
(* The purge *)

\* A set of natural numbers has a least one: the smallest of the intervals that end
\* in the set ends there.
LEMMA LeastExists ==
  ASSUME NEW S, S \subseteq Nat, S # {}
  PROVE  \E n \in S : \A m \in S : n <= m
<1> DEFINE R == StrictSubsetOrdering(Nat)
           intervals == {1 .. n : n \in S}
<1>1. intervals \subseteq FiniteSubsetsOf(Nat)
  <2> SUFFICES ASSUME NEW n \in S PROVE 1 .. n \in FiniteSubsetsOf(Nat)
    OBVIOUS
  <2>1. n \in Nat /\ 1 \in Int /\ n \in Int
    OBVIOUS
  <2>2. IsFiniteSet(1 .. n)
    BY <2>1, FS_Interval
  <2>3. 1 .. n \in SUBSET Nat
    BY <2>1
  <2> QED BY <2>2, <2>3 DEF FiniteSubsetsOf
<1>2. \A m, n \in Nat : m < n => <<1 .. m, 1 .. n>> \in R
  <2> SUFFICES ASSUME NEW m \in Nat, NEW n \in Nat, m < n PROVE <<1 .. m, 1 .. n>> \in R
    OBVIOUS
  <2>1. 1 .. m \subseteq 1 .. n /\ n \in 1 .. n /\ n \notin 1 .. m
    OBVIOUS
  <2>2. 1 .. m \in SUBSET Nat /\ 1 .. n \in SUBSET Nat
    OBVIOUS
  <2> QED BY <2>1, <2>2 DEF StrictSubsetOrdering
<1>3. IsWellFoundedOn(R, FiniteSubsetsOf(Nat))
  BY FS_StrictSubsetOrderingWellFounded
<1>4. intervals # {}
  OBVIOUS
<1> HIDE DEF R
<1>5. PICK x \in intervals : \A y \in intervals : ~(<<y, x>> \in R)
  BY <1>1, <1>3, <1>4, WFMin
<1>6. PICK n \in S : x = 1 .. n
  BY <1>5
<1>7. ASSUME NEW m \in S PROVE n <= m
  <2>1. ~(<<1 .. m, 1 .. n>> \in R)
    BY <1>5, <1>6
  <2> QED BY <1>2, <2>1
<1> QED
  BY <1>6, <1>7

\* It drops a number of entries from the front, all of them expired.
LEMMA PurgedDrops ==
  ASSUME CacheInv
  PROVE  \E k \in 0 .. Len(entries) :
           /\ Purged = SubSeq(entries, k + 1, Len(entries))
           /\ \A i \in 1 .. k : ~(entries[i].at > clock - Ttl)
<1> DEFINE live == {i \in 1 .. Len(entries) : entries[i].at > clock - Ttl}
           first == IF live # {} THEN Min(live) ELSE 0
<1>1. entries \in Seq(Entry) /\ Len(entries) \in Nat
  BY DEF CacheInv, Matches
<1>2. Purged = IF first = 0 THEN <<>> ELSE SubSeq(entries, first, Len(entries))
  BY DEF Purged, SelectInSeq
<1>3. CASE live = {}
  <2>1. SubSeq(entries, Len(entries) + 1, Len(entries)) = <<>>
    BY <1>1
  <2>2. Purged = <<>>
    BY <1>2, <1>3
  <2>3. \A i \in 1 .. Len(entries) : ~(entries[i].at > clock - Ttl)
    BY <1>3
  <2> QED
    BY <1>1, <2>1, <2>2, <2>3
<1>4. CASE live # {}
  <2>1. live \subseteq Nat
    BY <1>1
  <2>2. \E n \in live : \A m \in live : n <= m
    BY <1>4, <2>1, LeastExists
  <2>3. first \in live /\ \A m \in live : first <= m
    BY <1>4, <2>2 DEF Min
  <2>4. first \in 1 .. Len(entries)
    BY <2>3
  <2> DEFINE k == first - 1
  <2> HIDE DEF first
  <2>5. k \in 0 .. Len(entries) /\ k + 1 = first /\ first # 0
    BY <1>1, <2>4
  <2>6. ASSUME NEW i \in 1 .. k PROVE ~(entries[i].at > clock - Ttl)
    <3>1. i \in 1 .. Len(entries) /\ ~(first <= i)
      BY <1>1, <2>4
    <3> QED BY <2>3, <3>1
  <2>7. Purged = SubSeq(entries, k + 1, Len(entries))
    BY <1>2, <2>5
  <2> QED
    BY <2>5, <2>6, <2>7
<1> QED
  BY <1>3, <1>4

\* What is left is as good as what was there.
LEMMA PurgedKeeps ==
  ASSUME CacheInv
  PROVE  Matches(Purged) /\ Justified(Purged) /\ Distinct(Purged)
<1>1. PICK k \in 0 .. Len(entries) :
        /\ Purged = SubSeq(entries, k + 1, Len(entries))
        /\ \A i \in 1 .. k : ~(entries[i].at > clock - Ttl)
  BY PurgedDrops
<1>2. Matches(Purged) /\ Distinct(Purged)
  BY <1>1, SuffixMatches DEF CacheInv
<1>3. /\ entries \in Seq(Entry) /\ Len(entries) \in Nat /\ Len(accepted) \in Nat
      /\ Len(entries) <= Len(accepted) /\ k \in Nat
  BY DEF CacheInv, Matches, ClockType
<1>4. Len(Purged) = Len(entries) - k
  BY <1>1, <1>3, SuffixOf
<1>5. ASSUME NEW n \in 1 .. Len(accepted) - Len(Purged)
      PROVE  \/ Len(accepted) - n >= Capacity
             \/ accepted[n].at + Ttl <= latest
  <2>1. CASE n <= Len(accepted) - Len(entries)
    BY <1>3, <2>1 DEF CacheInv, Justified
  <2>2. CASE n > Len(accepted) - Len(entries)
    <3> DEFINE i == n - (Len(accepted) - Len(entries))
    <3>1. i \in 1 .. k /\ i \in 1 .. Len(entries) /\ Len(accepted) - Len(entries) + i = n
      BY <1>3, <1>4, <2>2
    <3> HIDE DEF i
    <3>2. accepted[n].at = entries[i].at
      BY <3>1 DEF CacheInv, Matches
    <3>3. entries[i].at \in Times
      <4>1. entries[i] \in Entry
        BY <1>3, <3>1
      <4> QED BY <4>1 DEF Entry
    <3>4. ~(entries[i].at > clock - Ttl)
      BY <1>1, <3>1
    <3>5. entries[i].at \in Int /\ clock \in Int /\ latest \in Int /\ clock <= latest
      BY <3>3 DEF CacheInv, ClockType, Times
    <3> QED
      BY <3>2, <3>4, <3>5, CacheAssumption
  <2> QED BY <1>3, <2>1, <2>2
<1> QED
  BY <1>2, <1>5 DEF Justified

-----------------------------------------------------------------------------
(* An id is accepted *)

\* There is room for one more, and an entry gives way only in a full cache.
LEMMA EvictedMakesRoom ==
  ASSUME ClockType, NEW t, Matches(t), Justified(t), Distinct(t)
  PROVE  /\ Matches(Evicted(t)) /\ Distinct(Evicted(t))
         /\ Len(Evicted(t)) < Capacity
         /\ \A i \in 1 .. Len(Evicted(t)) : \E j \in 1 .. Len(t) : Evicted(t)[i] = t[j]
         /\ \A n \in 1 .. Len(accepted) - Len(Evicted(t)) :
              \/ Len(accepted) + 1 - n >= Capacity
              \/ accepted[n].at + Ttl <= latest
<1>1. /\ t \in Seq(Entry) /\ Len(t) \in Nat /\ Len(t) <= Capacity
      /\ Len(accepted) \in Nat /\ Capacity \in Nat /\ Capacity > 0
  BY CacheAssumption DEF Matches, ClockType
<1>2. CASE Len(t) < Capacity
  <2>1. Evicted(t) = t
    BY <1>2 DEF Evicted
  <2>2. \A n \in 1 .. Len(accepted) - Len(t) :
          \/ Len(accepted) + 1 - n >= Capacity
          \/ accepted[n].at + Ttl <= latest
    <3> SUFFICES ASSUME NEW n \in 1 .. Len(accepted) - Len(t),
                        ~(accepted[n].at + Ttl <= latest)
                 PROVE  Len(accepted) + 1 - n >= Capacity
      OBVIOUS
    <3>1. Len(accepted) - n >= Capacity
      BY DEF Justified
    <3> QED BY <1>1, <3>1
  <2> QED
    BY <1>2, <2>1, <2>2
<1>3. CASE ~(Len(t) < Capacity)
  <2> DEFINE k == 1
             u == SubSeq(t, k + 1, Len(t))
  <2>1. Len(t) = Capacity /\ k \in 0 .. Len(t)
    BY <1>1, <1>3
  <2>2. Evicted(t) = u
    BY <1>1, <1>3, <2>1 DEF Evicted
  <2>3. Matches(u) /\ Distinct(u)
    BY <2>1, SuffixMatches
  <2>4. Len(u) = Capacity - 1 /\ \A i \in 1 .. Len(t) - 1 : u[i] = t[1 + i]
    BY <1>1, <2>1, SuffixOf
  <2> HIDE DEF u
  <2>5. \A i \in 1 .. Len(u) : \E j \in 1 .. Len(t) : u[i] = t[j]
    <3> SUFFICES ASSUME NEW i \in 1 .. Len(u) PROVE \E j \in 1 .. Len(t) : u[i] = t[j]
      OBVIOUS
    <3>1. 1 + i \in 1 .. Len(t) /\ u[i] = t[1 + i]
      BY <1>1, <2>1, <2>4
    <3> QED BY <3>1
  <2>6. \A n \in 1 .. Len(accepted) - Len(u) : Len(accepted) + 1 - n >= Capacity
    BY <1>1, <2>4
  <2>7. Len(u) < Capacity
    BY <1>1, <2>4
  <2> QED
    BY <2>2, <2>3, <2>5, <2>6, <2>7
<1> QED
  BY <1>2, <1>3

\* What MarkProcessed does with an id that is not in the cache.
Accepts(id) ==
  /\ ~Holds(Purged, id)
  /\ UNCHANGED <<clock, latest>>
  /\ entries' = Append(Evicted(Purged), [id |-> id, at |-> clock])
  /\ accepted' = Append(accepted, [id |-> id, at |-> clock, latest |-> latest])

\* The id is the youngest entry, and the last one accepted.
LEMMA AcceptKeeps ==
  ASSUME CacheInv, NEW id \in Ids, Accepts(id)
  PROVE  CacheInv'
<1> DEFINE p == Purged
           u == Evicted(p)
           m == Len(accepted)
<1>1. Matches(p) /\ Justified(p) /\ Distinct(p)
  BY PurgedKeeps
<1>2. /\ Matches(u) /\ Distinct(u) /\ Len(u) < Capacity
      /\ \A i \in 1 .. Len(u) : \E j \in 1 .. Len(p) : u[i] = p[j]
      /\ \A n \in 1 .. m - Len(u) : m + 1 - n >= Capacity \/ accepted[n].at + Ttl <= latest
  BY <1>1, EvictedMakesRoom DEF CacheInv
<1>3. \A j \in 1 .. Len(p) : p[j].id # id
  BY <1>1 DEF Accepts, Holds, Matches
<1>0. clock' = clock /\ latest' = latest
  BY DEF Accepts
<1> HIDE DEF u, p
<1>4. /\ accepted \in Seq([id: Ids, at: Times, latest: Times])
      /\ u \in Seq(Entry) /\ p \in Seq(Entry)
      /\ clock \in Times /\ latest \in Times
  BY <1>1, <1>2 DEF CacheInv, ClockType, Matches
<1>5. /\ m \in Nat /\ Len(u) \in Nat /\ Len(p) \in Nat /\ Capacity \in Nat
      /\ Len(u) <= m /\ Len(p) <= m
  BY <1>1, <1>2, <1>4, CacheAssumption DEF Matches
<1> DEFINE e == [id |-> id, at |-> clock]
           r == [id |-> id, at |-> clock, latest |-> latest]
<1>6. entries' = Append(u, e) /\ accepted' = Append(accepted, r)
  BY DEF Accepts, u, p
<1>7. /\ e \in Entry /\ r \in [id: Ids, at: Times, latest: Times]
      /\ e.id = id /\ e.at = clock
      /\ r.id = id /\ r.at = clock /\ r.latest = latest
  BY <1>4 DEF Entry
<1> HIDE DEF e, r
<1>8. /\ accepted' \in Seq([id: Ids, at: Times, latest: Times])
      /\ Len(accepted') = m + 1
      /\ \A i \in 1 .. m : accepted'[i] = accepted[i]
      /\ accepted'[m + 1] = r
  <2>1. accepted' = Append(accepted, r)
    BY <1>6
  <2>2. /\ Append(accepted, r) \in Seq([id: Ids, at: Times, latest: Times])
        /\ Len(Append(accepted, r)) = Len(accepted) + 1
        /\ \A i \in 1 .. Len(accepted) : Append(accepted, r)[i] = accepted[i]
        /\ Append(accepted, r)[Len(accepted) + 1] = r
    BY <1>4, <1>7, AppendOf
  <2> QED BY <2>1, <2>2, Zenon
<1>9. /\ entries' \in Seq(Entry)
      /\ Len(entries') = Len(u) + 1
      /\ \A i \in 1 .. Len(u) : entries'[i] = u[i]
      /\ entries'[Len(u) + 1] = e
  <2>1. entries' = Append(u, e)
    BY <1>6
  <2>2. /\ Append(u, e) \in Seq(Entry)
        /\ Len(Append(u, e)) = Len(u) + 1
        /\ \A i \in 1 .. Len(u) : Append(u, e)[i] = u[i]
        /\ Append(u, e)[Len(u) + 1] = e
    BY <1>4, <1>7, AppendOf
  <2> QED BY <2>1, <2>2, Zenon
<1>10. /\ \A i \in 1 .. m : accepted'[i] = accepted[i]
       /\ accepted'[m + 1] = r
       /\ \A i \in 1 .. Len(u) : entries'[i] = u[i]
       /\ entries'[Len(u) + 1] = e
  BY <1>8, <1>9
<1>11. Len(accepted') = m + 1 /\ Len(entries') = Len(u) + 1
  BY <1>8, <1>9
<1> HIDE DEF m
<1>12. ClockType'
  BY <1>0, <1>8 DEF CacheInv, ClockType
<1>13. /\ Len(accepted') - Len(entries') = m - Len(u)
      /\ Len(entries') <= Capacity /\ Len(entries') <= Len(accepted')
  <2>1. Len(u) < Capacity
    BY <1>2
  <2>2. (m + 1) - (Len(u) + 1) = m - Len(u) /\ Len(u) + 1 <= Capacity /\ Len(u) + 1 <= m + 1
    BY <1>5, <2>1
  <2> QED BY <1>11, <2>2
<1>14. Matches(entries)'
  <2>1. ASSUME NEW i \in 1 .. Len(u) + 1
        PROVE  /\ entries'[i].id = accepted'[m - Len(u) + i].id
               /\ entries'[i].at = accepted'[m - Len(u) + i].at
    <3>1. CASE i \in 1 .. Len(u)
      <4>1. m - Len(u) + i \in 1 .. m
        BY <1>5, <3>1
      <4>2. /\ u[i].id = accepted[m - Len(u) + i].id
            /\ u[i].at = accepted[m - Len(u) + i].at
        BY <1>2, <3>1 DEF Matches, m
      <4>3. entries'[i] = u[i] /\ accepted'[m - Len(u) + i] = accepted[m - Len(u) + i]
        BY <1>10, <3>1, <4>1
      <4> QED BY <4>2, <4>3
    <3>2. CASE i = Len(u) + 1
      <4>1. m - Len(u) + i = m + 1
        BY <1>5, <3>2
      <4>2. entries'[i] = e /\ accepted'[m - Len(u) + i] = r
        BY <1>10, <3>2, <4>1
      <4>3. e.id = r.id /\ e.at = r.at
        BY <1>7
      <4> QED BY <4>2, <4>3
    <3> QED BY <1>5, <3>1, <3>2
  <2> QED BY <1>9, <1>11, <1>13, <2>1 DEF Matches
<1>15. Justified(entries)'
  <2>1. ASSUME NEW n \in 1 .. m - Len(u)
        PROVE  Len(accepted') - n >= Capacity \/ accepted'[n].at + Ttl <= latest'
    <3>1. n \in 1 .. m
      BY <1>5
    <3>2. m + 1 - n >= Capacity \/ accepted[n].at + Ttl <= latest
      BY <1>2 DEF m
    <3>3. accepted'[n] = accepted[n]
      BY <1>10, <3>1
    <3>4. CASE m + 1 - n >= Capacity
      <4>1. m + 1 - n = (m + 1) - n
        BY <1>5, <3>1
      <4> QED BY <1>11, <3>4, <4>1
    <3>5. CASE accepted[n].at + Ttl <= latest
      BY <1>0, <3>3, <3>5
    <3> QED BY <3>2, <3>4, <3>5
  <2> QED BY <1>13, <2>1 DEF Justified
<1>16. Distinct(entries)'
  <2>1. \A i \in 1 .. Len(u) : u[i].id # id
    BY <1>2, <1>3
  <2>2. ASSUME NEW i \in 1 .. Len(u) + 1, NEW j \in 1 .. Len(u) + 1,
               entries'[i].id = entries'[j].id
        PROVE  i = j
    <3>1. CASE i \in 1 .. Len(u) /\ j \in 1 .. Len(u)
      <4>1. u[i].id = u[j].id
        BY <1>10, <2>2, <3>1
      <4> QED BY <1>2, <3>1, <4>1 DEF Distinct
    <3>2. CASE i = Len(u) + 1 /\ j \in 1 .. Len(u)
      <4>1. entries'[i].id = id /\ entries'[j] = u[j]
        BY <1>7, <1>10, <3>2
      <4> QED BY <2>1, <2>2, <3>2, <4>1
    <3>3. CASE i \in 1 .. Len(u) /\ j = Len(u) + 1
      <4>1. entries'[j].id = id /\ entries'[i] = u[i]
        BY <1>7, <1>10, <3>3
      <4> QED BY <2>1, <2>2, <3>3, <4>1
    <3>4. CASE i = Len(u) + 1 /\ j = Len(u) + 1
      BY <3>4
    <3> QED BY <1>5, <3>1, <3>2, <3>3, <3>4
  <2> QED BY <1>11, <2>2 DEF Distinct
<1>17. AcceptedOnce'
  <2>1. DOMAIN accepted' = 1 .. m + 1
    BY <1>8
  <2>2. SUFFICES ASSUME NEW i \in 1 .. m + 1, NEW j \in 1 .. m + 1,
                        i < j, accepted'[i].id = accepted'[j].id
                 PROVE  j - i > Capacity \/ accepted'[i].at + Ttl <= accepted'[j].latest
    BY <2>1 DEF AcceptedOnce
  <2>3. i \in 1 .. m
    BY <1>5, <2>2
  <2>4. accepted'[i] = accepted[i]
    BY <1>10, <2>3
  <2>5. CASE j \in 1 .. m
    <3>1. i \in DOMAIN accepted /\ j \in DOMAIN accepted
      BY <1>4, <2>3, <2>5 DEF m
    <3>2. accepted'[j] = accepted[j]
      BY <1>10, <2>5
    <3> QED BY <2>2, <2>4, <3>1, <3>2 DEF CacheInv, AcceptedOnce
  <2>6. CASE j = m + 1
    <3>1. accepted[i].id = id /\ accepted'[j].latest = latest
      BY <1>7, <1>10, <2>2, <2>4, <2>6
    <3>2. i \in 1 .. m - Len(p)
      <4> SUFFICES ASSUME i \notin 1 .. m - Len(p) PROVE FALSE
        OBVIOUS
      <4> DEFINE q == i - (m - Len(p))
      <4>1. q \in 1 .. Len(p) /\ m - Len(p) + q = i
        BY <1>5, <2>3
      <4> HIDE DEF q
      <4>2. p[q].id = accepted[i].id
        BY <1>1, <4>1 DEF Matches, m
      <4> QED BY <1>3, <3>1, <4>1, <4>2
    <3>3. m - i >= Capacity \/ accepted[i].at + Ttl <= latest
      BY <1>1, <3>2 DEF Justified, m
    <3>4. m - i >= Capacity => j - i > Capacity
      <4>1. m \in Int /\ i \in Int /\ Capacity \in Int
        BY <1>5, <2>3
      <4> QED BY <2>6, <4>1
    <3>5. CASE m - i >= Capacity
      BY <3>4, <3>5
    <3>6. CASE accepted[i].at + Ttl <= latest
      BY <2>4, <3>1, <3>6
    <3> QED BY <3>3, <3>5, <3>6
  <2> QED BY <1>5, <2>5, <2>6
<1> QED
  BY <1>12, <1>14, <1>15, <1>16, <1>17 DEF CacheInv

-----------------------------------------------------------------------------
(* The invariant and what follows from it *)

\* The cache is empty at the beginning.
LEMMA CacheInvInit == Init => CacheInv
<1> SUFFICES ASSUME Init PROVE CacheInv
  OBVIOUS
<1>1. entries = <<>> /\ accepted = <<>> /\ clock \in Times /\ latest = clock
  BY DEF Init
<1>2. ClockType
  BY <1>1 DEF ClockType, Times
<1>3. Matches(entries) /\ Justified(entries) /\ Distinct(entries)
  BY <1>1, CacheAssumption DEF Matches, Justified, Distinct
<1>4. AcceptedOnce
  BY <1>1 DEF AcceptedOnce
<1> QED
  BY <1>2, <1>3, <1>4 DEF CacheInv

\* A purge alone, or a step of the clock.
LEMMA PurgeKeeps ==
  ASSUME CacheInv, entries' = Purged, UNCHANGED <<clock, latest, accepted>>
  PROVE  CacheInv'
<1>1. Matches(Purged) /\ Justified(Purged) /\ Distinct(Purged)
  BY PurgedKeeps
<1> QED
  BY <1>1 DEF CacheInv, ClockType, Matches, Justified, Distinct, AcceptedOnce

\* The latest time never goes back, whatever the clock does.
LEMMA ClockKeeps ==
  ASSUME CacheInv, NEW now \in Times, SetClock(now)
  PROVE  CacheInv'
<1>1. /\ clock' \in Times /\ latest' \in Times /\ clock' <= latest' /\ latest <= latest'
      /\ entries' = entries /\ accepted' = accepted
  BY DEF CacheInv, ClockType, SetClock, Times
<1>2. ClockType' /\ Matches(entries)' /\ Distinct(entries)' /\ AcceptedOnce'
  BY <1>1 DEF CacheInv, ClockType, Matches, Distinct, AcceptedOnce
<1>3. ASSUME NEW n \in 1 .. Len(accepted) - Len(entries)
      PROVE  Len(accepted) - n >= Capacity \/ accepted[n].at + Ttl <= latest'
  <2>0. accepted \in Seq([id: Ids, at: Times, latest: Times]) /\ entries \in Seq(Entry)
    BY DEF CacheInv, Matches, ClockType
  <2>1. n \in 1 .. Len(accepted)
    BY <2>0
  <2>2. accepted[n] \in [id: Ids, at: Times, latest: Times]
    BY <2>0, <2>1, ElementOf
  <2>3. accepted[n].at \in Int /\ latest \in Int /\ latest' \in Int /\ Ttl \in Int
    BY <1>1, <2>2, CacheAssumption DEF CacheInv, ClockType, Times
  <2>4. Len(accepted) - n >= Capacity \/ accepted[n].at + Ttl <= latest
    BY DEF CacheInv, Justified
  <2> QED BY <1>1, <2>3, <2>4
<1>4. Justified(entries)'
  BY <1>1, <1>3 DEF Justified
<1> QED
  BY <1>2, <1>4 DEF CacheInv

\* The invariant holds whatever ids come and however the clock is set.
THEOREM CacheInvariant == Spec => []CacheInv
<1>1. Init => CacheInv
  BY CacheInvInit
<1>2. CacheInv /\ [Next]_vars => CacheInv'
  <2> SUFFICES ASSUME CacheInv, [Next]_vars PROVE CacheInv'
    OBVIOUS
  <2>1. ASSUME NEW id \in Ids, MarkProcessed(id) PROVE CacheInv'
    <3>1. CASE Holds(Purged, id)
      BY <2>1, <3>1, PurgeKeeps DEF MarkProcessed
    <3>2. CASE ~Holds(Purged, id)
      BY <2>1, <3>2, AcceptKeeps DEF MarkProcessed, Accepts
    <3> QED BY <3>1, <3>2
  <2>2. CASE Look
    BY <2>2, PurgeKeeps DEF Look
  <2>3. ASSUME NEW now \in Times, SetClock(now) PROVE CacheInv'
    BY <2>3, ClockKeeps
  <2>4. CASE UNCHANGED vars
    BY <2>4 DEF vars, CacheInv, ClockType, Matches, Justified, Distinct, AcceptedOnce
  <2> QED
    BY <2>1, <2>2, <2>3, <2>4 DEF Next
<1> QED
  BY <1>1, <1>2, PTL DEF Spec

\* ForgetsForCause: the cache holds the latest ids, and an older one is gone only from
\* a full cache or after its time to live.
THEOREM NothingForgottenEarly == Spec => []ForgetsForCause
<1>1. CacheInv => ForgetsForCause
  <2> SUFFICES ASSUME CacheInv PROVE ForgetsForCause
    OBVIOUS
  <2>1. DOMAIN entries = 1 .. Len(entries)
    BY DEF CacheInv, Matches
  <2> QED
    BY <2>1 DEF CacheInv, Matches, Justified, ForgetsForCause, Forgotten
<1> QED
  BY <1>1, CacheInvariant, PTL

\* AcceptedOnce: an id is not accepted twice while the cache has to know it.
THEOREM NothingAcceptedTwice == Spec => []AcceptedOnce
BY CacheInvariant, PTL DEF CacheInv

\* CacheTypeOK: the cache stays within its capacity, each id in it once.
THEOREM CacheIsTyped == Spec => []CacheTypeOK
<1>1. CacheInv => CacheTypeOK
  BY DEF CacheInv, ClockType, Matches, Distinct, CacheTypeOK, Entry
<1> QED
  BY <1>1, CacheInvariant, PTL
=============================================================================

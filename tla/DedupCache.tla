------------------------------ MODULE DedupCache ------------------------------
(***************************************************************************)
(* InMemoryBusinessEventDeduplicationService: a map in insertion order,    *)
(* bounded by a capacity and a time to live, its calls synchronized.       *)
(* OrderPipeline sees no more of it than a set that may forget; here is    *)
(* what it forgets, and when.  The clock is the system's, which may be set *)
(* back.                                                                   *)
(***************************************************************************)
EXTENDS Integers, SequencesExt

CONSTANTS
  Ids,        \* event ids
  Capacity,   \* entries the cache may hold (10000)
  Ttl,        \* time after which an entry expires (one hour)
  MaxClock,   \* bound: the times of the clock
  MaxAccepted \* bound: ids accepted

ASSUME CacheAssumption ==
  /\ Capacity \in Nat \ {0}
  /\ Ttl \in Nat \ {0}
  /\ MaxClock \in Nat
  /\ MaxAccepted \in Nat

VARIABLES
  entries,   \* the map, oldest insertion first
  clock,
  latest,    \* history: the latest time the clock has shown
  accepted   \* history: the insertions, and latest at each of them

vars == <<entries, clock, latest, accepted>>

Times == 0 .. MaxClock

Init ==
  /\ entries = <<>>
  /\ clock \in Times
  /\ latest = clock
  /\ accepted = <<>>

-----------------------------------------------------------------------------
\* Variant: an entry expires a unit too early.
PurgedEarly ==
  LET first == SelectInSeq(entries, LAMBDA e : e.at > clock - Ttl + 1)
  IN IF first = 0 THEN <<>> ELSE SubSeq(entries, first, Len(entries))

\* purge: stops at the first entry that has not expired.
Purged ==
  LET first == SelectInSeq(entries, LAMBDA e : e.at > clock - Ttl)
  IN IF first = 0 THEN <<>> ELSE SubSeq(entries, first, Len(entries))

Holds(s, id) == \E i \in DOMAIN s : s[i].id = id

\* Variant: two entries give way to one.
EvictedTwo(s) == IF Len(s) < Capacity THEN s
                                      ELSE SubSeq(s, Len(s) - Capacity + 3, Len(s))

\* The eldest entries give way until there is room for one more.
Evicted(s) == IF Len(s) < Capacity THEN s
                                   ELSE SubSeq(s, Len(s) - Capacity + 2, Len(s))

MarkProcessed(id) ==
  /\ Len(accepted) < MaxAccepted
  /\ IF Holds(Purged, id)
     THEN entries' = Purged /\ UNCHANGED accepted
     ELSE /\ entries' = Append(Evicted(Purged), [id |-> id, at |-> clock])
          /\ accepted' = Append(accepted, [id |-> id, at |-> clock, latest |-> latest])
  /\ UNCHANGED <<clock, latest>>

\* isProcessed and size purge as well.
Look ==
  /\ entries' = Purged
  /\ UNCHANGED <<clock, latest, accepted>>

SetClock(now) ==
  /\ clock' = now
  /\ latest' = IF now > latest THEN now ELSE latest
  /\ UNCHANGED <<entries, accepted>>

Next ==
  \/ \E id \in Ids : MarkProcessed(id)
  \/ Look
  \/ \E now \in Times : SetClock(now)

Spec == Init /\ [][Next]_vars

-----------------------------------------------------------------------------
\* Types.  DedupBoundsTest: the cache stays within its capacity, each id is in it once.
CacheTypeOK ==
  /\ entries \in Seq([id: Ids, at: Times])
  /\ Len(entries) <= Capacity
  /\ \A i, j \in DOMAIN entries : entries[i].id = entries[j].id => i = j
  /\ clock \in Times
  /\ latest \in Times
  /\ accepted \in Seq([id: Ids, at: Times, latest: Times])

Forgotten == Len(accepted) - Len(entries)

\* The cache holds the latest ids it accepted, and has forgotten an older one
\* only for a full cache or because its time to live had passed: a purge that
\* meets entries out of time order forgets none too early.
ForgetsForCause ==
  /\ \A i \in DOMAIN entries : /\ entries[i].id = accepted[Forgotten + i].id
                               /\ entries[i].at = accepted[Forgotten + i].at
  /\ \A n \in 1 .. Forgotten :
       \/ Len(accepted) - n >= Capacity
       \/ accepted[n].at + Ttl <= latest

\* No id is accepted a second time before Capacity others were, or the time to
\* live of the first was over.
AcceptedOnce ==
  \A i, j \in DOMAIN accepted :
    i < j /\ accepted[i].id = accepted[j].id =>
      \/ j - i > Capacity
      \/ accepted[i].at + Ttl <= accepted[j].latest
=============================================================================

--------------------------- MODULE DrainCheckProofs ---------------------------
(***************************************************************************)
(* Proofs about what the drain phase relies on: that the counters account  *)
(* for every event, and that a drain declared complete means what the      *)
(* runner takes it to mean.                                                *)
(***************************************************************************)
EXTENDS DrainCheck, OrderEventProofs

(* Sets that gain or lose one element, and places in sequences *)

OneMore(T, S) == IsFiniteSet(S) => IsFiniteSet(T) /\ Cardinality(T) = Cardinality(S) + 1
OneLess(T, S) == IsFiniteSet(S) => IsFiniteSet(T) /\ Cardinality(T) = Cardinality(S) - 1

\* A new element makes one more.
LEMMA Gained ==
  ASSUME NEW S, NEW T, NEW x, x \notin S, T = S \cup {x}
  PROVE  OneMore(T, S)
  BY FS_AddElement DEF OneMore

\* An element taken away makes one less.
LEMMA Dropped ==
  ASSUME NEW S, NEW T, NEW x, x \in S, T = S \ {x}
  PROVE  OneLess(T, S)
  BY FS_RemoveElement DEF OneLess

\* What is a place.
LEMMA SlotMembers ==
  ASSUME NEW f
  PROVE  \A z : z \in Slots(f) <=> \E y \in DOMAIN f : \E i \in DOMAIN f[y] : z = <<y, i>>
  BY DEF Slots

\* A sequence that grows has one more place.
LEMMA SlotsAppended ==
  ASSUME NEW f, NEW g, NEW X, DOMAIN f = X, DOMAIN g = X, NEW x \in X,
         NEW S, NEW e \in S, f[x] \in Seq(S), g[x] = Append(f[x], e),
         \A y \in X : y # x => g[y] = f[y]
  PROVE  OneMore(Slots(g), Slots(f))
<1> DEFINE n == Len(f[x]) + 1
<1>1. /\ DOMAIN g[x] = DOMAIN f[x] \cup {n} /\ n \notin DOMAIN f[x]
  OBVIOUS
<1> HIDE DEF n
<1>2. Slots(g) = Slots(f) \cup {<<x, n>>}
  <2>1. \A y \in X : DOMAIN g[y] = IF y = x THEN DOMAIN f[y] \cup {n} ELSE DOMAIN f[y]
    BY <1>1
  <2>2. ASSUME NEW z \in Slots(g)
        PROVE  z \in Slots(f) \cup {<<x, n>>}
    <3> PICK y \in X : \E i \in DOMAIN g[y] : z = <<y, i>>
      BY SlotMembers
    <3>1. PICK i \in DOMAIN g[y] : z = <<y, i>>
      OBVIOUS
    <3>2. i \in DOMAIN f[y] \/ (y = x /\ i = n)
      BY <2>1
    <3> QED BY <3>1, <3>2, SlotMembers
  <2>3. ASSUME NEW z \in Slots(f) \cup {<<x, n>>}
        PROVE  z \in Slots(g)
    <3>1. z = <<x, n>> \/ \E y \in X : \E i \in DOMAIN f[y] : z = <<y, i>>
      BY SlotMembers
    <3>2. \E y \in X : \E i \in DOMAIN g[y] : z = <<y, i>>
      BY <1>1, <2>1, <3>1
    <3> QED BY <3>2, SlotMembers
  <2> QED BY <2>2, <2>3
<1>3. <<x, n>> \notin Slots(f)
  BY <1>1, SlotMembers
<1> QED BY <1>2, <1>3, Gained

\* A sequence that loses its head has one place less.
LEMMA SlotsTail ==
  ASSUME NEW f, NEW g, NEW X, DOMAIN f = X, DOMAIN g = X, NEW x \in X,
         NEW S, f[x] \in Seq(S), f[x] # <<>>, g[x] = Tail(f[x]),
         \A y \in X : y # x => g[y] = f[y]
  PROVE  OneLess(Slots(g), Slots(f))
<1> DEFINE n == Len(f[x])
<1>1. /\ DOMAIN g[x] = DOMAIN f[x] \ {n} /\ n \in DOMAIN f[x]
  OBVIOUS
<1> HIDE DEF n
<1>2. Slots(g) = Slots(f) \ {<<x, n>>}
  <2>1. \A y \in X : DOMAIN g[y] = IF y = x THEN DOMAIN f[y] \ {n} ELSE DOMAIN f[y]
    BY <1>1
  <2>2. ASSUME NEW z \in Slots(g)
        PROVE  z \in Slots(f) /\ z # <<x, n>>
    <3> PICK y \in X : \E i \in DOMAIN g[y] : z = <<y, i>>
      BY SlotMembers
    <3>1. PICK i \in DOMAIN g[y] : z = <<y, i>>
      OBVIOUS
    <3>2. i \in DOMAIN f[y] /\ ~(y = x /\ i = n)
      BY <2>1
    <3> QED BY <3>1, <3>2, SlotMembers
  <2>3. ASSUME NEW z \in Slots(f), z # <<x, n>>
        PROVE  z \in Slots(g)
    <3> PICK y \in X : \E i \in DOMAIN f[y] : z = <<y, i>>
      BY SlotMembers
    <3>1. PICK i \in DOMAIN f[y] : z = <<y, i>>
      OBVIOUS
    <3>2. i \in DOMAIN g[y]
      BY <2>1, <2>3, <3>1
    <3> QED BY <3>1, <3>2, SlotMembers
  <2> QED BY <2>2, <2>3
<1>3. <<x, n>> \in Slots(f)
  BY <1>1, SlotMembers
<1> QED BY <1>2, <1>3, Dropped

\* Sequences that stay keep their places.
LEMMA SlotsSame ==
  ASSUME NEW f, NEW g, NEW X, DOMAIN f = X, DOMAIN g = X, \A y \in X : g[y] = f[y]
  PROVE  Slots(g) = Slots(f)
  BY DEF Slots

-----------------------------------------------------------------------------
(* What the steps do to the events that are known, staged, sent and applied *)

\* The outbox of one order grows, or loses its head.
LEMMA StagedChanges ==
  ASSUME TypeOK, NEW o \in Orders,
         \A i \in Orders : i # o => db'[i].pending = db[i].pending
  PROVE  /\ \A e \in Event : db'[o].pending = Append(db[o].pending, e)
              => OneMore(Staged', Staged)
         /\ db[o].pending # <<>> /\ db'[o].pending = Tail(db[o].pending)
              => OneLess(Staged', Staged)
         /\ db'[o].pending = db[o].pending => Staged' = Staged
<1> DEFINE f == [i \in Orders |-> db[i].pending]
           g == [i \in Orders |-> db'[i].pending]
<1>1. /\ DOMAIN f = Orders /\ DOMAIN g = Orders /\ f[o] \in Seq(Event)
      /\ f[o] = db[o].pending /\ g[o] = db'[o].pending
      /\ \A i \in Orders : i # o => g[i] = f[i]
  BY DEF TypeOK, Doc, Events
<1>2. Staged = Slots(f) /\ Staged' = Slots(g)
  BY DEF Staged
<1> HIDE DEF f, g
<1>3. ASSUME NEW e \in Event, g[o] = Append(f[o], e)
      PROVE  OneMore(Slots(g), Slots(f))
  BY <1>1, <1>3, SlotsAppended
<1>4. ASSUME f[o] # <<>>, g[o] = Tail(f[o])
      PROVE  OneLess(Slots(g), Slots(f))
  BY <1>1, <1>4, SlotsTail
<1>5. ASSUME g[o] = f[o]
      PROVE  Slots(g) = Slots(f)
  BY <1>1, <1>5, SlotsSame
<1> QED BY <1>1, <1>2, <1>3, <1>4, <1>5

\* A partition grows, or loses its head.
LEMMA RecordsChange ==
  ASSUME TypeOK, NEW k \in Kinds, NEW p \in Partitions,
         \A j \in Kinds, q \in Partitions : ~(j = k /\ q = p) => queue'[j][q] = queue[j][q]
  PROVE  /\ \A e \in Event : queue'[k][p] = Append(queue[k][p], e)
              => OneMore(Records', Records)
         /\ queue[k][p] # <<>> /\ queue'[k][p] = Tail(queue[k][p])
              => OneLess(Records', Records)
<1> DEFINE X == Kinds \X Partitions
           f == [kp \in X |-> queue[kp[1]][kp[2]]]
           g == [kp \in X |-> queue'[kp[1]][kp[2]]]
           x == <<k, p>>
<1>1. /\ DOMAIN f = X /\ DOMAIN g = X /\ x \in X /\ f[x] \in Seq(Event)
      /\ f[x] = queue[k][p] /\ g[x] = queue'[k][p]
      /\ \A y \in X : y # x => g[y] = f[y]
  BY DEF TypeOK, Events
<1>2. Records = Slots(f) /\ Records' = Slots(g)
  BY DEF Records
<1> HIDE DEF X, f, g, x
<1>3. ASSUME NEW e \in Event, g[x] = Append(f[x], e)
      PROVE  OneMore(Slots(g), Slots(f))
  BY <1>1, <1>3, SlotsAppended
<1>4. ASSUME f[x] # <<>>, g[x] = Tail(f[x])
      PROVE  OneLess(Slots(g), Slots(f))
  BY <1>1, <1>4, SlotsTail
<1> QED BY <1>1, <1>2, <1>3, <1>4

\* What has newly reached its topic was sent just now, from the head of the outbox.
LEMMA SentNew ==
  ASSUME IInv, CauseInv, [Next]_vars, NEW o \in Orders, NEW id \in SentIds(o)',
         id \notin SentIds(o)
  PROVE  Sends(o) /\ id = Id(Head(db[o].pending)) /\ Head(db[o].pending) \in ToSet(db[o].pending)
<1>1. PartitionOf[o] \in Partitions
  BY PipelineAssumption
<1>2. ASSUME NEW k \in Kinds, NEW e \in ToSet(queue[k][PartitionOf[o]]), e.order = o
      PROVE  Id(e) # id
  BY <1>2 DEF SentIds, Queued
<1>3. id \notin ToSet(applied[o])
  BY DEF SentIds
<1>4. Still \/ \E i \in Orders : Moves(i)
  BY EventStep
<1>5. id \notin ToSet(applied'[o])
  <2> SUFFICES ASSUME id \in ToSet(applied'[o]) PROVE FALSE
    OBVIOUS
  <2>1. PICK k \in Kinds : Applies(k, o)
    BY <1>3, AppliedChanges
  <2>2. id = Id(Current(k))
    BY <1>3, <2>1, ApplyAdds
  <2>3. Current(k).order = o /\ queue[k][PartitionOf[o]] # <<>>
    BY <2>1, CurrentTypes DEF Applies, IInv
  <2>4. Current(k) \in ToSet(queue[k][PartitionOf[o]])
    BY <1>1, <2>1, <2>3, HeadGone DEF Applies, Current, Record, IInv, TypeOK
  <2> QED BY <1>2, <2>2, <2>3, <2>4
<1>6. PICK k \in Kinds : \E e \in ToSet(queue'[k][PartitionOf[o]]) : e.order = o /\ Id(e) = id
  BY <1>5 DEF SentIds, Queued
<1>7. PICK e \in ToSet(queue'[k][PartitionOf[o]]) : e.order = o /\ Id(e) = id
  BY <1>6
<1>8. e \notin ToSet(queue[k][PartitionOf[o]])
  BY <1>2, <1>7
<1>9. PICK i \in Orders : Sends(i) \/ \E j \in Kinds : Commits(j, i)
  BY <1>4, <1>7, <1>8, Zenon DEF Still, Moves, Announces, Removes, Applies
<1>10. ~ \E j \in Kinds : Commits(j, i)
  BY <1>1, <1>7, <1>8, CommitSet
<1>11. PICK f \in Event : f = Head(db[i].pending) /\ f \in ToSet(db[i].pending) /\ Deliver(f)
  BY <1>9, <1>10, HeadGone, MemberTypes DEF Sends, IInv
<1>12. e = f
  <2>1. TypeOK /\ f \in Event /\ Deliver(f)
    BY <1>11 DEF IInv
  <2>2. ToSet(queue'[k][PartitionOf[o]]) = ToSet(queue[k][PartitionOf[o]])
        \/ ToSet(queue'[k][PartitionOf[o]]) = ToSet(queue[k][PartitionOf[o]]) \cup {f}
    BY <1>1, <2>1, DeliverSet
  <2> QED BY <1>7, <1>8, <2>2
<1>13. i = o
  BY <1>7, <1>11, <1>12 DEF CauseInv, StagedCaused
<1> QED BY <1>7, <1>9, <1>10, <1>11, <1>12, <1>13

\* What was not known before is the event just announced or the business event of
\* the record just applied.
LEMMA KnownNew ==
  ASSUME IInv, CauseInv, [Next]_vars, NEW o \in Orders, NEW id \in Known(o)',
         id \notin Known(o)
  PROVE  \/ Announces(o) /\ id = <<"status", Len(issued[o]) + 1>>
         \/ \E k \in Kinds : /\ Applies(k, o) /\ Downstream(Current(k))
                             /\ id = <<"business", Current(k).n>>
<1>1. id \notin SentIds(o) /\ \A e \in ToSet(db[o].pending) : Id(e) # id
  BY KnownParts
<1>2. id \notin SentIds(o)'
  BY <1>1, SentNew
<1>3. PICK e \in ToSet(db'[o].pending) : Id(e) = id
  BY <1>2, KnownPartsNext
<1>4. Still \/ \E i \in Orders : Moves(i)
  BY EventStep
<1>5. db'[o].pending # db[o].pending
  BY <1>1, <1>3
<1>6. Announces(o) \/ Removes(o) \/ \E k \in Kinds : Applies(k, o)
  <2>1. ASSUME NEW i \in Orders, Moves(i), i # o
        PROVE  db'[o].pending = db[o].pending
    BY <2>1, Zenon DEF Moves, Announces, Removes, Sends, Applies, Commits, OthersKept
  <2>2. Moves(o) => \/ db'[o].pending = db[o].pending
                    \/ Announces(o) \/ Removes(o) \/ \E k \in Kinds : Applies(k, o)
    BY Zenon DEF Moves, Sends, Commits
  <2> QED BY <1>4, <1>5, <2>1, <2>2, Zenon DEF Still
<1>7. db[o].pending \in Events
  BY DEF IInv, TypeOK, Doc
<1>8. ASSUME Removes(o) PROVE FALSE
  <2>1. db[o].pending # <<>> /\ db'[o].pending = Tail(db[o].pending)
    BY <1>8 DEF Removes
  <2>2. e \in ToSet(db[o].pending)
    BY <1>3, <1>7, <2>1, HeadGone
  <2> QED BY <1>1, <1>3, <2>2
<1>9. ASSUME NEW f \in Event, db'[o].pending = Append(db[o].pending, f)
      PROVE  id = Id(f)
  <2>1. e = f
    BY <1>1, <1>3, <1>7, <1>9, EventAppended
  <2> QED BY <1>3, <2>1
<1>10. ASSUME Announces(o) PROVE id = <<"status", Len(issued[o]) + 1>>
  <2>1. PICK s \in Status : db'[o].pending = Append(db[o].pending,
          [kind |-> "status", order |-> o, n |-> Len(issued[o]) + 1, status |-> s])
    BY <1>10 DEF Announces
  <2>2. issued[o] \in Seq(Status)
    BY DEF IInv, TypeOK
  <2>3. Len(issued[o]) + 1 \in Nat
    BY <2>2
  <2>4. [kind |-> "status", order |-> o, n |-> Len(issued[o]) + 1, status |-> s] \in Event
    BY <2>3 DEF Event, Kinds
  <2> QED BY <1>9, <2>1, <2>4 DEF Id
<1>11. ASSUME NEW k \in Kinds, Applies(k, o)
       PROVE  Downstream(Current(k)) /\ id = <<"business", Current(k).n>>
  <2>1. Downstream(Current(k))
    BY <1>5, <1>11 DEF Applies
  <2>2. BusinessEvent(Current(k), db[o]) \in Event
    BY <1>11, CurrentTypes, EventTypes DEF Applies, IInv, TypeOK
  <2>3. id = Id(BusinessEvent(Current(k), db[o]))
    BY <1>9, <1>11, <2>1, <2>2 DEF Applies
  <2> QED BY <2>1, <2>3 DEF Id, BusinessEvent
<1> QED BY <1>6, <1>8, <1>10, <1>11

\* An event that is known has its cause in the histories.
LEMMA KnownGrounded ==
  ASSUME CauseInv, NEW o \in Orders, NEW id \in Known(o)
  PROVE  Grounded(o, id)
<1>1. CASE id \in ToSet(applied[o])
  BY <1>1 DEF CauseInv, AppliedCaused
<1>2. ASSUME NEW e \in ToSet(db[o].pending), Id(e) = id
      PROVE  Grounded(o, id)
  BY <1>2 DEF CauseInv, StagedCaused, Caused
<1>3. ASSUME NEW k \in Kinds, NEW e \in ToSet(queue[k][PartitionOf[o]]),
             e.order = o, Id(e) = id
      PROVE  Grounded(o, id)
  <2>1. PartitionOf[o] \in Partitions
    BY PipelineAssumption
  <2> QED BY <1>3, <2>1 DEF CauseInv, SentCaused, Caused
<1> QED BY <1>1, <1>2, <1>3 DEF Known, Waiting, Queued

\* Announcing and applying leave their trace in the histories.
LEMMA Traces ==
  ASSUME IInv, NEW o \in Orders
  PROVE  /\ Announces(o) => issued'[o] # issued[o]
         /\ \A k \in Kinds : Applies(k, o) => applied'[o] # applied[o]
<1>1. issued[o] \in Seq(Status) /\ applied[o] \in Seq(EventId)
  BY DEF IInv, TypeOK, Receipts
<1>2. \A x : Append(issued[o], x) # issued[o]
  <2>1. \A x : Len(Append(issued[o], x)) = Len(issued[o]) + 1 /\ Len(issued[o]) \in Nat
    BY <1>1
  <2> QED BY <2>1
<1>3. \A x : Append(applied[o], x) # applied[o]
  <2>1. \A x : Len(Append(applied[o], x)) = Len(applied[o]) + 1 /\ Len(applied[o]) \in Nat
    BY <1>1
  <2> QED BY <2>1
<1> QED BY <1>2, <1>3 DEF Announces, Applies

\* The histories of executions of the orders that applied nothing have their places.
LEMMA ApplicationsSame ==
  ASSUME IInv, [Next]_vars, \A o \in Orders : applied'[o] = applied[o]
  PROVE  Applications' = Applications
<1>1. DOMAIN applied = Orders /\ DOMAIN applied' = Orders
  BY TypeStep DEF IInv, TypeOK
<1> QED BY <1>1, SlotsSame DEF Applications

\* Nobody knows of a new event unless one was announced or had a downstream event.
LEMMA KnownSame ==
  ASSUME IInv, EventInv, [Next]_vars,
         \A o \in Orders : /\ ~ Announces(o)
                           /\ \A k \in Kinds : Applies(k, o) => ~ Downstream(Current(k))
  PROVE  KnownEvents' = KnownEvents
<1>1. ASSUME NEW o \in Orders
      PROVE  \A id : id \in Known(o)' <=> id \in Known(o)
  BY KnownNew, KnownGrows DEF EventInv
<1>2. ASSUME NEW o \in Orders
      PROVE  {<<o, id>> : id \in Known(o)'} = {<<o, id>> : id \in Known(o)}
  BY <1>1
<1> QED BY <1>2 DEF KnownEvents

\* One order has one new event.
LEMMA KnownAdded ==
  ASSUME IInv, EventInv, [Next]_vars, NEW o \in Orders, NEW x \in Known(o)',
         \A i \in Orders : \A id \in Known(i)' : id \in Known(i) \/ (i = o /\ id = x)
  PROVE  KnownEvents' = KnownEvents \cup {<<o, x>>}
<1>1. ASSUME NEW i \in Orders
      PROVE  \A id : id \in Known(i)' <=> id \in Known(i) \/ (i = o /\ id = x)
  BY KnownGrows DEF EventInv
<1>2. \A z : z \in KnownEvents' <=> \E i \in Orders : \E id \in Known(i)' : z = <<i, id>>
  BY DEF KnownEvents
<1>3. \A z : z \in KnownEvents <=> \E i \in Orders : \E id \in Known(i) : z = <<i, id>>
  BY DEF KnownEvents
<1>4. \A z : z \in KnownEvents' <=> z \in KnownEvents \/ z = <<o, x>>
  BY <1>1, <1>2, <1>3
<1> QED BY <1>4

\* Where no event moves, nothing is tallied.
LEMMA StillTallies ==
  ASSUME IInv, EventInv, [Next]_vars, Still
  PROVE  /\ Staged' = Staged /\ Records' = Records
         /\ Applications' = Applications /\ KnownEvents' = KnownEvents
<1>1. Applications' = Applications /\ KnownEvents' = KnownEvents
  BY ApplicationsSame, KnownSame, Traces DEF Still
<1>2. Records' = Records
  BY DEF Still, Records
<1>3. Staged' = Staged
  BY DEF Still, Staged
<1> QED BY <1>1, <1>2, <1>3

\* A status change is one more event known and staged.
LEMMA AnnounceTallies ==
  ASSUME IInv, EventInv, [Next]_vars, NEW o \in Orders, Announces(o)
  PROVE  /\ OneMore(Staged', Staged) /\ OneMore(KnownEvents', KnownEvents)
         /\ Records' = Records /\ Applications' = Applications
<1>1. issued[o] \in Seq(Status)
  BY DEF IInv, TypeOK
<1>2. PICK n \in Nat : n = Len(issued[o]) + 1 /\ n \notin DOMAIN issued[o]
  BY <1>1
<1>3. PICK e \in Event :
        /\ e.kind = "status" /\ e.n = n
        /\ db'[o].pending = Append(db[o].pending, e)
  <2>1. PICK s \in Status : db'[o].pending = Append(db[o].pending,
          [kind |-> "status", order |-> o, n |-> n, status |-> s])
    BY <1>2 DEF Announces
  <2>2. [kind |-> "status", order |-> o, n |-> n, status |-> s] \in Event
    BY DEF Event, Kinds
  <2> QED BY <2>1, <2>2
<1>4. OneMore(Staged', Staged)
  BY <1>3, StagedChanges DEF Announces, OthersKept, IInv
<1>5. \A i \in Orders : i # o => applied'[i] = applied[i] /\ issued'[i] = issued[i]
  BY DEF Announces, OthersKept
<1>6. applied'[o] = applied[o]
  BY DEF Announces
<1>7. Applications' = Applications
  BY <1>5, <1>6, ApplicationsSame
<1>8. <<"status", n>> \in Known(o)' /\ <<"status", n>> \notin Known(o)
  <2>1. <<"status", n>> \notin Known(o)
    BY <1>2, KnownGrounded DEF Grounded, EventInv
  <2>2. e \in ToSet(db'[o].pending)
    BY <1>3, EventAppended DEF IInv, TypeOK, Doc
  <2> QED BY <1>3, <2>1, <2>2, KnownPartsNext DEF Id
<1>9. ASSUME NEW i \in Orders, NEW id \in Known(i)', id \notin Known(i)
      PROVE  i = o /\ id = <<"status", n>>
  <2>1. \A k \in Kinds : ~ Applies(k, i)
    BY <1>5, <1>6, Traces
  <2>2. Announces(i) /\ id = <<"status", Len(issued[i]) + 1>>
    BY <1>9, <2>1, KnownNew DEF EventInv
  <2>3. i = o
    BY <1>5, <2>2, Traces
  <2> QED BY <1>2, <2>2, <2>3
<1>10. KnownEvents' = KnownEvents \cup {<<o, <<"status", n>>>>}
  BY <1>8, <1>9, KnownAdded
<1>11. <<o, <<"status", n>>>> \notin KnownEvents
  BY <1>8 DEF KnownEvents
<1>12. OneMore(KnownEvents', KnownEvents)
  BY <1>10, <1>11, Gained
<1>13. Records' = Records
  BY DEF Announces, Records
<1> QED BY <1>4, <1>7, <1>12, <1>13

\* A head removed is one event less staged.
LEMMA RemoveTallies ==
  ASSUME IInv, EventInv, [Next]_vars, NEW o \in Orders, Removes(o)
  PROVE  /\ OneLess(Staged', Staged) /\ KnownEvents' = KnownEvents
         /\ Records' = Records /\ Applications' = Applications
<1>1. \A i \in Orders : applied'[i] = applied[i] /\ issued'[i] = issued[i]
  BY DEF Removes, OthersKept
<1>2. Applications' = Applications /\ KnownEvents' = KnownEvents
  BY <1>1, ApplicationsSame, KnownSame, Traces
<1>3. OneLess(Staged', Staged)
  BY StagedChanges DEF Removes, OthersKept, IInv
<1>4. Records' = Records
  BY DEF Removes, Records
<1> QED BY <1>2, <1>3, <1>4

\* An event sent is one more record.
LEMMA SendTallies ==
  ASSUME IInv, EventInv, [Next]_vars, NEW o \in Orders, Sends(o)
  PROVE  /\ OneMore(Records', Records) /\ KnownEvents' = KnownEvents
         /\ Staged' = Staged /\ Applications' = Applications
<1>1. \A i \in Orders : applied'[i] = applied[i] /\ issued'[i] = issued[i]
  BY DEF Sends
<1>2. Applications' = Applications /\ KnownEvents' = KnownEvents
  BY <1>1, ApplicationsSame, KnownSame, Traces
<1>3. Staged' = Staged
  BY DEF Sends, Staged
<1>4. PICK e \in Event : Deliver(e)
  <2>1. db[o].pending \in Events /\ db[o].pending # <<>>
    BY MemberTypes DEF Sends, IInv
  <2>2. Head(db[o].pending) \in Event
    BY <2>1 DEF Events
  <2> QED BY <2>2 DEF Sends
<1>5. PICK k \in Kinds, p \in Partitions : k = e.kind /\ p = PartitionOf[e.order]
  BY PipelineAssumption DEF Event
<1>6. /\ \A j \in Kinds, q \in Partitions :
           ~(j = k /\ q = p) => queue'[j][q] = queue[j][q]
      /\ queue'[k][p] = Append(queue[k][p], e)
  BY <1>4, <1>5 DEF Deliver, IInv, TypeOK
<1>7. OneMore(Records', Records)
  BY <1>6, RecordsChange DEF IInv
<1> QED BY <1>2, <1>3, <1>7

\* A commit is one record less.
LEMMA CommitTallies ==
  ASSUME IInv, EventInv, [Next]_vars, NEW k \in Kinds, NEW o \in Orders, Commits(k, o)
  PROVE  /\ OneLess(Records', Records) /\ KnownEvents' = KnownEvents
         /\ Staged' = Staged /\ Applications' = Applications
<1>1. \A i \in Orders : applied'[i] = applied[i] /\ issued'[i] = issued[i]
  BY DEF Commits
<1>2. Applications' = Applications /\ KnownEvents' = KnownEvents
  BY <1>1, ApplicationsSame, KnownSame, Traces
<1>3. Staged' = Staged
  BY DEF Commits, Staged
<1>4. PartitionOf[o] \in Partitions /\ queue[k][PartitionOf[o]] # <<>>
  BY CurrentTypes DEF Commits, IInv
<1>5. \A j \in Kinds, q \in Partitions :
        queue'[j][q] = IF j = k /\ q = PartitionOf[o]
                         THEN Tail(queue[j][q]) ELSE queue[j][q]
  BY <1>4 DEF Commits, IInv, TypeOK
<1>6. OneLess(Records', Records)
  BY <1>4, <1>5, RecordsChange DEF IInv
<1> QED BY <1>2, <1>3, <1>6

\* A record applied is one more execution, and has its downstream event known and
\* staged; the event is new if the record was not applied before.
LEMMA ApplyTallies ==
  ASSUME IInv, EventInv, [Next]_vars, NEW k \in Kinds, NEW o \in Orders, Applies(k, o)
  PROVE  /\ OneMore(Applications', Applications) /\ Records' = Records
         /\ ~ Downstream(Current(k)) => Staged' = Staged /\ KnownEvents' = KnownEvents
         /\ Downstream(Current(k)) =>
              /\ OneMore(Staged', Staged)
              /\ IsFiniteSet(KnownEvents) => IsFiniteSet(KnownEvents')
              /\ Id(Current(k)) \notin ToSet(applied[o]) => OneMore(KnownEvents', KnownEvents)
<1>1. PICK c \in Event : c = Current(k)
  BY CurrentTypes DEF Applies, IInv
<1>2. /\ \A i \in Orders : i # o => /\ db'[i].pending = db[i].pending
                                    /\ applied'[i] = applied[i] /\ issued'[i] = issued[i]
      /\ issued'[o] = issued[o]
  BY DEF Applies, OthersKept
<1>3. OneMore(Applications', Applications)
  <2>1. DOMAIN applied = Orders /\ DOMAIN applied' = Orders /\ applied[o] \in Seq(EventId)
    BY TypeStep DEF IInv, TypeOK, Receipts
  <2>2. Id(c) \in EventId /\ applied'[o] = Append(applied[o], Id(c))
    BY <1>1 DEF Applies, Id, EventId, Event
  <2> QED BY <1>2, <2>1, <2>2, SlotsAppended DEF Applications
<1>4. Records' = Records
  BY DEF Applies, Records
<1>5. \A i \in Orders : ~ Announces(i) /\ \A j \in Kinds : Applies(j, i) => i = o
  BY <1>2, Traces
<1>6. \A j \in Kinds : Applies(j, o) => j = k
  <2>1. "applying" \in Locked
    BY DEF Locked, Steps
  <2> QED BY <2>1, OneHolder, ThreadKinds DEF Applies, IInv
<1>7. ASSUME ~ Downstream(c)
      PROVE  Staged' = Staged /\ KnownEvents' = KnownEvents
  <2>1. db'[o].pending = db[o].pending
    BY <1>1, <1>7 DEF Applies
  <2>2. Staged' = Staged
    BY <1>2, <2>1, StagedChanges DEF IInv
  <2>3. KnownEvents' = KnownEvents
    BY <1>1, <1>5, <1>6, <1>7, KnownSame
  <2> QED BY <2>2, <2>3
<1>8. ASSUME Downstream(c)
      PROVE  /\ OneMore(Staged', Staged)
             /\ IsFiniteSet(KnownEvents) => IsFiniteSet(KnownEvents')
             /\ Id(c) \notin ToSet(applied[o]) => OneMore(KnownEvents', KnownEvents)
  <2> DEFINE id == <<"business", c.n>>
  <2>1. PICK e \in Event : Id(e) = id /\ db'[o].pending = Append(db[o].pending, e)
    <3>1. BusinessEvent(c, db[o]) \in Event
      BY EventTypes DEF IInv, TypeOK
    <3> QED BY <1>1, <1>8, <3>1 DEF Applies, BusinessEvent, Id
  <2>2. OneMore(Staged', Staged)
    BY <1>2, <2>1, StagedChanges DEF IInv
  <2>3. id \in Known(o)'
    <3>1. e \in ToSet(db'[o].pending)
      BY <2>1, EventAppended DEF IInv, TypeOK, Doc
    <3> QED BY <2>1, <3>1, KnownPartsNext
  <2>4. ASSUME NEW i \in Orders, NEW x \in Known(i)', x \notin Known(i)
        PROVE  i = o /\ x = id
    BY <1>1, <1>5, <1>6, <2>4, KnownNew DEF EventInv
  <2>5. KnownEvents' = KnownEvents \cup {<<o, id>>}
    BY <2>3, <2>4, KnownAdded
  <2>6. ASSUME Id(c) \notin ToSet(applied[o])
        PROVE  <<o, id>> \notin KnownEvents
    <3>1. Id(c) = <<"status", c.n>>
      BY <1>8 DEF Downstream, Id
    <3>2. id \notin Known(o)
      BY <2>6, <3>1, KnownGrounded DEF Grounded, EventInv
    <3> QED BY <3>2 DEF KnownEvents
  <2> HIDE DEF id
  <2> QED BY <2>2, <2>5, <2>6, Gained, FS_AddElement
<1> QED BY <1>1, <1>3, <1>4, <1>7, <1>8

-----------------------------------------------------------------------------
(* What is under way: between an effect and the counter that reports it *)

\* The threads at a step, and the listeners that have staged a downstream event
\* and not yet marked its parent.
At(s) == {t \in Threads : pc[t] = s}
Owed == {k \in Kinds : pc[k] = "marking" /\ Downstream(Current(k))}

\* The steps at which an effect and its counter are apart.
Tallied == {"saved", "removed", "marking", "chaining", "acking"}

\* The events staged and not yet counted as enqueued.
Uncounted == Cardinality(At("saved")) + Cardinality(Owed) + Cardinality(At("chaining"))

FiniteTallies ==
  /\ IsFiniteSet(At("saved")) /\ IsFiniteSet(At("removed")) /\ IsFiniteSet(At("marking"))
  /\ IsFiniteSet(At("chaining")) /\ IsFiniteSet(At("acking")) /\ IsFiniteSet(Owed)
  /\ IsFiniteSet(KnownEvents) /\ IsFiniteSet(Staged)
  /\ IsFiniteSet(Records) /\ IsFiniteSet(Applications)

\* Every effect is counted or under way.
KnownAreEnqueued == count["enqueued"] + Uncounted = Cardinality(KnownEvents)
EnqueuedArePublished ==
  count["enqueued"] + Uncounted
    = count["published"] + Cardinality(At("removed")) + Cardinality(Staged)
AppliedAreConsumed ==
  count["consumed"] + Cardinality(At("marking")) = Cardinality(Applications)
DeliveredAreConsumed ==
  count["deliveries"] + Cardinality(At("chaining")) + Cardinality(At("acking"))
    = count["consumed"] + count["duplicate"] + Cardinality(Records)

Balanced ==
  /\ Fits => KnownAreEnqueued
  /\ EnqueuedArePublished
  /\ AppliedAreConsumed
  /\ DeliveredAreConsumed

CountInv == Exact => FiniteTallies /\ Balanced

\* The sizes of finite sets are numbers.
LEMMA Sizes ==
  ASSUME FiniteTallies
  PROVE  /\ Cardinality(At("saved")) \in Nat /\ Cardinality(At("removed")) \in Nat
         /\ Cardinality(At("marking")) \in Nat /\ Cardinality(At("chaining")) \in Nat
         /\ Cardinality(At("acking")) \in Nat /\ Cardinality(Owed) \in Nat
         /\ Cardinality(KnownEvents) \in Nat /\ Cardinality(Staged) \in Nat
         /\ Cardinality(Records) \in Nat /\ Cardinality(Applications) \in Nat
  BY FS_CardinalityType DEF FiniteTallies

\* A thread leaves one step for another.
LEMMA AtMoves ==
  ASSUME NEW t \in Threads, OnlyMoves(t), NEW s
  PROVE  /\ s # pc[t] /\ s # pc'[t] => At(s)' = At(s)
         /\ s # pc[t] /\ s = pc'[t] => OneMore(At(s)', At(s))
         /\ s = pc[t] /\ s # pc'[t] => OneLess(At(s)', At(s))
<1>1. At(s) = {u \in Threads : pc[u] = s} /\ At(s)' = {u \in Threads : pc'[u] = s}
  BY DEF At
<1>2. \A u \in Threads : u # t => pc'[u] = pc[u]
  BY DEF OnlyMoves
<1>3. ASSUME s # pc[t], s # pc'[t]
      PROVE  At(s)' = At(s)
  BY <1>1, <1>2, <1>3
<1>4. ASSUME s # pc[t], s = pc'[t]
      PROVE  OneMore(At(s)', At(s))
  <2>1. t \notin At(s) /\ At(s)' = At(s) \cup {t}
    BY <1>1, <1>2, <1>4
  <2> QED BY <2>1, Gained
<1>5. ASSUME s = pc[t], s # pc'[t]
      PROVE  OneLess(At(s)', At(s))
  <2>1. t \in At(s) /\ At(s)' = At(s) \ {t}
    BY <1>1, <1>2, <1>5
  <2> QED BY <2>1, Dropped
<1> QED BY <1>3, <1>4, <1>5

\* What the other listeners owe stays while their records stay.
LEMMA OwedByOthers ==
  ASSUME NEW t, OnlyMoves(t), NEW k \in Kinds, k # t,
         pc[k] = "marking" =>
           Head(queue'[k][PartitionOf[at[k]]]) = Head(queue[k][PartitionOf[at[k]]])
  PROVE  k \in Owed' <=> k \in Owed
<1>1. pc'[k] = pc[k] /\ at'[k] = at[k]
  BY ThreadKinds DEF OnlyMoves
<1>2. k \in Owed <=> pc[k] = "marking" /\ Downstream(Head(queue[k][PartitionOf[at[k]]]))
  BY DEF Owed, Current, Record
<1>3. k \in Owed' <=> pc'[k] = "marking" /\ Downstream(Head(queue'[k][PartitionOf[at'[k]]]))
  BY DEF Owed, Current, Record
<1> QED BY <1>1, <1>2, <1>3

\* A thread that is not about to mark owes nothing.
LEMMA OwedSame ==
  ASSUME NEW t \in Threads, OnlyMoves(t), pc[t] # "marking", pc'[t] # "marking",
         \A k \in Kinds : pc[k] = "marking" /\ k # t =>
           Head(queue'[k][PartitionOf[at[k]]]) = Head(queue[k][PartitionOf[at[k]]])
  PROVE  Owed' = Owed
<1>1. ASSUME NEW k \in Kinds
      PROVE  k \in Owed' <=> k \in Owed
  <2>1. CASE k = t
    BY <2>1 DEF Owed
  <2>2. CASE k # t
    BY <2>2, OwedByOthers
  <2> QED BY <2>1, <2>2
<1>2. Owed \subseteq Kinds /\ Owed' \subseteq Kinds
  BY DEF Owed
<1> QED BY <1>1, <1>2

\* A step that spends neither an acknowledgement nor the replica.
LEMMA ExactStep ==
  ASSUME TypeOK, Exact'
  PROVE  /\ ~ Spend("unacked") /\ ~ Spend("crashes")
         /\ \A result \in Results : Charge(result) => result \in {"ok", "failed"}
         /\ \A result \in Results : \A t, doc :
              Save(t, doc, result) => result \in {"ok", "failed"}
<1>1. /\ spent["unacked"] \in Nat /\ spent["crashes"] \in Nat
      /\ "unacked" \in DOMAIN spent /\ "crashes" \in DOMAIN spent
  BY DEF TypeOK, Bounds
<1>2. ~ Spend("unacked") /\ ~ Spend("crashes")
  BY <1>1 DEF Spend, Exact
<1> QED BY <1>2 DEF Charge, Save, Results

\* No step spends a negative amount.
LEMMA SpentStep ==
  ASSUME [Next]_vars
  PROVE  UNCHANGED spent \/ \E b \in Bounds : Spend(b)
<1> DEFINE Goal == UNCHANGED spent \/ \E b \in Bounds : Spend(b)
<1>1. /\ Spend("requests") => Goal
      /\ Spend("faults") => Goal
      /\ Spend("unacked") => Goal
      /\ Spend("forgets") => Goal
      /\ Spend("crashes") => Goal
  BY DEF Bounds
<1>2. ASSUME NEW result \in Results, Charge(result)
      PROVE  Goal
  BY <1>1, <1>2 DEF Charge, Results
<1>3. ASSUME NEW t, NEW doc, NEW result \in Results, Save(t, doc, result)
      PROVE  Goal
  BY <1>2, <1>3 DEF Save
<1>4. ASSUME NEW t \in Callers, NEW outcome \in Outcomes(t), NEW result \in Results,
             SaveStatusChange(t, outcome, result)
      PROVE  Goal
  BY <1>3, <1>4 DEF SaveStatusChange
<1>5. ASSUME NEW result \in Results, Send(result) \/ RemoveHead(result)
      PROVE  Goal
  BY <1>2, <1>3, <1>5 DEF Send, RemoveHead
<1>6. ASSUME NEW k \in Kinds, NEW result \in Results, Apply(k, result)
      PROVE  Goal
  BY <1>3, <1>6 DEF Apply
<1>7. ASSUME \/ \E t \in Http, o \in Orders : HttpBegin(t, o)
             \/ \E s \in Schedulers : Scheduler(s)
             \/ \E t \in Callers : CountEnqueued(t) \/ CallFails(t) \/ StageRefused(t)
             \/ CountPublished
      PROVE  Goal
  BY <1>1, <1>7, Zenon
  DEF HttpBegin, Scheduler, Query, TakeCandidate, CountEnqueued, CallFails, StageRefused,
      CountPublished
<1>8. ASSUME \/ \E k \in Kinds : \/ \E p \in Partitions : Receive(k, p)
                                 \/ ApplyRefused(k) \/ Mark(k) \/ CountDownstream(k)
                                 \/ Commit(k) \/ CommitLost(k)
             \/ \E id \in cache : Forget(id)
             \/ Crash
             \/ UNCHANGED vars
      PROVE  Goal
  BY <1>1, <1>8, Zenon
  DEF Receive, ApplyRefused, Mark, CountDownstream, Commit, CommitLost, Forget, Crash, vars
<1> HIDE DEF Goal
<1>9. Goal
  BY <1>4, <1>5, <1>6, <1>7, <1>8, Zenon
  DEF Next, Caller, Dispatcher, Listener
<1> QED BY <1>9 DEF Goal

\* What is exact, and fits, after a step was so before.
LEMMA ExactBefore ==
  ASSUME IInv, [Next]_vars
  PROVE  (Exact' => Exact) /\ (Fits' => Fits)
<1>1. Exact' => Exact
  <2>1. spent \in [Bounds -> Nat] /\ "unacked" \in Bounds /\ "crashes" \in Bounds
    BY DEF IInv, TypeOK, Bounds
  <2>2. ASSUME NEW b \in Bounds, Spend(b), Exact'
        PROVE  Exact
    BY <2>1, <2>2 DEF Spend, Exact
  <2> QED BY <2>2, SpentStep DEF Exact
<1>2. ASSUME NEW o \in Orders, Len(applied'[o]) <= EventIds
      PROVE  Len(applied[o]) <= EventIds
  <2>1. applied[o] \in Seq(EventId) /\ EventIds \in Nat
    BY BoundsAssumption DEF IInv, TypeOK, Receipts
  <2>2. CASE applied'[o] = applied[o]
    BY <1>2, <2>2
  <2>3. ASSUME NEW k \in Kinds, Applies(k, o)
        PROVE  Len(applied[o]) <= EventIds
    <3>1. PICK id : applied'[o] = Append(applied[o], id)
      BY <2>3 DEF Applies
    <3> QED BY <1>2, <2>1, <3>1
  <2> QED BY <2>2, <2>3, AppliedChanges
<1> QED BY <1>1, <1>2 DEF Fits

\* A step that moves no event, counts nothing and ends between tallied steps.
LEMMA QuietTally ==
  ASSUME IInv, EventInv, [Next]_vars, FiniteTallies, Balanced, Still, UNCHANGED count,
         NEW t \in Threads, OnlyMoves(t), pc[t] \notin Tallied, pc'[t] \notin Tallied
  PROVE  FiniteTallies' /\ Balanced'
<1>1. \A s \in Tallied : At(s)' = At(s)
  BY AtMoves
<1>2. Owed' = Owed
  BY OwedSame DEF Tallied, Still
<1>3. /\ At("saved")' = At("saved") /\ At("removed")' = At("removed")
      /\ At("marking")' = At("marking") /\ At("chaining")' = At("chaining")
      /\ At("acking")' = At("acking")
  BY <1>1 DEF Tallied
<1>4. /\ Staged' = Staged /\ Records' = Records
      /\ Applications' = Applications /\ KnownEvents' = KnownEvents
  BY StillTallies
<1>5. FiniteTallies'
  BY <1>2, <1>3, <1>4 DEF FiniteTallies
<1>6. Fits' => Fits
  BY ExactBefore
<1>7. Balanced'
  BY <1>2, <1>3, <1>4, <1>6 DEF Balanced, Uncounted, KnownAreEnqueued, EnqueuedArePublished,
        AppliedAreConsumed, DeliveredAreConsumed
<1> QED BY <1>5, <1>7

\* A caller's steps.
LEMMA CallerTally ==
  ASSUME IInv, EventInv, [Next]_vars, FiniteTallies, Balanced, Exact',
         NEW t \in Callers,
         \/ \E outcome \in Outcomes(t), result \in Results :
              SaveStatusChange(t, outcome, result)
         \/ CountEnqueued(t) \/ CallFails(t) \/ StageRefused(t)
  PROVE  FiniteTallies' /\ Balanced'
<1> USE ThreadKinds
<1>1. OnlyMoves(t) /\ queue' = queue /\ t \in Threads
  BY Frames DEF SaveStatusChange, CountEnqueued, CallFails, StageRefused, durable, IInv
<1>2. CASE CallFails(t) \/ StageRefused(t)
  <2>1. Still /\ UNCHANGED count
    BY <1>2 DEF CallFails, StageRefused, Still, durable, history
  <2>2. pc[t] = "calling" /\ pc'[t] = "idle"
    BY <1>1, <1>2, Frames DEF CallFails, StageRefused, IInv
  <2> QED BY <1>1, <2>1, <2>2, QuietTally DEF Tallied
<1>3. CASE CountEnqueued(t)
  <2>1. Still /\ pc[t] = "saved" /\ pc'[t] = "idle"
    BY <1>1, <1>3, Frames DEF CountEnqueued, Still, durable, history, IInv
  <2>2. /\ count'["enqueued"] = count["enqueued"] + 1
        /\ count'["published"] = count["published"]
        /\ count'["consumed"] = count["consumed"]
        /\ count'["deliveries"] = count["deliveries"]
        /\ count'["duplicate"] = count["duplicate"]
        /\ count["enqueued"] \in Nat
    BY <1>3 DEF CountEnqueued, Increment, IInv, TypeOK, Counters
  <2>3. /\ OneLess(At("saved")', At("saved")) /\ At("removed")' = At("removed")
        /\ At("marking")' = At("marking") /\ At("chaining")' = At("chaining")
        /\ At("acking")' = At("acking")
    BY <1>1, <2>1, AtMoves
  <2>4. Owed' = Owed
    BY <1>1, <2>1, OwedSame
  <2>5. /\ Staged' = Staged /\ Records' = Records
        /\ Applications' = Applications /\ KnownEvents' = KnownEvents
    BY <2>1, StillTallies
  <2>6. FiniteTallies'
    BY <2>3, <2>4, <2>5 DEF FiniteTallies, OneLess
  <2>7. Cardinality(At("saved")') = Cardinality(At("saved")) - 1
    BY <2>3 DEF FiniteTallies, OneLess
  <2>8. Balanced'
    BY <2>2, <2>3, <2>4, <2>5, <2>7, Sizes, ExactBefore DEF Balanced, Uncounted, KnownAreEnqueued, EnqueuedArePublished,
        AppliedAreConsumed, DeliveredAreConsumed
  <2> QED BY <2>6, <2>8
<1>4. ASSUME NEW outcome \in Outcomes(t), NEW result \in Results,
             SaveStatusChange(t, outcome, result)
      PROVE  FiniteTallies' /\ Balanced'
  <2>1. result \in {"ok", "failed"}
    BY <1>4, ExactStep DEF SaveStatusChange, IInv
  <2>2. at[t] \in Orders /\ UNCHANGED count /\ pc[t] = "calling"
    BY <1>1, <1>4 DEF SaveStatusChange, IInv, WorkInHand
  <2>3. Still \/ \E o \in Orders : Announces(o)
    BY <1>4, SaveStatusMoves
  <2>4. CASE result = "failed"
    <3>1. UNCHANGED issued
      BY <1>4, <2>4 DEF SaveStatusChange, Effective
    <3>2. Still
      BY <2>3, <3>1, Traces
    <3>3. pc'[t] = "idle"
      BY <1>1, <1>4, <2>4, Frames DEF SaveStatusChange, IInv
    <3> QED BY <1>1, <2>2, <3>2, <3>3, QuietTally DEF Tallied
  <2>5. CASE result = "ok"
    <3>1. pc'[t] = "saved"
      BY <1>1, <1>4, <2>5, Frames DEF SaveStatusChange, IInv
    <3>2. issued'[at[t]] # issued[at[t]]
      <4>1. issued[at[t]] \in Seq(Status) /\ DOMAIN issued = Orders
        BY <2>2 DEF IInv, TypeOK
      <4>2. PICK s : issued'[at[t]] = Append(issued[at[t]], s)
        BY <1>4, <2>2, <2>5, <4>1 DEF SaveStatusChange, Effective
      <4> QED BY <4>1, <4>2
    <3>3. PICK o \in Orders : Announces(o)
      BY <2>2, <2>3, <3>2 DEF Still
    <3>4. /\ OneMore(Staged', Staged) /\ OneMore(KnownEvents', KnownEvents)
          /\ Records' = Records /\ Applications' = Applications
      BY <3>3, AnnounceTallies
    <3>5. /\ OneMore(At("saved")', At("saved")) /\ At("removed")' = At("removed")
          /\ At("marking")' = At("marking") /\ At("chaining")' = At("chaining")
          /\ At("acking")' = At("acking")
      BY <1>1, <2>2, <3>1, AtMoves
    <3>6. Owed' = Owed
      BY <1>1, <2>2, <3>1, OwedSame
    <3>7. FiniteTallies'
      BY <3>4, <3>5, <3>6 DEF FiniteTallies, OneMore
    <3>8. /\ Cardinality(At("saved")') = Cardinality(At("saved")) + 1
          /\ Cardinality(Staged') = Cardinality(Staged) + 1
          /\ Cardinality(KnownEvents') = Cardinality(KnownEvents) + 1
      BY <3>4, <3>5 DEF FiniteTallies, OneMore
    <3>9. count \in [Counters -> Nat]
      BY DEF IInv, TypeOK
    <3>10. Balanced'
      BY <2>2, <3>4, <3>5, <3>6, <3>8, <3>9, Sizes, ExactBefore
      DEF Balanced, Uncounted, KnownAreEnqueued, EnqueuedArePublished,
        AppliedAreConsumed, DeliveredAreConsumed, Counters
    <3> QED BY <3>7, <3>10
  <2> QED BY <2>1, <2>4, <2>5
<1> QED BY <1>2, <1>3, <1>4

\* The dispatcher's steps.
LEMMA DispatcherTally ==
  ASSUME IInv, EventInv, [Next]_vars, FiniteTallies, Balanced, Exact',
         (\E result \in Results : Send(result) \/ RemoveHead(result)) \/ CountPublished
  PROVE  FiniteTallies' /\ Balanced'
<1> DEFINE t == "dispatch"
<1>1. t \in Threads /\ count \in [Counters -> Nat]
  BY ThreadKinds DEF IInv, TypeOK
<1> USE ThreadKinds
<1>2. ASSUME NEW result \in Results, Send(result)
      PROVE  FiniteTallies' /\ Balanced'
  <2> DEFINE event == Head(copy[t].pending)
  <2>1. result \in {"ok", "failed"} /\ pc[t] \in {"sending", "resending"}
    BY <1>2, ExactStep DEF Send, IInv
  <2>2. OnlyMoves(t) /\ pc'[t] \in {"idle", "resending", "removing"}
    <3>1. Goto(t, "resending") \/ Goto(t, "removing") \/ Finish(t)
      BY <1>2, Zenon DEF Send
    <3> QED BY <1>1, <3>1, Frames DEF IInv
  <2>3. CASE result = "failed"
    <3>1. Still /\ UNCHANGED count
      BY <1>2, <2>3 DEF Send, Effective, Still, history
    <3> QED BY <1>1, <2>1, <2>2, <3>1, QuietTally DEF Tallied
  <2>4. CASE result = "ok"
    <3>1. /\ at[t] \in Orders /\ copy[t] = db[at[t]] /\ copy[t].pending # <<>>
          /\ copy[t].pending \in Events
      BY <1>1, <2>1 DEF IInv, WorkInHand, CopyIsCurrent, Reading, TypeOK, Doc
    <3>2. event \in Event /\ Deliver(event) /\ Increment("deliveries")
      BY <1>2, <2>4, <3>1 DEF Send, Effective, Events
    <3>3. Sends(at[t])
      BY <1>2, <2>1, <3>1, <3>2 DEF Send, Sends, history
    <3>4. /\ OneMore(Records', Records) /\ KnownEvents' = KnownEvents
          /\ Staged' = Staged /\ Applications' = Applications
      BY <3>1, <3>3, SendTallies
    <3> HIDE DEF event
    <3>5. Owed' = Owed
      <4>1. ASSUME NEW k \in Kinds, pc[k] = "marking"
            PROVE  Head(queue'[k][PartitionOf[at[k]]]) = Head(queue[k][PartitionOf[at[k]]])
        <5>1. PartitionOf[at[k]] \in Partitions /\ queue[k][PartitionOf[at[k]]] # <<>>
          BY <4>1, CurrentTypes DEF IInv
        <5> QED BY <3>2, <5>1, DeliverWork
      <4> QED BY <1>1, <2>1, <2>2, <4>1, OwedSame
    <3>6. /\ At("saved")' = At("saved") /\ At("removed")' = At("removed")
          /\ At("marking")' = At("marking") /\ At("chaining")' = At("chaining")
          /\ At("acking")' = At("acking")
      BY <1>1, <2>1, <2>2, AtMoves
    <3>7. /\ count'["enqueued"] = count["enqueued"]
          /\ count'["published"] = count["published"]
          /\ count'["consumed"] = count["consumed"]
          /\ count'["deliveries"] = count["deliveries"] + 1
          /\ count'["duplicate"] = count["duplicate"]
      BY <1>1, <3>2 DEF Increment, Counters
    <3>8. FiniteTallies' /\ Cardinality(Records') = Cardinality(Records) + 1
      BY <3>4, <3>5, <3>6 DEF FiniteTallies, OneMore
    <3>9. Balanced'
      BY <1>1, <3>4, <3>5, <3>6, <3>7, <3>8, Sizes, ExactBefore
      DEF Balanced, Uncounted, KnownAreEnqueued, EnqueuedArePublished,
        AppliedAreConsumed, DeliveredAreConsumed, Counters
    <3> QED BY <3>8, <3>9
  <2> QED BY <2>1, <2>3, <2>4
<1>3. ASSUME NEW result \in Results, RemoveHead(result)
      PROVE  FiniteTallies' /\ Balanced'
  <2>1. result \in {"ok", "failed"} /\ pc[t] = "removing" /\ UNCHANGED <<queue, count>>
    BY <1>3, ExactStep DEF RemoveHead, IInv
  <2>2. CASE result = "failed"
    <3>1. \A o \in Orders : db'[o].pending = db[o].pending
      BY <1>3, <2>2 DEF RemoveHead, Save, Effective
    <3>2. Still
      BY <1>3, <3>1 DEF RemoveHead, Still, history
    <3>3. OnlyMoves(t) /\ pc'[t] = "idle"
      BY <1>1, <1>3, <2>2, Frames DEF RemoveHead, IInv
    <3> QED BY <1>1, <2>1, <3>2, <3>3, QuietTally DEF Tallied
  <2>3. CASE result = "ok"
    <3>1. OnlyMoves(t) /\ pc'[t] = "removed"
      BY <1>1, <1>3, <2>3 DEF RemoveHead, OnlyMoves, IInv, TypeOK
    <3>2. PICK o \in Orders : Removes(o)
      <4>1. /\ at[t] \in Orders /\ pc[t] \in Reading /\ copy[t] \in Doc
            /\ copy[t].pending # <<>> /\ copy[t] = db[at[t]]
        BY <1>1, <2>1 DEF IInv, WorkInHand, TypeOK, Reading, CopyIsCurrent
      <4>2. HeadRemoved(copy[t]) \in Doc
        BY <4>1, HeadRemovedType
      <4>3. Save(t, HeadRemoved(copy[t]), result) /\ Effective(result)
        BY <1>3, <2>3 DEF RemoveHead, Effective
      <4>4. db' = [db EXCEPT ![at[t]] = Stored(HeadRemoved(copy[t]))]
        BY <2>3, <4>3 DEF Save
      <4>5. Stored(HeadRemoved(copy[t])).pending = Tail(copy[t].pending)
        BY <4>1, <4>2 DEF Stored, HeadRemoved, Doc
      <4>6. db'[at[t]].pending # db[at[t]].pending
        <5>1. PICK q \in Seq(Event) : q = copy[t].pending /\ q # <<>>
          BY <4>1 DEF Doc, Events
        <5>2. Tail(q) # q
          <6>1. Len(Tail(q)) = Len(q) - 1 /\ Len(q) \in Nat
            BY <5>1
          <6> QED BY <6>1
        <5>3. db'[at[t]].pending = Tail(q)
          BY <4>1, <4>4, <4>5, <5>1 DEF IInv, TypeOK
        <5> QED BY <4>1, <5>1, <5>2, <5>3
      <4>7. ~ Still
        BY <4>1, <4>6 DEF Still
      <4> QED BY <1>3, <4>7, RemoveHeadMoves
    <3>3. /\ OneLess(Staged', Staged) /\ KnownEvents' = KnownEvents
          /\ Records' = Records /\ Applications' = Applications
      BY <3>2, RemoveTallies
    <3>4. /\ At("saved")' = At("saved") /\ OneMore(At("removed")', At("removed"))
          /\ At("marking")' = At("marking") /\ At("chaining")' = At("chaining")
          /\ At("acking")' = At("acking")
      BY <1>1, <2>1, <3>1, AtMoves
    <3>5. Owed' = Owed
      BY <1>1, <2>1, <3>1, OwedSame
    <3>6. /\ FiniteTallies' /\ Cardinality(Staged') = Cardinality(Staged) - 1
          /\ Cardinality(At("removed")') = Cardinality(At("removed")) + 1
      BY <3>3, <3>4, <3>5 DEF FiniteTallies, OneMore, OneLess
    <3>7. Balanced'
      BY <1>1, <2>1, <3>3, <3>4, <3>5, <3>6, Sizes, ExactBefore
      DEF Balanced, Uncounted, KnownAreEnqueued, EnqueuedArePublished,
        AppliedAreConsumed, DeliveredAreConsumed, Counters
    <3> QED BY <3>6, <3>7
  <2> QED BY <2>1, <2>2, <2>3
<1>4. ASSUME CountPublished
      PROVE  FiniteTallies' /\ Balanced'
  <2>1. Still /\ pc[t] = "removed"
    BY <1>4 DEF CountPublished, Still, durable, history
  <2>2. OnlyMoves(t) /\ pc'[t] \in {"idle", "sending"}
    BY <1>1, <1>4, Frames DEF CountPublished, IInv
  <2>3. /\ count'["enqueued"] = count["enqueued"]
        /\ count'["published"] = count["published"] + 1
        /\ count'["consumed"] = count["consumed"]
        /\ count'["deliveries"] = count["deliveries"]
        /\ count'["duplicate"] = count["duplicate"]
    BY <1>1, <1>4 DEF CountPublished, Increment, Counters
  <2>4. /\ At("saved")' = At("saved") /\ OneLess(At("removed")', At("removed"))
        /\ At("marking")' = At("marking") /\ At("chaining")' = At("chaining")
        /\ At("acking")' = At("acking")
    BY <1>1, <2>1, <2>2, AtMoves
  <2>5. Owed' = Owed
    BY <1>1, <2>1, <2>2, OwedSame DEF Still
  <2>6. /\ Staged' = Staged /\ Records' = Records
        /\ Applications' = Applications /\ KnownEvents' = KnownEvents
    BY <2>1, StillTallies
  <2>7. FiniteTallies' /\ Cardinality(At("removed")') = Cardinality(At("removed")) - 1
    BY <2>4, <2>5, <2>6 DEF FiniteTallies, OneLess
  <2>8. Fits' => Fits
    BY ExactBefore
  <2>9. /\ count["enqueued"] \in Nat /\ count["published"] \in Nat
        /\ count["deliveries"] \in Nat /\ count["consumed"] \in Nat
        /\ count["duplicate"] \in Nat
    BY <1>1 DEF Counters
  <2>10. Balanced'
    BY <2>3, <2>4, <2>5, <2>6, <2>7, <2>8, <2>9, Sizes DEF Balanced, Uncounted, KnownAreEnqueued, EnqueuedArePublished,
        AppliedAreConsumed, DeliveredAreConsumed
  <2> QED BY <2>7, <2>10
<1> QED BY <1>2, <1>3, <1>4

\* A save that succeeds applies the record.
LEMMA ApplyOk ==
  ASSUME IInv, NEW k \in Kinds, Apply(k, "ok")
  PROVE  at[k] \in Orders /\ Applies(k, at[k])
<1>1. at[k] \in Orders
  BY CurrentTypes DEF Apply, IInv
<1>2. applied' # applied
  <2>1. applied \in [Orders -> Seq(EventId)]
    BY DEF IInv, TypeOK, Receipts
  <2>2. PICK s \in Seq(EventId) : s = applied[at[k]]
    BY <1>1, <2>1
  <2>3. PICK id : applied'[at[k]] = Append(s, id)
    BY <1>1, <2>1, <2>2 DEF Apply, Effective
  <2>4. Append(s, id) # s
    <3>1. Len(Append(s, id)) = Len(s) + 1 /\ Len(s) \in Nat
      OBVIOUS
    <3> QED BY <3>1
  <2> QED BY <2>2, <2>3, <2>4
<1>3. PICK o \in Orders : Applies(k, o)
  BY <1>2, ApplyMoves DEF Still, Results
<1> QED BY <1>1, <1>3 DEF Applies

\* A listener takes a record or applies it.
LEMMA ApplyTally ==
  ASSUME IInv, EventInv, AppliedOnceInWindow', [Next]_vars, FiniteTallies, Balanced, Exact',
         NEW k \in Kinds, NEW result \in Results, Apply(k, result)
  PROVE  FiniteTallies' /\ Balanced'
<1>1. k \in Threads /\ count \in [Counters -> Nat]
  BY ThreadKinds DEF IInv, TypeOK
<1>2. /\ result \in {"ok", "failed"} /\ pc[k] = "applying"
      /\ UNCHANGED <<queue, count>> /\ at[k] \in Orders
  BY ExactStep, CurrentTypes DEF Apply, IInv
<1>3. Still \/ \E o \in Orders : Applies(k, o)
  BY ApplyMoves
<1>4. CASE result = "failed"
  <2>1. UNCHANGED applied
    BY <1>4 DEF Apply, Effective
  <2>2. Still
    BY <1>3, <2>1, Traces
  <2>3. OnlyMoves(k) /\ pc'[k] = "idle"
    BY <1>1, <1>4, Frames DEF Apply, IInv
  <2> QED BY <1>1, <1>2, <2>2, <2>3, QuietTally DEF Tallied
<1>5. CASE result = "ok"
  <2>1. OnlyMoves(k) /\ pc'[k] = "marking" /\ at'[k] = at[k]
    BY <1>1, <1>5, Frames DEF Apply, IInv
  <2>3. PICK o \in Orders : Applies(k, o)
    BY <1>2, <1>5, ApplyOk
  <2>4. PICK c \in Event : c = Current(k)
    BY <1>1, <1>2, CurrentTypes DEF IInv
  <2>5. /\ At("saved")' = At("saved") /\ At("removed")' = At("removed")
        /\ OneMore(At("marking")', At("marking")) /\ At("chaining")' = At("chaining")
        /\ At("acking")' = At("acking")
    BY <1>1, <1>2, <2>1, AtMoves
  <2>6. \A j \in Kinds : j # k => (j \in Owed' <=> j \in Owed)
    BY <1>2, <2>1, OwedByOthers
  <2>7. k \notin Owed /\ (k \in Owed' <=> Downstream(c)) /\ Owed \subseteq Kinds /\ Owed' \subseteq Kinds
    BY <1>2, <2>1, <2>4 DEF Owed, Current, Record
  <2>8. /\ count["enqueued"] \in Nat /\ count["published"] \in Nat
        /\ count["deliveries"] \in Nat /\ count["consumed"] \in Nat
        /\ count["duplicate"] \in Nat
    BY <1>1 DEF Counters
  <2>9. OneMore(Applications', Applications) /\ Records' = Records
    BY <2>3, ApplyTallies
  <2>10. /\ Cardinality(Applications') = Cardinality(Applications) + 1
         /\ Cardinality(At("marking")') = Cardinality(At("marking")) + 1
    BY <2>5, <2>9 DEF FiniteTallies, OneMore
  <2>11. Fits' => Fits
    BY ExactBefore
  <2>12. CASE ~ Downstream(c)
    <3>1. Owed' = Owed
      BY <2>6, <2>7, <2>12
    <3>2. Staged' = Staged /\ KnownEvents' = KnownEvents
      BY <2>3, <2>4, <2>12, ApplyTallies
    <3>3. FiniteTallies'
      BY <2>5, <2>9, <3>1, <3>2 DEF FiniteTallies, OneMore
    <3>4. Balanced'
      BY <1>2, <2>5, <2>8, <2>9, <2>10, <2>11, <3>1, <3>2, Sizes DEF Balanced, Uncounted, KnownAreEnqueued, EnqueuedArePublished,
        AppliedAreConsumed, DeliveredAreConsumed
    <3> QED BY <3>3, <3>4
  <2>13. CASE Downstream(c)
    <3>1. OneMore(Owed', Owed)
      <4>1. Owed' = Owed \cup {k}
        BY <2>6, <2>7, <2>13
      <4> QED BY <2>7, <4>1, Gained
    <3>2. OneMore(Staged', Staged) /\ (IsFiniteSet(KnownEvents) => IsFiniteSet(KnownEvents'))
      BY <2>3, <2>4, <2>13, ApplyTallies
    <3>3. Fits' => OneMore(KnownEvents', KnownEvents)
      <4>1. Fits' => Id(c) \notin ToSet(applied[o])
        BY <2>3, <2>4, FirstTime DEF Fits
      <4> QED BY <2>3, <2>4, <2>13, <4>1, ApplyTallies
    <3>4. FiniteTallies'
      BY <2>5, <2>9, <3>1, <3>2 DEF FiniteTallies, OneMore
    <3>5. /\ Cardinality(Owed') = Cardinality(Owed) + 1
          /\ Cardinality(Staged') = Cardinality(Staged) + 1
          /\ Fits' => Cardinality(KnownEvents') = Cardinality(KnownEvents) + 1
      BY <3>1, <3>2, <3>3 DEF FiniteTallies, OneMore
    <3>6. Fits' => KnownAreEnqueued'
      BY <1>2, <2>5, <2>8, <2>9, <2>10, <2>11, <3>5, Sizes DEF Balanced, Uncounted, KnownAreEnqueued
    <3>7. EnqueuedArePublished'
      BY <1>2, <2>5, <2>8, <2>9, <2>10, <2>11, <3>5, Sizes DEF Balanced, Uncounted, EnqueuedArePublished
    <3>8. AppliedAreConsumed'
      BY <1>2, <2>5, <2>8, <2>9, <2>10, <2>11, <3>5, Sizes DEF Balanced, AppliedAreConsumed
    <3>9. DeliveredAreConsumed'
      BY <1>2, <2>5, <2>8, <2>9, <2>10, <2>11, <3>5, Sizes DEF Balanced, DeliveredAreConsumed
    <3>10. Balanced'
      BY <3>6, <3>7, <3>8, <3>9 DEF Balanced
    <3> QED BY <3>4, <3>10
  <2> QED BY <2>12, <2>13
<1> QED BY <1>2, <1>4, <1>5

\* A listener's other steps.
LEMMA ListenerTally ==
  ASSUME IInv, EventInv, [Next]_vars, FiniteTallies, Balanced, Exact',
         NEW k \in Kinds,
         \/ \E p \in Partitions : Receive(k, p)
         \/ ApplyRefused(k) \/ Mark(k) \/ CountDownstream(k) \/ Commit(k) \/ CommitLost(k)
  PROVE  FiniteTallies' /\ Balanced'
<1>1. k \in Threads /\ count \in [Counters -> Nat]
  BY ThreadKinds DEF IInv, TypeOK
<1>2. /\ count["enqueued"] \in Nat /\ count["published"] \in Nat
      /\ count["deliveries"] \in Nat /\ count["consumed"] \in Nat
      /\ count["duplicate"] \in Nat
  BY <1>1 DEF Counters
<1>3. Fits' => Fits
  BY ExactBefore
<1>4. ASSUME Still
      PROVE  /\ Staged' = Staged /\ Records' = Records
             /\ Applications' = Applications /\ KnownEvents' = KnownEvents
  BY <1>4, StillTallies
<1>5. ASSUME NEW p \in Partitions, Receive(k, p)
      PROVE  FiniteTallies' /\ Balanced'
  <2>1. Still /\ pc[k] = "idle"
    BY <1>5 DEF Receive, Still, durable, history
  <2>2. CASE ~ AlreadyProcessed(Record(k, p))
    <3>1. UNCHANGED count /\ OnlyMoves(k) /\ pc'[k] = "applying"
      BY <1>1, <1>5, <2>2, Frames DEF Receive, IInv
    <3> QED BY <1>1, <2>1, <3>1, QuietTally DEF Tallied
  <2>3. CASE AlreadyProcessed(Record(k, p))
    <3>1. OnlyMoves(k) /\ pc'[k] = "acking"
      BY <1>1, <1>5, <2>3 DEF Receive, OnlyMoves, IInv, TypeOK
    <3>2. /\ count'["enqueued"] = count["enqueued"]
          /\ count'["published"] = count["published"]
          /\ count'["consumed"] = count["consumed"]
          /\ count'["deliveries"] = count["deliveries"]
          /\ count'["duplicate"] = count["duplicate"] + 1
      BY <1>1, <1>5, <2>3 DEF Receive, Increment, Counters
    <3>3. /\ At("saved")' = At("saved") /\ At("removed")' = At("removed")
          /\ At("marking")' = At("marking") /\ At("chaining")' = At("chaining")
          /\ OneMore(At("acking")', At("acking"))
      BY <1>1, <2>1, <3>1, AtMoves
    <3>4. Owed' = Owed
      BY <1>1, <2>1, <3>1, OwedSame DEF Still
    <3>5. FiniteTallies' /\ Cardinality(At("acking")') = Cardinality(At("acking")) + 1
      BY <1>4, <2>1, <3>3, <3>4 DEF FiniteTallies, OneMore
    <3>6. Fits' => KnownAreEnqueued'
      BY <1>2, <1>3, <1>4, <2>1, <3>2, <3>3, <3>4, Sizes DEF Balanced, Uncounted, KnownAreEnqueued
    <3>7. EnqueuedArePublished'
      BY <1>2, <1>4, <2>1, <3>2, <3>3, <3>4, Sizes DEF Balanced, Uncounted, EnqueuedArePublished
    <3>8. AppliedAreConsumed'
      BY <1>2, <1>4, <2>1, <3>2, <3>3, Sizes DEF Balanced, AppliedAreConsumed
    <3>9. DeliveredAreConsumed'
      <4>1. Records' = Records
        BY <1>4, <2>1
      <4>2. /\ Cardinality(At("acking")) \in Nat /\ Cardinality(At("chaining")) \in Nat
            /\ Cardinality(Records) \in Nat
        BY Sizes
      <4>3. count["deliveries"] + Cardinality(At("chaining")) + Cardinality(At("acking"))
               = count["consumed"] + count["duplicate"] + Cardinality(Records)
        BY DEF Balanced, DeliveredAreConsumed
      <4>4. Cardinality(At("chaining")') = Cardinality(At("chaining"))
        BY <3>3
      <4>5. Cardinality(At("acking")') = Cardinality(At("acking")) + 1
        BY <3>5
      <4>6. count'["deliveries"] + Cardinality(At("chaining")') + Cardinality(At("acking")')
               = count'["consumed"] + count'["duplicate"] + Cardinality(Records')
        BY <1>2, <3>2, <4>1, <4>2, <4>3, <4>4, <4>5
      <4> QED BY <4>6 DEF DeliveredAreConsumed
    <3>10. Balanced'
      BY <3>6, <3>7, <3>8, <3>9 DEF Balanced
    <3> QED BY <3>5, <3>10
  <2> QED BY <2>2, <2>3
<1>6. ASSUME ApplyRefused(k)
      PROVE  FiniteTallies' /\ Balanced'
  <2>1. Still /\ UNCHANGED count /\ pc[k] = "applying"
    BY <1>6 DEF ApplyRefused, Still, durable, history
  <2>2. OnlyMoves(k) /\ pc'[k] = "idle"
    BY <1>1, <1>6, Frames DEF ApplyRefused, IInv
  <2> QED BY <1>1, <2>1, <2>2, QuietTally DEF Tallied
<1>7. ~ CommitLost(k)
  BY ExactStep DEF CommitLost, IInv
<1>8. ASSUME Mark(k)
      PROVE  FiniteTallies' /\ Balanced'
  <2>1. Still /\ pc[k] = "marking"
    BY <1>8 DEF Mark, Still, durable, history
  <2>2. /\ count'["enqueued"] = count["enqueued"]
        /\ count'["published"] = count["published"]
        /\ count'["consumed"] = count["consumed"] + 1
        /\ count'["deliveries"] = count["deliveries"]
        /\ count'["duplicate"] = count["duplicate"]
    BY <1>1, <1>8 DEF Mark, Increment, Counters
  <2>3. /\ OnlyMoves(k)
        /\ pc'[k] = IF Downstream(Current(k)) THEN "chaining" ELSE "acking"
    BY <1>1, <1>8, Frames DEF Mark, IInv
  <2>4. \A j \in Kinds : j # k => (j \in Owed' <=> j \in Owed)
    BY <2>1, <2>3, OwedByOthers DEF Still
  <2>5. /\ k \notin Owed' /\ (k \in Owed <=> Downstream(Current(k)))
        /\ Owed \subseteq Kinds /\ Owed' \subseteq Kinds
    BY <2>1, <2>3 DEF Owed
  <2>6. /\ At("saved")' = At("saved") /\ At("removed")' = At("removed")
        /\ OneLess(At("marking")', At("marking"))
    BY <1>1, <2>1, <2>3, AtMoves
  <2>7. Cardinality(At("marking")') = Cardinality(At("marking")) - 1
    BY <2>6 DEF FiniteTallies, OneLess
  <2>8. CASE Downstream(Current(k))
    <3>1. OneMore(At("chaining")', At("chaining")) /\ At("acking")' = At("acking")
      BY <1>1, <2>1, <2>3, <2>8, AtMoves
    <3>2. OneLess(Owed', Owed)
      <4>1. Owed' = Owed \ {k}
        BY <2>4, <2>5
      <4> QED BY <2>5, <2>8, <4>1, Dropped
    <3>3. /\ FiniteTallies' /\ Cardinality(Owed') = Cardinality(Owed) - 1
          /\ Cardinality(At("chaining")') = Cardinality(At("chaining")) + 1
      BY <1>4, <2>1, <2>6, <3>1, <3>2 DEF FiniteTallies, OneMore, OneLess
    <3>4. Fits' => KnownAreEnqueued'
      BY <1>2, <1>3, <1>4, <2>1, <2>2, <2>6, <2>7, <3>1, <3>3, Sizes DEF Balanced, Uncounted, KnownAreEnqueued
    <3>5. EnqueuedArePublished'
      BY <1>2, <1>3, <1>4, <2>1, <2>2, <2>6, <2>7, <3>1, <3>3, Sizes DEF Balanced, Uncounted, EnqueuedArePublished
    <3>6. AppliedAreConsumed'
      BY <1>2, <1>3, <1>4, <2>1, <2>2, <2>6, <2>7, <3>1, <3>3, Sizes DEF Balanced, AppliedAreConsumed
    <3>7. DeliveredAreConsumed'
      BY <1>2, <1>3, <1>4, <2>1, <2>2, <2>6, <2>7, <3>1, <3>3, Sizes DEF Balanced, DeliveredAreConsumed
    <3>8. Balanced'
      BY <3>4, <3>5, <3>6, <3>7 DEF Balanced
    <3> QED BY <3>3, <3>8
  <2>9. CASE ~ Downstream(Current(k))
    <3>1. OneMore(At("acking")', At("acking")) /\ At("chaining")' = At("chaining")
      BY <1>1, <2>1, <2>3, <2>9, AtMoves
    <3>2. Owed' = Owed
      BY <2>4, <2>5, <2>9
    <3>3. /\ FiniteTallies'
          /\ Cardinality(At("acking")') = Cardinality(At("acking")) + 1
      BY <1>4, <2>1, <2>6, <3>1, <3>2 DEF FiniteTallies, OneMore, OneLess
    <3>4. Balanced'
      BY <1>2, <1>3, <1>4, <2>1, <2>2, <2>6, <2>7, <3>1, <3>2, <3>3, Sizes
      DEF Balanced, Uncounted, KnownAreEnqueued, EnqueuedArePublished,
        AppliedAreConsumed, DeliveredAreConsumed
    <3> QED BY <3>3, <3>4
  <2> QED BY <2>8, <2>9
<1>9. ASSUME CountDownstream(k)
      PROVE  FiniteTallies' /\ Balanced'
  <2>1. Still /\ pc[k] = "chaining"
    BY <1>9 DEF CountDownstream, Still, durable, history
  <2>2. /\ count'["enqueued"] = count["enqueued"] + 1
        /\ count'["published"] = count["published"]
        /\ count'["consumed"] = count["consumed"]
        /\ count'["deliveries"] = count["deliveries"]
        /\ count'["duplicate"] = count["duplicate"]
    BY <1>1, <1>9 DEF CountDownstream, Increment, Counters
  <2>3. OnlyMoves(k) /\ pc'[k] = "acking"
    BY <1>1, <1>9, Frames DEF CountDownstream, IInv
  <2>4. /\ At("saved")' = At("saved") /\ At("removed")' = At("removed")
        /\ At("marking")' = At("marking") /\ OneLess(At("chaining")', At("chaining"))
        /\ OneMore(At("acking")', At("acking"))
    BY <1>1, <2>1, <2>3, AtMoves
  <2>5. Owed' = Owed
    BY <1>1, <2>1, <2>3, OwedSame DEF Still
  <2>6. /\ FiniteTallies'
        /\ Cardinality(At("acking")') = Cardinality(At("acking")) + 1
        /\ Cardinality(At("chaining")') = Cardinality(At("chaining")) - 1
    BY <1>4, <2>1, <2>4, <2>5 DEF FiniteTallies, OneMore, OneLess
  <2>7. Balanced'
    BY <1>2, <1>3, <1>4, <2>1, <2>2, <2>4, <2>5, <2>6, Sizes DEF Balanced, Uncounted, KnownAreEnqueued, EnqueuedArePublished,
        AppliedAreConsumed, DeliveredAreConsumed
  <2> QED BY <2>6, <2>7
<1>10. ASSUME Commit(k)
       PROVE  FiniteTallies' /\ Balanced'
  <2>1. at[k] \in Orders /\ pc[k] = "acking" /\ UNCHANGED count
    BY <1>10, CurrentTypes DEF Commit, IInv
  <2>2. Commits(k, at[k])
    BY <1>10 DEF Commit, Commits, history
  <2>3. /\ OneLess(Records', Records) /\ KnownEvents' = KnownEvents
        /\ Staged' = Staged /\ Applications' = Applications
    BY <2>1, <2>2, CommitTallies
  <2>4. OnlyMoves(k) /\ pc'[k] = "idle"
    BY <1>1, <1>10, Frames DEF Commit, IInv
  <2>5. /\ At("saved")' = At("saved") /\ At("removed")' = At("removed")
        /\ At("marking")' = At("marking") /\ At("chaining")' = At("chaining")
        /\ OneLess(At("acking")', At("acking"))
    BY <1>1, <2>1, <2>4, AtMoves
  <2>6. Owed' = Owed
    <3>1. \A j \in Kinds : j # k => queue'[j] = queue[j]
      BY <1>10 DEF Commit, IInv, TypeOK
    <3> QED BY <1>1, <2>1, <2>4, <3>1, OwedSame
  <2>7. /\ FiniteTallies'
        /\ Cardinality(At("acking")') = Cardinality(At("acking")) - 1
        /\ Cardinality(Records') = Cardinality(Records) - 1
    BY <2>3, <2>5, <2>6 DEF FiniteTallies, OneLess
  <2>8. Fits' => KnownAreEnqueued'
    BY <1>2, <1>3, <2>1, <2>3, <2>5, <2>6, <2>7, Sizes DEF Balanced, Uncounted, KnownAreEnqueued
  <2>9. EnqueuedArePublished'
    BY <1>2, <1>3, <2>1, <2>3, <2>5, <2>6, <2>7, Sizes DEF Balanced, Uncounted, EnqueuedArePublished
  <2>10. AppliedAreConsumed'
    BY <1>2, <1>3, <2>1, <2>3, <2>5, <2>6, <2>7, Sizes DEF Balanced, AppliedAreConsumed
  <2>11. DeliveredAreConsumed'
    BY <1>2, <1>3, <2>1, <2>3, <2>5, <2>6, <2>7, Sizes DEF Balanced, DeliveredAreConsumed
  <2>12. Balanced'
    BY <2>8, <2>9, <2>10, <2>11 DEF Balanced
  <2> QED BY <2>7, <2>12
<1> QED BY <1>5, <1>6, <1>7, <1>8, <1>9, <1>10

\* Every step keeps effects and counters balanced.
LEMMA CountStep ==
  ASSUME IInv, EventInv, AppliedOnceInWindow', CountInv, [Next]_vars
  PROVE  CountInv'
<1> DEFINE Goal == FiniteTallies' /\ Balanced'
<1> SUFFICES ASSUME Exact' PROVE Goal
  BY DEF CountInv
<1>1. FiniteTallies /\ Balanced
  BY ExactBefore DEF CountInv
<1>2. ASSUME NEW t \in Callers, Caller(t)
      PROVE  Goal
  BY <1>1, <1>2, CallerTally, Zenon DEF Caller
<1>3. ASSUME Dispatcher \/ CountPublished
      PROVE  Goal
  BY <1>1, <1>3, DispatcherTally, Zenon DEF Dispatcher
<1>4. ASSUME NEW k \in Kinds, Listener(k)
      PROVE  Goal
  BY <1>1, <1>4, ApplyTally, ListenerTally, Zenon DEF Listener
<1>5. ASSUME UNCHANGED <<threads, durable, count, history>>
      PROVE  Goal
  <2>1. Still
    BY <1>5 DEF Still, durable, history
  <2>2. PICK t : t = "dispatch" /\ t \in Threads
    BY ThreadKinds
  <2>3. OnlyMoves(t) /\ pc'[t] = pc[t] /\ pc[t] = pc'[t]
    BY <1>5 DEF OnlyMoves, threads
  <2>4. \A s : At(s)' = At(s)
    BY <1>5 DEF At, threads
  <2>5. Owed' = Owed
    BY <1>5, <2>1 DEF Owed, Current, Record, threads, Still
  <2>6. /\ Staged' = Staged /\ Records' = Records
        /\ Applications' = Applications /\ KnownEvents' = KnownEvents
    BY <2>1, StillTallies
  <2>7. /\ At("saved")' = At("saved") /\ At("removed")' = At("removed")
        /\ At("marking")' = At("marking") /\ At("chaining")' = At("chaining")
        /\ At("acking")' = At("acking")
    BY <2>4
  <2>8. FiniteTallies'
    BY <1>1, <2>5, <2>6, <2>7 DEF FiniteTallies
  <2>9. Fits' => Fits
    BY ExactBefore
  <2>10. Balanced'
    BY <1>1, <1>5, <2>5, <2>6, <2>7, <2>9
    DEF Balanced, Uncounted, KnownAreEnqueued, EnqueuedArePublished, AppliedAreConsumed,
        DeliveredAreConsumed
  <2> QED BY <2>8, <2>10
<1>6. ASSUME NEW t \in Threads, NEW o \in Orders, NEW step, Acquire(t, o, step),
             pc[t] = "idle", step \notin Tallied, Still, UNCHANGED count
      PROVE  Goal
  <2>1. OnlyMoves(t) /\ pc'[t] = step
    BY <1>6, Frames DEF IInv
  <2> QED BY <1>1, <1>6, <2>1, QuietTally DEF Tallied
<1>7. ASSUME NEW t \in Http, NEW o \in Orders, HttpBegin(t, o)
      PROVE  Goal
  <2>1. /\ Acquire(t, o, "calling") /\ pc[t] = "idle" /\ Still /\ UNCHANGED count
        /\ "calling" \notin Tallied /\ t \in Threads
    BY <1>7, ThreadKinds DEF HttpBegin, Still, durable, history, Tallied
  <2> QED BY <1>6, <2>1
<1>8. ASSUME NEW s \in Schedulers, NEW o \in Orders, TakeCandidate(s, o)
      PROVE  Goal
  <2>1. pc[s] = "idle" /\ Still /\ UNCHANGED <<durable, count, history>> /\ s \in Threads
    BY <1>8, ThreadKinds DEF TakeCandidate, Still, durable, history
  <2>2. CASE StillDue(s, db[o])
    <3>1. Acquire(s, o, FirstStep(s)) /\ FirstStep(s) \notin Tallied
      BY <1>8, <2>2 DEF TakeCandidate, FirstStep, Tallied
    <3> QED BY <1>6, <2>1, <3>1
  <2>3. CASE ~ StillDue(s, db[o])
    BY <1>5, <1>8, <2>1, <2>3 DEF TakeCandidate
  <2> QED BY <2>2, <2>3
<1>9. ASSUME \/ \E s \in Schedulers : Query(s)
             \/ \E id \in cache : Forget(id)
             \/ UNCHANGED vars
      PROVE  Goal
  BY <1>5, <1>9 DEF Query, Forget, vars
<1>10. ~ Crash
  BY ExactStep DEF Crash, IInv
<1> HIDE DEF Goal
<1> QED
  BY <1>2, <1>3, <1>4, <1>7, <1>8, <1>9, <1>10, Zenon DEF Next, Scheduler

\* Nothing is under way or known at first.
LEMMA CountInit == Init => CountInv
<1> SUFFICES ASSUME Init PROVE FiniteTallies /\ Balanced
  BY DEF CountInv
<1>1. /\ At("saved") = {} /\ At("removed") = {} /\ At("marking") = {}
      /\ At("chaining") = {} /\ At("acking") = {} /\ Owed = {}
  BY ThreadKinds DEF Init, At, Owed
<1>2. \A o \in Orders : Known(o) = {}
  <2> SUFFICES ASSUME NEW o \in Orders PROVE Known(o) = {}
    OBVIOUS
  <2>1. PartitionOf[o] \in Partitions
    BY PipelineAssumption
  <2>2. db[o].pending = <<>> /\ applied[o] = <<>>
        /\ \A k \in Kinds : queue[k][PartitionOf[o]] = <<>>
    BY <2>1 DEF Init, NewOrder
  <2>3. ToSet(<<>>) = {}
    BY DEF ToSet
  <2> QED BY <2>2, <2>3 DEF Known, Waiting, Queued
<1>3. KnownEvents = {}
  BY <1>2 DEF KnownEvents
<1>4. Staged = {} /\ Records = {} /\ Applications = {}
  BY DEF Init, NewOrder, Staged, Records, Applications, Slots
<1>5. FiniteTallies
  BY <1>1, <1>3, <1>4, FS_EmptySet DEF FiniteTallies
<1>6. \A c \in Counters : count[c] = 0
  BY DEF Init
<1>7. Balanced
  BY <1>1, <1>3, <1>4, <1>6, FS_EmptySet
  DEF Balanced, Uncounted, KnownAreEnqueued, EnqueuedArePublished, AppliedAreConsumed,
      DeliveredAreConsumed, Counters
<1> QED BY <1>5, <1>7

LEMMA CountInvariance == Spec => [](LedgerInv /\ WindowInv /\ CountInv)
<1>1. ASSUME IInv, EventInv, AppliedOnceInWindow', CountInv, [Next]_vars
      PROVE  CountInv'
  BY <1>1, CountStep
<1> QED BY <1>1, CountInit, LedgerInvariance, WindowInvariance, PTL DEF Spec, LedgerInv

\* While every effect was acknowledged and the replica has not restarted, the counters
\* account for every event whenever no operation is under way: with every number of
\* orders, threads, partitions and faults, and every interleaving of the counting
\* with the effects.
THEOREM CountersAddUp == Spec => []CountersAccount
<1>1. ASSUME LedgerInv, CountInv
      PROVE  CountersAccount
  <2> SUFFICES ASSUME Quiet, Exact
               PROVE  /\ Fits => count["enqueued"] = Cardinality(KnownEvents)
                      /\ count["enqueued"] = count["published"] + Cardinality(Staged)
                      /\ count["consumed"] = Cardinality(Applications)
                      /\ count["deliveries"] =
                           count["consumed"] + count["duplicate"] + Cardinality(Records)
    BY DEF CountersAccount
  <2>1. FiniteTallies /\ Balanced
    BY <1>1 DEF CountInv
  <2>2. /\ At("saved") = {} /\ At("removed") = {} /\ At("marking") = {}
        /\ At("chaining") = {} /\ At("acking") = {} /\ Owed = {}
    BY ThreadKinds DEF Quiet, At, Owed
  <2>3. Cardinality({}) = 0
    BY FS_EmptySet
  <2>4. count \in [Counters -> Nat]
    BY <1>1 DEF LedgerInv, IInv, TypeOK
  <2>5. /\ count["enqueued"] \in Nat /\ count["published"] \in Nat
        /\ count["deliveries"] \in Nat /\ count["consumed"] \in Nat
        /\ count["duplicate"] \in Nat
    BY <2>4 DEF Counters
  <2>6. /\ Cardinality(KnownEvents) \in Nat /\ Cardinality(Staged) \in Nat
        /\ Cardinality(Records) \in Nat /\ Cardinality(Applications) \in Nat
    BY <2>1, Sizes
  <2>7. Fits => count["enqueued"] = Cardinality(KnownEvents)
    BY <2>1, <2>2, <2>3, <2>5, <2>6 DEF Balanced, Uncounted, KnownAreEnqueued
  <2>8. count["enqueued"] = count["published"] + Cardinality(Staged)
    BY <2>1, <2>2, <2>3, <2>5, <2>6 DEF Balanced, Uncounted, EnqueuedArePublished
  <2>9. count["consumed"] = Cardinality(Applications)
    BY <2>1, <2>2, <2>3, <2>5, <2>6 DEF Balanced, AppliedAreConsumed
  <2>10. count["deliveries"] =
           count["consumed"] + count["duplicate"] + Cardinality(Records)
    BY <2>1, <2>2, <2>3, <2>5, <2>6 DEF Balanced, DeliveredAreConsumed
  <2> QED BY <2>7, <2>8, <2>9, <2>10
<1> QED BY <1>1, CountInvariance, PTL

-----------------------------------------------------------------------------
(* Who acts in a step, and what it leaves alone *)

\* A caller takes up an order.
Begins(t) ==
  \E o \in Orders : \/ t \in Http /\ HttpBegin(t, o)
                    \/ t \in Schedulers /\ TakeCandidate(t, o) /\ StillDue(t, db[o])

\* A step is a crash, moves no thread, or moves the one thread that acts.
LEMMA Actors ==
  ASSUME IInv, [Next]_vars
  PROVE  \/ Crash
         \/ UNCHANGED <<threads, durable, history>>
         \/ \E t \in Callers : OnlyMoves(t) /\ (Begins(t) \/ Caller(t))
         \/ OnlyMoves("dispatch") /\ UNCHANGED issued
         \/ \E k \in Kinds : OnlyMoves(k) /\ Listener(k)
<1> USE ThreadKinds DEF IInv
<1> DEFINE Goal == \/ Crash
                   \/ UNCHANGED <<threads, durable, history>>
                   \/ \E t \in Callers : OnlyMoves(t) /\ (Begins(t) \/ Caller(t))
                   \/ OnlyMoves("dispatch") /\ UNCHANGED issued
                   \/ \E k \in Kinds : OnlyMoves(k) /\ Listener(k)
<1>1. ASSUME NEW t \in Http, NEW o \in Orders, HttpBegin(t, o)
      PROVE  Goal
  <2>1. t \in Callers /\ Begins(t)
    BY <1>1 DEF Callers, Begins
  <2>2. OnlyMoves(t)
    BY <1>1, Frames DEF HttpBegin
  <2> QED BY <2>1, <2>2
<1>2. ASSUME NEW s \in Schedulers, NEW o \in Orders, TakeCandidate(s, o)
      PROVE  Goal
  <2>1. CASE ~ StillDue(s, db[o])
    BY <1>2, <2>1 DEF TakeCandidate
  <2>2. CASE StillDue(s, db[o])
    <3>1. OnlyMoves(s) /\ UNCHANGED issued
      BY <1>2, <2>2, Frames DEF TakeCandidate, history
    <3>2. Begins(s)
      BY <1>2, <2>2 DEF Begins
    <3>3. s = "dispatch" \/ s \in Callers
      BY DEF Schedulers, Callers
    <3> QED BY <3>1, <3>2, <3>3
  <2> QED BY <2>1, <2>2
<1>3. ASSUME NEW t \in Callers, Caller(t)
      PROVE  Goal
  <2>1. OnlyMoves(t)
    BY <1>3, Frames
    DEF Caller, SaveStatusChange, CountEnqueued, CallFails, StageRefused
  <2> QED BY <1>3, <2>1
<1>4. ASSUME NEW result \in Results, Send(result)
      PROVE  Goal
  <2>1. Goto("dispatch", "resending") \/ Goto("dispatch", "removing") \/ Finish("dispatch")
    BY <1>4, Zenon DEF Send
  <2>2. OnlyMoves("dispatch")
    BY <2>1, Frames
  <2> QED BY <1>4, <2>2 DEF Send, history
<1>5. ASSUME NEW result \in Results, RemoveHead(result)
      PROVE  Goal
  <2>1. CASE result = "ok"
    BY <1>5, <2>1 DEF RemoveHead, OnlyMoves, TypeOK, history
  <2>2. CASE result # "ok"
    BY <1>5, <2>2, Frames DEF RemoveHead, history
  <2> QED BY <2>1, <2>2
<1>6. ASSUME CountPublished
      PROVE  Goal
  BY <1>6, Frames DEF CountPublished, history
<1>7. ASSUME NEW k \in Kinds, Listener(k)
      PROVE  Goal
  <2>1. ASSUME NEW p \in Partitions, Receive(k, p)
        PROVE  OnlyMoves(k)
    <3>1. CASE AlreadyProcessed(Record(k, p))
      BY <2>1, <3>1 DEF Receive, OnlyMoves, TypeOK
    <3>2. CASE ~ AlreadyProcessed(Record(k, p))
      BY <2>1, <3>2, Frames DEF Receive
    <3> QED BY <3>1, <3>2
  <2>2. ASSUME NEW result \in Results, Apply(k, result)
        PROVE  OnlyMoves(k)
    BY <2>2, Frames DEF Apply
  <2>3. ASSUME ApplyRefused(k) \/ Mark(k) \/ CountDownstream(k) \/ Commit(k) \/ CommitLost(k)
        PROVE  OnlyMoves(k)
    BY <2>3, Frames DEF ApplyRefused, Mark, CountDownstream, Commit, CommitLost
  <2>4. OnlyMoves(k)
    BY <1>7, <2>1, <2>2, <2>3, Zenon DEF Listener
  <2> QED BY <1>7, <2>4
<1>8. ASSUME \/ \E s \in Schedulers : Query(s)
             \/ \E id \in cache : Forget(id)
             \/ UNCHANGED vars
      PROVE  Goal
  BY <1>8 DEF Query, Forget, vars
<1> HIDE DEF Goal
<1>9. Goal
  BY <1>1, <1>2, <1>3, <1>4, <1>5, <1>6, <1>7, <1>8, Zenon
  DEF Next, Scheduler, Dispatcher, Goal
<1> QED BY <1>9 DEF Goal

\* The record of a listener stays at its head until it is committed.
LEMMA HeadStays ==
  ASSUME IInv, [Next]_vars, NEW k \in Kinds, pc[k] \notin {"idle", "acking"}
  PROVE  Head(queue'[k][PartitionOf[at[k]]]) = Head(queue[k][PartitionOf[at[k]]])
<1>1. PartitionOf[at[k]] \in Partitions /\ queue[k][PartitionOf[at[k]]] # <<>>
  BY CurrentTypes DEF IInv
<1>2. CASE UNCHANGED queue
  BY <1>2
<1>3. ASSUME NEW o \in Orders, Sends(o)
      PROVE  Head(queue'[k][PartitionOf[at[k]]]) = Head(queue[k][PartitionOf[at[k]]])
  <2>1. db[o].pending \in Events /\ db[o].pending # <<>>
    BY <1>3, MemberTypes DEF Sends, IInv
  <2>2. PICK e \in Event : e = Head(db[o].pending)
    BY <2>1 DEF Events
  <2>3. Deliver(e)
    BY <1>3, <2>2 DEF Sends
  <2> QED BY <1>1, <2>3, DeliverWork
<1>4. ASSUME NEW j \in Kinds, NEW o \in Orders, Commits(j, o)
      PROVE  Head(queue'[k][PartitionOf[at[k]]]) = Head(queue[k][PartitionOf[at[k]]])
  <2>1. j # k
    BY <1>4 DEF Commits
  <2> QED BY <1>4, <2>1 DEF Commits, IInv, TypeOK
<1>5. Still \/ \E i \in Orders : Moves(i)
  BY EventStep
<1> QED BY <1>2, <1>3, <1>4, <1>5, Zenon DEF Still, Moves, Announces, Removes, Applies

\* Only a caller that has its answer changes the status of its order.
LEMMA StatusesStay ==
  ASSUME IInv, [Next]_vars, NEW o \in Orders,
         \A t \in Callers : pc[t] # "idle" => at[t] # o
  PROVE  /\ db'[o].status = db[o].status /\ db'[o].attempts = db[o].attempts
         /\ issued'[o] = issued[o]
<1> DEFINE Goal == /\ db'[o].status = db[o].status /\ db'[o].attempts = db[o].attempts
                   /\ issued'[o] = issued[o]
<1>1. ASSUME UNCHANGED db, UNCHANGED issued
      PROVE  Goal
  BY <1>1
<1>2. ASSUME NEW t \in Threads, pc[t] \in Reading, NEW doc \in Doc, NEW result,
             Save(t, doc, result), UNCHANGED issued,
             doc.status = copy[t].status, doc.attempts = copy[t].attempts
      PROVE  Goal
  <2>1. at[t] \in Orders /\ copy[t] = db[at[t]]
    BY <1>2 DEF IInv, WorkInHand, CopyIsCurrent, Reading
  <2>2. db' = db \/ db' = [db EXCEPT ![at[t]] = Stored(doc)]
    BY <1>2 DEF Save
  <2>3. Stored(doc).status = doc.status /\ Stored(doc).attempts = doc.attempts
    BY <1>2 DEF Stored, Doc
  <2> QED BY <1>2, <2>1, <2>2, <2>3 DEF IInv, TypeOK
<1>3. ASSUME NEW result \in Results, RemoveHead(result)
      PROVE  Goal
  <2> DEFINE t == "dispatch"
  <2>1. /\ t \in Threads /\ pc[t] \in Reading /\ copy[t] \in Doc /\ copy[t].pending # <<>>
    BY <1>3, ThreadKinds DEF RemoveHead, IInv, WorkInHand, TypeOK, Reading
  <2>2. /\ HeadRemoved(copy[t]) \in Doc
        /\ HeadRemoved(copy[t]).status = copy[t].status
        /\ HeadRemoved(copy[t]).attempts = copy[t].attempts
    BY <2>1, HeadRemovedType DEF HeadRemoved, Doc
  <2> QED BY <1>2, <1>3, <2>1, <2>2 DEF RemoveHead, history
<1>4. ASSUME NEW k \in Kinds, NEW result \in Results, Apply(k, result)
      PROVE  Goal
  <2>1. /\ k \in Threads /\ pc[k] \in Reading /\ copy[k] \in Doc /\ Current(k) \in Event
    BY <1>4, ThreadKinds, CurrentTypes DEF Apply, IInv, TypeOK, Reading
  <2>2. PICK c \in Event : c = Current(k)
    BY <2>1
  <2>3. /\ Applied(copy[k], c) \in Doc
        /\ Applied(copy[k], c).status = copy[k].status
        /\ Applied(copy[k], c).attempts = copy[k].attempts
    BY <2>1, AppliedType DEF Applied, Stage, WithReceipt, Doc
  <2> QED BY <1>2, <1>4, <2>1, <2>2, <2>3 DEF Apply
<1>5. ASSUME NEW t \in Callers, NEW outcome, NEW result, SaveStatusChange(t, outcome, result)
      PROVE  Goal
  <2>1. pc[t] # "idle" /\ at[t] # o
    BY <1>5 DEF SaveStatusChange
  <2>2. issued'[o] = issued[o]
    BY <1>5, <2>1 DEF SaveStatusChange, IInv, TypeOK
  <2>3. PICK doc : Save(t, doc, result)
    BY <1>5 DEF SaveStatusChange
  <2>4. db'[o] = db[o]
    BY <2>1, <2>3 DEF Save, IInv, TypeOK
  <2> QED BY <2>2, <2>4
<1>6. ASSUME \/ \E t \in Http, i \in Orders : HttpBegin(t, i)
             \/ \E s \in Schedulers : Scheduler(s)
             \/ \E t \in Callers : CountEnqueued(t) \/ CallFails(t) \/ StageRefused(t)
             \/ CountPublished \/ \E result \in Results : Send(result)
      PROVE  Goal
  BY <1>1, <1>6, Zenon
  DEF HttpBegin, Scheduler, Query, TakeCandidate, CountEnqueued, CallFails, StageRefused,
      CountPublished, Send, durable, history
<1>7. ASSUME \/ \E k \in Kinds : \/ \E p \in Partitions : Receive(k, p)
                                 \/ ApplyRefused(k) \/ Mark(k) \/ CountDownstream(k)
                                 \/ Commit(k) \/ CommitLost(k)
             \/ \E id \in cache : Forget(id)
             \/ Crash
             \/ UNCHANGED vars
      PROVE  Goal
  BY <1>1, <1>7, Zenon
  DEF Receive, ApplyRefused, Mark, CountDownstream, Commit, CommitLost, Forget, Crash, vars,
      durable, history
<1> HIDE DEF Goal
<1>8. Goal
  BY <1>3, <1>4, <1>5, <1>6, <1>7, Zenon DEF Next, Caller, Dispatcher, Listener
<1> QED BY <1>8 DEF Goal

-----------------------------------------------------------------------------
(* The business event of a completion waits for its listener: it is staged    *)
(* under the lock of the order and cannot be sent before that lock is free.   *)

ChildId(k) == <<"business", Current(k).n>>

\* A listener counts a business event only if there is one, and until it has done so
\* the event has not left the outbox (while no order is beyond its receipts).
ChildInv(k) ==
  /\ pc[k] = "chaining" => Downstream(Current(k))
  /\ Fits /\ pc[k] \in {"marking", "chaining"} /\ Downstream(Current(k)) =>
       ChildId(k) \notin SentIds(at[k])

ChildrenWait == \A k \in Kinds : ChildInv(k)

\* The dispatcher sends nothing of an order that a listener has locked.
LEMMA NotSent ==
  ASSUME IInv, NEW k \in Kinds, pc[k] \in {"applying", "marking", "chaining"}
  PROVE  ~ Sends(at[k])
<1>1. at[k] \in Orders /\ k \in Threads /\ "dispatch" \in Threads /\ k # "dispatch"
  BY ThreadKinds, CurrentTypes DEF IInv
<1>2. pc[k] \in Locked /\ (Sends(at[k]) => pc["dispatch"] \in Locked /\ at["dispatch"] = at[k])
  BY DEF Locked, Steps, Sends
<1> QED BY <1>1, <1>2, OneHolder DEF IInv

\* The child of a record is not sent while its listener stays where it is ...
LEMMA ChildStays ==
  ASSUME IInv, EventInv, [Next]_vars, NEW k \in Kinds, ChildInv(k),
         pc'[k] = pc[k], at'[k] = at[k]
  PROVE  ChildInv(k)'
<1>1. CASE pc[k] \notin {"marking", "chaining"}
  BY <1>1 DEF ChildInv
<1>2. CASE pc[k] \in {"marking", "chaining"}
  <2>1. Head(queue'[k][PartitionOf[at[k]]]) = Head(queue[k][PartitionOf[at[k]]])
    BY <1>2, HeadStays
  <2>2. Current(k)' = Current(k)
    BY <2>1 DEF Current, Record
  <2>3. at[k] \in Orders
    BY <1>2, CurrentTypes DEF IInv
  <2>4. ASSUME Fits', Downstream(Current(k)), ChildId(k)' \in SentIds(at[k])'
        PROVE  FALSE
    <3>1. PICK id : id = ChildId(k) /\ id = ChildId(k)'
      BY <2>2 DEF ChildId
    <3>2. id \notin SentIds(at[k])
      BY <1>2, <2>4, <3>1, ExactBefore DEF ChildInv
    <3>3. PICK o \in Orders : o = at[k]
      BY <2>3
    <3>4. id \in SentIds(o)'
      BY <2>4, <3>1, <3>3
    <3>5. Sends(o)
      BY <3>2, <3>3, <3>4, SentNew DEF EventInv
    <3> QED BY <1>2, <3>3, <3>5, NotSent
  <2> QED BY <1>2, <2>2, <2>3, <2>4 DEF ChildInv
<1> QED BY <1>1, <1>2

\* ... and when the listener has just applied the record, the child is new.
LEMMA ChildNew ==
  ASSUME IInv, EventInv, AppliedOnceInWindow', [Next]_vars, NEW k \in Kinds, Apply(k, "ok")
  PROVE  ChildInv(k)'
<1>1. PICK o \in Orders : o = at[k] /\ Applies(k, o)
  BY ApplyOk
<1>2. k \in Threads /\ pc[k] = "applying" /\ UNCHANGED queue
  BY ThreadKinds DEF Apply
<1>3. pc'[k] = "marking" /\ at'[k] = o
  BY <1>1, <1>2, Frames DEF Apply, IInv
<1>4. PICK e \in Event : e = Current(k) /\ Current(k)' = e
  BY <1>1, <1>2, <1>3, CurrentTypes DEF IInv, Current, Record
<1>5. ASSUME Fits', Downstream(e), <<"business", e.n>> \in SentIds(o)'
      PROVE  FALSE
  <2>1. ~ Sends(o)
    BY <1>1, <1>2, NotSent
  <2>2. PICK id : id = <<"business", e.n>>
    OBVIOUS
  <2>3. id \in SentIds(o)
    BY <1>5, <2>1, <2>2, SentNew DEF EventInv
  <2>4. id \in Known(o)
    BY <2>3, KnownParts
  <2>5. Grounded(o, id)
    BY <2>4, KnownGrounded DEF EventInv
  <2>6. <<"status", e.n>> \in ToSet(applied[o])
    BY <2>2, <2>5 DEF Grounded
  <2>7. Id(Current(k)) = <<"status", e.n>>
    BY <1>4, <1>5 DEF Id, Downstream
  <2>8. Len(applied'[o]) <= EventIds
    BY <1>5 DEF Fits
  <2> QED BY <1>1, <2>6, <2>7, <2>8, FirstTime
<1>6. SentIds(at[k])' = SentIds(o)'
  BY <1>3 DEF SentIds, Queued
<1> QED BY <1>3, <1>4, <1>5, <1>6 DEF ChildInv, ChildId

LEMMA ChildStep ==
  ASSUME IInv, EventInv, AppliedOnceInWindow', ChildrenWait, [Next]_vars
  PROVE  ChildrenWait'
<1> SUFFICES ASSUME NEW k \in Kinds PROVE ChildInv(k)'
  BY DEF ChildrenWait
<1> USE ThreadKinds
<1>1. ASSUME pc'[k] \notin {"marking", "chaining"}
      PROVE  ChildInv(k)'
  BY <1>1 DEF ChildInv
<1>2. ASSUME Mark(k)
      PROVE  ChildInv(k)'
  <2> USE DEF ChildrenWait
  <2>1. CASE ~ Downstream(Current(k))
    <3>1. pc'[k] = "acking"
      BY <1>2, <2>1, Frames DEF Mark, IInv
    <3> QED BY <1>1, <3>1
  <2>2. CASE Downstream(Current(k))
    <3>1. /\ pc[k] = "marking" /\ pc'[k] = "chaining" /\ at'[k] = at[k] /\ UNCHANGED <<queue, applied>>
      BY <1>2, <2>2, Frames DEF Mark, IInv, durable, history
    <3>2. Current(k)' = Current(k) /\ (Fits' => Fits)
      BY <3>1 DEF Current, Record, Fits
    <3>3. SentIds(at[k])' = SentIds(at[k])
      BY <3>1 DEF SentIds, Queued
    <3> QED BY <2>2, <3>1, <3>2, <3>3 DEF ChildInv, ChildId
  <2> QED BY <2>1, <2>2
<1>3. ASSUME NEW result \in Results, Apply(k, result)
      PROVE  ChildInv(k)'
  <2>1. CASE result = "ok"
    BY <1>3, <2>1, ChildNew
  <2>2. CASE result # "ok"
    <3>1. pc'[k] = "idle"
      BY <1>3, <2>2, Frames DEF Apply, IInv
    <3> QED BY <1>1, <3>1
  <2> QED BY <2>1, <2>2
<1>4. ASSUME NEW p \in Partitions, Receive(k, p)
      PROVE  ChildInv(k)'
  <2>1. pc'[k] \in {"acking", "applying"}
    BY <1>4, Frames DEF Receive, IInv, TypeOK
  <2> QED BY <1>1, <2>1
<1>5. ASSUME ApplyRefused(k) \/ CountDownstream(k) \/ Commit(k) \/ CommitLost(k)
      PROVE  ChildInv(k)'
  <2>1. pc'[k] \in {"idle", "acking"}
    BY <1>5, Frames DEF ApplyRefused, CountDownstream, Commit, CommitLost, IInv
  <2> QED BY <1>1, <2>1
<1>6. ASSUME Listener(k)
      PROVE  ChildInv(k)'
  BY <1>2, <1>3, <1>4, <1>5, <1>6, Zenon DEF Listener
<1>7. ASSUME Crash
      PROVE  ChildInv(k)'
  BY <1>1, <1>7 DEF Crash
<1>8. ASSUME pc'[k] = pc[k], at'[k] = at[k]
      PROVE  ChildInv(k)'
  BY <1>8, ChildStays DEF ChildrenWait
<1>9. ASSUME NEW t, OnlyMoves(t), t # k
      PROVE  ChildInv(k)'
  BY <1>8, <1>9 DEF OnlyMoves
<1>10. UNCHANGED threads => ChildInv(k)'
  BY <1>8 DEF threads
<1>11. \/ Crash \/ UNCHANGED threads \/ Listener(k) \/ \E t : OnlyMoves(t) /\ t # k
  BY Actors
<1> QED BY <1>6, <1>7, <1>9, <1>10, <1>11

-----------------------------------------------------------------------------
(* What callers leave behind *)

\* A caller that has saved a status change still holds the lock under which it
\* staged the event.
SavedStaged == \A t \in Callers : pc[t] = "saved" => db[at[t]].pending # <<>>

\* An outbox is emptied only by the dispatcher, under the lock of the order.
LEMMA StagedStays ==
  ASSUME IInv, [Next]_vars, NEW t \in Callers, pc[t] = "saved", db[at[t]].pending # <<>>
  PROVE  db'[at[t]].pending # <<>>
<1>1. /\ at[t] \in Orders /\ t \in Threads /\ "dispatch" \in Threads /\ t # "dispatch"
      /\ db[at[t]].pending \in Events
  BY ThreadKinds DEF IInv, WorkInHand, TypeOK, Doc
<1>2. PICK o \in Orders : o = at[t]
  BY <1>1
<1>3. \A x : Append(db[o].pending, x) # <<>>
  BY <1>1, <1>2 DEF Events
<1>4. ~ Removes(o)
  <2>1. pc[t] \in Locked /\ (Removes(o) => pc["dispatch"] \in Locked /\ at["dispatch"] = o)
    BY DEF Locked, Steps, Removes
  <2> QED BY <1>1, <1>2, <2>1, OneHolder DEF IInv
<1>5. Still \/ \E i \in Orders : Moves(i)
  BY EventStep
<1>6. ASSUME NEW i \in Orders, Moves(i), i # o
      PROVE  db'[o].pending = db[o].pending
  BY <1>6, Zenon DEF Moves, Announces, Removes, Sends, Applies, Commits, OthersKept
<1>7. Moves(o) => \/ db'[o].pending = db[o].pending
                  \/ \E x : db'[o].pending = Append(db[o].pending, x)
  BY <1>4, Zenon DEF Moves, Announces, Sends, Applies, Commits
<1> QED BY <1>2, <1>3, <1>5, <1>6, <1>7 DEF Still

LEMMA SavedStep ==
  ASSUME IInv, SavedStaged, [Next]_vars
  PROVE  SavedStaged'
<1> SUFFICES ASSUME NEW t \in Callers, pc'[t] = "saved" PROVE db'[at'[t]].pending # <<>>
  BY DEF SavedStaged
<1> USE ThreadKinds
<1>1. ASSUME pc'[t] = pc[t], at'[t] = at[t]
      PROVE  db'[at'[t]].pending # <<>>
  BY <1>1, StagedStays DEF SavedStaged
<1>2. ASSUME NEW outcome \in Outcomes(t), NEW result \in Results,
             SaveStatusChange(t, outcome, result)
      PROVE  db'[at'[t]].pending # <<>>
  <2> DEFINE doc == Answered(t, outcome)
             event == StatusEvent(at[t], Len(issued[at[t]]) + 1, doc)
  <2>1. /\ pc[t] \in Reading /\ t \in Threads /\ copy[t] \in Doc /\ at[t] \in Orders
        /\ issued[at[t]] \in Seq(Status)
    BY <1>2 DEF SaveStatusChange, IInv, WorkInHand, TypeOK, Reading
  <2>2. doc \in Doc
    BY <2>1, AnsweredTypes DEF Answered
  <2>3. Len(issued[at[t]]) + 1 \in Nat
    BY <2>1
  <2>4. event \in Event
    BY <2>1, <2>2, <2>3 DEF StatusEvent, Event, Doc, Kinds
  <2>5. Save(t, Stage(doc, event), result) /\ (result = "ok" \/ Finish(t))
        /\ (result = "ok" => Goto(t, "saved"))
    BY <1>2 DEF SaveStatusChange
  <2> HIDE DEF doc, event
  <2>6. result = "ok" /\ at'[t] = at[t]
    BY <2>1, <2>5, Frames DEF IInv
  <2>7. Stage(doc, event) \in Doc /\ Stage(doc, event).pending = Append(doc.pending, event)
    BY <2>2, <2>4, StageType, PendingFacts
  <2>8. db'[at[t]].pending = Append(doc.pending, event)
    BY <2>1, <2>5, <2>6, <2>7, SavePending DEF Effective
  <2>9. Append(doc.pending, event) # <<>>
    BY <2>2, <2>4 DEF Doc, Events
  <2> QED BY <2>6, <2>8, <2>9
<1>3. ASSUME CountEnqueued(t) \/ CallFails(t) \/ StageRefused(t)
      PROVE  FALSE
  BY <1>3, Frames DEF CountEnqueued, CallFails, StageRefused, IInv
<1>4. ~ Begins(t)
  <2>1. \A o : ~ HttpBegin(t, o)
    BY Frames DEF HttpBegin, IInv
  <2>2. ASSUME NEW o, t \in Schedulers, TakeCandidate(t, o), StillDue(t, db[o])
        PROVE  FALSE
    <3>1. pc'[t] = FirstStep(t)
      BY <2>2, Frames DEF TakeCandidate, IInv
    <3> QED BY <3>1 DEF FirstStep
  <2> QED BY <2>1, <2>2 DEF Begins
<1>5. ASSUME NEW u, OnlyMoves(u), u # t
      PROVE  db'[at'[t]].pending # <<>>
  BY <1>1, <1>5 DEF OnlyMoves
<1>6. UNCHANGED threads => db'[at'[t]].pending # <<>>
  BY <1>1 DEF threads
<1>7. ~ Crash
  BY DEF Crash
<1>8. Caller(t) => db'[at'[t]].pending # <<>>
  BY <1>2, <1>3, Zenon DEF Caller
<1>9. \/ Crash \/ UNCHANGED threads
      \/ Begins(t) \/ Caller(t)
      \/ \E u : OnlyMoves(u) /\ u # t
  BY Actors
<1> QED BY <1>4, <1>5, <1>6, <1>7, <1>8, <1>9

\* A caller that is idle and takes up nothing stays idle.
LEMMA StaysIdle ==
  ASSUME IInv, [Next]_vars, NEW t \in Callers, pc[t] = "idle", ~ Begins(t)
  PROVE  pc'[t] = "idle"
<1> USE ThreadKinds
<1>1. ~ Caller(t)
  BY DEF Caller, SaveStatusChange, CountEnqueued, CallFails, StageRefused
<1>2. Crash => pc'[t] = "idle"
  BY DEF Crash
<1>3. UNCHANGED threads => pc'[t] = "idle"
  BY DEF threads
<1>4. \A u : OnlyMoves(u) /\ u # t => pc'[t] = "idle"
  BY DEF OnlyMoves
<1>5. \/ Crash \/ UNCHANGED threads
      \/ Begins(t) \/ Caller(t)
      \/ \E u : OnlyMoves(u) /\ u # t
  BY Actors
<1> QED BY <1>1, <1>2, <1>3, <1>4, <1>5

-----------------------------------------------------------------------------
(* The heads of the outboxes.  Only a head is ever sent, and while it is being *)
(* sent the dispatcher holds the lock of its order: an event that is staged    *)
(* and was sent all the same is a head whose removal, or second send, failed.  *)

\* Behind the head of a list nothing was sent, and no id is there twice.
FreshTail(q, S) ==
  \A i, j \in DOMAIN q : i < j => Id(q[j]) \notin S /\ Id(q[i]) # Id(q[j])

StagedFresh == Fits => \A o \in Orders : FreshTail(db[o].pending, SentIds(o))

\* A new event may join the list.
LEMMA FreshAppend ==
  ASSUME NEW q \in Events, NEW e \in Event, NEW S, FreshTail(q, S),
         Id(e) \notin S, \A f \in ToSet(q) : Id(f) # Id(e)
  PROVE  FreshTail(Append(q, e), S)
<1> DEFINE qe == Append(q, e)
<1>1. /\ Len(q) \in Nat /\ DOMAIN q = 1 .. Len(q) /\ DOMAIN qe = 1 .. (Len(q) + 1)
      /\ \A i \in 1 .. Len(q) : qe[i] = q[i]
      /\ qe[Len(q) + 1] = e
  BY DEF Events
<1> HIDE DEF qe
<1>2. ASSUME NEW i \in DOMAIN qe, NEW j \in DOMAIN qe, i < j
      PROVE  Id(qe[j]) \notin S /\ Id(qe[i]) # Id(qe[j])
  <2>1. i \in DOMAIN q /\ qe[i] = q[i]
    BY <1>1, <1>2
  <2>2. CASE j \in DOMAIN q
    BY <1>1, <1>2, <2>1, <2>2 DEF FreshTail
  <2>3. CASE j = Len(q) + 1
    BY <1>1, <2>1, <2>3 DEF ToSet
  <2> QED BY <1>1, <2>2, <2>3
<1>3. FreshTail(qe, S)
  BY <1>2 DEF FreshTail
<1> QED BY <1>3 DEF qe

\* The head may go.
LEMMA FreshRest ==
  ASSUME NEW q \in Events, q # <<>>, NEW S, FreshTail(q, S)
  PROVE  /\ FreshTail(Tail(q), S)
         /\ Tail(q) # <<>> => Id(Head(Tail(q))) \notin S
<1> DEFINE t == Tail(q)
<1>1. /\ Len(q) \in Nat /\ Len(q) > 0 /\ DOMAIN q = 1 .. Len(q)
      /\ DOMAIN t = 1 .. (Len(q) - 1)
      /\ \A i \in 1 .. (Len(q) - 1) : t[i] = q[i + 1]
      /\ t # <<>> => Head(t) = t[1] /\ 1 \in DOMAIN t
  BY DEF Events
<1> HIDE DEF t
<1>2. ASSUME NEW i \in DOMAIN t
      PROVE  i + 1 \in DOMAIN q /\ t[i] = q[i + 1] /\ 1 \in DOMAIN q /\ 1 < i + 1
  BY <1>1
<1>3. ASSUME NEW i \in DOMAIN t
      PROVE  Id(t[i]) \notin S
  BY <1>2 DEF FreshTail
<1>4. ASSUME NEW i \in DOMAIN t, NEW j \in DOMAIN t, i < j
      PROVE  Id(t[i]) # Id(t[j])
  <2>1. i + 1 < j + 1
    BY <1>1, <1>4
  <2> QED BY <1>2, <2>1 DEF FreshTail
<1>5. FreshTail(t, S) /\ (t # <<>> => Id(Head(t)) \notin S)
  BY <1>1, <1>3, <1>4 DEF FreshTail
<1> QED BY <1>5 DEF t

\* The head may be sent.
LEMMA FreshSent ==
  ASSUME NEW q \in Events, NEW S, NEW T, FreshTail(q, S),
         q # <<>> => T \subseteq S \cup {Id(Head(q))}, q = <<>> => T \subseteq S
  PROVE  FreshTail(q, T)
<1>1. DOMAIN q = 1 .. Len(q) /\ Len(q) \in Nat /\ (q # <<>> => Head(q) = q[1] /\ 1 \in DOMAIN q)
  BY DEF Events
<1> SUFFICES ASSUME NEW i \in DOMAIN q, NEW j \in DOMAIN q, i < j
             PROVE  Id(q[j]) \notin T /\ Id(q[i]) # Id(q[j])
  BY DEF FreshTail
<1>2. q # <<>> /\ 1 < j /\ Id(q[j]) \notin S /\ Id(q[i]) # Id(q[j])
  BY <1>1 DEF FreshTail
<1>3. Id(q[1]) # Id(q[j])
  BY <1>1, <1>2 DEF FreshTail
<1> QED BY <1>1, <1>2, <1>3

\* How an outbox changes: while the receipts fit, what is staged is new.
LEMMA OutboxStep ==
  ASSUME IInv, EventInv, AppliedOnceInWindow', [Next]_vars, Fits', NEW o \in Orders
  PROVE  \/ db'[o].pending = db[o].pending
         \/ Removes(o)
         \/ \E e \in Event : /\ db'[o].pending = Append(db[o].pending, e)
                             /\ Id(e) \notin Known(o)
                             /\ e.kind = "status" => Announces(o)
<1> DEFINE Stages == \E e \in Event : /\ db'[o].pending = Append(db[o].pending, e)
                                      /\ Id(e) \notin Known(o)
                                      /\ e.kind = "status" => Announces(o)
<1>1. ASSUME Announces(o)
      PROVE  Stages
  <2>1. issued[o] \in Seq(Status)
    BY DEF IInv, TypeOK
  <2>2. PICK n \in Nat : n = Len(issued[o]) + 1 /\ n \notin DOMAIN issued[o]
    BY <2>1
  <2>3. PICK s \in Status : db'[o].pending = Append(db[o].pending,
          [kind |-> "status", order |-> o, n |-> n, status |-> s])
    BY <1>1, <2>2 DEF Announces
  <2>4. PICK e \in Event : e = [kind |-> "status", order |-> o, n |-> n, status |-> s]
    BY DEF Event, Kinds
  <2>5. Id(e) \notin Known(o)
    BY <2>2, <2>4, KnownGrounded DEF Grounded, EventInv, Id
  <2> QED BY <1>1, <2>3, <2>4, <2>5
<1>2. ASSUME NEW k \in Kinds, Applies(k, o)
      PROVE  db'[o].pending = db[o].pending \/ Stages
  <2>1. PICK c \in Event : c = Current(k)
    BY <1>2, CurrentTypes DEF Applies, IInv
  <2>2. CASE ~ Downstream(c)
    BY <1>2, <2>1, <2>2 DEF Applies
  <2>3. CASE Downstream(c)
    <3>1. PICK e \in Event : e = BusinessEvent(c, db[o])
      BY EventTypes DEF IInv, TypeOK
    <3>2. Id(e) = <<"business", c.n>> /\ e.kind = "business" /\ Id(c) = <<"status", c.n>>
      BY <2>3, <3>1 DEF BusinessEvent, Id, Downstream
    <3>3. Id(c) \notin ToSet(applied[o])
      BY <1>2, <2>1, FirstTime DEF Fits
    <3>4. Id(e) \notin Known(o)
      BY <3>2, <3>3, KnownGrounded DEF Grounded, EventInv
    <3>5. db'[o].pending = Append(db[o].pending, e)
      BY <1>2, <2>1, <2>3, <3>1 DEF Applies
    <3> QED BY <3>2, <3>4, <3>5
  <2> QED BY <2>2, <2>3
<1> HIDE DEF Stages
<1>3. ASSUME NEW i \in Orders, Moves(i), i # o
      PROVE  db'[o].pending = db[o].pending
  BY <1>3, Zenon DEF Moves, Announces, Removes, Sends, Applies, Commits, OthersKept
<1>4. Moves(o) => db'[o].pending = db[o].pending \/ Removes(o) \/ Stages
  BY <1>1, <1>2, Zenon DEF Moves, Sends, Commits
<1>5. Still \/ \E i \in Orders : Moves(i)
  BY EventStep
<1>6. db'[o].pending = db[o].pending \/ Removes(o) \/ Stages
  BY <1>3, <1>4, <1>5, Zenon DEF Still
<1> QED BY <1>6 DEF Stages

LEMMA StagedFreshStep ==
  ASSUME IInv, EventInv, AppliedOnceInWindow', StagedFresh, [Next]_vars
  PROVE  StagedFresh'
<1> SUFFICES ASSUME Fits', NEW o \in Orders
             PROVE  FreshTail(db'[o].pending, SentIds(o)')
  BY DEF StagedFresh
<1> DEFINE q == db[o].pending
           S == SentIds(o)
           T == SentIds(o)'
<1>1. q \in Events /\ FreshTail(q, S)
  BY ExactBefore, MemberTypes DEF StagedFresh, IInv
<1>2. ASSUME NEW id \in T, id \notin S
      PROVE  q # <<>> /\ id = Id(Head(q)) /\ Sends(o)
  BY <1>2, SentNew DEF EventInv, Sends
<1>3. ASSUME NEW e \in Event, db'[o].pending = Append(q, e), Id(e) \notin Known(o)
      PROVE  FreshTail(Append(q, e), T)
  <2>1. Id(e) \notin S /\ \A f \in ToSet(q) : Id(f) # Id(e)
    BY <1>3, KnownParts
  <2>2. ~ Sends(o)
    <3>1. Len(Append(q, e)) = Len(q) + 1 /\ Len(q) \in Nat
      BY <1>1 DEF Events
    <3>2. Append(q, e) # q
      BY <3>1
    <3> QED BY <1>3, <3>2 DEF Sends
  <2>3. T \subseteq S
    BY <1>2, <2>2
  <2>4. FreshTail(q, T)
    BY <1>1, <2>3, FreshSent
  <2> HIDE DEF q, S, T
  <2> QED BY <1>1, <2>1, <2>3, <2>4, FreshAppend
<1>4. FreshTail(q, T)
  <2>1. (q # <<>> => T \subseteq S \cup {Id(Head(q))}) /\ (q = <<>> => T \subseteq S)
    BY <1>2
  <2> HIDE DEF q, S, T
  <2> QED BY <1>1, <2>1, FreshSent
<1>5. ASSUME db'[o].pending = q
      PROVE  FreshTail(db'[o].pending, T)
  BY <1>4, <1>5
<1>6. ASSUME Removes(o)
      PROVE  FreshTail(db'[o].pending, T)
  <2>1. db'[o].pending = Tail(q) /\ q # <<>>
    BY <1>6 DEF Removes
  <2> HIDE DEF q, S, T
  <2> QED BY <1>1, <1>4, <2>1, FreshRest
<1>7. ASSUME NEW e \in Event, db'[o].pending = Append(q, e), Id(e) \notin Known(o)
      PROVE  FreshTail(db'[o].pending, T)
  BY <1>3, <1>7
<1>8. \/ db'[o].pending = q \/ Removes(o)
      \/ \E e \in Event : db'[o].pending = Append(q, e) /\ Id(e) \notin Known(o)
  BY OutboxStep
<1> HIDE DEF q, S, T
<1>9. FreshTail(db'[o].pending, T)
  BY <1>5, <1>6, <1>7, <1>8
<1> QED BY <1>9 DEF T

\* A topic gains a record only by a send.
LEMMA SendActs ==
  ASSUME IInv, [Next]_vars, NEW o \in Orders, Sends(o)
  PROVE  \E result \in Results : Send(result)
<1>1. PICK e \in Event : e = Head(db[o].pending) /\ Deliver(e)
  BY MemberTypes, HeadGone DEF Sends, IInv
<1>2. e.kind \in Kinds /\ PartitionOf[e.order] \in Partitions
  BY <1>1, PipelineAssumption DEF Event
<1>3. PICK k \in Kinds, p \in Partitions : k = e.kind /\ p = PartitionOf[e.order]
  BY <1>2
<1>4. queue[k][p] \in Seq(Event) /\ queue'[k][p] = Append(queue[k][p], e)
  BY <1>1, <1>3 DEF Deliver, IInv, TypeOK, Events
<1>5. Len(queue'[k][p]) = Len(queue[k][p]) + 1 /\ Len(queue[k][p]) \in Nat
  BY <1>4
<1>6. ASSUME UNCHANGED queue
      PROVE  FALSE
  BY <1>5, <1>6
<1>7. ASSUME NEW j \in Kinds, Commit(j)
      PROVE  FALSE
  <2>1. pc[j] # "idle" /\ (queue'[k][p] = queue[k][p]
                            \/ (queue'[k][p] = Tail(queue[k][p]) /\ j = k /\ PartitionOf[at[j]] = p))
    BY <1>7 DEF Commit, IInv, TypeOK
  <2>2. CASE queue'[k][p] = queue[k][p]
    BY <1>5, <2>2
  <2>3. CASE queue'[k][p] = Tail(queue[k][p]) /\ j = k /\ PartitionOf[at[j]] = p
    <3>1. queue[k][p] # <<>>
      BY <2>1, <2>3, CurrentTypes DEF IInv
    <3>2. Len(Tail(queue[k][p])) < Len(queue[k][p])
      BY <1>4, <3>1
    <3>3. Len(queue'[k][p]) = Len(Tail(queue[k][p]))
      BY <2>3
    <3> HIDE <2>3
    <3>4. Len(Tail(queue[k][p])) = Len(queue[k][p]) + 1
      BY <1>5, <3>3
    <3> QED BY <1>5, <3>2, <3>4
  <2> QED BY <2>1, <2>2, <2>3
<1>8. ASSUME \/ \E t \in Http, i \in Orders : HttpBegin(t, i)
             \/ \E s \in Schedulers : Scheduler(s)
             \/ \E t \in Callers : Caller(t)
             \/ CountPublished
             \/ \E result \in Results : RemoveHead(result)
             \/ \E id \in cache : Forget(id)
             \/ Crash
             \/ UNCHANGED vars
      PROVE  UNCHANGED queue
  BY <1>8, Zenon
  DEF HttpBegin, Scheduler, Query, TakeCandidate, Caller, SaveStatusChange, CountEnqueued,
      CallFails, StageRefused, CountPublished, RemoveHead, Forget, Crash, vars, durable
<1>9. ASSUME NEW j \in Kinds, Listener(j)
      PROVE  UNCHANGED queue \/ Commit(j)
  BY <1>9, Zenon
  DEF Listener, Receive, Apply, ApplyRefused, Mark, CountDownstream, CommitLost, durable
<1> QED BY <1>6, <1>7, <1>8, <1>9, Zenon DEF Next, Dispatcher

\* What the dispatcher does in a step.
LEMMA Dispatching ==
  ASSUME IInv, [Next]_vars
  PROVE  \/ \E result \in Results : Send(result) \/ RemoveHead(result)
         \/ CountPublished
         \/ Crash
         \/ UNCHANGED <<pc["dispatch"], at["dispatch"]>>
         \/ pc["dispatch"] = "idle" /\ pc'["dispatch"] = "sending"
<1> USE ThreadKinds DEF IInv
<1> DEFINE Rests == UNCHANGED <<pc["dispatch"], at["dispatch"]>>
           Takes == pc["dispatch"] = "idle" /\ pc'["dispatch"] = "sending"
<1>1. ASSUME NEW t \in Threads, OnlyMoves(t), t # "dispatch"
      PROVE  Rests
  BY <1>1 DEF OnlyMoves
<1>2. UNCHANGED threads => Rests
  BY DEF threads
<1>3. ASSUME NEW t \in Http, NEW o \in Orders, HttpBegin(t, o)
      PROVE  Rests
  BY <1>1, <1>3, Frames, PipelineAssumption DEF HttpBegin, Schedulers
<1>4. ASSUME NEW s \in Schedulers, NEW o \in Orders, TakeCandidate(s, o)
      PROVE  Rests \/ Takes
  <2>1. UNCHANGED threads \/ (Acquire(s, o, FirstStep(s)) /\ pc[s] = "idle")
    BY <1>4 DEF TakeCandidate
  <2>2. ASSUME Acquire(s, o, FirstStep(s)), pc[s] = "idle"
        PROVE  Rests \/ Takes
    <3>1. OnlyMoves(s) /\ pc'[s] = FirstStep(s)
      BY <2>2, Frames
    <3> QED BY <1>1, <2>2, <3>1 DEF FirstStep
  <2> QED BY <1>2, <2>1, <2>2
<1>5. ASSUME NEW t \in Callers, Caller(t)
      PROVE  Rests
  <2>1. OnlyMoves(t)
    BY <1>5, Frames
    DEF Caller, SaveStatusChange, CountEnqueued, CallFails, StageRefused
  <2> QED BY <1>1, <2>1
<1>6. ASSUME NEW k \in Kinds, Listener(k)
      PROVE  Rests
  <2>1. ASSUME NEW p \in Partitions, Receive(k, p)
        PROVE  OnlyMoves(k)
    <3>1. CASE AlreadyProcessed(Record(k, p))
      BY <2>1, <3>1 DEF Receive, OnlyMoves, TypeOK
    <3>2. CASE ~ AlreadyProcessed(Record(k, p))
      BY <2>1, <3>2, Frames DEF Receive
    <3> QED BY <3>1, <3>2
  <2>2. ASSUME NEW result \in Results, Apply(k, result)
        PROVE  OnlyMoves(k)
    BY <2>2, Frames DEF Apply
  <2>3. ASSUME ApplyRefused(k) \/ Mark(k) \/ CountDownstream(k) \/ Commit(k) \/ CommitLost(k)
        PROVE  OnlyMoves(k)
    BY <2>3, Frames DEF ApplyRefused, Mark, CountDownstream, Commit, CommitLost
  <2>4. OnlyMoves(k)
    BY <1>6, <2>1, <2>2, <2>3, Zenon DEF Listener
  <2> QED BY <1>1, <2>4
<1>7. ASSUME \/ \E s \in Schedulers : Query(s)
             \/ \E id \in cache : Forget(id)
             \/ UNCHANGED vars
      PROVE  Rests
  BY <1>2, <1>7 DEF Query, Forget, vars
<1> HIDE DEF Rests, Takes
<1>8. \/ \E result \in Results : Send(result) \/ RemoveHead(result)
      \/ CountPublished \/ Crash \/ Rests \/ Takes
  BY <1>3, <1>4, <1>5, <1>6, <1>7, Zenon DEF Next, Scheduler, Dispatcher
<1> QED BY <1>8 DEF Rests, Takes

\* Without a crash no counter falls, and only the dispatcher counts what is published.
LEMMA CountsGrow ==
  ASSUME IInv, [Next]_vars, Exact'
  PROVE  /\ \A c \in Counters : count'[c] >= count[c]
         /\ count'["published"] # count["published"] => CountPublished
<1> DEFINE Grow == \A c \in Counters : count'[c] >= count[c]
           Quietly == count'["published"] = count["published"]
<1>1. count \in [Counters -> Nat]
  BY DEF IInv, TypeOK
<1>2. UNCHANGED count => Grow /\ Quietly
  BY <1>1
<1>3. ASSUME NEW c \in Counters, Increment(c)
      PROVE  Grow /\ (c # "published" => Quietly)
  BY <1>1, <1>3 DEF Increment, Counters
<1>4. /\ Increment("enqueued") => Grow /\ Quietly
      /\ Increment("deliveries") => Grow /\ Quietly
      /\ Increment("consumed") => Grow /\ Quietly
      /\ Increment("duplicate") => Grow /\ Quietly
      /\ Increment("published") => Grow
  BY <1>3 DEF Counters
<1> HIDE DEF Grow, Quietly
<1>5. ASSUME \/ \E t \in Http, o \in Orders : HttpBegin(t, o)
             \/ \E s \in Schedulers : Scheduler(s)
             \/ \E id \in cache : Forget(id)
             \/ UNCHANGED vars
      PROVE  Grow /\ Quietly
  BY <1>2, <1>5, Zenon DEF HttpBegin, Scheduler, Query, TakeCandidate, Forget, vars
<1>6. ASSUME NEW t \in Callers, Caller(t)
      PROVE  Grow /\ Quietly
  BY <1>2, <1>4, <1>6, Zenon
  DEF Caller, SaveStatusChange, CountEnqueued, CallFails, StageRefused
<1>7. ASSUME NEW result \in Results, Send(result) \/ RemoveHead(result)
      PROVE  Grow /\ Quietly
  BY <1>2, <1>4, <1>7, Zenon DEF Send, RemoveHead
<1>8. ASSUME NEW k \in Kinds, Listener(k)
      PROVE  Grow /\ Quietly
  BY <1>2, <1>4, <1>8, Zenon
  DEF Listener, Receive, Apply, ApplyRefused, Mark, CountDownstream, Commit, CommitLost
<1>9. CountPublished => Grow
  BY <1>4 DEF CountPublished
<1>10. ~ Crash
  BY ExactStep DEF Crash, IInv
<1>11. Grow /\ (Quietly \/ CountPublished)
  BY <1>5, <1>6, <1>7, <1>8, <1>9, <1>10, Zenon DEF Next, Dispatcher
<1> QED BY <1>11 DEF Grow, Quietly

\* What was spent stays spent.
LEMMA FaultsGrow ==
  ASSUME IInv, [Next]_vars
  PROVE  /\ spent["faults"] \in Nat /\ spent'["faults"] \in Nat
         /\ spent'["faults"] >= spent["faults"]
         /\ Spend("faults") => spent'["faults"] = spent["faults"] + 1
<1>1. spent \in [Bounds -> Nat] /\ "faults" \in Bounds
  BY DEF IInv, TypeOK, Bounds
<1>2. \A b \in Bounds : Spend(b) => spent'["faults"] =
        IF b = "faults" THEN spent["faults"] + 1 ELSE spent["faults"]
  BY <1>1 DEF Spend
<1> QED BY <1>1, <1>2, SpentStep

-----------------------------------------------------------------------------
(* Orders whose head was sent and stays: the failed calls of the dispatcher. *)

HeadId(o) == Id(Head(db[o].pending))
InFlight(o) == at["dispatch"] = o /\ pc["dispatch"] \in {"resending", "removing"}

\* The head was sent and, if the dispatcher is about to remove it, applied as well.
StuckAt(o) ==
  /\ db[o].pending # <<>>
  /\ HeadId(o) \in SentIds(o)
  /\ InFlight(o) => HeadId(o) \in ToSet(applied[o])

Stuck == {o \in Orders : StuckAt(o)}

\* While the dispatcher holds an order, nothing is applied to it.
LEMMA NotApplied ==
  ASSUME IInv, [Next]_vars, NEW o \in Orders, at["dispatch"] = o, pc["dispatch"] \in Locked
  PROVE  applied'[o] = applied[o]
<1>1. ASSUME NEW k \in Kinds, Applies(k, o)
      PROVE  FALSE
  <2>1. k \in Threads /\ "dispatch" \in Threads /\ k # "dispatch" /\ at[k] = o /\ pc[k] \in Locked
    BY <1>1, ThreadKinds DEF Applies, Locked, Steps
  <2> QED BY <2>1, OneHolder DEF IInv
<1> QED BY <1>1, AppliedChanges

LEMMA TailDiffers ==
  ASSUME NEW S, NEW q \in Seq(S), q # <<>>
  PROVE  Tail(q) # q
<1>1. Len(Tail(q)) # Len(q)
  OBVIOUS
<1> QED BY <1>1, Zenon

LEMMA AppendKeepsHead ==
  ASSUME NEW S, NEW q \in Seq(S), q # <<>>, NEW e \in S
  PROVE  Head(Append(q, e)) = Head(q) /\ Append(q, e) # Tail(q)
<1>1. Len(Append(q, e)) # Len(Tail(q))
  OBVIOUS
<1>2. Append(q, e) # Tail(q)
  BY <1>1, Zenon
<1> QED BY <1>2

\* An order becomes stuck only by a call of the dispatcher that fails.
LEMMA StuckNew ==
  ASSUME IInv, EventInv, AppliedOnceInWindow', StagedFresh, [Next]_vars, Exact', Fits',
         NEW o \in Orders, StuckAt(o)', ~ StuckAt(o)
  PROVE  o = at["dispatch"] /\ pc["dispatch"] \in {"sending", "resending", "removing"}
         /\ Spend("faults")
<1> DEFINE Goal == o = at["dispatch"] /\ pc["dispatch"] \in {"sending", "resending", "removing"}
                   /\ Spend("faults")
           q == db[o].pending
           r == db'[o].pending
<1> USE ThreadKinds
<1>1. q \in Events /\ r # <<>> /\ Id(Head(r)) \in SentIds(o)' /\ FreshTail(q, SentIds(o))
  BY MemberTypes, ExactBefore DEF StuckAt, HeadId, StagedFresh, IInv
<1>2. InFlight(o)' => Id(Head(r)) \in ToSet(applied'[o])
  BY DEF StuckAt, HeadId
<1>3. PICK id : id = Id(Head(r))
  OBVIOUS
<1>4. TypeOK /\ CauseInv
  BY DEF IInv, EventInv
\* What a result other than "ok" costs.
<1>5. ASSUME NEW result \in Results, Send(result)
      PROVE  o = at["dispatch"] /\ result # "ok" => Goal
  <2>1. result \in {"ok", "failed"}
    BY <1>4, <1>5, ExactStep DEF Send
  <2> QED BY <1>5, <2>1 DEF Send, Charge
<1>6. ASSUME NEW result \in Results, RemoveHead(result)
      PROVE  o = at["dispatch"] /\ result # "ok" => Goal
  <2>1. pc["dispatch"] = "removing" /\ "dispatch" \in Threads
        /\ Save("dispatch", HeadRemoved(copy["dispatch"]), result)
    BY <1>6 DEF RemoveHead
  <2>2. result \in {"ok", "failed"}
    BY <1>4, <2>1, ExactStep
  <2>3. VersionMatches("dispatch")
    BY <2>1, NoConflict DEF Reading
  <2> QED BY <2>1, <2>2, <2>3 DEF Save, Charge
\* The event was sent in this step.
<1>7. ASSUME Sends(o), id \notin SentIds(o)
      PROVE  Goal
  <2>1. PICK result \in Results : Send(result)
    BY <1>7, SendActs
  <2>2. o = at["dispatch"]
    BY <1>7 DEF Sends
  <2>3. ASSUME result = "ok"
        PROVE  FALSE
    <3>1. pc'["dispatch"] \in {"resending", "removing"} /\ at'["dispatch"] = o
          /\ applied' = applied
      BY <1>4, <2>1, <2>2, <2>3, Frames DEF Send, history
    <3>2. id \in ToSet(applied[o])
      BY <1>2, <1>3, <3>1 DEF InFlight
    <3> QED BY <1>7, <3>2 DEF SentIds
  <2> QED BY <1>5, <2>1, <2>2, <2>3
\* It was sent before, and the dispatcher was at work on it.
<1>8. ASSUME InFlight(o), id \notin ToSet(applied[o]), r # Tail(q)
      PROVE  Goal
  <2>1. at["dispatch"] = o /\ pc["dispatch"] \in {"resending", "removing"}
        /\ pc["dispatch"] \in Locked
    BY <1>8 DEF InFlight, Locked, Steps
  <2>2. id \notin ToSet(applied'[o])
    BY <1>8, <2>1, NotApplied
  <2>3. ~ InFlight(o)'
    BY <1>2, <1>3, <2>2
  <2>4. ~ UNCHANGED <<pc["dispatch"], at["dispatch"]>>
    BY <2>1, <2>3 DEF InFlight
  <2>5. ~ Crash
    BY <1>4, ExactStep DEF Crash
  <2>6. ~ CountPublished
    BY <2>1 DEF CountPublished
  <2>7. PICK result \in Results : Send(result) \/ RemoveHead(result)
    BY <2>1, <2>4, <2>5, <2>6, Dispatching
  <2>8. CASE result # "ok"
    BY <1>5, <1>6, <2>1, <2>7, <2>8
  <2>9. CASE result = "ok" /\ Send(result)
    <3>1. pc'["dispatch"] \in {"resending", "removing"} /\ at'["dispatch"] = o
      BY <1>4, <2>1, <2>9, Frames DEF Send
    <3> QED BY <2>3, <3>1 DEF InFlight
  <2>10. CASE result = "ok" /\ RemoveHead(result)
    <3>1. /\ pc["dispatch"] = "removing" /\ "dispatch" \in Threads
          /\ copy["dispatch"] \in Doc /\ copy["dispatch"].pending # <<>>
          /\ copy["dispatch"].pending = q
          /\ Save("dispatch", HeadRemoved(copy["dispatch"]), result)
      BY <2>1, <2>10 DEF RemoveHead, IInv, TypeOK, WorkInHand, CopyIsCurrent, Reading
    <3>2. HeadRemoved(copy["dispatch"]) \in Doc
          /\ HeadRemoved(copy["dispatch"]).pending = Tail(q)
      BY <3>1, HeadRemovedType DEF HeadRemoved, Doc
    <3>3. db'[o].pending = Tail(q)
      BY <2>1, <2>10, <3>1, <3>2, SavePending DEF Effective, Reading
    <3> QED BY <1>8, <3>3
  <2> QED BY <2>7, <2>8, <2>9, <2>10
\* The outbox keeps its head.
<1>9. ASSUME q # <<>>, Head(r) = Head(q), r # Tail(q)
      PROVE  Goal
  <2>1. id = HeadId(o) /\ id \in SentIds(o)'
    BY <1>1, <1>3, <1>9 DEF HeadId
  <2>2. CASE id \in SentIds(o)
    <3>1. InFlight(o) /\ id \notin ToSet(applied[o])
      BY <1>9, <2>1, <2>2 DEF StuckAt
    <3> QED BY <1>8, <1>9, <3>1
  <2>3. CASE id \notin SentIds(o)
    BY <1>4, <1>7, <2>1, <2>3, SentNew
  <2> QED BY <2>2, <2>3
<1> HIDE DEF Goal, q, r
<1>10. ASSUME r = q
       PROVE  Goal
  <2>1. q # <<>> /\ Tail(q) # q
    BY <1>1, <1>10, TailDiffers DEF Events
  <2> QED BY <1>9, <1>10, <2>1
<1>11. ASSUME NEW e \in Event, r = Append(q, e), Id(e) \notin Known(o)
       PROVE  Goal
  <2>1. CASE q = <<>>
    <3>1. Head(r) = e
      BY <1>1, <1>11, <2>1 DEF Events
    <3>2. id \in SentIds(o)' /\ id \notin SentIds(o)
      BY <1>1, <1>3, <1>11, <3>1, KnownParts
    <3>3. Sends(o)
      BY <1>4, <3>2, SentNew
    <3> QED BY <2>1, <3>3 DEF Sends, q
  <2>2. CASE q # <<>>
    <3>1. Head(r) = Head(q) /\ r # Tail(q)
      BY <1>1, <1>11, <2>2, AppendKeepsHead DEF Events
    <3> QED BY <1>9, <2>2, <3>1
  <2> QED BY <2>1, <2>2
<1>12. ASSUME Removes(o)
       PROVE  FALSE
  <2>1. q # <<>> /\ r = Tail(q) /\ UNCHANGED queue /\ applied'[o] = applied[o]
    BY <1>12 DEF Removes, q, r
  <2>2. SentIds(o)' = SentIds(o)
    BY <2>1 DEF SentIds, Queued
  <2>3. Id(Head(r)) \notin SentIds(o)
    BY <1>1, <2>1, FreshRest
  <2> QED BY <1>1, <2>2, <2>3
<1>13. r = q \/ Removes(o) \/ \E e \in Event : r = Append(q, e) /\ Id(e) \notin Known(o)
  BY OutboxStep, Zenon DEF q, r
<1>14. Goal
  BY <1>10, <1>11, <1>12, <1>13
<1> QED BY <1>14 DEF Goal

\* While no order is beyond its receipts, no more of them are stuck than calls failed.
StuckBound == Exact /\ Fits => IsFiniteSet(Stuck) /\ Cardinality(Stuck) <= spent["faults"]

LEMMA StuckChanges ==
  ASSUME IInv, EventInv, AppliedOnceInWindow', StagedFresh, [Next]_vars, Exact', Fits'
  PROVE  \/ Stuck' \subseteq Stuck
         \/ /\ pc["dispatch"] \in {"sending", "resending", "removing"}
            /\ Spend("faults")
            /\ Stuck' \subseteq Stuck \cup {at["dispatch"]}
<1>1. ASSUME NEW o \in Stuck', o \notin Stuck
      PROVE  /\ o = at["dispatch"] /\ Spend("faults")
             /\ pc["dispatch"] \in {"sending", "resending", "removing"}
  BY <1>1, StuckNew DEF Stuck
<1> QED BY <1>1

LEMMA StuckStep ==
  ASSUME IInv, EventInv, AppliedOnceInWindow', StagedFresh, StuckBound, [Next]_vars
  PROVE  StuckBound'
<1> SUFFICES ASSUME Exact', Fits'
             PROVE  IsFiniteSet(Stuck') /\ Cardinality(Stuck') <= spent'["faults"]
  BY DEF StuckBound
<1> DEFINE S == Stuck
           T == Stuck'
           d == at["dispatch"]
           u == S \cup {d}
<1>1. /\ IsFiniteSet(S) /\ Cardinality(S) <= spent["faults"]
      /\ spent["faults"] \in Nat /\ spent'["faults"] \in Nat
      /\ spent'["faults"] >= spent["faults"]
      /\ Spend("faults") => spent'["faults"] = spent["faults"] + 1
  BY ExactBefore, FaultsGrow DEF StuckBound
<1>2. /\ IsFiniteSet(u) /\ Cardinality(S) \in Nat /\ Cardinality(u) \in Nat
      /\ Cardinality(u) <= Cardinality(S) + 1
  <2> HIDE DEF S, d
  <2>1. IsFiniteSet(S) /\ Cardinality(S) \in Nat
    BY <1>1, FS_CardinalityType
  <2>2. IsFiniteSet(u) /\ (Cardinality(u) = Cardinality(S) \/ Cardinality(u) = Cardinality(S) + 1)
    BY <2>1, FS_AddElement
  <2> HIDE DEF u
  <2> QED BY <2>1, <2>2
<1>3. T \subseteq S \/ (Spend("faults") /\ T \subseteq u)
  BY StuckChanges
<1> HIDE DEF S, T, u
<1> DEFINE Goal == IsFiniteSet(T) /\ Cardinality(T) <= spent'["faults"]
<1>4. ASSUME T \subseteq S
      PROVE  Goal
  BY <1>1, <1>2, <1>4, FS_Subset, FS_CardinalityType
<1>5. ASSUME Spend("faults"), T \subseteq u
      PROVE  Goal
  BY <1>1, <1>2, <1>5, FS_Subset, FS_CardinalityType
<1>6. Goal
  BY <1>3, <1>4, <1>5
<1> QED BY <1>6 DEF T

\* The removal of a head that was applied frees its order.
LEMMA StuckFreed ==
  ASSUME IInv, EventInv, AppliedOnceInWindow', StagedFresh, StuckBound, [Next]_vars,
         Exact', Fits', RemoveHead("ok"), HeadId(at["dispatch"]) \in ToSet(applied[at["dispatch"]])
  PROVE  Cardinality(Stuck') + 1 <= spent'["faults"]
<1> DEFINE t == "dispatch"
<1>1. /\ t \in Threads /\ pc[t] = "removing" /\ pc[t] \in Reading /\ at[t] \in Orders
      /\ copy[t] = db[at[t]] /\ copy[t] \in Doc /\ copy[t].pending # <<>>
      /\ Save(t, HeadRemoved(copy[t]), "ok") /\ UNCHANGED <<queue, history>>
  BY ThreadKinds DEF RemoveHead, IInv, TypeOK, WorkInHand, CopyIsCurrent, Reading
<1>2. PICK o \in Orders : o = at[t]
  BY <1>1
<1> DEFINE q == db[o].pending
<1>3. HeadRemoved(copy[t]) \in Doc /\ HeadRemoved(copy[t]).pending = Tail(q)
  BY <1>1, <1>2, HeadRemovedType DEF HeadRemoved, Doc
<1>4. db'[o].pending = Tail(q) /\ q # <<>> /\ q \in Events
  BY <1>1, <1>2, <1>3, SavePending, MemberTypes DEF Effective, IInv
<1>5. SentIds(o)' = SentIds(o) /\ FreshTail(q, SentIds(o))
  BY <1>1, ExactBefore DEF SentIds, Queued, history, StagedFresh
<1>6. o \in Stuck
  BY <1>1, <1>2, <1>4 DEF Stuck, StuckAt, HeadId, SentIds
<1>7. o \notin Stuck'
  <2>1. Tail(q) # <<>> => Id(Head(Tail(q))) \notin SentIds(o)
    <3> HIDE DEF q
    <3> QED BY <1>4, <1>5, FreshRest
  <2> QED BY <1>4, <1>5, <2>1 DEF Stuck, StuckAt, HeadId
<1>8. UNCHANGED spent
  BY <1>1, NoConflict DEF Save, Charge
<1>9. spent["faults"] \in Nat /\ ~ Spend("faults")
  BY <1>8, FaultsGrow
<1>10. Stuck' \subseteq Stuck \ {o}
  BY <1>7, <1>9, StuckChanges
<1>11. /\ IsFiniteSet(Stuck) /\ Cardinality(Stuck) <= spent["faults"]
       /\ Cardinality(Stuck) \in Nat
  BY ExactBefore, FS_CardinalityType DEF StuckBound
<1>12. /\ IsFiniteSet(Stuck \ {o}) /\ Cardinality(Stuck \ {o}) = Cardinality(Stuck) - 1
  BY <1>6, <1>11, FS_RemoveElement
<1>13. Cardinality(Stuck') <= Cardinality(Stuck \ {o}) /\ Cardinality(Stuck') \in Nat
  BY <1>10, <1>12, FS_Subset, FS_CardinalityType
<1> QED BY <1>8, <1>9, <1>11, <1>12, <1>13

\* A caller that comes to an order was asked to by a request, or finds the order due.
LEMMA StaysAway ==
  ASSUME IInv, [Next]_vars, NEW t \in Callers, NEW o \in Orders,
         pc[t] # "idle" => at[t] # o, pc'[t] # "idle", at'[t] = o
  PROVE  \/ t \in Http /\ HttpBegin(t, o)
         \/ t \in {"poll", "retry"} /\ StillDue(t, db[o])
<1> DEFINE Goal == \/ t \in Http /\ HttpBegin(t, o)
                   \/ t \in {"poll", "retry"} /\ StillDue(t, db[o])
<1> USE ThreadKinds
<1>1. ASSUME NEW i \in Orders, HttpBegin(t, i)
      PROVE  at'[t] = i
  BY <1>1, Frames DEF HttpBegin, IInv
<1>2. ASSUME NEW i \in Orders, TakeCandidate(t, i), StillDue(t, db[i])
      PROVE  at'[t] = i
  BY <1>2, Frames DEF TakeCandidate, IInv
<1>3. Begins(t) => Goal
  <2> USE DEF Callers
  <2> QED BY <1>1, <1>2, PipelineAssumption DEF Begins, Schedulers
<1>4. ASSUME Caller(t)
      PROVE  FALSE
  <2>1. pc[t] # "idle"
    BY <1>4 DEF Caller, SaveStatusChange, CountEnqueued, CallFails, StageRefused
  <2>2. Finish(t) \/ Goto(t, "saved")
    BY <1>4, Zenon DEF Caller, SaveStatusChange, CountEnqueued, CallFails, StageRefused
  <2> QED BY <2>1, <2>2, Frames DEF IInv
<1>5. ~ Crash
  BY DEF Crash
<1>6. ~ UNCHANGED threads
  BY DEF threads
<1>7. \A u : ~ (OnlyMoves(u) /\ u # t)
  BY DEF OnlyMoves
<1> HIDE DEF Goal
<1>8. Goal
  BY <1>3, <1>4, <1>5, <1>6, <1>7, Actors
<1> QED BY <1>8 DEF Goal

-----------------------------------------------------------------------------
(* The drain phase *)

\* The pipeline behaves in the drain phase as at any time.
LEMMA DrainIsPipeline == DrainSpec => Spec
<1>1. DrainInit => Init
  BY DEF DrainInit
<1>2. [DrainNext]_drainVars => [Next]_vars
  BY DEF DrainNext, Poll, drainVars, Background, LoadEnds, ReadBounds, ReadEnqueued,
         ReadConsumed, ReadPublished, GiveUp
<1> QED BY <1>1, <1>2, PTL DEF DrainSpec, Spec

\* The invariants of the pipeline that the drain phase rests on.
PipelineInv ==
  /\ LedgerInv /\ WindowInv /\ DueInv /\ CountInv /\ SavedStaged
  /\ AppliedOnceInWindow /\ ChildrenWait /\ StagedFresh /\ StuckBound

LEMMA PipelineInvariance == Spec => []PipelineInv
<1>1. Init => SavedStaged /\ ChildrenWait
  BY ThreadKinds DEF Init, SavedStaged, ChildInv, ChildrenWait
<1>2. Init => StagedFresh /\ StuckBound
  <2> SUFFICES ASSUME Init PROVE StagedFresh /\ StuckBound
    OBVIOUS
  <2>1. \A o \in Orders : db[o].pending = <<>>
    BY DEF Init, NewOrder
  <2>2. StagedFresh
    BY <2>1 DEF StagedFresh, FreshTail
  <2>3. Stuck = {} /\ spent["faults"] = 0
    BY <2>1 DEF Stuck, StuckAt, Init, Bounds
  <2> QED BY <2>2, <2>3, FS_EmptySet DEF StuckBound
<1>3. ASSUME LedgerInv, AppliedOnceInWindow', SavedStaged, ChildrenWait, StagedFresh,
             StuckBound, [Next]_vars
      PROVE  SavedStaged' /\ ChildrenWait' /\ StagedFresh' /\ StuckBound'
  BY <1>3, SavedStep, ChildStep, StagedFreshStep, StuckStep DEF LedgerInv
<1> QED
  BY <1>1, <1>2, <1>3, CountInvariance, LedgerInvariance, DueInvariance, PTL
  DEF Spec, PipelineInv

\* A request is counted.
LEMMA RequestsSpend ==
  ASSUME IInv, NEW t, NEW o, HttpBegin(t, o)
  PROVE  spent'["requests"] # spent["requests"]
<1>1. Spend("requests") /\ spent \in [Bounds -> Nat]
  BY DEF HttpBegin, IInv, TypeOK
<1> QED BY <1>1 DEF Spend, Bounds

\* Where the run is: an answered workload is over and has no request at work, and the
\* counters are read once every order was visited.
Progress ==
  /\ answered => phase # "scenario" /\ \A t \in Http : pc[t] = "idle"
  /\ next # "bounds" \/ Drained => unread = {}
  /\ phase = "scenario" => next = "bounds" /\ unread = Orders
  /\ answered \in BOOLEAN

LEMMA ProgressStep ==
  ASSUME IInv, Progress, [DrainNext]_drainVars, [Next]_vars
  PROVE  Progress'
<1>1. CASE Background
  <2>1. UNCHANGED <<phase, answered, unread, next>>
    BY <1>1 DEF Background, reading
  <2>2. ASSUME answered, NEW t \in Http
        PROVE  pc'[t] = "idle"
    <3>1. pc[t] = "idle" /\ t \in Callers
      BY <2>2 DEF Progress, Callers
    <3>2. ~ Begins(t)
      <4>1. \A o : ~ HttpBegin(t, o)
        BY <1>1, <2>2, RequestsSpend DEF Background
      <4>2. t \notin Schedulers
        BY PipelineAssumption
      <4> QED BY <4>1, <4>2 DEF Begins
    <3> QED BY <3>1, <3>2, StaysIdle
  <2> QED BY <2>1, <2>2 DEF Progress, Drained
<1>2. CASE LoadEnds
  BY <1>2 DEF LoadEnds, Progress, Drained, reading, vars, threads
<1>3. CASE Poll \/ GiveUp \/ UNCHANGED drainVars
  <2>1. ASSUME NEW o \in Orders, ReadBounds(o)
        PROVE  Progress'
    BY <2>1 DEF ReadBounds, Progress, Drained, vars, threads
  <2>2. ASSUME ReadEnqueued \/ ReadConsumed \/ ReadPublished \/ GiveUp \/ UNCHANGED drainVars
        PROVE  Progress'
    BY <2>2 DEF ReadEnqueued, ReadConsumed, ReadPublished, GiveUp, Again, Progress,
      Drained, drainVars, reading, vars, threads
  <2> QED BY <1>3, <2>1, <2>2 DEF Poll
<1> QED BY <1>1, <1>2, <1>3 DEF DrainNext

\* What the aggregate has found of an order, and what stays so.
ClearedAt(o) ==
  /\ db[o].status # "WAITING" /\ ~ Retryable(db[o])
  /\ \A t \in Callers : pc[t] # "idle" => at[t] # o
  /\ Fits => \A e \in ToSet(db[o].pending) : e.kind = "business"

Cleared == answered => \A o \in Orders \ unread : ClearedAt(o)

\* A document without work: nobody is between reading it and counting its event.
LEMMA BoundsIdle ==
  ASSUME IInv, DueInv, SavedStaged, \A t \in Http : pc[t] = "idle",
         NEW o \in Orders, BoundsClear(db[o])
  PROVE  ClearedAt(o)
<1>1. ASSUME NEW t \in Callers, pc[t] # "idle", at[t] = o
      PROVE  FALSE
  <2>1. t \in {"poll", "retry"} /\ pc[t] \in {"calling", "saved"} /\ t \in Threads
    BY <1>1, ThreadKinds DEF Callers, IInv, WorkInHand
  <2>2. pc[t] = "calling"
    BY <1>1, <2>1 DEF SavedStaged, BoundsClear
  <2>3. StillDue(t, copy[t])
    BY <2>1, <2>2 DEF DueInv, Due
  <2>4. StillDue(t, db[o])
    BY <1>1, <2>1, <2>2, <2>3 DEF IInv, CopyIsCurrent, Reading
  <2> QED BY <2>1, <2>4 DEF StillDue, BoundsClear, Retryable
<1>2. db[o].pending = <<>> /\ ToSet(<<>>) = {}
  BY DEF BoundsClear, ToSet
<1> QED BY <1>1, <1>2 DEF ClearedAt, BoundsClear

LEMMA ClearedStays ==
  ASSUME IInv, EventInv, AppliedOnceInWindow', [Next]_vars,
         spent'["requests"] = spent["requests"],
         NEW o \in Orders, ClearedAt(o)
  PROVE  ClearedAt(o)' /\ issued'[o] = issued[o]
<1>1. /\ db'[o].status = db[o].status /\ db'[o].attempts = db[o].attempts
      /\ issued'[o] = issued[o]
  BY StatusesStay DEF ClearedAt
<1>2. ASSUME NEW t \in Callers, pc'[t] # "idle", at'[t] = o
      PROVE  FALSE
  <2>1. HttpBegin(t, o) \/ (t \in {"poll", "retry"} /\ StillDue(t, db[o]))
    BY <1>2, StaysAway DEF ClearedAt
  <2> QED BY <2>1, RequestsSpend DEF StillDue, ClearedAt, Retryable
<1>3. ASSUME Fits', NEW e \in ToSet(db'[o].pending)
      PROVE  e.kind = "business"
  <2> DEFINE q == db[o].pending
  <2>1. q \in Events /\ \A f \in ToSet(q) : f.kind = "business"
    BY <1>3, ExactBefore, MemberTypes DEF ClearedAt, IInv
  <2>2. CASE db'[o].pending = q
    BY <1>3, <2>1, <2>2
  <2>3. CASE Removes(o)
    <3>1. q # <<>> /\ db'[o].pending = Tail(q)
      BY <2>3 DEF Removes
    <3>2. e \in ToSet(q)
      BY <1>3, <2>1, <3>1, HeadGone
    <3> QED BY <2>1, <3>2
  <2>4. ASSUME NEW f \in Event, db'[o].pending = Append(q, f),
               f.kind = "status" => Announces(o)
        PROVE  e.kind = "business"
    <3>1. f.kind = "business"
      BY <1>1, <2>4, Traces DEF Event, Kinds
    <3>2. e = f \/ e \in ToSet(q)
      BY <1>3, <2>1, <2>4, EventAppended
    <3> QED BY <2>1, <3>1, <3>2
  <2> QED BY <1>3, <2>2, <2>3, <2>4, OutboxStep
<1> QED BY <1>1, <1>2, <1>3 DEF ClearedAt, Retryable

LEMMA ClearedStep ==
  ASSUME IInv, EventInv, AppliedOnceInWindow', DueInv, SavedStaged, Progress, Cleared,
         [DrainNext]_drainVars, [Next]_vars
  PROVE  Cleared'
<1>0. \A o \in Orders : UNCHANGED vars /\ ClearedAt(o) => ClearedAt(o)'
  BY DEF vars, threads, durable, history, ClearedAt, Fits
<1>1. CASE Background
  BY <1>1, ClearedStays DEF Background, reading, Cleared
<1>2. CASE LoadEnds
  BY <1>2 DEF LoadEnds, Cleared, Progress, reading
<1>3. ASSUME NEW o \in Orders, ReadBounds(o)
      PROVE  Cleared'
  <2>1. answered => ClearedAt(o)
    BY <1>3, BoundsIdle DEF ReadBounds, Progress
  <2>2. UNCHANGED vars /\ unread' = unread \ {o} /\ answered' = answered
    BY <1>3 DEF ReadBounds
  <2> QED BY <1>0, <2>1, <2>2 DEF Cleared
<1>4. CASE ReadEnqueued
  BY <1>0, <1>4 DEF ReadEnqueued, Cleared
<1>5. CASE ReadConsumed \/ ReadPublished \/ GiveUp
  <2>1. UNCHANGED vars /\ (unread' = unread \/ unread' = Orders) /\ answered' = answered
    BY <1>5 DEF ReadConsumed, ReadPublished, GiveUp, Again, reading
  <2> QED BY <1>0, <2>1 DEF Cleared
<1>6. CASE UNCHANGED drainVars
  BY <1>0, <1>6 DEF drainVars, reading, Cleared
<1> QED BY <1>1, <1>2, <1>3, <1>4, <1>5, <1>6 DEF DrainNext, Poll

-----------------------------------------------------------------------------
(* What the counters say.  Every application is of another known event, so the  *)
(* events known and not yet applied make the number of events known exceed the  *)
(* number of applications.                                                      *)

Pending == {z \in KnownEvents : z[2] \notin ToSet(applied[z[1]])}

\* While the receipts fit, every application is of another known event.
LEMMA ApplicationsFit ==
  ASSUME IInv, AppliedOnceInWindow, Fits, IsFiniteSet(KnownEvents),
         NEW U, U \subseteq Pending
  PROVE  /\ IsFiniteSet(KnownEvents \ U)
         /\ Cardinality(Applications) <= Cardinality(KnownEvents \ U)
<1> DEFINE T == KnownEvents \ U
           F == [x \in Applications |-> <<x[1], applied[x[1]][x[2]]>>]
<1>1. IsFiniteSet(T)
  BY FS_Subset
<1>2. applied \in [Orders -> Seq(EventId)]
  BY DEF IInv, TypeOK, Receipts
<1>3. ASSUME NEW x \in Applications
      PROVE  /\ x[1] \in Orders /\ x[2] \in DOMAIN applied[x[1]] /\ x = <<x[1], x[2]>>
             /\ F[x] = <<x[1], applied[x[1]][x[2]]>>
  <2>1. PICK o \in DOMAIN applied : \E i \in DOMAIN applied[o] : x = <<o, i>>
    BY SlotMembers DEF Applications
  <2> QED BY <1>2, <2>1
<1>4. ASSUME NEW x \in Applications
      PROVE  F[x] \in T
  <2>1. PICK o \in Orders : o = x[1]
    BY <1>3
  <2>2. PICK i : i = x[2] /\ i \in DOMAIN applied[o]
    BY <1>3, <2>1
  <2>3. PICK id : id = applied[o][i]
    OBVIOUS
  <2>4. id \in ToSet(applied[o])
    BY <2>2, <2>3 DEF ToSet
  <2>5. <<o, id>> \in KnownEvents
    BY <2>4 DEF KnownEvents, Known
  <2>6. <<o, id>> \notin Pending
    BY <2>4 DEF Pending
  <2>7. F[x] = <<o, id>>
    BY <1>3, <2>1, <2>3, <2>2
  <2> QED BY <2>5, <2>6, <2>7
<1>5. ASSUME NEW x \in Applications, NEW y \in Applications, F[x] = F[y]
      PROVE  x = y
  <2>1. PICK o \in Orders : o = x[1] /\ o = y[1]
    BY <1>3, <1>5
  <2>2. PICK i : i = x[2]
    OBVIOUS
  <2>3. PICK j : j = y[2]
    OBVIOUS
  <2>4. /\ i \in DOMAIN applied[o] /\ j \in DOMAIN applied[o]
        /\ applied[o][i] = applied[o][j]
    BY <1>3, <1>5, <2>1, <2>2, <2>3
  <2>5. /\ DOMAIN applied[o] = 1 .. Len(applied[o])
        /\ Len(applied[o]) \in Nat /\ Len(applied[o]) <= EventIds /\ EventIds \in Nat
    BY <1>2, BoundsAssumption DEF Fits
  <2>6. ~(i < j) /\ ~(j < i)
    BY <2>4, <2>5 DEF AppliedOnceInWindow
  <2>7. i = j
    BY <2>4, <2>5, <2>6
  <2> QED BY <1>3, <2>1, <2>2, <2>3, <2>7
<1>6. F \in Injection(Applications, T)
  <2>1. F \in [Applications -> T]
    BY <1>4
  <2>2. IsInjective(F)
    BY <1>5 DEF IsInjective
  <2> QED BY <2>1, <2>2 DEF Injection
<1> HIDE DEF F, T
<1>7. Cardinality(Applications) <= Cardinality(T)
  BY <1>1, <1>6, FS_Injection
<1> QED BY <1>1, <1>7 DEF T


\* The business event of a completion that its listener has applied and not yet
\* counted is staged.
LEMMA ChildPending ==
  ASSUME IInv, EventInv, SequenceInv, ChildrenWait, Fits, NEW k \in Kinds,
         pc[k] \in {"marking", "chaining"}, Downstream(Current(k))
  PROVE  k = "status" /\ at[k] \in Orders /\ db[at[k]].pending # <<>>
<1>1. PICK o \in Orders : o = at[k]
  BY CurrentTypes DEF IInv
<1>2. PICK e \in Event : e = Current(k)
  BY CurrentTypes DEF IInv
<1>3. /\ e.kind = "status" /\ e.status = "COMPLETED" /\ Id(e) = <<"status", e.n>>
      /\ e.order = o
  BY <1>1, <1>2, CurrentTypes DEF Downstream, Id, IInv
<1>4. /\ e \in ToSet(queue[k][PartitionOf[o]]) /\ Caused(e)
  BY <1>1, <1>2, CurrentCaused DEF EventInv
<1>5. k = "status"
  BY <1>3, <1>4, PipelineAssumption DEF SequenceInv, TopicKinds
<1>6. <<"status", e.n>> \in ToSet(applied[o])
  BY <1>1, <1>2, <1>3 DEF EventInv, ArrivedInv, AckInv
<1>7. e.n \in DOMAIN issued[o] /\ issued[o][e.n] = "COMPLETED"
  BY <1>3, <1>4 DEF Caused, Grounded, Id
<1>8. PICK id : id = <<"business", e.n>>
  OBVIOUS
<1>9. id \in Known(o)
  BY <1>6, <1>7, <1>8 DEF EventInv, NothingLost
<1>10. id \notin SentIds(o)
  BY <1>1, <1>2, <1>8 DEF ChildrenWait, ChildInv, ChildId
<1>11. PICK f \in ToSet(db[o].pending) : Id(f) = id
  BY <1>9, <1>10, KnownParts
<1>12. db[o].pending # <<>>
  BY <1>11 DEF ToSet
<1> QED BY <1>1, <1>5, <1>12

\* An outbox with an event has a place.
LEMMA StagedPlace ==
  ASSUME IInv, NEW o \in Orders, db[o].pending # <<>>
  PROVE  Staged # {}
<1> DEFINE f == [i \in Orders |-> db[i].pending]
<1>1. f[o] = db[o].pending /\ o \in DOMAIN f /\ 1 \in DOMAIN f[o]
  BY MemberTypes DEF Events, IInv
<1> HIDE DEF f
<1>2. <<o, 1>> \in Slots(f)
  BY <1>1, SlotMembers
<1> QED BY <1>2 DEF Staged, f

\* Where no caller is at work, the number of events enqueued is read while the
\* dispatcher counts one only if it is above the number of those published.
LEMMA EnqueuedAbove ==
  ASSUME IInv, EventInv, SequenceInv, ChildrenWait, CountInv, Exact, Fits,
         \A t \in Callers : pc[t] = "idle", pc["dispatch"] = "removed"
  PROVE  count["published"] < count["enqueued"]
<1>1. FiniteTallies /\ EnqueuedArePublished
  BY DEF CountInv, Balanced
<1>2. At("saved") = {}
  BY DEF At, Threads, Callers, Schedulers, IInv, WorkInHand
<1>3. "dispatch" \in At("removed")
  BY ThreadKinds DEF At
<1>4. /\ Cardinality(At("saved")) = 0
      /\ Cardinality(At("removed")) \in Nat /\ Cardinality(At("removed")) # 0
  BY <1>1, <1>2, <1>3, FS_EmptySet, FS_CardinalityType DEF FiniteTallies
<1>5. ASSUME NEW k \in Owed \cup At("chaining")
      PROVE  k = "status" /\ Staged # {}
  <2>1. k \in Kinds /\ pc[k] \in {"marking", "chaining"} /\ Downstream(Current(k))
    <3>1. CASE k \in Owed
      BY <3>1 DEF Owed
    <3>2. CASE k \in At("chaining")
      <4>1. k \in Kinds /\ pc[k] = "chaining"
        BY <3>2 DEF At, IInv, WorkInHand, Threads, Callers, Schedulers
      <4> QED BY <4>1 DEF ChildrenWait, ChildInv
    <3> QED BY <3>1, <3>2
  <2> QED BY <2>1, ChildPending, StagedPlace
<1>6. Owed \cap At("chaining") = {}
  BY DEF Owed, At
<1>7. Cardinality(Owed) + Cardinality(At("chaining")) <= Cardinality(Staged)
  <2> DEFINE A == Owed
             B == At("chaining")
             S == Staged
             x == "status"
  <2>1. /\ \A k \in A \cup B : k = x /\ S # {}
        /\ A \cap B = {} /\ IsFiniteSet(S)
    BY <1>1, <1>5, <1>6 DEF FiniteTallies
  <2> HIDE DEF A, B, S, x
  <2>2. Cardinality(S) \in Nat /\ (S # {} => Cardinality(S) >= 1)
    BY <2>1, FS_CardinalityType, FS_EmptySet
  <2>3. /\ A = {} \/ (A = {x} /\ B = {} /\ S # {})
        /\ B = {} \/ (B = {x} /\ A = {} /\ S # {})
    BY <2>1
  <2>4. Cardinality({}) = 0 /\ Cardinality({x}) = 1
    BY FS_EmptySet, FS_Singleton
  <2>5. \/ Cardinality(A) = 0 /\ Cardinality(B) = 0
        \/ Cardinality(A) + Cardinality(B) = 1 /\ S # {}
    BY <2>3, <2>4
  <2>8. Cardinality(A) + Cardinality(B) <= Cardinality(S)
    BY <2>2, <2>5
  <2> QED BY <2>8 DEF A, B, S
<1>8. count["enqueued"] \in Nat /\ count["published"] \in Nat
  BY DEF IInv, TypeOK, Counters
<1>9. /\ Cardinality(Owed) \in Nat /\ Cardinality(At("chaining")) \in Nat
      /\ Cardinality(Staged) \in Nat
  BY <1>1, Sizes
<1>10. count["enqueued"] + (0 + Cardinality(Owed) + Cardinality(At("chaining")))
         = count["published"] + Cardinality(At("removed")) + Cardinality(Staged)
  BY <1>1, <1>4 DEF EnqueuedArePublished, Uncounted
<1> HIDE DEF At, Owed, Staged
<1> QED BY ONLY <1>4, <1>7, <1>8, <1>9, <1>10

\* The head of a list with a fresh tail is there once.
LEMMA FreshHead ==
  ASSUME NEW q \in Events, q # <<>>, NEW S, FreshTail(q, S)
  PROVE  \A e \in ToSet(Tail(q)) : Id(e) # Id(Head(q))
<1> SUFFICES ASSUME NEW e \in ToSet(Tail(q)) PROVE Id(e) # Id(Head(q))
  OBVIOUS
<1>1. /\ Len(q) \in Nat /\ DOMAIN q = 1 .. Len(q) /\ 1 \in DOMAIN q /\ Head(q) = q[1]
      /\ DOMAIN Tail(q) = 1 .. (Len(q) - 1)
      /\ \A i \in 1 .. (Len(q) - 1) : Tail(q)[i] = q[i + 1]
  BY DEF Events
<1>2. PICK i \in DOMAIN Tail(q) : e = Tail(q)[i]
  BY DEF ToSet
<1>3. i + 1 \in DOMAIN q /\ 1 < i + 1 /\ e = q[i + 1]
  BY <1>1, <1>2
<1> QED BY <1>1, <1>3 DEF FreshTail

\* An event that left its outbox and was not applied yet.
Left(o, id) ==
  /\ id \in SentIds(o) /\ id \notin ToSet(applied[o])
  /\ \A e \in ToSet(db[o].pending) : Id(e) # id

\* When the dispatcher has removed a head, the event is on its way to be applied,
\* or a call of the dispatcher has failed that is not to be charged again.
Spared == Cardinality(Stuck) + 1 <= spent["faults"]
OnItsWay == \E n \in Nat : Left(at["dispatch"], <<"business", n>>)

LEMMA HeadLeft ==
  ASSUME IInv, EventInv, AppliedOnceInWindow', StagedFresh, StuckBound, [Next]_vars,
         Exact', Fits', RemoveHead("ok"),
         \A e \in ToSet(db[at["dispatch"]].pending) : e.kind = "business"
  PROVE  Spared' \/ OnItsWay'
<1> DEFINE t == "dispatch"
<1>1. /\ t \in Threads /\ pc[t] = "removing" /\ pc[t] \in Reading /\ at[t] \in Orders
      /\ copy[t] = db[at[t]] /\ copy[t] \in Doc /\ copy[t].pending # <<>>
      /\ Save(t, HeadRemoved(copy[t]), "ok") /\ UNCHANGED <<queue, history, at>>
  BY ThreadKinds DEF RemoveHead, IInv, TypeOK, WorkInHand, CopyIsCurrent, Reading
<1>2. PICK o \in Orders : o = at[t]
  BY <1>1
<1> DEFINE q == db[o].pending
<1>3. HeadRemoved(copy[t]) \in Doc /\ HeadRemoved(copy[t]).pending = Tail(q)
  BY <1>1, <1>2, HeadRemovedType DEF HeadRemoved, Doc
<1>4. db'[o].pending = Tail(q) /\ q # <<>> /\ q \in Events
  BY <1>1, <1>2, <1>3, SavePending, MemberTypes DEF Effective, IInv
<1>5. SentIds(o)' = SentIds(o) /\ FreshTail(q, SentIds(o)) /\ applied' = applied
  BY <1>1, ExactBefore DEF SentIds, Queued, history, StagedFresh
<1>6. PICK e \in Event : e = Head(q) /\ e.kind = "business"
  BY <1>2, <1>4, HeadGone, MemberTypes DEF IInv
<1>7. e.n \in Nat /\ Id(e) = <<"business", e.n>>
  BY <1>6 DEF Event, Id
<1>8. Id(e) \in SentIds(o)
  BY <1>1, <1>2, <1>6 DEF EventInv, ArrivedInv, HeadSent
<1>9. CASE Id(e) \in ToSet(applied[o])
  BY <1>2, <1>6, <1>9, StuckFreed DEF Spared, HeadId
<1>10. CASE Id(e) \notin ToSet(applied[o])
  <2>1. \A f \in ToSet(Tail(q)) : Id(f) # Id(e)
    <3> HIDE DEF q
    <3> QED BY <1>4, <1>5, <1>6, FreshHead
  <2>2. Left(o, Id(e))'
    BY <1>4, <1>5, <1>8, <1>10, <2>1 DEF Left
  <2>3. at'[t] = o
    BY <1>1, <1>2
  <2> QED BY <1>7, <2>2, <2>3 DEF OnItsWay, Left, SentIds, Queued
<1> QED BY <1>9, <1>10

\* Until it has counted the event, neither changes.
LEMMA LeftStays ==
  ASSUME IInv, EventInv, AppliedOnceInWindow', StagedFresh, StuckBound, [Next]_vars,
         Exact', Fits', pc["dispatch"] = "removed", at'["dispatch"] = at["dispatch"]
  PROVE  /\ Spared => Spared'
         /\ OnItsWay => OnItsWay'
<1>1. Spared => Spared'
  <2>1. Stuck' \subseteq Stuck
    BY StuckChanges
  <2>2. IsFiniteSet(Stuck)
    BY ExactBefore DEF StuckBound
  <2> DEFINE S == Stuck
             T == Stuck'
             m == spent["faults"]
             n == spent'["faults"]
  <2>3. m \in Nat /\ n \in Nat /\ n >= m
    BY FaultsGrow
  <2>4. ASSUME Cardinality(S) + 1 <= m
        PROVE  Cardinality(T) + 1 <= n
    <3> HIDE DEF S, T, m, n
    <3>1. IsFiniteSet(S) /\ T \subseteq S
      BY <2>1, <2>2 DEF S, T
    <3> QED BY <2>3, <2>4, <3>1, FS_Subset, FS_CardinalityType
  <2> QED BY <2>4 DEF Spared
<1>2. ASSUME OnItsWay
      PROVE  OnItsWay'
  <2>1. PICK o \in Orders : o = at["dispatch"]
    BY ThreadKinds DEF IInv, WorkInHand
  <2>2. PICK n \in Nat : Left(o, <<"business", n>>)
    BY <1>2, <2>1 DEF OnItsWay
  <2>3. PICK id : id = <<"business", n>> /\ Left(o, id)
    BY <2>2
  <2>4. id \in SentIds(o)' /\ applied'[o] = applied[o]
    BY <2>1, <2>3, SentGrows, NotApplied DEF Left, EventInv, Locked, Steps
  <2>5. id \in Known(o) /\ db[o].pending \in Events
    BY <2>3, KnownParts, MemberTypes DEF Left, IInv
  <2>6. ASSUME NEW e \in ToSet(db'[o].pending)
        PROVE  Id(e) # id
    <3>1. ~ Removes(o)
      BY DEF Removes
    <3>2. ASSUME NEW f \in Event, db'[o].pending = Append(db[o].pending, f), Id(f) \notin Known(o)
          PROVE  Id(e) # id
      BY <2>3, <2>5, <2>6, <3>2, EventAppended DEF Left
    <3> QED BY <2>3, <2>6, <3>1, <3>2, OutboxStep DEF Left
  <2>7. Left(o, id)'
    BY <2>3, <2>4, <2>6 DEF Left
  <2>8. at'["dispatch"] = o
    BY <2>1
  <2> QED BY <2>3, <2>7, <2>8 DEF OnItsWay, Left, SentIds, Queued
<1> QED BY <1>1, <1>2

\* What is read of the counters one by one.
CountersRead ==
  /\ next \in {"consumed", "published"} => seen \in Nat
  /\ Exact /\ next = "published" => seen <= count["consumed"]
  /\ Exact /\ Fits /\ answered /\ next \in {"consumed", "published"}
     /\ pc["dispatch"] = "removed" =>
       Spared \/ OnItsWay \/ count["published"] < seen

LEMMA CountersReadQuiet ==
  ASSUME CountersRead, UNCHANGED vars, UNCHANGED <<answered, seen>>,
         next' = next \/ next' = "bounds"
  PROVE  CountersRead'
<1>1. Stuck' = Stuck
  BY DEF vars, durable, threads, history, Stuck, StuckAt, HeadId, InFlight, SentIds, Queued
<1>2. (Spared => Spared') /\ (OnItsWay => OnItsWay')
  BY <1>1 DEF vars, durable, threads, history, Spared, OnItsWay, Left, SentIds, Queued
<1> QED BY <1>2 DEF CountersRead, vars, threads, history, Exact, Fits

LEMMA CountersReadBackground ==
  ASSUME IInv, EventInv, AppliedOnceInWindow', StagedFresh, StuckBound, Progress, Cleared,
         CountersRead, Background, [Next]_vars
  PROVE  CountersRead'
<1> DEFINE t == "dispatch"
<1>1. UNCHANGED <<answered, next, seen, unread>>
  BY DEF Background, reading
<1>2. /\ next \in {"consumed", "published"} => seen \in Nat
      /\ Exact' /\ next = "published" => seen <= count'["consumed"]
  <2>1. count["consumed"] \in Nat
    BY DEF IInv, TypeOK, Counters
  <2>2. Exact' => count'["consumed"] >= count["consumed"] /\ Exact
    BY CountsGrow, ExactBefore DEF Counters
  <2>3. count'["consumed"] \in Nat
    BY TypeStep DEF IInv, TypeOK, Counters
  <2> QED BY <2>1, <2>2, <2>3 DEF CountersRead
<1>3. ASSUME Exact', Fits', answered, next \in {"consumed", "published"}, pc'[t] = "removed"
      PROVE  Spared' \/ OnItsWay' \/ count'["published"] < seen
  <2>1. Exact /\ Fits /\ unread = {} /\ t \in Threads /\ TypeOK
    BY <1>3, ExactBefore, ThreadKinds DEF Progress, IInv
  <2>2. ~ CountPublished
    BY <1>3, <2>1, Frames DEF CountPublished
  <2>3. ASSUME NEW result \in Results, Send(result)
        PROVE  FALSE
    <3>1. Goto(t, "resending") \/ Goto(t, "removing") \/ Finish(t)
      BY <2>3, Zenon DEF Send
    <3> QED BY <1>3, <2>1, <3>1, Frames
  <2>4. ASSUME NEW result \in Results, RemoveHead(result)
        PROVE  Spared' \/ OnItsWay'
    <3>1. result = "ok"
      BY <1>3, <2>1, <2>4, Frames DEF RemoveHead
    <3>2. at[t] \in Orders
      BY <2>1, <2>4 DEF RemoveHead, IInv, WorkInHand
    <3>3. \A e \in ToSet(db[at[t]].pending) : e.kind = "business"
      BY <1>3, <2>1, <3>2 DEF Cleared, ClearedAt
    <3> QED BY <1>3, <2>4, <3>1, <3>3, HeadLeft
  <2>5. ASSUME UNCHANGED <<pc[t], at[t]>>
        PROVE  Spared' \/ OnItsWay' \/ count'["published"] < seen
    <3>1. count'["published"] = count["published"]
      BY <1>3, <2>2, CountsGrow
    <3>2. pc[t] = "removed" /\ at'[t] = at[t]
      BY <1>3, <2>5
    <3>3. Spared \/ OnItsWay \/ count["published"] < seen
      BY <1>3, <2>1, <3>2 DEF CountersRead
    <3>4. (Spared => Spared') /\ (OnItsWay => OnItsWay')
      BY <1>3, <3>2, LeftStays
    <3> QED BY <3>1, <3>3, <3>4
  <2>6. ~ Crash
    BY <1>3, <2>1, ExactStep DEF Crash
  <2>7. ~ (pc[t] = "idle" /\ pc'[t] = "sending")
    BY <1>3
  <2> QED BY <2>2, <2>3, <2>4, <2>5, <2>6, <2>7, Dispatching
<1> QED BY <1>1, <1>2, <1>3 DEF CountersRead

LEMMA CountersReadStep ==
  ASSUME PipelineInv, AppliedOnceInWindow', Progress, Cleared, CountersRead,
         [DrainNext]_drainVars, [Next]_vars
  PROVE  CountersRead'
<1>1. IInv /\ EventInv /\ SequenceInv
  BY DEF PipelineInv, LedgerInv
<1>2. CASE Background
  BY <1>1, <1>2, CountersReadBackground DEF PipelineInv
<1>3. CASE LoadEnds
  BY <1>3 DEF LoadEnds, Progress, CountersRead, reading
<1>4. ASSUME NEW o \in Orders, ReadBounds(o)
      PROVE  CountersRead'
  BY <1>4 DEF ReadBounds, CountersRead
<1>5. CASE ReadEnqueued
  <2>1. /\ UNCHANGED vars /\ UNCHANGED answered /\ seen' = count["enqueued"]
        /\ next' = "consumed" /\ unread = {}
    BY <1>5 DEF ReadEnqueued, Progress
  <2>2. count["enqueued"] \in Nat
    BY <1>1 DEF IInv, TypeOK, Counters
  <2>3. ASSUME Exact, Fits, answered, pc["dispatch"] = "removed"
        PROVE  count["published"] < count["enqueued"]
    <3>1. \A u \in Callers : pc[u] = "idle"
      <4>1. \A u \in Callers : pc[u] # "idle" => at[u] \in Orders
        BY <1>1, ThreadKinds DEF IInv, WorkInHand
      <4> QED BY <2>1, <2>3, <4>1 DEF Cleared, ClearedAt
    <3> QED BY <1>1, <2>3, <3>1, EnqueuedAbove DEF PipelineInv
  <2> QED BY <2>1, <2>2, <2>3 DEF CountersRead, vars, threads, history, Exact, Fits
<1>6. CASE ReadConsumed
  <2>1. UNCHANGED vars /\ UNCHANGED answered /\ next = "consumed"
    BY <1>6 DEF ReadConsumed
  <2>2. CASE count["consumed"] = seen
    <3>1. next' = "published" /\ seen' = seen /\ count' = count
      BY <1>6, <2>2 DEF ReadConsumed, vars
    <3>2. Stuck' = Stuck
      BY <2>1 DEF vars, durable, threads, history, Stuck, StuckAt, HeadId, InFlight, SentIds, Queued
    <3>3. (Spared => Spared') /\ (OnItsWay => OnItsWay')
      BY <2>1, <3>2 DEF vars, durable, threads, history, Spared, OnItsWay, Left, SentIds, Queued
    <3> QED BY <2>1, <2>2, <3>1, <3>3 DEF CountersRead, vars, threads, history, Exact, Fits
  <2>3. CASE count["consumed"] # seen
    BY <1>6, <2>3 DEF ReadConsumed, Again, CountersRead
  <2> QED BY <2>2, <2>3
<1>7. CASE ReadPublished
  <2>1. CASE next' = "bounds"
    BY <2>1 DEF CountersRead
  <2>2. CASE next' # "bounds"
    BY <1>7, <2>2, CountersReadQuiet DEF ReadPublished, Again, reading
  <2> QED BY <2>1, <2>2
<1>8. CASE GiveUp
  BY <1>8 DEF GiveUp, Again, CountersRead
<1>9. CASE UNCHANGED drainVars
  BY <1>9, CountersReadQuiet DEF drainVars, reading
<1> QED BY <1>2, <1>3, <1>4, <1>5, <1>6, <1>7, <1>8, <1>9 DEF DrainNext, Poll

\* A set and its parts.
LEMMA PartSizes ==
  ASSUME NEW S, IsFiniteSet(S), NEW T, T \subseteq S
  PROVE  /\ IsFiniteSet(T) /\ IsFiniteSet(S \ T)
         /\ Cardinality(S) \in Nat /\ Cardinality(T) \in Nat
         /\ Cardinality(S \ T) = Cardinality(S) - Cardinality(T)
<1>1. S \cap T = T
  OBVIOUS
<1>2. IsFiniteSet(S \ T) /\ Cardinality(S \ T) = Cardinality(S) - Cardinality(T)
  BY <1>1, FS_Difference
<1> QED BY <1>2, FS_Subset, FS_CardinalityType

LEMMA JointSizes ==
  ASSUME NEW S, IsFiniteSet(S), NEW T, IsFiniteSet(T), S \cap T = {}
  PROVE  /\ IsFiniteSet(S \cup T)
         /\ Cardinality(S) \in Nat /\ Cardinality(T) \in Nat
         /\ Cardinality(S \cup T) = Cardinality(S) + Cardinality(T)
<1>1. Cardinality(S \cap T) = 0
  BY FS_EmptySet
<1>2. Cardinality(S) \in Nat /\ Cardinality(T) \in Nat
  BY FS_CardinalityType
<1>3. /\ IsFiniteSet(S \cup T)
      /\ Cardinality(S \cup T) = Cardinality(S) + Cardinality(T) - Cardinality(S \cap T)
  BY FS_Union
<1> QED BY <1>1, <1>2, <1>3

\* The events staged and not applied.
StagedUnapplied ==
  {z \in Orders \X EventId : z[2] \notin ToSet(applied[z[1]])
     /\ \E e \in ToSet(db[z[1]].pending) : Id(e) = z[2]}

\* All others are heads of stuck orders.
LEMMA StagedSplit ==
  ASSUME IInv, Fits, StagedFresh, IsFiniteSet(Staged), IsFiniteSet(Stuck),
         IsFiniteSet(StagedUnapplied)
  PROVE  Cardinality(Staged) <= Cardinality(Stuck) + Cardinality(StagedUnapplied)
<1> DEFINE f == [o \in Orders |-> db[o].pending]
           Heads == {x \in Staged : Id(f[x[1]][x[2]]) \in ToSet(applied[x[1]])}
           Others == Staged \ Heads
           F == [x \in Heads |-> x[1]]
           G == [x \in Others |-> <<x[1], Id(f[x[1]][x[2]])>>]
<1>1. ASSUME NEW x \in Staged
      PROVE  /\ x[1] \in Orders /\ x = <<x[1], x[2]>> /\ x[2] \in DOMAIN f[x[1]]
             /\ f[x[1]] = db[x[1]].pending /\ f[x[1]] \in Events
             /\ f[x[1]][x[2]] \in Event /\ f[x[1]][x[2]] \in ToSet(db[x[1]].pending)
             /\ FreshTail(f[x[1]], SentIds(x[1]))
  <2> HIDE DEF f
  <2>1. PICK o \in DOMAIN f : \E i \in DOMAIN f[o] : x = <<o, i>>
    BY SlotMembers DEF Staged, f
  <2>2. PICK i \in DOMAIN f[o] : x = <<o, i>>
    BY <2>1
  <2>3. o \in Orders /\ f[o] = db[o].pending /\ f[o] \in Events /\ FreshTail(f[o], SentIds(o))
    BY <2>1, MemberTypes DEF f, IInv, StagedFresh
  <2>4. f[o][i] \in ToSet(db[o].pending) /\ f[o][i] \in Event
    BY <2>2, <2>3 DEF ToSet, Events
  <2> QED BY <2>2, <2>3, <2>4
<1>2. ASSUME NEW x \in Heads
      PROVE  x[2] = 1 /\ x[1] \in Stuck
  <2> HIDE DEF f
  <2>1. PICK o \in Orders : o = x[1]
    BY <1>1
  <2>2. PICK q \in Events : q = f[o] /\ q = db[o].pending
    BY <1>1, <2>1
  <2>3. PICK i : i = x[2]
    OBVIOUS
  <2>4. /\ i \in DOMAIN q /\ Id(q[i]) \in SentIds(o) /\ Id(q[i]) \in ToSet(applied[o])
        /\ FreshTail(q, SentIds(o))
    BY <1>1, <2>1, <2>2, <2>3 DEF SentIds
  <2>5. /\ DOMAIN q = 1 .. Len(q) /\ Len(q) \in Nat
        /\ q # <<>> => 1 \in DOMAIN q /\ Head(q) = q[1]
    BY <2>2 DEF Events
  <2>6. q # <<>>
    BY <2>4
  <2>7. i = 1
    <3>1. ~ (1 < i)
      BY <2>4, <2>5, <2>6 DEF FreshTail
    <3> QED BY <2>4, <2>5, <3>1
  <2>8. StuckAt(o)
    BY <2>2, <2>4, <2>5, <2>6, <2>7 DEF StuckAt, HeadId
  <2> QED BY <2>1, <2>3, <2>7, <2>8 DEF Stuck
<1>3. ASSUME NEW x \in Others
      PROVE  G[x] = <<x[1], Id(f[x[1]][x[2]])>> /\ G[x] \in StagedUnapplied
  <2>1. x \in Staged /\ Id(f[x[1]][x[2]]) \notin ToSet(applied[x[1]])
    OBVIOUS
  <2> HIDE DEF f
  <2>2. PICK e \in Event : e = f[x[1]][x[2]]
    BY <1>1, <2>1
  <2>3. PICK o \in Orders : o = x[1]
    BY <1>1, <2>1
  <2>4. Id(e) \in EventId /\ e \in ToSet(db[o].pending) /\ Id(e) \notin ToSet(applied[o])
    BY <1>1, <2>1, <2>2, <2>3 DEF Id, EventId, Event
  <2>5. PICK id \in EventId : id = Id(e)
    BY <2>4
  <2>6. <<o, id>> \in StagedUnapplied
    BY <2>4, <2>5 DEF StagedUnapplied
  <2> QED BY <2>2, <2>3, <2>5, <2>6
<1>4. ASSUME NEW x \in Others, NEW y \in Others, G[x] = G[y]
      PROVE  x = y
  <2> HIDE DEF f
  <2>1. PICK o \in Orders : o = x[1] /\ o = y[1]
    BY <1>1, <1>3, <1>4
  <2>2. PICK q \in Events : q = f[o]
    BY <1>1, <2>1
  <2>3. PICK i : i = x[2]
    OBVIOUS
  <2>4. PICK j : j = y[2]
    OBVIOUS
  <2>5. i \in DOMAIN q /\ j \in DOMAIN q /\ Id(q[i]) = Id(q[j]) /\ FreshTail(q, SentIds(o))
    BY <1>1, <1>3, <1>4, <2>1, <2>2, <2>3, <2>4
  <2>6. DOMAIN q = 1 .. Len(q) /\ Len(q) \in Nat
    BY <2>2 DEF Events
  <2>7. ~ (i < j) /\ ~ (j < i)
    BY <2>5 DEF FreshTail
  <2>8. i = j
    BY <2>5, <2>6, <2>7
  <2> QED BY <1>1, <2>1, <2>3, <2>4, <2>8
<1>5. F \in Injection(Heads, Stuck)
  <2>1. \A x \in Heads : x[1] \in Stuck
    BY <1>2
  <2>2. \A x \in Heads, y \in Heads : x[1] = y[1] => x = y
    <3>1. Heads \subseteq Staged
      OBVIOUS
    <3> HIDE DEF f, Heads
    <3> QED BY <1>1, <1>2, <3>1
  <2> HIDE DEF Heads
  <2> QED BY <2>1, <2>2 DEF Injection, IsInjective
<1>6. G \in Injection(Others, StagedUnapplied)
  <2>1. G \in [Others -> StagedUnapplied]
    BY <1>3
  <2>2. IsInjective(G)
    BY <1>4 DEF IsInjective
  <2> QED BY <2>1, <2>2 DEF Injection
<1>7. Heads \subseteq Staged
  OBVIOUS
<1> HIDE DEF f, Heads, F, G
<1>8. /\ Cardinality(Others) = Cardinality(Staged) - Cardinality(Heads)
      /\ Cardinality(Staged) \in Nat /\ Cardinality(Heads) \in Nat
  BY <1>7, PartSizes
<1>9. Cardinality(Heads) <= Cardinality(Stuck)
  BY <1>5, FS_Injection
<1>10. Cardinality(Others) <= Cardinality(StagedUnapplied)
  <2> HIDE DEF Others
  <2> QED BY <1>6, FS_Injection
<1>11. Cardinality(Stuck) \in Nat /\ Cardinality(StagedUnapplied) \in Nat
  BY FS_CardinalityType
<1> QED BY <1>8, <1>9, <1>10, <1>11

\* Both are among the events known and not applied.
LEMMA UnappliedPending ==
  ASSUME IInv, EventInv
  PROVE  /\ Unapplied \subseteq Pending /\ StagedUnapplied \subseteq Pending
         /\ \A z \in Unapplied : z[2][1] = "status"
<1>1. ASSUME NEW z \in Unapplied
      PROVE  z \in Pending /\ z[2][1] = "status"
  <2>0. PICK o \in Orders : \E n \in DOMAIN issued[o] :
          z = <<o, <<"status", n>>>> /\ <<"status", n>> \notin ToSet(applied[o])
    BY DEF Unapplied
  <2>1. PICK n \in DOMAIN issued[o] :
          z = <<o, <<"status", n>>>> /\ <<"status", n>> \notin ToSet(applied[o])
    BY <2>0
  <2>2. <<"status", n>> \in Known(o)
    BY <2>1 DEF EventInv, NothingLost
  <2> QED BY <2>1, <2>2 DEF Pending, KnownEvents
<1>2. ASSUME NEW z \in StagedUnapplied
      PROVE  z \in Pending
  <2>1. PICK o \in Orders, id \in EventId : z = <<o, id>>
    BY DEF StagedUnapplied
  <2>2. id \notin ToSet(applied[o]) /\ id \in {Id(e) : e \in ToSet(db[o].pending)}
    BY <2>1 DEF StagedUnapplied
  <2>3. id \in Known(o)
    BY <2>2, KnownParts
  <2> QED BY <2>1, <2>2, <2>3 DEF Pending, KnownEvents
<1> QED BY <1>1, <1>2

\* What a verdict on counters read one by one is worth.
LEMMA Verdict ==
  ASSUME PipelineInv, Cleared, CountersRead, Exact, Fits, answered, unread = {},
         next = "published", count["published"] = seen
  PROVE  IsFiniteSet(Unapplied) /\ Cardinality(Unapplied) <= spent["faults"]
<1>1. IInv /\ EventInv /\ AppliedOnceInWindow /\ FiniteTallies /\ Balanced /\ StagedFresh
  BY DEF PipelineInv, LedgerInv, CountInv
<1> DEFINE K == KnownEvents
           U == Unapplied
           W == StagedUnapplied
<1>2. /\ IsFiniteSet(K) /\ IsFiniteSet(Staged) /\ IsFiniteSet(At("removed"))
      /\ IsFiniteSet(At("marking")) /\ IsFiniteSet(Applications)
      /\ IsFiniteSet(Stuck) /\ Cardinality(Stuck) <= spent["faults"]
  BY <1>1 DEF FiniteTallies, PipelineInv, StuckBound
<1>3. U \subseteq Pending /\ W \subseteq Pending /\ U \subseteq K /\ W \subseteq K
  BY <1>1, UnappliedPending DEF Pending
\* The staged ones are business events.
<1>4. ASSUME NEW z \in W
      PROVE  z[2][1] = "business"
  <2>1. PICK e : e \in ToSet(db[z[1]].pending) /\ Id(e) = z[2] /\ z[1] \in Orders
    BY DEF StagedUnapplied
  <2> QED BY <2>1 DEF Cleared, ClearedAt, Id
<1>5. U \cap W = {}
  BY <1>1, <1>4, UnappliedPending
\* Who is left out by the counters.
<1>6. ASSUME NEW V, V \subseteq Pending
      PROVE  /\ IsFiniteSet(V) /\ Cardinality(V) \in Nat
             /\ Cardinality(V) <= Cardinality(At("removed")) + Cardinality(Staged)
  <2>1. V \subseteq K
    BY <1>6 DEF Pending
  <2>2. Cardinality(Applications) <= Cardinality(K \ V)
    BY <1>1, <1>2, <1>6, ApplicationsFit
  <2>3. /\ IsFiniteSet(V) /\ Cardinality(V) \in Nat /\ Cardinality(K) \in Nat
        /\ Cardinality(K \ V) = Cardinality(K) - Cardinality(V)
    <3> HIDE DEF K
    <3> QED BY <1>2, <2>1, PartSizes
  <2>4. /\ Cardinality(K) = count["published"] + Cardinality(At("removed")) + Cardinality(Staged)
        /\ count["consumed"] + Cardinality(At("marking")) = Cardinality(Applications)
    BY <1>1 DEF Balanced, KnownAreEnqueued, EnqueuedArePublished, AppliedAreConsumed
  <2>5. count["published"] <= count["consumed"]
    BY DEF CountersRead
  <2>6. count["published"] \in Nat /\ count["consumed"] \in Nat
    BY <1>1 DEF IInv, TypeOK, Counters
  <2>7. /\ Cardinality(At("removed")) \in Nat /\ Cardinality(Staged) \in Nat
        /\ Cardinality(At("marking")) \in Nat /\ Cardinality(Applications) \in Nat
    BY <1>1, Sizes
  <2> DEFINE a == Cardinality(Applications)
             kv == Cardinality(K \ V)
             k == Cardinality(K)
             v == Cardinality(V)
             r == Cardinality(At("removed"))
             s == Cardinality(Staged)
             m == Cardinality(At("marking"))
             pub == count["published"]
             con == count["consumed"]
  <2>8. /\ a <= kv /\ kv = k - v /\ k = pub + r + s /\ con + m = a /\ pub <= con
        /\ a \in Nat /\ k \in Nat /\ v \in Nat /\ r \in Nat /\ s \in Nat /\ m \in Nat
        /\ pub \in Nat /\ con \in Nat
    BY <2>2, <2>3, <2>4, <2>5, <2>6, <2>7
  <2> HIDE DEF a, kv, k, v, r, s, m, pub, con
  <2>9. v <= r + s
    BY <2>8
  <2> QED BY <2>3, <2>9 DEF v, r, s
<1>7. /\ IsFiniteSet(U) /\ IsFiniteSet(W)
      /\ Cardinality(U) \in Nat /\ Cardinality(W) \in Nat /\ Cardinality(Stuck) \in Nat
  BY <1>2, <1>3, <1>6, FS_CardinalityType
<1>8. Cardinality(Staged) <= Cardinality(Stuck) + Cardinality(W)
  BY <1>1, <1>2, <1>7, StagedSplit
<1>9. /\ IsFiniteSet(U \cup W) /\ Cardinality(U \cup W) = Cardinality(U) + Cardinality(W)
  <2> HIDE DEF U, W
  <2> QED BY <1>5, <1>7, JointSizes
<1>10. /\ Cardinality(Staged) \in Nat /\ spent["faults"] \in Nat
  BY <1>1, Sizes DEF IInv, TypeOK, Bounds
<1> DEFINE u == Cardinality(U)
           w == Cardinality(W)
           st == Cardinality(Stuck)
           sg == Cardinality(Staged)
           n == spent["faults"]
<1>11. /\ u \in Nat /\ w \in Nat /\ st \in Nat /\ sg \in Nat /\ n \in Nat
       /\ st <= n /\ sg <= st + w /\ Cardinality(U \cup W) = u + w
  BY <1>2, <1>7, <1>8, <1>9, <1>10
<1>12. CASE pc["dispatch"] # "removed"
  <2>1. At("removed") = {}
    BY <1>1, <1>12 DEF At, IInv, WorkInHand, Threads, Callers, Schedulers
  <2>2. Cardinality(At("removed")) = 0
    BY <2>1, FS_EmptySet
  <2>3. Cardinality(U \cup W) <= 0 + sg
    BY <1>3, <1>6, <2>2
  <2> HIDE DEF u, w, st, sg, n, U, W
  <2>4. u <= n
    BY <1>11, <2>3
  <2> QED BY <1>7, <2>4 DEF U, u, n
<1>13. CASE pc["dispatch"] = "removed"
  <2>1. At("removed") = {"dispatch"}
    BY <1>1, <1>13, ThreadKinds DEF At, IInv, WorkInHand, Threads, Callers, Schedulers
  <2>2. Cardinality(At("removed")) = 1
    BY <2>1, FS_Singleton
  <2>3. Spared \/ OnItsWay
    <3>1. count["published"] \in Nat
      BY <1>1 DEF IInv, TypeOK, Counters
    <3> QED BY <1>13, <3>1 DEF CountersRead
  <2>4. CASE Spared
    <3>1. st + 1 <= n /\ Cardinality(U \cup W) <= 1 + sg
      BY <1>3, <1>6, <2>2, <2>4 DEF Spared
    <3> HIDE DEF u, w, st, sg, n, U, W
    <3>2. u <= n
      BY <1>11, <3>1
    <3> QED BY <1>7, <3>2 DEF U, u, n
  <2>5. CASE OnItsWay
    <3>1. PICK o \in Orders : o = at["dispatch"]
      BY <1>1, <1>13, ThreadKinds DEF IInv, WorkInHand
    <3>2. PICK i \in Nat : Left(o, <<"business", i>>)
      BY <2>5, <3>1 DEF OnItsWay
    <3>3. PICK id : id = <<"business", i>> /\ Left(o, id)
      BY <3>2
    <3>4. id \in Known(o) /\ id \notin ToSet(applied[o])
      BY <3>3, KnownParts DEF Left
    <3>5. PICK z : z = <<o, id>>
      OBVIOUS
    <3>6. z \in Pending
      BY <3>4, <3>5 DEF Pending, KnownEvents
    <3>7. z \notin W
      BY <3>3, <3>5 DEF StagedUnapplied, Left
    <3>8. z \notin U
      BY <1>1, <3>3, <3>5, UnappliedPending
    <3>9. Cardinality((U \cup W) \cup {z}) = Cardinality(U \cup W) + 1
      <4> HIDE DEF U, W
      <4> QED BY <1>9, <3>7, <3>8, FS_AddElement
    <3>10. (U \cup W) \cup {z} \subseteq Pending
      <4> HIDE DEF U, W
      <4> QED BY <1>3, <3>6
    <3>11. Cardinality((U \cup W) \cup {z}) <= 1 + sg
      BY <1>6, <2>2, <3>10
    <3> HIDE DEF u, w, st, sg, n, U, W
    <3>12. u <= n
      BY <1>11, <3>9, <3>11
    <3> QED BY <1>7, <3>12 DEF U, u, n
  <2> QED BY <2>3, <2>4, <2>5
<1> QED BY <1>12, <1>13

\* What is left after the verdict.
Charged ==
  Drained /\ answered /\ Exact /\ Fits =>
    IsFiniteSet(Unapplied) /\ Cardinality(Unapplied) <= spent["faults"]

LEMMA ChargedStep ==
  ASSUME PipelineInv, AppliedOnceInWindow', Progress, Cleared, CountersRead, Charged,
         [DrainNext]_drainVars, [Next]_vars
  PROVE  Charged'
<1>1. IInv /\ EventInv
  BY DEF PipelineInv, LedgerInv
<1>2. CASE Background
  <2> SUFFICES ASSUME Drained, answered, Exact', Fits'
               PROVE  IsFiniteSet(Unapplied') /\ Cardinality(Unapplied') <= spent'["faults"]
    BY <1>2 DEF Background, Charged, Drained
  <2> DEFINE S == Unapplied
             T == Unapplied'
             m == spent["faults"]
             n == spent'["faults"]
  <2>1. IsFiniteSet(S) /\ Cardinality(S) <= m /\ m \in Nat /\ n \in Nat /\ n >= m
    BY <1>1, ExactBefore, FaultsGrow DEF Charged
  <2>2. ASSUME NEW o \in Orders
        PROVE  issued'[o] = issued[o] /\ ToSet(applied[o]) \subseteq ToSet(applied'[o])
    BY <1>1, <1>2, ClearedStays, HistoryGrows DEF Background, Cleared, Progress
  <2>3. T \subseteq S
    BY <2>2 DEF Unapplied
  <2> HIDE DEF S, T, m, n
  <2>4. IsFiniteSet(T) /\ Cardinality(T) <= n
    BY <2>1, <2>3, FS_Subset, FS_CardinalityType
  <2> QED BY <2>4 DEF T, n
<1>3. ASSUME UNCHANGED vars, UNCHANGED answered, Drained' => Drained
      PROVE  Charged'
  BY <1>3 DEF vars, history, Charged, Exact, Fits, Unapplied
<1>4. CASE ReadPublished
  <2>1. CASE count["published"] = seen
    <3>1. answered /\ Exact /\ Fits =>
            IsFiniteSet(Unapplied) /\ Cardinality(Unapplied) <= spent["faults"]
      BY <1>4, <2>1, Verdict DEF ReadPublished, Progress
    <3>2. UNCHANGED <<vars, answered>>
      BY <1>4 DEF ReadPublished
    <3> QED BY <3>1, <3>2 DEF vars, history, Charged, Exact, Fits, Unapplied
  <2>2. CASE count["published"] # seen
    BY <1>3, <1>4, <2>2 DEF ReadPublished, Drained
  <2> QED BY <2>1, <2>2
<1>5. CASE LoadEnds
  BY <1>5 DEF LoadEnds, Charged, Drained
<1>6. ASSUME NEW o \in Orders, ReadBounds(o)
      PROVE  Charged'
  BY <1>3, <1>6 DEF ReadBounds, Drained
<1>7. CASE ReadEnqueued \/ ReadConsumed \/ GiveUp \/ UNCHANGED drainVars
  BY <1>3, <1>7 DEF ReadEnqueued, ReadConsumed, GiveUp, Drained, drainVars
<1> QED BY <1>2, <1>4, <1>5, <1>6, <1>7 DEF DrainNext, Poll

DrainInv == PipelineInv /\ Progress /\ Cleared /\ CountersRead /\ Charged

LEMMA DrainInvariance == DrainSpec => []DrainInv
<1>1. DrainInit => Progress /\ Cleared /\ CountersRead /\ Charged
  BY DEF DrainInit, Progress, Cleared, CountersRead, Charged, Drained
<1>2. ASSUME PipelineInv, PipelineInv', Progress, Cleared, CountersRead, Charged,
             [DrainNext]_drainVars, [Next]_vars
      PROVE  Progress' /\ Cleared' /\ CountersRead' /\ Charged'
  <2>1. /\ IInv /\ EventInv /\ DueInv /\ SavedStaged /\ AppliedOnceInWindow'
    BY <1>2 DEF PipelineInv, LedgerInv
  <2> QED BY <1>2, <2>1, ProgressStep, ClearedStep, CountersReadStep, ChargedStep
<1>3. [DrainNext]_drainVars => [Next]_vars
  BY DEF DrainNext, Poll, drainVars, Background, LoadEnds, ReadBounds, ReadEnqueued,
         ReadConsumed, ReadPublished, GiveUp
<1> QED
  BY <1>1, <1>2, <1>3, DrainIsPipeline, PipelineInvariance, PTL DEF DrainSpec, DrainInv

\* When the runner has declared the drain of an answered workload complete, nothing is
\* due and nobody is at work, whatever failed, crashed or was lost before; and if every
\* effect was acknowledged, the replica did not restart and no order has applied more
\* events than it keeps receipts of, counters that were read one by one while the
\* pipeline went on hide no more unapplied status changes than calls have failed.
THEOREM DrainMeansDone == DrainSpec => []LeftoversCharged
<1>1. ASSUME DrainInv
      PROVE  LeftoversCharged
  <2> SUFFICES ASSUME Drained, answered PROVE LeftoversCharged
    BY DEF LeftoversCharged
  <2>1. \A o \in Orders : ClearedAt(o)
    BY <1>1 DEF DrainInv, Progress, Cleared
  <2>2. ASSUME NEW t \in Callers
        PROVE  pc[t] = "idle"
    <3>1. pc[t] # "idle" => at[t] \in Orders
      BY <1>1, ThreadKinds DEF DrainInv, PipelineInv, LedgerInv, IInv, WorkInHand
    <3> QED BY <2>1, <3>1 DEF ClearedAt
  <2> QED BY <1>1, <2>1, <2>2 DEF DrainInv, Charged, ClearedAt, LeftoversCharged
<1> QED BY <1>1, DrainInvariance, PTL
=============================================================================

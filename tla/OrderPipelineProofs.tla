-------------------------- MODULE OrderPipelineProofs --------------------------
(***************************************************************************)
(* Theorems about OrderPipeline for all orders, threads, stripes,          *)
(* partitions and bounds.                                                  *)
(***************************************************************************)
EXTENDS OrderPipelineProps, TLAPS

-----------------------------------------------------------------------------
(* What the document operators return *)

\* Trimming the receipts keeps them a list of event ids.
LEMMA KeepLastType ==
  ASSUME NEW s \in Receipts, NEW n \in Nat
  PROVE  KeepLast(s, n) \in Receipts
  BY DEF KeepLast, Receipts

\* An event of a document is an event.
LEMMA EventTypes ==
  ASSUME NEW o \in Orders, NEW n \in Nat, NEW doc \in Doc, NEW e \in Event
  PROVE  /\ StatusEvent(o, n, doc) \in Event
         /\ BusinessEvent(e, doc) \in Event
         /\ Id(e) \in EventId
  BY DEF StatusEvent, BusinessEvent, Id, Event, EventId, Doc, Kinds

\* A document with one more event staged is a document.
LEMMA StageType ==
  ASSUME NEW doc \in Doc, NEW e \in Event
  PROVE  Stage(doc, e) \in Doc
<1>1. Append(doc.pending, e) \in Events
  BY DEF Doc, Events
<1> QED BY <1>1 DEF Stage, Doc

\* A document with one more receipt is a document.
LEMMA WithReceiptType ==
  ASSUME NEW doc \in Doc, NEW e \in Event
  PROVE  WithReceipt(doc, e) \in Doc
<1>1. Append(doc.receipts, Id(e)) \in Receipts
  BY DEF Doc, Receipts, Id, Event, EventId
<1> QED BY <1>1 DEF WithReceipt, Doc

\* A document that has applied an event is a document.
LEMMA AppliedType ==
  ASSUME NEW doc \in Doc, NEW e \in Event
  PROVE  Applied(doc, e) \in Doc
<1>1. BusinessEvent(e, doc) \in Event
  BY DEF BusinessEvent, Event, Doc, Kinds
<1>2. WithReceipt(doc, e) \in Doc
  BY WithReceiptType
<1>3. Stage(WithReceipt(doc, e), BusinessEvent(e, doc)) \in Doc
  BY <1>1, <1>2, StageType
<1> QED BY <1>2, <1>3 DEF Applied

\* A document that has the answer of the external service is a document.
LEMMA AnsweredTypes ==
  ASSUME NEW doc \in Doc, NEW outcome
  PROVE  Processed(doc, outcome) \in Doc /\ Polled(doc, outcome) \in Doc
<1>1. doc.attempts + 1 \in Nat
  BY DEF Doc
<1>2. {"WAITING", "COMPLETED", "FAILED"} \subseteq Status
  BY DEF Status
<1>3. Processed(doc, outcome) \in Doc
  BY <1>1, <1>2 DEF Processed, Doc
<1>4. Polled(doc, outcome) \in Doc
  BY <1>2 DEF Polled, Doc
<1> QED BY <1>3, <1>4

\* A document without the head of its outbox is a document.
LEMMA HeadRemovedType ==
  ASSUME NEW doc \in Doc, doc.pending # <<>>
  PROVE  HeadRemoved(doc) \in Doc
<1>1. Tail(doc.pending) \in Events
  BY DEF Doc, Events
<1> QED BY <1>1 DEF HeadRemoved, Doc

\* What the driver stores is a document.
LEMMA StoredType ==
  ASSUME NEW doc \in Doc
  PROVE  Stored(doc) \in Doc
<1>1. KeepLast(doc.receipts, EventIds) \in Receipts
  BY KeepLastType, BoundsAssumption DEF Doc
<1>2. doc.version + 1 \in Nat
  BY DEF Doc
<1> QED BY <1>1, <1>2 DEF Stored, Doc

\* A seeded order is a document.
LEMMA NewOrderType == NewOrder \in Doc
  BY DEF NewOrder, Doc, Status, Receipts, Events

-----------------------------------------------------------------------------
(* The locks *)

\* Taking a free lock.
LEMMA AcquireLocks ==
  ASSUME LockDiscipline, TypeOK,
         NEW t \in Threads, NEW o \in Orders, NEW step \in Locked,
         pc[t] = "idle", Free(o), Acquire(t, o, step)
  PROVE  LockDiscipline'
<1>1. StripeOf[o] \in Stripes /\ t # NoThread /\ "idle" \notin Locked
  BY PipelineAssumption DEF Locked
<1> SUFFICES ASSUME NEW s \in Stripes, NEW u \in Threads
             PROVE  holder'[s] = u <=> /\ pc'[u] \in Locked
                                       /\ at'[u] \in Orders
                                       /\ StripeOf[at'[u]] = s
  BY DEF LockDiscipline
<1>2. u # NoThread
  BY PipelineAssumption
<1>3. holder[s] = u <=> pc[u] \in Locked /\ at[u] \in Orders /\ StripeOf[at[u]] = s
  BY DEF LockDiscipline
<1>4. CASE u = t
  BY <1>1, <1>2, <1>3, <1>4 DEF Acquire, TypeOK, Free
<1>5. CASE u # t
  BY <1>1, <1>2, <1>3, <1>5 DEF Acquire, TypeOK, Free
<1> QED BY <1>4, <1>5

\* Leaving the locked section, to any step outside of it.
LEMMA ReleaseLocks ==
  ASSUME LockDiscipline, TypeOK,
         NEW t \in Threads, pc[t] \in Locked, at[t] \in Orders,
         NEW step, step \notin Locked,
         Unlock(t), pc' = [pc EXCEPT ![t] = step],
         NEW o, at' = [at EXCEPT ![t] = o]
  PROVE  LockDiscipline'
<1>1. StripeOf[at[t]] \in Stripes /\ t # NoThread
  BY PipelineAssumption
<1> SUFFICES ASSUME NEW s \in Stripes, NEW u \in Threads
             PROVE  holder'[s] = u <=> /\ pc'[u] \in Locked
                                       /\ at'[u] \in Orders
                                       /\ StripeOf[at'[u]] = s
  BY DEF LockDiscipline
<1>2. u # NoThread
  BY PipelineAssumption
<1>3. /\ holder[s] = u <=> pc[u] \in Locked /\ at[u] \in Orders /\ StripeOf[at[u]] = s
      /\ holder[s] = t <=> StripeOf[at[t]] = s
  BY DEF LockDiscipline
<1>4. CASE u = t
  BY <1>1, <1>2, <1>3, <1>4 DEF Unlock, TypeOK
<1>5. CASE u # t
  BY <1>1, <1>2, <1>3, <1>5 DEF Unlock, TypeOK
<1> QED BY <1>4, <1>5

\* A step inside, or outside, of the locked section.
LEMMA KeepLocks ==
  ASSUME LockDiscipline, TypeOK,
         NEW t \in Threads, NEW step, pc[t] \in Locked <=> step \in Locked,
         pc' = [pc EXCEPT ![t] = step],
         UNCHANGED holder,
         \/ UNCHANGED at
         \/ step \notin Locked /\ \E o : at' = [at EXCEPT ![t] = o]
  PROVE  LockDiscipline'
<1> SUFFICES ASSUME NEW s \in Stripes, NEW u \in Threads
             PROVE  holder'[s] = u <=> /\ pc'[u] \in Locked
                                       /\ at'[u] \in Orders
                                       /\ StripeOf[at'[u]] = s
  BY DEF LockDiscipline
<1>1. holder[s] = u <=> pc[u] \in Locked /\ at[u] \in Orders /\ StripeOf[at[u]] = s
  BY DEF LockDiscipline
<1>2. CASE u = t
  BY <1>1, <1>2 DEF TypeOK
<1>3. CASE u # t
  BY <1>1, <1>3 DEF TypeOK
<1> QED BY <1>2, <1>3

\* No two threads are in the locked sections of one order.
LEMMA OneHolder ==
  ASSUME LockDiscipline,
         NEW t \in Threads, NEW u \in Threads,
         pc[t] \in Locked, pc[u] \in Locked,
         at[t] \in Orders, at[u] = at[t]
  PROVE  t = u
<1>1. StripeOf[at[t]] \in Stripes
  BY PipelineAssumption
<1> QED BY <1>1 DEF LockDiscipline

-----------------------------------------------------------------------------
(* The inductive invariant *)

\* LockDiscipline and CopyIsCurrent need each other: the one tells that nobody
\* else writes an order in hand, the other that the version check succeeds.
\* WorkInHand says which order that is.
IInv == TypeOK /\ LockDiscipline /\ WorkInHand /\ CopyIsCurrent

\* How the lock operators type the variables of the threads.
ThreadTypes ==
  /\ holder \in [Stripes -> Threads \cup {NoThread}]
  /\ pc \in [Threads -> Steps]
  /\ at \in [Threads -> Orders \cup {NoOrder}]
  /\ copy \in [Threads -> Doc]

\* Taking a lock keeps the types of the threads.
LEMMA AcquireTypes ==
  ASSUME TypeOK, NEW t \in Threads, NEW o \in Orders, NEW step \in Steps,
         Acquire(t, o, step)
  PROVE  ThreadTypes'
  BY DEF TypeOK, ThreadTypes, Acquire

\* Going on inside a section keeps the types of the threads.
LEMMA GotoTypes ==
  ASSUME TypeOK, NEW t \in Threads, NEW step \in Steps, Goto(t, step)
  PROVE  ThreadTypes'
  BY DEF TypeOK, ThreadTypes, Goto

\* The end of a locked section keeps the types of the threads.
LEMMA FinishTypes ==
  ASSUME TypeOK, NEW t \in Threads, Finish(t)
  PROVE  ThreadTypes'
  BY NewOrderType DEF TypeOK, ThreadTypes, Finish, Unlock, Steps

\* A listener that leaves its section keeps the types of the threads.
LEMMA LeaveTypes ==
  ASSUME TypeOK, NEW k \in Kinds, Leave(k)
  PROVE  ThreadTypes'
  BY NewOrderType DEF TypeOK, ThreadTypes, Leave, Unlock, Steps, Threads

\* A listener that returns keeps the types of the threads.
LEMMA ReturnTypes ==
  ASSUME TypeOK, NEW k \in Kinds, Return(k)
  PROVE  ThreadTypes'
  BY DEF TypeOK, ThreadTypes, Return, Steps, Threads

\* Using up a bound keeps its type.
LEMMA SpendTypes ==
  ASSUME TypeOK, NEW b \in Bounds, Spend(b)
  PROVE  spent' \in [Bounds -> Nat]
  BY DEF TypeOK, Spend

\* So does charging a result to its bound.
LEMMA ChargeTypes ==
  ASSUME TypeOK, NEW result \in Results, Charge(result)
  PROVE  spent' \in [Bounds -> Nat]
<1>1. "faults" \in Bounds /\ "unacked" \in Bounds
  BY DEF Bounds
<1>2. spent' = spent \/ Spend("faults") \/ Spend("unacked")
  BY DEF Charge, Results
<1> QED BY <1>1, <1>2, SpendTypes DEF TypeOK

\* A counter incremented is a counter.
LEMMA IncrementTypes ==
  ASSUME TypeOK, NEW c \in Counters, Increment(c)
  PROVE  count' \in [Counters -> Nat]
  BY DEF TypeOK, Increment

\* A save of a document keeps the types of the collection and the bounds.
LEMMA SaveTypes ==
  ASSUME TypeOK, NEW t \in Threads, NEW doc \in Doc, NEW result \in Results,
         Save(t, doc, result)
  PROVE  db' \in [Orders -> Doc] /\ spent' \in [Bounds -> Nat]
<1>1. Stored(doc) \in Doc
  BY StoredType
<1>2. CASE VersionMatches(t)
  BY <1>1, <1>2, ChargeTypes DEF Save, TypeOK
<1>3. CASE ~VersionMatches(t)
  BY <1>3 DEF Save, TypeOK
<1> QED BY <1>2, <1>3

\* The kinds of threads, and that they are different threads.
LEMMA ThreadKinds ==
  /\ Http \subseteq Threads /\ Schedulers \subseteq Threads /\ Kinds \subseteq Threads
  /\ Callers \subseteq Threads /\ "dispatch" \in Threads
  /\ "dispatch" \notin Callers /\ "dispatch" \notin Kinds
  /\ Callers \cap Kinds = {}
  BY PipelineAssumption DEF Threads, Schedulers, Kinds, Callers

\* A record in a topic is an event, and so is the one a listener works on.
LEMMA RecordTypes ==
  ASSUME TypeOK, NEW k \in Kinds, NEW p \in Partitions, queue[k][p] # <<>>
  PROVE  /\ Record(k, p) \in Event
         /\ Tail(queue[k][p]) \in Events
         /\ 1 \in DOMAIN queue[k][p]
         /\ Record(k, p) = queue[k][p][1]
<1>1. queue[k][p] \in Events
  BY DEF TypeOK
<1> QED BY <1>1 DEF Record, Events

\* The record in hand is an event for the order in hand.
LEMMA CurrentTypes ==
  ASSUME TypeOK, WorkInHand, NEW k \in Kinds, pc[k] # "idle"
  PROVE  /\ at[k] \in Orders
         /\ PartitionOf[at[k]] \in Partitions
         /\ queue[k][PartitionOf[at[k]]] # <<>>
         /\ Current(k) \in Event
         /\ Current(k).order = at[k]
<1>1. at[k] \in Orders
  BY ThreadKinds DEF WorkInHand
<1>2. PartitionOf[at[k]] \in Partitions
  BY <1>1, PipelineAssumption
<1>3. queue[k][PartitionOf[at[k]]] # <<>> /\ Current(k).order = at[k]
  BY DEF WorkInHand
<1> QED BY <1>1, <1>2, <1>3, RecordTypes DEF Current

\* Appending keeps lists of events and of receipts.
LEMMA AppendTypes ==
  /\ \A q \in Events, e \in Event : Append(q, e) \in Events
  /\ \A q \in Receipts, id \in EventId : Append(q, id) \in Receipts
  BY DEF Events, Receipts

\* Every step keeps the types.
LEMMA TypeStep ==
  ASSUME IInv, [Next]_vars
  PROVE  TypeOK'
<1> USE ThreadKinds DEF IInv
<1>1. TypeOK
  OBVIOUS
<1>2. ASSUME NEW t \in Http, NEW o \in Orders, HttpBegin(t, o)
      PROVE  TypeOK'
  <2>1. ThreadTypes'
    BY <1>2, AcquireTypes DEF HttpBegin, Steps
  <2>2. spent' \in [Bounds -> Nat]
    BY <1>2, SpendTypes DEF HttpBegin, Bounds
  <2> QED BY <1>1, <1>2, <2>1, <2>2 DEF HttpBegin, TypeOK, ThreadTypes, durable, history
<1>3. ASSUME NEW s \in Schedulers, Query(s)
      PROVE  TypeOK'
  <2>1. todo' \in [Schedulers -> SUBSET Orders]
    BY <1>1, <1>3 DEF Query, TypeOK
  <2> QED BY <1>1, <1>3, <2>1 DEF Query, TypeOK, durable, threads, history
<1>4. ASSUME NEW s \in Schedulers, NEW o \in Orders, TakeCandidate(s, o)
      PROVE  TypeOK'
  <2>1. todo' \in [Schedulers -> SUBSET Orders]
    BY <1>1, <1>4 DEF TakeCandidate, TypeOK
  <2>2. FirstStep(s) \in Steps
    BY DEF FirstStep, Steps
  <2>3. ThreadTypes'
    BY <1>1, <1>4, <2>2, AcquireTypes DEF TakeCandidate, threads, TypeOK, ThreadTypes
  <2> QED BY <1>1, <1>4, <2>1, <2>3 DEF TakeCandidate, TypeOK, ThreadTypes, durable, history
<1>5. ASSUME NEW t \in Callers, NEW outcome \in Outcomes(t), NEW result \in Results,
             SaveStatusChange(t, outcome, result)
      PROVE  TypeOK'
  <2> DEFINE doc == Answered(t, outcome)
             event == StatusEvent(at[t], Len(issued[at[t]]) + 1, doc)
  <2>1. at[t] \in Orders
    BY <1>5 DEF SaveStatusChange, WorkInHand
  <2>2. doc \in Doc
    BY AnsweredTypes DEF Answered, TypeOK
  <2>3. issued[at[t]] \in Seq(Status)
    BY <2>1 DEF TypeOK
  <2>4. Len(issued[at[t]]) + 1 \in Nat
    BY <2>3
  <2>5. event \in Event
    BY <2>1, <2>2, <2>4, <2>2 DEF StatusEvent, Event, Doc, Kinds
  <2>6. Stage(doc, event) \in Doc
    BY <2>2, <2>5, StageType
  <2>7. Save(t, Stage(doc, event), result)
    BY <1>5 DEF SaveStatusChange
  <2>8. db' \in [Orders -> Doc] /\ spent' \in [Bounds -> Nat]
    BY <2>6, <2>7, SaveTypes
  <2>9. issued' \in [Orders -> Seq(Status)]
    <3>1. Append(issued[at[t]], doc.status) \in Seq(Status)
      BY <2>2, <2>3 DEF Doc
    <3> HIDE DEF doc
    <3> QED BY <1>5, <2>1, <3>1 DEF SaveStatusChange, TypeOK, doc
  <2>10. ThreadTypes'
    BY <1>5, GotoTypes, FinishTypes DEF SaveStatusChange, Steps
  <2> QED BY <1>1, <1>5, <2>8, <2>9, <2>10 DEF SaveStatusChange, TypeOK, ThreadTypes
<1>6. ASSUME NEW t \in Callers, CountEnqueued(t)
      PROVE  TypeOK'
  <2>1. count' \in [Counters -> Nat]
    BY <1>6, IncrementTypes DEF CountEnqueued, Counters
  <2> QED BY <1>1, <1>6, <2>1, FinishTypes
          DEF CountEnqueued, TypeOK, ThreadTypes, durable, history
<1>7. ASSUME NEW t \in Callers, CallFails(t)
      PROVE  TypeOK'
  <2>1. spent' \in [Bounds -> Nat]
    BY <1>7, SpendTypes DEF CallFails, Bounds
  <2> QED BY <1>1, <1>7, <2>1, FinishTypes
          DEF CallFails, TypeOK, ThreadTypes, durable, history
<1>8. ASSUME NEW t \in Callers, StageRefused(t)
      PROVE  TypeOK'
  BY <1>1, <1>8, FinishTypes DEF StageRefused, TypeOK, ThreadTypes, durable, history
<1>9. ASSUME NEW result \in Results, Send(result)
      PROVE  TypeOK'
  <2> DEFINE event == Head(copy["dispatch"].pending)
  <2>1. copy["dispatch"] \in Doc /\ at["dispatch"] \in Orders
    BY <1>9 DEF Send, WorkInHand, TypeOK
  <2>2. copy["dispatch"].pending \in Events /\ copy["dispatch"].pending # <<>>
    BY <1>9, <2>1 DEF Send, WorkInHand, Doc
  <2>3. event \in Event
    BY <2>2 DEF Events
  <2>4. event.kind \in Kinds /\ event.order \in Orders
    BY <2>3 DEF Event
  <2> HIDE DEF event
  <2>5. queue' \in [Kinds -> [Partitions -> Events]]
    <3>1. PartitionOf[event.order] \in Partitions
      BY <2>4, PipelineAssumption
    <3>2. Append(queue[event.kind][PartitionOf[event.order]], event) \in Events
      BY <2>3, <2>4, <3>1, AppendTypes DEF TypeOK
    <3>3. Deliver(event) => queue' \in [Kinds -> [Partitions -> Events]]
      BY <2>4, <3>1, <3>2 DEF Deliver, TypeOK
    <3> QED BY <1>9, <3>3 DEF Send, TypeOK, event
  <2>6. spent' \in [Bounds -> Nat]
    BY <1>9, ChargeTypes DEF Send
  <2>7. count' \in [Counters -> Nat]
    <3>1. Increment("deliveries") \/ UNCHANGED count
      BY <1>9 DEF Send
    <3> QED BY <3>1, IncrementTypes DEF Counters, TypeOK
  <2>8. ThreadTypes'
    <3>1. \/ Goto("dispatch", "resending") \/ Goto("dispatch", "removing")
          \/ Finish("dispatch")
      BY <1>9, Zenon DEF Send
    <3> QED BY <3>1, GotoTypes, FinishTypes DEF Steps
  <2> QED BY <1>1, <1>9, <2>5, <2>6, <2>7, <2>8 DEF Send, TypeOK, ThreadTypes, history
<1>10. ASSUME NEW result \in Results, RemoveHead(result)
       PROVE  TypeOK'
  <2>1. copy["dispatch"] \in Doc /\ at["dispatch"] \in Orders
    BY <1>10 DEF RemoveHead, WorkInHand, TypeOK
  <2>2. HeadRemoved(copy["dispatch"]) \in Doc
    BY <1>10, <2>1, HeadRemovedType DEF RemoveHead, WorkInHand
  <2>3. db' \in [Orders -> Doc] /\ spent' \in [Bounds -> Nat]
    BY <1>10, <2>2, SaveTypes DEF RemoveHead
  <2>4. db'[at["dispatch"]] \in Doc
    BY <2>1, <2>3
  <2>5. ThreadTypes'
    <3>1. CASE result = "ok"
      BY <1>10, <2>4, <3>1 DEF RemoveHead, TypeOK, ThreadTypes, Steps
    <3>2. CASE result # "ok"
      BY <1>10, <3>2, FinishTypes DEF RemoveHead
    <3> QED BY <3>1, <3>2
  <2> QED BY <1>1, <1>10, <2>3, <2>5 DEF RemoveHead, TypeOK, ThreadTypes, history
<1>11. ASSUME CountPublished
       PROVE  TypeOK'
  <2>1. count' \in [Counters -> Nat]
    BY <1>11, IncrementTypes DEF CountPublished, Counters
  <2>2. ThreadTypes'
    BY <1>11, FinishTypes, GotoTypes DEF CountPublished, Steps
  <2> QED BY <1>1, <1>11, <2>1, <2>2
          DEF CountPublished, TypeOK, ThreadTypes, durable, history
<1>12. ASSUME NEW k \in Kinds, NEW p \in Partitions, Receive(k, p)
       PROVE  TypeOK'
  <2>1. Record(k, p).order \in Orders
    BY <1>12, RecordTypes DEF Receive, Event
  <2>2. CASE AlreadyProcessed(Record(k, p))
    <3>1. count' \in [Counters -> Nat]
      BY <1>12, <2>2, IncrementTypes DEF Receive, Counters
    <3>2. ThreadTypes'
      BY <1>12, <2>1, <2>2 DEF Receive, TypeOK, ThreadTypes, Steps
    <3> QED BY <1>1, <1>12, <3>1, <3>2 DEF Receive, TypeOK, ThreadTypes, durable, history
  <2>3. CASE ~AlreadyProcessed(Record(k, p))
    <3>1. ThreadTypes'
      BY <1>12, <2>1, <2>3, AcquireTypes DEF Receive, Steps
    <3> QED BY <1>1, <1>12, <2>3, <3>1 DEF Receive, TypeOK, ThreadTypes, durable, history
  <2> QED BY <2>2, <2>3
<1>13. ASSUME NEW k \in Kinds, NEW result \in Results, Apply(k, result)
       PROVE  TypeOK'
  <2>1. at[k] \in Orders /\ Current(k) \in Event
    BY <1>13, CurrentTypes DEF Apply
  <2>2. Applied(copy[k], Current(k)) \in Doc
    BY <2>1, AppliedType DEF TypeOK
  <2>3. db' \in [Orders -> Doc] /\ spent' \in [Bounds -> Nat]
    BY <1>13, <2>2, SaveTypes DEF Apply
  <2>4. applied' \in [Orders -> Receipts]
    <3>1. Id(Current(k)) \in EventId
      BY <2>1 DEF Id, Event, EventId
    <3>2. Append(applied[at[k]], Id(Current(k))) \in Receipts
      BY <2>1, <3>1, AppendTypes DEF TypeOK
    <3> QED BY <1>13, <2>1, <3>2 DEF Apply, TypeOK
  <2>5. ThreadTypes'
    BY <1>13, GotoTypes, FinishTypes DEF Apply, Steps
  <2> QED BY <1>1, <1>13, <2>3, <2>4, <2>5 DEF Apply, TypeOK, ThreadTypes
<1>14. ASSUME NEW k \in Kinds, ApplyRefused(k)
       PROVE  TypeOK'
  BY <1>1, <1>14, FinishTypes DEF ApplyRefused, TypeOK, ThreadTypes, durable, history
<1>15. ASSUME NEW k \in Kinds, Mark(k)
       PROVE  TypeOK'
  <2>1. at[k] \in Orders /\ Current(k) \in Event
    BY <1>15, CurrentTypes DEF Mark
  <2>2. cache' \subseteq Orders \X EventId
    BY <1>15, <2>1 DEF Mark, TypeOK, Id, Event, EventId
  <2>3. count' \in [Counters -> Nat]
    BY <1>15, IncrementTypes DEF Mark, Counters
  <2>4. ThreadTypes'
    BY <1>15, GotoTypes, LeaveTypes DEF Mark, Steps
  <2> QED BY <1>1, <1>15, <2>2, <2>3, <2>4 DEF Mark, TypeOK, ThreadTypes, durable, history
<1>16. ASSUME NEW k \in Kinds, CountDownstream(k)
       PROVE  TypeOK'
  <2>1. count' \in [Counters -> Nat]
    BY <1>16, IncrementTypes DEF CountDownstream, Counters
  <2> QED BY <1>1, <1>16, <2>1, LeaveTypes
          DEF CountDownstream, TypeOK, ThreadTypes, durable, history
<1>17. ASSUME NEW k \in Kinds, Commit(k)
       PROVE  TypeOK'
  <2> DEFINE p == PartitionOf[at[k]]
  <2>1. p \in Partitions /\ queue[k][p] # <<>>
    BY <1>17, CurrentTypes DEF Commit
  <2>2. Tail(queue[k][p]) \in Events
    BY <2>1, RecordTypes
  <2> HIDE DEF p
  <2>3. queue' \in [Kinds -> [Partitions -> Events]]
    BY <1>17, <2>1, <2>2 DEF Commit, TypeOK, p
  <2> QED BY <1>1, <1>17, <2>3, ReturnTypes DEF Commit, TypeOK, ThreadTypes, history
<1>18. ASSUME NEW k \in Kinds, CommitLost(k)
       PROVE  TypeOK'
  <2>1. spent' \in [Bounds -> Nat]
    BY <1>18, SpendTypes DEF CommitLost, Bounds
  <2> QED BY <1>1, <1>18, <2>1, ReturnTypes
          DEF CommitLost, TypeOK, ThreadTypes, durable, history
<1>19. ASSUME NEW id \in cache, Forget(id)
       PROVE  TypeOK'
  <2>1. spent' \in [Bounds -> Nat]
    BY <1>19, SpendTypes DEF Forget, Bounds
  <2> QED BY <1>1, <1>19, <2>1 DEF Forget, TypeOK, durable, threads, history
<1>20. ASSUME Crash
       PROVE  TypeOK'
  <2>1. spent' \in [Bounds -> Nat]
    BY <1>20, SpendTypes DEF Crash, Bounds
  <2> QED BY <1>1, <1>20, <2>1, NewOrderType DEF Crash, TypeOK, Steps, durable, history
<1>21. CASE UNCHANGED vars
  BY <1>1, <1>21 DEF TypeOK, vars, durable, threads, history
<1> QED
  BY <1>2, <1>3, <1>4, <1>5, <1>6, <1>7, <1>8, <1>9, <1>10, <1>11, <1>12, <1>13,
     <1>14, <1>15, <1>16, <1>17, <1>18, <1>19, <1>20, <1>21, Zenon
  DEF Next, Caller, Scheduler, Dispatcher, Listener

-----------------------------------------------------------------------------
(* What the lock operators leave alone *)

\* Only thread t moves.
OnlyMoves(t) ==
  \A u \in Threads : u # t => pc'[u] = pc[u] /\ at'[u] = at[u] /\ copy'[u] = copy[u]

\* What each way to move a thread does to it; it moves no other.
LEMMA Frames ==
  ASSUME TypeOK, NEW t \in Threads
  PROVE  /\ \A o, step : Acquire(t, o, step) =>
              OnlyMoves(t) /\ pc'[t] = step /\ at'[t] = o /\ copy'[t] = db[o]
         /\ \A step : Goto(t, step) =>
              OnlyMoves(t) /\ pc'[t] = step /\ at'[t] = at[t] /\ copy'[t] = copy[t]
         /\ Finish(t) => OnlyMoves(t) /\ pc'[t] = "idle"
         /\ Leave(t) => OnlyMoves(t) /\ pc'[t] = "acking" /\ at'[t] = at[t]
         /\ Return(t) => OnlyMoves(t) /\ pc'[t] = "idle"
  BY DEF OnlyMoves, Acquire, Goto, Finish, Leave, Return, TypeOK

\* The end of a locked section frees its lock.
LEMMA FinishLocks ==
  ASSUME IInv, NEW t \in Threads, pc[t] \in Locked, Finish(t)
  PROVE  LockDiscipline'
<1>1. at[t] \in Orders /\ "idle" \notin Locked
  BY DEF IInv, WorkInHand, Locked
<1> QED BY <1>1, ReleaseLocks DEF IInv, Finish

\* A listener that leaves its section frees its lock.
LEMMA LeaveLocks ==
  ASSUME IInv, NEW k \in Kinds, pc[k] \in Locked, Leave(k)
  PROVE  LockDiscipline'
<1>1. at[k] \in Orders /\ "acking" \notin Locked
  BY ThreadKinds DEF IInv, WorkInHand, Locked
<1>2. at' = [at EXCEPT ![k] = at[k]]
  BY DEF Leave, IInv, TypeOK
<1> QED BY <1>1, <1>2, ReleaseLocks, ThreadKinds DEF IInv, Leave

\* A listener that returns holds no lock.
LEMMA ReturnLocks ==
  ASSUME IInv, NEW k \in Kinds, pc[k] = "acking", Return(k)
  PROVE  LockDiscipline'
<1>1. pc[k] \in Locked <=> "idle" \in Locked
  BY DEF Locked
<1>2. "idle" \notin Locked /\ \E o : at' = [at EXCEPT ![k] = o]
  BY DEF Locked, Return
<1> QED BY <1>1, <1>2, KeepLocks, ThreadKinds DEF IInv, Return

\* Going on inside a section keeps its lock.
LEMMA GotoLocks ==
  ASSUME IInv, NEW t \in Threads, NEW step \in Locked, pc[t] \in Locked, Goto(t, step)
  PROVE  LockDiscipline'
  BY KeepLocks DEF IInv, Goto

\* Every step keeps the lock discipline.
LEMMA LockStep ==
  ASSUME IInv, [Next]_vars
  PROVE  LockDiscipline'
<1> USE ThreadKinds DEF IInv
<1>1. TypeOK /\ LockDiscipline
  OBVIOUS
<1>2. ASSUME NEW t \in Http, NEW o \in Orders, HttpBegin(t, o)
      PROVE  LockDiscipline'
  BY <1>1, <1>2, AcquireLocks DEF HttpBegin, Locked, Steps
<1>3. ASSUME UNCHANGED threads
      PROVE  LockDiscipline'
  BY <1>1, <1>3 DEF LockDiscipline, threads
<1>4. ASSUME NEW s \in Schedulers, NEW o \in Orders, TakeCandidate(s, o)
      PROVE  LockDiscipline'
  <2>1. FirstStep(s) \in Locked
    BY DEF FirstStep, Locked, Steps
  <2> QED BY <1>1, <1>3, <1>4, <2>1, AcquireLocks DEF TakeCandidate
<1>5. ASSUME NEW t \in Callers, NEW outcome \in Outcomes(t), NEW result \in Results,
             SaveStatusChange(t, outcome, result)
      PROVE  LockDiscipline'
  BY <1>5, GotoLocks, FinishLocks DEF SaveStatusChange, Locked, Steps
<1>6. ASSUME NEW t \in Callers, CountEnqueued(t) \/ CallFails(t) \/ StageRefused(t)
      PROVE  LockDiscipline'
  BY <1>6, FinishLocks DEF CountEnqueued, CallFails, StageRefused, Locked, Steps
<1>7. ASSUME NEW result \in Results, Send(result)
      PROVE  LockDiscipline'
  <2>1. \/ Goto("dispatch", "resending") \/ Goto("dispatch", "removing")
        \/ Finish("dispatch")
    BY <1>7, Zenon DEF Send
  <2>2. pc["dispatch"] \in Locked
    BY <1>7 DEF Send, Locked, Steps
  <2> QED BY <2>1, <2>2, GotoLocks, FinishLocks DEF Locked, Steps
<1>8. ASSUME NEW result \in Results, RemoveHead(result)
      PROVE  LockDiscipline'
  <2>1. pc["dispatch"] \in Locked /\ "removed" \in Locked
    BY <1>8 DEF RemoveHead, Locked, Steps
  <2>2. CASE result = "ok"
    BY <1>1, <1>8, <2>1, <2>2, KeepLocks DEF RemoveHead
  <2>3. CASE result # "ok"
    BY <1>8, <2>1, <2>3, FinishLocks DEF RemoveHead
  <2> QED BY <2>2, <2>3
<1>9. ASSUME CountPublished
      PROVE  LockDiscipline'
  BY <1>9, GotoLocks, FinishLocks DEF CountPublished, Locked, Steps
<1>10. ASSUME NEW k \in Kinds, NEW p \in Partitions, Receive(k, p)
       PROVE  LockDiscipline'
  <2>1. Record(k, p).order \in Orders
    BY <1>10, RecordTypes DEF Receive, Event
  <2>2. CASE AlreadyProcessed(Record(k, p))
    BY <1>1, <1>10, <2>2, KeepLocks DEF Receive, Locked
  <2>3. CASE ~AlreadyProcessed(Record(k, p))
    BY <1>1, <1>10, <2>1, <2>3, AcquireLocks DEF Receive, Locked, Steps
  <2> QED BY <2>2, <2>3
<1>11. ASSUME NEW k \in Kinds, NEW result \in Results, Apply(k, result)
       PROVE  LockDiscipline'
  BY <1>11, GotoLocks, FinishLocks DEF Apply, Locked, Steps
<1>12. ASSUME NEW k \in Kinds, ApplyRefused(k)
       PROVE  LockDiscipline'
  BY <1>12, FinishLocks DEF ApplyRefused, Locked, Steps
<1>13. ASSUME NEW k \in Kinds, Mark(k) \/ CountDownstream(k)
       PROVE  LockDiscipline'
  BY <1>13, GotoLocks, LeaveLocks DEF Mark, CountDownstream, Locked, Steps
<1>14. ASSUME NEW k \in Kinds, Commit(k) \/ CommitLost(k)
       PROVE  LockDiscipline'
  BY <1>14, ReturnLocks DEF Commit, CommitLost
<1>15. ASSUME Crash
       PROVE  LockDiscipline'
  <2>1. "idle" \notin Locked /\ \A u \in Threads : u # NoThread
    BY PipelineAssumption DEF Locked
  <2> QED BY <1>15, <2>1 DEF Crash, LockDiscipline
<1>16. ASSUME NEW s \in Schedulers, Query(s)
       PROVE  LockDiscipline'
  BY <1>3, <1>16 DEF Query
<1>17. ASSUME NEW id \in cache, Forget(id)
       PROVE  LockDiscipline'
  BY <1>3, <1>17 DEF Forget
<1>18. CASE UNCHANGED vars
  BY <1>3, <1>18 DEF vars, threads
<1> QED
  BY <1>2, <1>4, <1>5, <1>6, <1>7, <1>8, <1>9, <1>10, <1>11, <1>12, <1>13, <1>14,
     <1>15, <1>16, <1>17, <1>18, Zenon
  DEF Next, Caller, Scheduler, Dispatcher, Listener

-----------------------------------------------------------------------------
(* The work in hand *)

\* What WorkInHand asks of one thread.
InHand(t) ==
  /\ t \in Callers => pc[t] \in {"idle", "calling", "saved"}
  /\ t = "dispatch" => /\ pc[t] \in {"idle", "sending", "resending", "removing", "removed"}
                       /\ pc[t] \in {"sending", "resending", "removing"}
                            => copy[t].pending # <<>>
  /\ t \in Kinds =>
       /\ pc[t] \in {"idle", "applying", "marking", "chaining", "acking"}
       /\ pc[t] # "idle" => /\ queue[t][PartitionOf[at[t]]] # <<>>
                            /\ Current(t).order = at[t]
  /\ pc[t] # "idle" => at[t] \in Orders

Routed ==
  \A k \in Kinds, p \in Partitions : \A i \in DOMAIN queue[k][p] :
    PartitionOf[queue[k][p][i].order] = p

\* WorkInHand, thread by thread.
LEMMA WorkParts == WorkInHand <=> Routed /\ \A t \in Threads : InHand(t)
  BY ThreadKinds DEF WorkInHand, InHand, Routed

\* A step of t alone that leaves the topics alone.
LEMMA WorkFrame ==
  ASSUME IInv, NEW t \in Threads, OnlyMoves(t), UNCHANGED queue, InHand(t)'
  PROVE  WorkInHand'
<1>1. Routed /\ \A u \in Threads : InHand(u)
  BY WorkParts DEF IInv
<1>2. Routed'
  BY <1>1 DEF Routed
<1>3. ASSUME NEW u \in Threads, u # t
      PROVE  InHand(u)'
  <2>1. InHand(u) /\ pc'[u] = pc[u] /\ at'[u] = at[u] /\ copy'[u] = copy[u]
    BY <1>1, <1>3 DEF OnlyMoves
  <2> QED BY <2>1 DEF InHand, Current, Record
<1>4. (Routed /\ \A u \in Threads : InHand(u))'
  BY <1>2, <1>3
<1> QED BY <1>4, ThreadKinds DEF WorkInHand, InHand, Routed

\* An idle thread has nothing in hand.
LEMMA IdleInHand ==
  ASSUME NEW t, pc'[t] = "idle"
  PROVE  InHand(t)'
  BY DEF InHand

\* A finished thread has nothing in hand.
LEMMA FinishWork ==
  ASSUME IInv, NEW t \in Threads, Finish(t), UNCHANGED queue
  PROVE  WorkInHand'
  BY Frames, WorkFrame, IdleInHand DEF IInv

\* A listener that has returned has nothing in hand.
LEMMA ReturnWork ==
  ASSUME IInv, NEW k \in Kinds, Return(k), UNCHANGED queue
  PROVE  WorkInHand'
  BY Frames, WorkFrame, IdleInHand, ThreadKinds DEF IInv

\* A listener goes on with the record it has.
LEMMA ListenerWork ==
  ASSUME IInv, NEW k \in Kinds, pc[k] # "idle", UNCHANGED queue, OnlyMoves(k),
         pc'[k] \in {"marking", "chaining", "acking"}, at'[k] = at[k]
  PROVE  WorkInHand'
<1>1. InHand(k)'
  BY CurrentTypes, ThreadKinds DEF InHand, IInv, Current, Record
<1> QED BY <1>1, WorkFrame, ThreadKinds

\* The dispatcher goes on with the document it has.
LEMMA DispatcherWork ==
  ASSUME IInv, UNCHANGED queue, OnlyMoves("dispatch"), at'["dispatch"] \in Orders,
         \/ pc'["dispatch"] = "removed"
         \/ /\ pc'["dispatch"] \in {"sending", "resending", "removing"}
            /\ copy'["dispatch"].pending # <<>>
  PROVE  WorkInHand'
<1>1. InHand("dispatch")'
  BY ThreadKinds DEF InHand
<1> QED BY <1>1, WorkFrame, ThreadKinds

\* An event at the end of a list leaves the rest of it alone.
LEMMA AppendFacts ==
  ASSUME NEW q \in Events, NEW e \in Event
  PROVE  /\ q # <<>> => Append(q, e) # <<>> /\ Head(Append(q, e)) = Head(q)
         /\ \A i \in DOMAIN Append(q, e) :
              \/ i \in DOMAIN q /\ Append(q, e)[i] = q[i]
              \/ Append(q, e)[i] = e
  BY DEF Events

\* An event added to the partition of its order moves nobody's record.
LEMMA DeliverWork ==
  ASSUME IInv, NEW e \in Event, Deliver(e)
  PROVE  /\ Routed'
         /\ \A k \in Kinds, p \in Partitions : queue[k][p] # <<>> =>
              queue'[k][p] # <<>> /\ Head(queue'[k][p]) = Head(queue[k][p])
<1> DEFINE r == PartitionOf[e.order]
<1>1. e.kind \in Kinds /\ e.order \in Orders /\ r \in Partitions
  BY PipelineAssumption DEF Event
<1>2. ASSUME NEW k \in Kinds, NEW p \in Partitions
      PROVE  /\ queue[k][p] \in Events
             /\ queue'[k][p] = IF k = e.kind /\ p = r THEN Append(queue[k][p], e)
                                                      ELSE queue[k][p]
  BY <1>1 DEF Deliver, IInv, TypeOK
<1> HIDE DEF r
<1>3. ASSUME NEW k \in Kinds, NEW p \in Partitions, queue[k][p] # <<>>
      PROVE  queue'[k][p] # <<>> /\ Head(queue'[k][p]) = Head(queue[k][p])
  <2>1. CASE k = e.kind /\ p = r
    <3>1. queue[k][p] \in Events /\ queue'[k][p] = Append(queue[k][p], e)
      BY <1>2, <2>1
    <3> QED BY <1>3, <3>1, AppendFacts
  <2>2. CASE ~(k = e.kind /\ p = r)
    BY <1>2, <1>3, <2>2
  <2> QED BY <2>1, <2>2
<1>4. ASSUME NEW k \in Kinds, NEW p \in Partitions, NEW i \in DOMAIN queue'[k][p]
      PROVE  PartitionOf[queue'[k][p][i].order] = p
  <2>1. \A j \in DOMAIN queue[k][p] : PartitionOf[queue[k][p][j].order] = p
    BY DEF IInv, WorkInHand
  <2>2. CASE k = e.kind /\ p = r
    <3>1. queue[k][p] \in Events /\ queue'[k][p] = Append(queue[k][p], e)
      BY <1>2, <2>2
    <3>2. \/ i \in DOMAIN queue[k][p] /\ queue'[k][p][i] = queue[k][p][i]
          \/ queue'[k][p][i] = e
      BY <3>1, AppendFacts
    <3> QED BY <2>1, <2>2, <3>2 DEF r
  <2>3. CASE ~(k = e.kind /\ p = r)
    BY <1>2, <2>1, <2>3
  <2> QED BY <2>2, <2>3
<1> QED BY <1>3, <1>4 DEF Routed

\* The dispatcher has sent an event, or has tried to.
LEMMA SendWork ==
  ASSUME IInv, NEW e \in Event, Deliver(e), OnlyMoves("dispatch"), InHand("dispatch")'
  PROVE  WorkInHand'
<1>1. Routed' /\ \A u \in Threads : InHand(u)
  BY DeliverWork, WorkParts DEF IInv
<1>2. ASSUME NEW u \in Threads, u # "dispatch"
      PROVE  InHand(u)'
  <2>1. InHand(u) /\ pc'[u] = pc[u] /\ at'[u] = at[u] /\ copy'[u] = copy[u]
    BY <1>1, <1>2 DEF OnlyMoves
  <2>2. ASSUME u \in Kinds, pc[u] # "idle"
        PROVE  /\ queue'[u][PartitionOf[at[u]]] # <<>>
               /\ Head(queue'[u][PartitionOf[at[u]]]).order = at[u]
    <3>1. /\ PartitionOf[at[u]] \in Partitions
          /\ queue[u][PartitionOf[at[u]]] # <<>>
          /\ Head(queue[u][PartitionOf[at[u]]]).order = at[u]
      BY <2>2, CurrentTypes DEF IInv, Current, Record
    <3> QED BY <2>2, <3>1, DeliverWork
  <2> QED BY <2>1, <2>2 DEF InHand, Current, Record
<1>3. \A u \in Threads : InHand(u)'
  BY <1>2
<1> QED BY <1>1, <1>3, ThreadKinds DEF WorkInHand, InHand, Routed

\* A listener removes its record and is done with it.
LEMMA CommitWork ==
  ASSUME IInv, NEW k \in Kinds, Commit(k)
  PROVE  WorkInHand'
<1> DEFINE r == PartitionOf[at[k]]
<1>1. r \in Partitions /\ queue[k][r] # <<>> /\ queue[k][r] \in Events
  BY CurrentTypes DEF Commit, IInv, TypeOK
<1>2. ASSUME NEW j \in Kinds, NEW p \in Partitions
      PROVE  queue'[j][p] = IF j = k /\ p = r THEN Tail(queue[j][p]) ELSE queue[j][p]
  BY <1>1 DEF Commit, IInv, TypeOK
<1> HIDE DEF r
<1>3. OnlyMoves(k) /\ pc'[k] = "idle"
  BY Frames, ThreadKinds DEF Commit, IInv
<1>4. Routed'
  <2> SUFFICES ASSUME NEW j \in Kinds, NEW p \in Partitions, NEW i \in DOMAIN queue'[j][p]
               PROVE  PartitionOf[queue'[j][p][i].order] = p
    BY DEF Routed
  <2>1. \A n \in DOMAIN queue[j][p] : PartitionOf[queue[j][p][n].order] = p
    BY DEF IInv, WorkInHand
  <2>2. CASE j = k /\ p = r
    <3>1. queue'[j][p] = Tail(queue[j][p]) /\ queue[j][p] \in Events /\ queue[j][p] # <<>>
      BY <1>1, <1>2, <2>2
    <3>2. i + 1 \in DOMAIN queue[j][p] /\ queue'[j][p][i] = queue[j][p][i + 1]
      BY <3>1 DEF Events
    <3> QED BY <2>1, <3>2
  <2>3. CASE ~(j = k /\ p = r)
    BY <1>2, <2>1, <2>3
  <2> QED BY <2>2, <2>3
<1>5. ASSUME NEW u \in Threads
      PROVE  InHand(u)'
  <2>1. CASE u = k
    BY <1>3, <2>1, IdleInHand
  <2>2. CASE u # k
    <3>1. InHand(u) /\ pc'[u] = pc[u] /\ at'[u] = at[u] /\ copy'[u] = copy[u]
      BY <1>3, <2>2, WorkParts DEF OnlyMoves, IInv
    <3>2. u \in Kinds => queue'[u] = queue[u]
      BY <2>2 DEF Commit, IInv, TypeOK
    <3> QED BY <3>1, <3>2 DEF InHand, Current, Record
  <2> QED BY <2>1, <2>2
<1> QED BY <1>4, <1>5, ThreadKinds DEF WorkInHand, InHand, Routed

\* Every step keeps the work in hand.
LEMMA WorkStep ==
  ASSUME IInv, [Next]_vars
  PROVE  WorkInHand'
<1> USE ThreadKinds DEF IInv
<1>1. ASSUME NEW t \in Http, NEW o \in Orders, HttpBegin(t, o)
      PROVE  WorkInHand'
  <2>1. OnlyMoves(t) /\ pc'[t] = "calling" /\ at'[t] = o
    BY <1>1, Frames DEF HttpBegin
  <2>2. t \in Callers /\ t # "dispatch" /\ t \notin Kinds
    BY DEF Callers
  <2>3. InHand(t)'
    BY <2>1, <2>2 DEF InHand
  <2> QED BY <1>1, <2>1, <2>3, WorkFrame DEF HttpBegin, durable
<1>2. ASSUME UNCHANGED <<queue, threads>>
      PROVE  WorkInHand'
  BY <1>2 DEF WorkInHand, threads, Current, Record
<1>3. ASSUME NEW s \in Schedulers, NEW o \in Orders, TakeCandidate(s, o)
      PROVE  WorkInHand'
  <2>1. CASE StillDue(s, db[o])
    <3>1. OnlyMoves(s) /\ pc'[s] = FirstStep(s) /\ at'[s] = o /\ copy'[s] = db[o]
      BY <1>3, <2>1, Frames DEF TakeCandidate
    <3>2. CASE s = "dispatch"
      <4>1. db[o].pending # <<>>
        BY <2>1, <3>2 DEF StillDue
      <4> QED BY <1>3, <3>1, <3>2, <4>1, DispatcherWork
              DEF TakeCandidate, FirstStep, durable
    <3>3. CASE s # "dispatch"
      <4>1. s \in Callers
        BY <3>3 DEF Schedulers, Callers
      <4>2. InHand(s)'
        BY <3>1, <3>3, <4>1 DEF InHand, FirstStep
      <4> QED BY <1>3, <3>1, <4>2, WorkFrame DEF TakeCandidate, durable
    <3> QED BY <3>2, <3>3
  <2>2. CASE ~StillDue(s, db[o])
    BY <1>2, <1>3, <2>2 DEF TakeCandidate, durable
  <2> QED BY <2>1, <2>2
<1>4. ASSUME NEW t \in Callers, NEW outcome \in Outcomes(t), NEW result \in Results,
             SaveStatusChange(t, outcome, result)
      PROVE  WorkInHand'
  <2>1. CASE Finish(t)
    BY <1>4, <2>1, FinishWork DEF SaveStatusChange
  <2>2. CASE Goto(t, "saved")
    <3>1. OnlyMoves(t) /\ pc'[t] = "saved" /\ at'[t] = at[t]
      BY <2>2, Frames
    <3>2. at[t] \in Orders
      BY <1>4 DEF SaveStatusChange, WorkInHand
    <3>3. InHand(t)'
      BY <3>1, <3>2 DEF InHand
    <3> QED BY <1>4, <3>1, <3>3, WorkFrame DEF SaveStatusChange
  <2> QED BY <1>4, <2>1, <2>2 DEF SaveStatusChange
<1>5. ASSUME NEW t \in Callers, CountEnqueued(t) \/ CallFails(t) \/ StageRefused(t)
      PROVE  WorkInHand'
  BY <1>5, FinishWork DEF CountEnqueued, CallFails, StageRefused, durable
<1>6. ASSUME NEW result \in Results, Send(result)
      PROVE  WorkInHand'
  <2> DEFINE event == Head(copy["dispatch"].pending)
  <2>1. /\ copy["dispatch"].pending # <<>> /\ copy["dispatch"].pending \in Events
        /\ at["dispatch"] \in Orders
    BY <1>6 DEF Send, WorkInHand, TypeOK, Doc
  <2>2. event \in Event
    BY <2>1 DEF Events
  <2>3. \/ Goto("dispatch", "resending") \/ Goto("dispatch", "removing")
        \/ Finish("dispatch")
    BY <1>6, Zenon DEF Send
  <2>4. OnlyMoves("dispatch") /\ InHand("dispatch")'
    <3>1. CASE Finish("dispatch")
      BY <3>1, Frames, IdleInHand
    <3>2. CASE Goto("dispatch", "resending") \/ Goto("dispatch", "removing")
      <4>1. /\ OnlyMoves("dispatch") /\ pc'["dispatch"] \in {"resending", "removing"}
            /\ at'["dispatch"] = at["dispatch"] /\ copy'["dispatch"] = copy["dispatch"]
        BY <3>2, Frames
      <4> QED BY <2>1, <4>1 DEF InHand
    <3> QED BY <2>3, <3>1, <3>2
  <2>5. Deliver(event) \/ UNCHANGED queue
    BY <1>6 DEF Send
  <2> HIDE DEF event
  <2> QED BY <2>2, <2>4, <2>5, SendWork, WorkFrame
<1>7. ASSUME NEW result \in Results, RemoveHead(result)
      PROVE  WorkInHand'
  <2>1. CASE result = "ok"
    <3>1. OnlyMoves("dispatch") /\ pc'["dispatch"] = "removed"
      BY <1>7, <2>1 DEF RemoveHead, OnlyMoves, TypeOK
    <3>2. at'["dispatch"] \in Orders
      BY <1>7, <2>1 DEF RemoveHead, WorkInHand
    <3> QED BY <1>7, <3>1, <3>2, DispatcherWork DEF RemoveHead
  <2>2. CASE result # "ok"
    BY <1>7, <2>2, FinishWork DEF RemoveHead
  <2> QED BY <2>1, <2>2
<1>8. ASSUME CountPublished
      PROVE  WorkInHand'
  <2>1. CASE copy["dispatch"].pending = <<>>
    BY <1>8, <2>1, FinishWork DEF CountPublished, durable
  <2>2. CASE copy["dispatch"].pending # <<>>
    <3>1. /\ OnlyMoves("dispatch") /\ pc'["dispatch"] = "sending"
          /\ at'["dispatch"] = at["dispatch"] /\ copy'["dispatch"] = copy["dispatch"]
      BY <1>8, <2>2, Frames DEF CountPublished
    <3>2. at["dispatch"] \in Orders
      BY <1>8 DEF CountPublished, WorkInHand
    <3> QED BY <1>8, <2>2, <3>1, <3>2, DispatcherWork DEF CountPublished, durable
  <2> QED BY <2>1, <2>2
<1>9. ASSUME NEW k \in Kinds, NEW p \in Partitions, Receive(k, p)
      PROVE  WorkInHand'
  <2>1. /\ Record(k, p).order \in Orders
        /\ PartitionOf[Record(k, p).order] = p
    BY <1>9, RecordTypes DEF Receive, Event, WorkInHand
  <2>2. /\ OnlyMoves(k) /\ pc'[k] \in {"applying", "acking"}
        /\ at'[k] = Record(k, p).order
    <3>1. CASE AlreadyProcessed(Record(k, p))
      BY <1>9, <3>1 DEF Receive, OnlyMoves, TypeOK
    <3>2. CASE ~AlreadyProcessed(Record(k, p))
      BY <1>9, <3>2, Frames DEF Receive
    <3> QED BY <3>1, <3>2
  <2>3. queue' = queue /\ queue[k][p] # <<>>
    BY <1>9 DEF Receive, durable
  <2>4. InHand(k)'
    BY <2>1, <2>2, <2>3 DEF InHand, Current, Record
  <2> QED BY <2>2, <2>3, <2>4, WorkFrame
<1>10. ASSUME NEW k \in Kinds, NEW result \in Results, Apply(k, result)
       PROVE  WorkInHand'
  BY <1>10, FinishWork, ListenerWork, Frames DEF Apply
<1>11. ASSUME NEW k \in Kinds, ApplyRefused(k)
       PROVE  WorkInHand'
  BY <1>11, FinishWork DEF ApplyRefused, durable
<1>12. ASSUME NEW k \in Kinds, Mark(k) \/ CountDownstream(k)
       PROVE  WorkInHand'
  <2>1. Goto(k, "chaining") \/ Leave(k)
    BY <1>12 DEF Mark, CountDownstream
  <2>2. pc[k] # "idle" /\ queue' = queue
    BY <1>12 DEF Mark, CountDownstream, durable
  <2> QED BY <2>1, <2>2, ListenerWork, Frames
<1>13. ASSUME NEW k \in Kinds, Commit(k)
       PROVE  WorkInHand'
  BY <1>13, CommitWork
<1>14. ASSUME NEW k \in Kinds, CommitLost(k)
       PROVE  WorkInHand'
  BY <1>14, ReturnWork DEF CommitLost, durable
<1>15. ASSUME Crash
       PROVE  WorkInHand'
  <2>1. Routed' /\ \A t \in Threads : InHand(t)'
    BY <1>15, IdleInHand, WorkParts DEF Crash, Routed, durable
  <2> QED BY <2>1 DEF WorkInHand, InHand, Routed
<1>16. ASSUME NEW s \in Schedulers, Query(s)
       PROVE  WorkInHand'
  BY <1>2, <1>16 DEF Query, durable
<1>17. ASSUME NEW id \in cache, Forget(id)
       PROVE  WorkInHand'
  BY <1>2, <1>17 DEF Forget, durable
<1>18. CASE UNCHANGED vars
  BY <1>2, <1>18 DEF vars, durable
<1> QED
  BY <1>1, <1>3, <1>4, <1>5, <1>6, <1>7, <1>8, <1>9, <1>10, <1>11, <1>12, <1>13,
     <1>14, <1>15, <1>16, <1>17, <1>18, Zenon
  DEF Next, Caller, Scheduler, Dispatcher, Listener

-----------------------------------------------------------------------------
(* The copies *)

\* The steps with a current copy are inside the locked section.
LEMMA Readers == Reading \subseteq Locked /\ "idle" \notin Reading /\ "acking" \notin Reading
  BY DEF Reading, Locked, Steps

\* Whatever the holder of a lock writes to its order, nobody else has a copy of
\* that order.
LEMMA OthersCurrent ==
  ASSUME IInv, NEW t \in Threads, pc[t] \in Locked, OnlyMoves(t),
         \A o \in Orders : o # at[t] => db'[o] = db[o],
         NEW u \in Threads, u # t, pc'[u] \in Reading
  PROVE  copy'[u] = db'[at'[u]]
<1>1. pc'[u] = pc[u] /\ at'[u] = at[u] /\ copy'[u] = copy[u]
  BY DEF OnlyMoves
<1>2. copy[u] = db[at[u]]
  BY <1>1 DEF IInv, CopyIsCurrent
<1>3. at[u] \in Orders /\ at[t] \in Orders
  BY <1>1, Readers DEF IInv, WorkInHand, Locked
<1>4. at[u] # at[t]
  BY <1>1, <1>3, Readers, OneHolder DEF IInv
<1> QED BY <1>1, <1>2, <1>3, <1>4

\* A write of t that leaves t without a copy, or with the stored document.
LEMMA WriterCurrent ==
  ASSUME IInv, NEW t \in Threads, pc[t] \in Locked, OnlyMoves(t),
         \A o \in Orders : o # at[t] => db'[o] = db[o],
         pc'[t] \in Reading => copy'[t] = db'[at'[t]]
  PROVE  CopyIsCurrent'
  BY OthersCurrent DEF CopyIsCurrent

\* A step of t that writes nothing.
LEMMA ReaderCurrent ==
  ASSUME IInv, NEW t \in Threads, OnlyMoves(t), UNCHANGED db,
         pc'[t] \in Reading => copy'[t] = db[at'[t]]
  PROVE  CopyIsCurrent'
  BY DEF CopyIsCurrent, OnlyMoves, IInv

\* The end of a section that wrote nothing.
LEMMA FinishCurrent ==
  ASSUME IInv, NEW t \in Threads, Finish(t), UNCHANGED db
  PROVE  CopyIsCurrent'
  BY ReaderCurrent, Frames, Readers DEF IInv

\* A save writes the order in hand only.
LEMMA SaveWrites ==
  ASSUME IInv, NEW t \in Threads, NEW doc, NEW result, Save(t, doc, result)
  PROVE  \A o \in Orders : o # at[t] => db'[o] = db[o]
  BY DEF Save, IInv, TypeOK

\* A lock holder's version check never fails.
LEMMA NoConflict ==
  ASSUME IInv, NEW t \in Threads, pc[t] \in Reading
  PROVE  VersionMatches(t)
  BY DEF IInv, CopyIsCurrent, VersionMatches

\* Every step keeps the copies current.
LEMMA CopyStep ==
  ASSUME IInv, [Next]_vars
  PROVE  CopyIsCurrent'
<1> USE ThreadKinds, Readers DEF IInv
<1>1. ASSUME NEW t \in Http, NEW o \in Orders, HttpBegin(t, o)
      PROVE  CopyIsCurrent'
  BY <1>1, ReaderCurrent, Frames DEF HttpBegin, durable
<1>2. ASSUME UNCHANGED <<db, threads>>
      PROVE  CopyIsCurrent'
  BY <1>2 DEF CopyIsCurrent, threads
<1>3. ASSUME NEW s \in Schedulers, NEW o \in Orders, TakeCandidate(s, o)
      PROVE  CopyIsCurrent'
  BY <1>2, <1>3, ReaderCurrent, Frames DEF TakeCandidate, durable
<1>4. ASSUME NEW t \in Callers, NEW outcome \in Outcomes(t), NEW result \in Results,
             SaveStatusChange(t, outcome, result)
      PROVE  CopyIsCurrent'
  <2>1. \A o \in Orders : o # at[t] => db'[o] = db[o]
    BY <1>4, SaveWrites DEF SaveStatusChange
  <2>2. pc[t] \in Locked
    BY <1>4 DEF SaveStatusChange, Locked, Steps
  <2>3. OnlyMoves(t) /\ pc'[t] \in {"idle", "saved"}
    BY <1>4, Frames DEF SaveStatusChange
  <2> QED BY <2>1, <2>2, <2>3, WriterCurrent DEF Reading
<1>5. ASSUME NEW t \in Callers, CountEnqueued(t) \/ CallFails(t) \/ StageRefused(t)
      PROVE  CopyIsCurrent'
  BY <1>5, FinishCurrent DEF CountEnqueued, CallFails, StageRefused, durable
<1>6. ASSUME NEW result \in Results, Send(result)
      PROVE  CopyIsCurrent'
  <2>1. \/ Goto("dispatch", "resending") \/ Goto("dispatch", "removing")
        \/ Finish("dispatch")
    BY <1>6, Zenon DEF Send
  <2>2. copy["dispatch"] = db[at["dispatch"]] /\ db' = db
    BY <1>6 DEF Send, CopyIsCurrent, Reading
  <2> QED BY <2>1, <2>2, ReaderCurrent, FinishCurrent, Frames
<1>7. ASSUME NEW result \in Results, RemoveHead(result)
      PROVE  CopyIsCurrent'
  <2>1. \A o \in Orders : o # at["dispatch"] => db'[o] = db[o]
    BY <1>7, SaveWrites DEF RemoveHead
  <2>2. pc["dispatch"] \in Locked
    BY <1>7 DEF RemoveHead, Locked, Steps
  <2>3. CASE result = "ok"
    <3>1. /\ OnlyMoves("dispatch")
          /\ copy'["dispatch"] = db'[at'["dispatch"]]
      BY <1>7, <2>3 DEF RemoveHead, OnlyMoves, TypeOK
    <3> QED BY <2>1, <2>2, <3>1, WriterCurrent
  <2>4. CASE result # "ok"
    <3>1. OnlyMoves("dispatch") /\ pc'["dispatch"] = "idle"
      BY <1>7, <2>4, Frames DEF RemoveHead
    <3> QED BY <2>1, <2>2, <3>1, WriterCurrent
  <2> QED BY <2>3, <2>4
<1>8. ASSUME CountPublished
      PROVE  CopyIsCurrent'
  <2>1. copy["dispatch"] = db[at["dispatch"]] /\ db' = db
    BY <1>8 DEF CountPublished, CopyIsCurrent, Reading, durable
  <2> QED BY <1>8, <2>1, ReaderCurrent, FinishCurrent, Frames DEF CountPublished
<1>9. ASSUME NEW k \in Kinds, NEW p \in Partitions, Receive(k, p)
      PROVE  CopyIsCurrent'
  <2>1. db' = db
    BY <1>9 DEF Receive, durable
  <2>2. CASE AlreadyProcessed(Record(k, p))
    <3>1. OnlyMoves(k) /\ pc'[k] = "acking"
      BY <1>9, <2>2 DEF Receive, OnlyMoves, TypeOK
    <3> QED BY <2>1, <3>1, ReaderCurrent
  <2>3. CASE ~AlreadyProcessed(Record(k, p))
    BY <1>9, <2>1, <2>3, ReaderCurrent, Frames DEF Receive
  <2> QED BY <2>2, <2>3
<1>10. ASSUME NEW k \in Kinds, NEW result \in Results, Apply(k, result)
       PROVE  CopyIsCurrent'
  <2>1. \A o \in Orders : o # at[k] => db'[o] = db[o]
    BY <1>10, SaveWrites DEF Apply
  <2>2. pc[k] \in Locked
    BY <1>10 DEF Apply, Locked, Steps
  <2>3. OnlyMoves(k) /\ pc'[k] \in {"idle", "marking"}
    BY <1>10, Frames DEF Apply
  <2> QED BY <2>1, <2>2, <2>3, WriterCurrent DEF Reading
<1>11. ASSUME NEW k \in Kinds, ApplyRefused(k)
       PROVE  CopyIsCurrent'
  BY <1>11, FinishCurrent DEF ApplyRefused, durable
<1>12. ASSUME NEW k \in Kinds,
              Mark(k) \/ CountDownstream(k) \/ Commit(k) \/ CommitLost(k)
       PROVE  CopyIsCurrent'
  <2>1. OnlyMoves(k) /\ pc'[k] \in {"chaining", "acking", "idle"} /\ db' = db
    BY <1>12, Frames DEF Mark, CountDownstream, Commit, CommitLost, durable
  <2> QED BY <2>1, ReaderCurrent DEF Reading
<1>13. ASSUME Crash
       PROVE  CopyIsCurrent'
  BY <1>13 DEF Crash, CopyIsCurrent
<1>14. ASSUME NEW s \in Schedulers, Query(s)
       PROVE  CopyIsCurrent'
  BY <1>2, <1>14 DEF Query, durable
<1>15. ASSUME NEW id \in cache, Forget(id)
       PROVE  CopyIsCurrent'
  BY <1>2, <1>15 DEF Forget, durable
<1>16. CASE UNCHANGED vars
  BY <1>2, <1>16 DEF vars, durable
<1> QED
  BY <1>1, <1>3, <1>4, <1>5, <1>6, <1>7, <1>8, <1>9, <1>10, <1>11, <1>12, <1>13,
     <1>14, <1>15, <1>16, Zenon
  DEF Next, Caller, Scheduler, Dispatcher, Listener

-----------------------------------------------------------------------------
(* Theorems of the specification *)

\* The invariant holds at the start.
LEMMA InitInv == Init => IInv
<1> SUFFICES ASSUME Init PROVE IInv
  OBVIOUS
<1>1. TypeOK
  BY NewOrderType DEF Init, TypeOK, Steps, Events, Receipts
<1>2. LockDiscipline
  BY PipelineAssumption DEF Init, LockDiscipline, Locked
<1>3. WorkInHand
  BY ThreadKinds DEF Init, WorkInHand
<1>4. CopyIsCurrent
  BY DEF Init, CopyIsCurrent, Reading
<1> QED BY <1>1, <1>2, <1>3, <1>4 DEF IInv

\* The inductive invariant holds throughout.
THEOREM Invariance == Spec => []IInv
<1>1. IInv /\ [Next]_vars => IInv'
  BY TypeStep, LockStep, WorkStep, CopyStep DEF IInv
<1> QED BY <1>1, InitInv, PTL DEF Spec

\* The variables keep their types.
THEOREM TypeCorrect == Spec => []TypeOK
<1>1. IInv => TypeOK
  BY DEF IInv
<1> QED BY <1>1, Invariance, PTL

\* Locks are held exactly by the threads inside the locked sections.
THEOREM LocksAreDisciplined == Spec => []LockDiscipline
<1>1. IInv => LockDiscipline
  BY DEF IInv
<1> QED BY <1>1, Invariance, PTL

\* What a thread has in hand is an order, an outbox that is not empty, a record
\* of its partition.
THEOREM WorkStaysInHand == Spec => []WorkInHand
<1>1. IInv => WorkInHand
  BY DEF IInv
<1> QED BY <1>1, Invariance, PTL

\* Nobody works on a stale document.
THEOREM CopiesAreCurrent == Spec => []CopyIsCurrent
<1>1. IInv => CopyIsCurrent
  BY DEF IInv
<1> QED BY <1>1, Invariance, PTL

-----------------------------------------------------------------------------
(* The schedulers write only what is due *)

\* A scheduler that has called the external service has seen that the order is
\* due, under the lock it still holds.
Due(s) == pc[s] = "calling" => StillDue(s, copy[s])

DueInv == Due("poll") /\ Due("retry")

\* A step of one thread that does not begin a call.
LEMMA DueFrame ==
  ASSUME DueInv, NEW t, OnlyMoves(t), pc'[t] # "calling"
  PROVE  DueInv'
  BY DEF DueInv, Due, OnlyMoves, StillDue, Threads, Schedulers

\* Every step keeps what the schedulers have seen.
LEMMA DueStep ==
  ASSUME IInv, DueInv, [Next]_vars
  PROVE  DueInv'
<1> USE ThreadKinds DEF IInv
<1>1. {"poll", "retry"} \subseteq Threads
  BY DEF Threads, Schedulers
<1>2. ASSUME NEW t \in Http, NEW o \in Orders, HttpBegin(t, o)
      PROVE  DueInv'
  <2>1. t # "poll" /\ t # "retry"
    BY PipelineAssumption DEF Schedulers
  <2>2. OnlyMoves(t)
    BY <1>2, Frames DEF HttpBegin
  <2> QED BY <1>1, <2>1, <2>2 DEF DueInv, Due, OnlyMoves
<1>3. ASSUME UNCHANGED threads
      PROVE  DueInv'
  BY <1>3 DEF DueInv, Due, threads
<1>4. ASSUME NEW s \in Schedulers, NEW o \in Orders, TakeCandidate(s, o)
      PROVE  DueInv'
  <2>1. CASE StillDue(s, db[o])
    <3>1. OnlyMoves(s) /\ pc'[s] = FirstStep(s) /\ copy'[s] = db[o]
      BY <1>4, <2>1, Frames DEF TakeCandidate
    <3> QED BY <1>1, <2>1, <3>1 DEF DueInv, Due, OnlyMoves
  <2>2. CASE ~StillDue(s, db[o])
    BY <1>3, <1>4, <2>2 DEF TakeCandidate
  <2> QED BY <2>1, <2>2
<1>5. ASSUME NEW t \in Callers, NEW outcome \in Outcomes(t), NEW result \in Results,
             SaveStatusChange(t, outcome, result)
      PROVE  DueInv'
  BY <1>5, DueFrame, Frames DEF SaveStatusChange
<1>6. ASSUME NEW t \in Callers, CountEnqueued(t) \/ CallFails(t) \/ StageRefused(t)
      PROVE  DueInv'
  BY <1>6, DueFrame, Frames DEF CountEnqueued, CallFails, StageRefused
<1>7. ASSUME NEW result \in Results, Send(result)
      PROVE  DueInv'
  <2>1. \/ Goto("dispatch", "resending") \/ Goto("dispatch", "removing")
        \/ Finish("dispatch")
    BY <1>7, Zenon DEF Send
  <2> QED BY <2>1, DueFrame, Frames
<1>8. ASSUME NEW result \in Results, RemoveHead(result)
      PROVE  DueInv'
  <2>1. OnlyMoves("dispatch") /\ pc'["dispatch"] \in {"removed", "idle"}
    <3>1. CASE result = "ok"
      BY <1>8, <3>1 DEF RemoveHead, OnlyMoves, TypeOK
    <3>2. CASE result # "ok"
      BY <1>8, <3>2, Frames DEF RemoveHead
    <3> QED BY <3>1, <3>2
  <2> QED BY <2>1, DueFrame
<1>9. ASSUME CountPublished
      PROVE  DueInv'
  BY <1>9, DueFrame, Frames DEF CountPublished
<1>10. ASSUME NEW k \in Kinds, NEW p \in Partitions, Receive(k, p)
       PROVE  DueInv'
  <2>1. OnlyMoves(k) /\ pc'[k] \in {"applying", "acking"}
    <3>1. CASE AlreadyProcessed(Record(k, p))
      BY <1>10, <3>1 DEF Receive, OnlyMoves, TypeOK
    <3>2. CASE ~AlreadyProcessed(Record(k, p))
      BY <1>10, <3>2, Frames DEF Receive
    <3> QED BY <3>1, <3>2
  <2> QED BY <2>1, DueFrame
<1>11. ASSUME NEW k \in Kinds, NEW result \in Results, Apply(k, result)
       PROVE  DueInv'
  BY <1>11, DueFrame, Frames DEF Apply
<1>12. ASSUME NEW k \in Kinds,
              \/ ApplyRefused(k) \/ Mark(k) \/ CountDownstream(k)
              \/ Commit(k) \/ CommitLost(k)
       PROVE  DueInv'
  BY <1>12, DueFrame, Frames
     DEF ApplyRefused, Mark, CountDownstream, Commit, CommitLost
<1>13. ASSUME Crash
       PROVE  DueInv'
  BY <1>1, <1>13 DEF Crash, DueInv, Due
<1>14. ASSUME NEW s \in Schedulers, Query(s)
       PROVE  DueInv'
  BY <1>3, <1>14 DEF Query
<1>15. ASSUME NEW id \in cache, Forget(id)
       PROVE  DueInv'
  BY <1>3, <1>15 DEF Forget
<1>16. CASE UNCHANGED vars
  BY <1>3, <1>16 DEF vars
<1> QED
  BY <1>2, <1>4, <1>5, <1>6, <1>7, <1>8, <1>9, <1>10, <1>11, <1>12, <1>13, <1>14,
     <1>15, <1>16, Zenon
  DEF Next, Caller, Scheduler, Dispatcher, Listener

\* While a caller is between its read and its save, nobody else writes its order.
LEMMA CallerWrites ==
  ASSUME IInv, [Next]_vars, NEW o \in Orders, db'[o] # db[o],
         NEW u \in Callers, at[u] = o, pc[u] = "calling"
  PROVE  \E outcome \in Outcomes(u), result \in Results :
           SaveStatusChange(u, outcome, result)
<1> USE ThreadKinds DEF IInv
<1>1. pc[u] \in Locked
  BY DEF Locked, Steps
<1>2. ASSUME NEW t \in Threads, pc[t] \in Locked, NEW doc, NEW result, Save(t, doc, result)
      PROVE  t = u
  <2>1. at[t] = o
    BY <1>2, SaveWrites
  <2> QED BY <1>1, <1>2, <2>1, OneHolder
<1>3. ASSUME NEW t \in Callers, NEW outcome \in Outcomes(t), NEW result \in Results,
             SaveStatusChange(t, outcome, result)
      PROVE  SaveStatusChange(u, outcome, result) /\ outcome \in Outcomes(u)
  <2>1. pc[t] \in Locked
    BY <1>3 DEF SaveStatusChange, Locked, Steps
  <2>2. t = u
    BY <1>2, <1>3, <2>1 DEF SaveStatusChange
  <2> QED BY <1>3, <2>2
<1>4. ASSUME NEW result \in Results, RemoveHead(result)
      PROVE  FALSE
  <2>1. pc["dispatch"] \in Locked
    BY <1>4 DEF RemoveHead, Locked, Steps
  <2> QED BY <1>2, <1>4, <2>1 DEF RemoveHead
<1>5. ASSUME NEW k \in Kinds, NEW result \in Results, Apply(k, result)
      PROVE  FALSE
  <2>1. pc[k] \in Locked
    BY <1>5 DEF Apply, Locked, Steps
  <2> QED BY <1>2, <1>5, <2>1 DEF Apply
<1>6. /\ \A t \in Http, i \in Orders : ~HttpBegin(t, i)
      /\ \A s \in Schedulers : ~Query(s) /\ \A i \in Orders : ~TakeCandidate(s, i)
      /\ \A t \in Callers : ~(CountEnqueued(t) \/ CallFails(t) \/ StageRefused(t))
      /\ \A result \in Results : ~Send(result)
      /\ ~CountPublished
  BY DEF HttpBegin, Query, TakeCandidate, CountEnqueued, CallFails, StageRefused,
         Send, CountPublished, durable
<1>7. /\ \A k \in Kinds : /\ \A p \in Partitions : ~Receive(k, p)
                          /\ ~ApplyRefused(k) /\ ~Mark(k) /\ ~CountDownstream(k)
                          /\ ~Commit(k) /\ ~CommitLost(k)
      /\ \A id \in cache : ~Forget(id)
      /\ ~Crash
      /\ ~UNCHANGED vars
  BY DEF Receive, ApplyRefused, Mark, CountDownstream, Commit, CommitLost, Forget,
         Crash, vars, durable
<1> QED
  BY <1>3, <1>4, <1>5, <1>6, <1>7, Zenon
  DEF Next, Caller, Scheduler, Dispatcher, Listener

\* Poll results are written to waiting orders only.
LEMMA PollStep ==
  ASSUME IInv, DueInv, [Next]_vars
  PROVE  \A o \in Orders : Writes("poll", o) => db[o].status = "WAITING"
<1> SUFFICES ASSUME NEW o \in Orders, Writes("poll", o)
             PROVE  db[o].status = "WAITING"
  OBVIOUS
<1>1. copy["poll"].status = "WAITING"
  BY DEF Writes, DueInv, Due, StillDue
<1>2. copy["poll"] = db[o]
  BY DEF Writes, IInv, CopyIsCurrent, Reading, Threads, Schedulers
<1> QED BY <1>1, <1>2

\* The retry scheduler stays within the limit.
LEMMA RetryStep ==
  ASSUME IInv, DueInv, [Next]_vars
  PROVE  \A o \in Orders : Writes("retry", o) =>
           db[o].status = "FAILED" /\ db'[o].attempts <= RetryLimit
<1> SUFFICES ASSUME NEW o \in Orders, Writes("retry", o)
             PROVE  db[o].status = "FAILED" /\ db'[o].attempts <= RetryLimit
  OBVIOUS
<1> USE DEF Writes
<1>1. copy["retry"].status = "FAILED" /\ copy["retry"].attempts < RetryLimit
  BY DEF DueInv, Due, StillDue
<1>2. copy["retry"] = db[o] /\ copy["retry"] \in Doc
  BY DEF IInv, CopyIsCurrent, TypeOK, Reading, Threads, Schedulers
<1>3. "retry" \in Callers
  BY DEF Callers
<1>4. PICK outcome \in Outcomes("retry"), result \in Results :
        SaveStatusChange("retry", outcome, result)
  BY <1>3, CallerWrites
<1> DEFINE doc == Processed(copy["retry"], outcome)
           event == StatusEvent(o, Len(issued[o]) + 1, doc)
<1>5. Save("retry", Stage(doc, event), result)
  BY <1>4 DEF SaveStatusChange, Answered
<1>6. db'[o] = Stored(Stage(doc, event))
  BY <1>5 DEF Save, IInv, TypeOK
<1>7. Stored(Stage(doc, event)).attempts = copy["retry"].attempts + 1
  <2>1. doc.attempts = copy["retry"].attempts + 1 /\ doc \in Doc
    BY <1>2, AnsweredTypes DEF Processed, Doc
  <2> HIDE DEF doc, event
  <2>2. Stage(doc, event).attempts = doc.attempts
    BY <2>1 DEF Stage, Doc
  <2>3. Stored(Stage(doc, event)).attempts = Stage(doc, event).attempts
    BY <2>1 DEF Stored, Stage, Doc
  <2> QED BY <2>1, <2>2, <2>3
<1>8. copy["retry"].attempts \in Nat
  BY <1>2 DEF Doc
<1> QED BY <1>1, <1>2, <1>6, <1>7, <1>8, BoundsAssumption

\* The two invariants hold together.
LEMMA DueInvariance == Spec => [](IInv /\ DueInv)
<1>1. Init => DueInv
  BY DEF Init, DueInv, Due, Threads, Schedulers
<1>2. IInv /\ DueInv /\ [Next]_vars => IInv' /\ DueInv'
  BY TypeStep, LockStep, WorkStep, CopyStep, DueStep DEF IInv
<1> QED BY <1>1, <1>2, InitInv, PTL DEF Spec

\* A poll result never overwrites an order that is no longer waiting.
THEOREM PollRespectsStatus == Spec => PollWritesOnlyWaiting
<1>1. IInv /\ DueInv /\ [Next]_vars =>
        [\A o \in Orders : Writes("poll", o) => db[o].status = "WAITING"]_vars
  BY PollStep
<1> QED BY <1>1, DueInvariance, PTL DEF Spec, PollWritesOnlyWaiting

\* A retry never takes an order above the retry limit.
THEOREM RetryRespectsLimit == Spec => RetryStaysInLimit
<1>1. IInv /\ DueInv /\ [Next]_vars =>
        [\A o \in Orders : Writes("retry", o) =>
           /\ db[o].status = "FAILED"
           /\ db'[o].attempts <= RetryLimit]_vars
  BY RetryStep
<1> QED BY <1>1, DueInvariance, PTL DEF Spec, RetryStaysInLimit
=============================================================================

--------------------------- MODULE OrderEventProofs ---------------------------
(***************************************************************************)
(* The way of an event from the write that stages it through the outbox    *)
(* and the topic of its kind to the history applied, for all orders,       *)
(* threads, bounds and receipt windows: AppliedOnceInWindow,               *)
(* NothingInvented and NothingLost.                                        *)
(*                                                                         *)
(* Then the order of the events of an order: a status event is applied     *)
(* only after all status events before it, and a business event after      *)
(* those of all earlier completions, although each may be sent twice,      *)
(* delivered again and applied by a restarted replica.  Hence              *)
(* AppliedInOrder and, step by step, the safety part of the refinement of  *)
(* OrderLedger.                                                            *)
(***************************************************************************)
EXTENDS OrderPipelineProofs, FiniteSetTheorems

-----------------------------------------------------------------------------
(* The receipt window.  The receipts of a document are the last EventIds ids  *)
(* of the history applied; a listener that applies an event has looked for it *)
(* in the receipts under the lock it still holds.                             *)

\* A list that is too long is cut to its last n ids.
LEMMA KeepLastOfLong ==
  ASSUME NEW s \in Receipts, NEW n \in Nat, Len(s) > n
  PROVE  /\ KeepLast(s, n) \in Receipts
         /\ Len(KeepLast(s, n)) = n
         /\ \A i \in 1 .. n : KeepLast(s, n)[i] = s[Len(s) - n + i]
<1>1. KeepLast(s, n) = SubSeq(s, Len(s) - n + 1, Len(s))
  BY DEF KeepLast
<1>2. Len(s) \in Nat /\ Len(s) - n + 1 \in 1 .. Len(s) + 1
  BY DEF Receipts
<1>3. /\ Len(KeepLast(s, n)) = n
      /\ \A i \in 1 .. n : KeepLast(s, n)[i] = s[Len(s) - n + i]
  BY <1>1, <1>2 DEF Receipts
<1> QED BY <1>3, KeepLastType

\* Two lists of receipts with the same elements are the same.
LEMMA SameReceipts ==
  ASSUME NEW s \in Receipts, NEW t \in Receipts,
         Len(s) = Len(t), \A i \in 1 .. Len(s) : s[i] = t[i]
  PROVE  s = t
  BY DEF Receipts

\* What appending an id to a list of receipts gives.
LEMMA ReceiptAppended ==
  ASSUME NEW s \in Receipts, NEW x \in EventId
  PROVE  /\ Append(s, x) \in Receipts
         /\ Len(s) \in Nat
         /\ Len(Append(s, x)) = Len(s) + 1
         /\ \A i \in 1 .. Len(s) : Append(s, x)[i] = s[i]
         /\ Append(s, x)[Len(s) + 1] = x
  BY DEF Receipts

\* Trimming a list that was trimmed before is the same as trimming it once.
LEMMA KeepLastAppend ==
  ASSUME NEW s \in Receipts, NEW x \in EventId, NEW n \in Nat \ {0}
  PROVE  KeepLast(Append(KeepLast(s, n), x), n) = KeepLast(Append(s, x), n)
<1>1. CASE ~(Len(s) > n)
  BY <1>1 DEF KeepLast
<1>2. CASE Len(s) > n
  <2> DEFINE k == KeepLast(s, n)
             kx == Append(k, x)
             sx == Append(s, x)
             l == KeepLast(kx, n)
             r == KeepLast(sx, n)
             m == Len(s)
  <2>1. /\ k \in Receipts /\ Len(k) = n /\ m \in Nat
        /\ \A i \in 1 .. n : k[i] = s[m - n + i]
    <3>1. Len(s) \in Nat
      BY DEF Receipts
    <3> QED BY <1>2, <3>1, KeepLastOfLong
  <2> HIDE DEF k
  <2>2. /\ kx \in Receipts /\ Len(kx) = n + 1
        /\ \A i \in 1 .. n : kx[i] = k[i]
        /\ kx[n + 1] = x
    BY <2>1, ReceiptAppended
  <2>3. /\ sx \in Receipts /\ Len(sx) = m + 1
        /\ \A i \in 1 .. m : sx[i] = s[i]
        /\ sx[m + 1] = x
    BY ReceiptAppended
  <2> HIDE DEF kx, sx, m
  <2>4. /\ l \in Receipts /\ Len(l) = n
        /\ \A i \in 1 .. n : l[i] = kx[i + 1]
    <3>1. /\ l \in Receipts /\ Len(l) = n
          /\ \A i \in 1 .. n : l[i] = kx[n + 1 - n + i]
      <4>1. Len(kx) > n
        BY <2>2
      <4>2. /\ l \in Receipts /\ Len(l) = n
            /\ \A i \in 1 .. n : l[i] = kx[Len(kx) - n + i]
        BY <2>2, <4>1, KeepLastOfLong, Zenon
      <4> QED BY <2>2, <4>2
    <3>2. \A i \in 1 .. n : n + 1 - n + i = i + 1
      OBVIOUS
    <3> QED BY <3>1, <3>2
  <2>5. /\ r \in Receipts /\ Len(r) = n
        /\ \A i \in 1 .. n : r[i] = sx[Len(sx) - n + i]
    <3>1. Len(sx) > n
      BY <1>2, <2>1, <2>3 DEF m
    <3> QED BY <2>3, <3>1, KeepLastOfLong, Zenon
  <2> HIDE DEF l, r
  <2>6. ASSUME NEW i \in 1 .. n
        PROVE  l[i] = r[i]
    <3>1. CASE i = n
      <4>1. Len(sx) - n + n = m + 1
        BY <2>1, <2>3
      <4> QED BY <2>2, <2>3, <2>4, <2>5, <3>1, <4>1
    <3>2. CASE i # n
      <4>1. i + 1 \in 1 .. n /\ Len(sx) - n + i = m - n + (i + 1)
        BY <2>1, <2>3, <3>2
      <4>2. m - n + (i + 1) \in 1 .. m
        BY <1>2, <2>1, <4>1 DEF m
      <4>3. l[i] = k[i + 1] /\ r[i] = s[m - n + (i + 1)]
        BY <2>2, <2>3, <2>4, <2>5, <4>1, <4>2
      <4> QED BY <2>1, <4>1, <4>3
    <3> QED BY <3>1, <3>2
  <2>7. l = r
    BY <2>4, <2>5, <2>6, SameReceipts
  <2> QED BY <2>7 DEF k, kx, sx, l, r
<1> QED BY <1>1, <1>2

\* Trimming twice to one length is trimming once.
LEMMA KeepLastTwice ==
  ASSUME NEW s \in Receipts, NEW n \in Nat
  PROVE  KeepLast(KeepLast(s, n), n) = KeepLast(s, n)
<1>1. CASE Len(s) > n
  <2>1. ~(Len(KeepLast(s, n)) > n)
    BY <1>1, KeepLastOfLong
  <2> QED BY <2>1 DEF KeepLast
<1>2. CASE ~(Len(s) > n)
  BY <1>2 DEF KeepLast
<1> QED BY <1>1, <1>2

\* No two equal ids within n places of each other.
Apart(s, n) == \A i, j \in 1 .. Len(s) : i < j /\ s[i] = s[j] => j - i > n

\* An id that is not among the last n is not at any of the last n places.
LEMMA NotInEnd ==
  ASSUME NEW s \in Receipts, NEW n \in Nat, NEW x, ~Contains(KeepLast(s, n), x),
         NEW i \in 1 .. Len(s), s[i] = x
  PROVE  i + n <= Len(s)
<1>1. Len(s) \in Nat
  BY DEF Receipts
<1>2. CASE ~(Len(s) > n)
  BY <1>2 DEF KeepLast, Contains
<1>3. CASE Len(s) > n
  <2>1. \A j \in 1 .. n : s[Len(s) - n + j] # x
    BY <1>3, KeepLastOfLong DEF Contains
  <2>2. ASSUME ~(i + n <= Len(s))
        PROVE  FALSE
    <3>1. i - (Len(s) - n) \in 1 .. n /\ Len(s) - n + (i - (Len(s) - n)) = i
      BY <1>1, <1>3, <2>2
    <3> QED BY <2>1, <3>1
  <2> QED BY <2>2
<1> QED BY <1>2, <1>3

\* An id that is not among the last n may follow.
LEMMA ApartAppend ==
  ASSUME NEW s \in Receipts, NEW n \in Nat, NEW x \in EventId,
         Apart(s, n), ~Contains(KeepLast(s, n), x)
  PROVE  Apart(Append(s, x), n)
<1> DEFINE sx == Append(s, x)
<1>1. /\ Len(sx) = Len(s) + 1 /\ Len(s) \in Nat
      /\ \A i \in 1 .. Len(s) : sx[i] = s[i]
      /\ sx[Len(s) + 1] = x
  BY ReceiptAppended
<1> HIDE DEF sx
<1> SUFFICES ASSUME NEW i \in 1 .. Len(sx), NEW j \in 1 .. Len(sx), i < j, sx[i] = sx[j]
             PROVE  j - i > n
  BY DEF Apart, sx
<1>2. i \in 1 .. Len(s) /\ sx[i] = s[i]
  BY <1>1
<1>3. CASE j <= Len(s)
  <2>1. j \in 1 .. Len(s) /\ sx[j] = s[j]
    BY <1>1, <1>3
  <2> QED BY <1>2, <2>1 DEF Apart
<1>4. CASE j = Len(s) + 1
  <2>1. i + n <= Len(s)
    BY <1>1, <1>2, <1>4, NotInEnd
  <2> QED BY <1>1, <1>4, <2>1
<1> QED BY <1>1, <1>3, <1>4

-----------------------------------------------------------------------------
(* The invariant *)

\* The document's receipts are the window on its history, and no id is twice in
\* a window.
Windowed ==
  \A o \in Orders : /\ db[o].receipts = KeepLast(applied[o], EventIds)
                    /\ Apart(applied[o], EventIds)

\* The event a listener is about to apply has no receipt.
Fresh(k) == pc[k] = "applying" => ~Contains(copy[k].receipts, Id(Current(k)))

WindowInv == Windowed /\ \A k \in Kinds : Fresh(k)

\* Only Applied touches the receipts.
LEMMA ReceiptsKept ==
  ASSUME NEW doc \in Doc, NEW e, NEW outcome
  PROVE  /\ Stage(doc, e).receipts = doc.receipts
         /\ Processed(doc, outcome).receipts = doc.receipts
         /\ Polled(doc, outcome).receipts = doc.receipts
         /\ HeadRemoved(doc).receipts = doc.receipts
  BY DEF Stage, Processed, Polled, HeadRemoved, Doc

\* Applied adds the id of the event.
LEMMA ReceiptAdded ==
  ASSUME NEW doc \in Doc, NEW e \in Event
  PROVE  Applied(doc, e).receipts = Append(doc.receipts, Id(e))
<1>1. WithReceipt(doc, e).receipts = Append(doc.receipts, Id(e))
  BY DEF WithReceipt, Doc
<1>2. Stage(WithReceipt(doc, e), BusinessEvent(e, doc)).receipts = WithReceipt(doc, e).receipts
  BY WithReceiptType, ReceiptsKept
<1> QED BY <1>1, <1>2 DEF Applied

\* What a save stores.
LEMMA SaveStores ==
  ASSUME IInv, NEW t \in Threads, pc[t] \in Reading, NEW doc \in Doc,
         NEW result, Save(t, doc, result)
  PROVE  /\ at[t] \in Orders
         /\ \A o \in Orders : o # at[t] => db'[o] = db[o]
         /\ ~Effective(result) => db'[at[t]] = db[at[t]]
         /\ Effective(result) =>
              db'[at[t]].receipts = KeepLast(doc.receipts, EventIds)
<1>1. at[t] \in Orders
  BY Readers DEF IInv, WorkInHand, Locked
<1>2. VersionMatches(t)
  BY NoConflict
<1>3. Stored(doc).receipts = KeepLast(doc.receipts, EventIds)
  BY DEF Stored, Doc
<1> QED BY <1>1, <1>2, <1>3 DEF Save, IInv, TypeOK

\* A save that leaves the receipts alone.
LEMMA WindowedKept ==
  ASSUME IInv, Windowed, NEW t \in Threads, pc[t] \in Reading, NEW doc \in Doc,
         NEW result, Save(t, doc, result), doc.receipts = copy[t].receipts,
         UNCHANGED applied
  PROVE  Windowed'
<1>1. /\ at[t] \in Orders
      /\ \A o \in Orders : o # at[t] => db'[o] = db[o]
      /\ ~Effective(result) => db'[at[t]] = db[at[t]]
      /\ Effective(result) => db'[at[t]].receipts = KeepLast(doc.receipts, EventIds)
  BY SaveStores
<1>2. copy[t] = db[at[t]]
  BY DEF IInv, CopyIsCurrent
<1>3. applied[at[t]] \in Receipts /\ EventIds \in Nat
  BY <1>1, BoundsAssumption DEF IInv, TypeOK
<1>4. KeepLast(doc.receipts, EventIds) = doc.receipts
  BY <1>1, <1>2, <1>3, KeepLastTwice DEF Windowed
<1>5. \A o \in Orders : db'[o].receipts = db[o].receipts
  BY <1>1, <1>2, <1>4
<1> QED BY <1>5 DEF Windowed

\* A listener that applies its event.
LEMMA WindowedApply ==
  ASSUME IInv, WindowInv, NEW k \in Kinds, NEW result \in Results, Apply(k, result)
  PROVE  Windowed'
<1> DEFINE id == Id(Current(k))
           doc == Applied(copy[k], Current(k))
           o == at[k]
<1>1. /\ k \in Threads /\ pc[k] \in Reading /\ pc[k] = "applying"
      /\ o \in Orders /\ Current(k) \in Event /\ copy[k] \in Doc
  BY CurrentTypes, ThreadKinds DEF Apply, IInv, TypeOK, Reading
<1>2. id \in EventId /\ doc \in Doc /\ doc.receipts = Append(copy[k].receipts, id)
  BY <1>1, AppliedType, ReceiptAdded DEF Id, Event, EventId
<1>3. copy[k] = db[o] /\ ~Contains(copy[k].receipts, id)
  BY <1>1 DEF IInv, CopyIsCurrent, WindowInv, Fresh
<1>4. /\ applied[o] \in Receipts /\ EventIds \in Nat \ {0} /\ EventIds \in Nat
      /\ db[o].receipts = KeepLast(applied[o], EventIds)
      /\ Apart(applied[o], EventIds)
  BY <1>1, BoundsAssumption DEF IInv, TypeOK, WindowInv, Windowed
<1>5. Save(k, doc, result)
  BY DEF Apply
<1> HIDE DEF id, doc
<1>6. /\ \A i \in Orders : i # o => db'[i] = db[i]
      /\ ~Effective(result) => db'[o] = db[o]
      /\ Effective(result) => db'[o].receipts = KeepLast(doc.receipts, EventIds)
  BY <1>1, <1>2, <1>5, SaveStores
<1>7. applied' = IF Effective(result)
                   THEN [applied EXCEPT ![o] = Append(@, id)] ELSE applied
  BY DEF Apply, id
<1>8. CASE ~Effective(result)
  BY <1>6, <1>7, <1>8 DEF WindowInv, Windowed
<1>9. CASE Effective(result)
  <2>1. db'[o].receipts = KeepLast(Append(applied[o], id), EventIds)
    BY <1>2, <1>3, <1>4, <1>6, <1>9, KeepLastAppend
  <2>2. Apart(Append(applied[o], id), EventIds)
    BY <1>2, <1>3, <1>4, ApartAppend
  <2>3. /\ applied'[o] = Append(applied[o], id)
        /\ \A i \in Orders : i # o => applied'[i] = applied[i]
    BY <1>1, <1>7, <1>9 DEF IInv, TypeOK
  <2> QED BY <1>6, <2>1, <2>2, <2>3 DEF WindowInv, Windowed
<1> QED BY <1>8, <1>9

\* A step that writes neither documents nor history.
LEMMA WindowedFrame ==
  ASSUME WindowInv, UNCHANGED <<db, applied>>
  PROVE  Windowed'
  BY DEF WindowInv, Windowed

\* A step of one thread that does not begin to apply an event, and moves no
\* other listener's record.
LEMMA FreshFrame ==
  ASSUME WindowInv, NEW t, OnlyMoves(t), pc'[t] # "applying",
         \A k \in Kinds : pc[k] = "applying" /\ k # t =>
           Head(queue'[k][PartitionOf[at[k]]]) = Head(queue[k][PartitionOf[at[k]]])
  PROVE  \A k \in Kinds : Fresh(k)'
<1> SUFFICES ASSUME NEW k \in Kinds, pc'[k] = "applying"
             PROVE  ~Contains(copy'[k].receipts, Id(Head(queue'[k][PartitionOf[at'[k]]])))
  BY DEF Fresh, Current, Record
<1>1. k # t /\ pc'[k] = pc[k] /\ at'[k] = at[k] /\ copy'[k] = copy[k]
  BY ThreadKinds DEF OnlyMoves
<1> QED BY <1>1 DEF WindowInv, Fresh, Current, Record

\* Every step keeps the windows.
LEMMA WindowedStep ==
  ASSUME IInv, WindowInv, [Next]_vars
  PROVE  Windowed'
<1> USE ThreadKinds DEF IInv
<1>1. ASSUME UNCHANGED <<db, applied>>
      PROVE  Windowed'
  BY <1>1, WindowedFrame
<1>2. ASSUME NEW t \in Callers, NEW outcome \in Outcomes(t), NEW result \in Results,
             SaveStatusChange(t, outcome, result)
      PROVE  Windowed'
  <2> DEFINE doc == Answered(t, outcome)
             event == StatusEvent(at[t], Len(issued[at[t]]) + 1, doc)
  <2>1. at[t] \in Orders /\ copy[t] \in Doc /\ pc[t] \in Reading
    BY <1>2 DEF SaveStatusChange, WorkInHand, TypeOK, Reading
  <2>2. doc \in Doc /\ doc.receipts = copy[t].receipts
    BY <2>1, AnsweredTypes, ReceiptsKept DEF Answered
  <2>3. event \in Event
    <3>1. issued[at[t]] \in Seq(Status)
      BY <2>1 DEF TypeOK
    <3>2. Len(issued[at[t]]) + 1 \in Nat
      BY <3>1
    <3> QED BY <2>1, <2>2, <3>2 DEF StatusEvent, Event, Doc, Kinds
  <2>4. Save(t, Stage(doc, event), result) /\ applied' = applied
    BY <1>2 DEF SaveStatusChange
  <2> HIDE DEF doc, event
  <2>5. Stage(doc, event) \in Doc /\ Stage(doc, event).receipts = copy[t].receipts
    BY <2>2, <2>3, StageType, ReceiptsKept
  <2> QED BY <2>1, <2>4, <2>5, WindowedKept DEF WindowInv
<1>3. ASSUME NEW result \in Results, RemoveHead(result)
      PROVE  Windowed'
  <2>1. /\ copy["dispatch"] \in Doc /\ pc["dispatch"] \in Reading
        /\ copy["dispatch"].pending # <<>>
    BY <1>3 DEF RemoveHead, WorkInHand, TypeOK, Reading
  <2>2. /\ HeadRemoved(copy["dispatch"]) \in Doc
        /\ HeadRemoved(copy["dispatch"]).receipts = copy["dispatch"].receipts
    BY <2>1, HeadRemovedType, ReceiptsKept
  <2>3. Save("dispatch", HeadRemoved(copy["dispatch"]), result) /\ applied' = applied
    BY <1>3 DEF RemoveHead, history
  <2> QED BY <2>1, <2>2, <2>3, WindowedKept DEF WindowInv
<1>4. ASSUME NEW k \in Kinds, NEW result \in Results, Apply(k, result)
      PROVE  Windowed'
  BY <1>4, WindowedApply
<1>5. ASSUME \/ \E t \in Http, o \in Orders : HttpBegin(t, o)
             \/ \E s \in Schedulers : Query(s) \/ \E o \in Orders : TakeCandidate(s, o)
             \/ \E t \in Callers : CountEnqueued(t) \/ CallFails(t) \/ StageRefused(t)
             \/ \E result \in Results : Send(result)
             \/ CountPublished
      PROVE  Windowed'
  BY <1>1, <1>5
     DEF HttpBegin, Query, TakeCandidate, CountEnqueued, CallFails, StageRefused,
         Send, CountPublished, durable, history
<1>6. ASSUME \/ \E k \in Kinds : \/ \E p \in Partitions : Receive(k, p)
                                 \/ ApplyRefused(k) \/ Mark(k) \/ CountDownstream(k)
                                 \/ Commit(k) \/ CommitLost(k)
             \/ \E id \in cache : Forget(id)
             \/ Crash
             \/ UNCHANGED vars
      PROVE  Windowed'
  BY <1>1, <1>6
     DEF Receive, ApplyRefused, Mark, CountDownstream, Commit, CommitLost, Forget,
         Crash, vars, durable, history
<1> QED
  BY <1>2, <1>3, <1>4, <1>5, <1>6, Zenon
  DEF Next, Caller, Scheduler, Dispatcher, Listener

\* A step of one thread that leaves the topics alone.
LEMMA FreshQuiet ==
  ASSUME WindowInv, NEW t, OnlyMoves(t), pc'[t] # "applying", UNCHANGED queue
  PROVE  \A k \in Kinds : Fresh(k)'
  BY FreshFrame

\* Every step keeps the events in hand without a receipt.
LEMMA FreshStep ==
  ASSUME IInv, WindowInv, [Next]_vars
  PROVE  \A k \in Kinds : Fresh(k)'
<1> DEFINE Goal == \A k \in Kinds : Fresh(k)
<1> SUFFICES Goal'
  OBVIOUS
<1> USE ThreadKinds DEF IInv
<1>1. ASSUME UNCHANGED <<threads, queue>>
      PROVE  Goal'
  BY <1>1 DEF WindowInv, Fresh, Current, Record, threads
<1>2. ASSUME NEW t \in Http, NEW o \in Orders, HttpBegin(t, o)
      PROVE  Goal'
  BY <1>2, FreshQuiet, Frames DEF HttpBegin, durable
<1>3. ASSUME NEW s \in Schedulers, NEW o \in Orders, TakeCandidate(s, o)
      PROVE  Goal'
  <2>1. CASE StillDue(s, db[o])
    <3>1. OnlyMoves(s) /\ pc'[s] = FirstStep(s) /\ queue' = queue
      BY <1>3, <2>1, Frames DEF TakeCandidate, durable
    <3> QED BY <3>1, FreshQuiet DEF FirstStep
  <2>2. CASE ~StillDue(s, db[o])
    BY <1>1, <1>3, <2>2 DEF TakeCandidate, durable
  <2> QED BY <2>1, <2>2
<1>4. ASSUME NEW t \in Callers, NEW outcome \in Outcomes(t), NEW result \in Results,
             SaveStatusChange(t, outcome, result)
      PROVE  Goal'
  BY <1>4, FreshQuiet, Frames DEF SaveStatusChange
<1>5. ASSUME NEW t \in Callers, CountEnqueued(t) \/ CallFails(t) \/ StageRefused(t)
      PROVE  Goal'
  BY <1>5, FreshQuiet, Frames DEF CountEnqueued, CallFails, StageRefused, durable
<1>6. ASSUME NEW result \in Results, Send(result)
      PROVE  Goal'
  <2> DEFINE event == Head(copy["dispatch"].pending)
  <2>1. copy["dispatch"].pending \in Events /\ copy["dispatch"].pending # <<>>
    BY <1>6 DEF Send, WorkInHand, TypeOK, Doc
  <2>2. event \in Event
    BY <2>1 DEF Events
  <2>3. Deliver(event) \/ UNCHANGED queue
    BY <1>6 DEF Send
  <2>4. OnlyMoves("dispatch") /\ pc'["dispatch"] # "applying"
    <3>1. \/ Goto("dispatch", "resending") \/ Goto("dispatch", "removing")
          \/ Finish("dispatch")
      BY <1>6, Zenon DEF Send
    <3> QED BY <3>1, Frames
  <2> HIDE DEF event
  <2>5. ASSUME Deliver(event), NEW k \in Kinds, pc[k] = "applying"
        PROVE  Head(queue'[k][PartitionOf[at[k]]]) = Head(queue[k][PartitionOf[at[k]]])
    <3>1. PartitionOf[at[k]] \in Partitions /\ queue[k][PartitionOf[at[k]]] # <<>>
      BY <2>5, CurrentTypes
    <3> QED BY <2>2, <2>5, <3>1, DeliverWork
  <2> QED BY <2>3, <2>4, <2>5, FreshFrame
<1>7. ASSUME NEW result \in Results, RemoveHead(result)
      PROVE  Goal'
  <2>1. OnlyMoves("dispatch") /\ pc'["dispatch"] \in {"removed", "idle"}
    <3>1. CASE result = "ok"
      BY <1>7, <3>1 DEF RemoveHead, OnlyMoves, TypeOK
    <3>2. CASE result # "ok"
      BY <1>7, <3>2, Frames DEF RemoveHead
    <3> QED BY <3>1, <3>2
  <2> QED BY <1>7, <2>1, FreshQuiet DEF RemoveHead
<1>8. ASSUME CountPublished
      PROVE  Goal'
  BY <1>8, FreshQuiet, Frames DEF CountPublished, durable
<1>9. ASSUME NEW k \in Kinds, NEW p \in Partitions, Receive(k, p)
      PROVE  Goal'
  <2>1. CASE AlreadyProcessed(Record(k, p))
    <3>1. OnlyMoves(k) /\ pc'[k] = "acking" /\ queue' = queue
      BY <1>9, <2>1 DEF Receive, OnlyMoves, TypeOK, durable
    <3> QED BY <3>1, FreshQuiet
  <2>2. CASE ~AlreadyProcessed(Record(k, p))
    <3> DEFINE o == Record(k, p).order
    <3>1. /\ OnlyMoves(k) /\ at'[k] = o /\ copy'[k] = db[o] /\ queue' = queue
          /\ ~Contains(db[o].receipts, Id(Record(k, p)))
      BY <1>9, <2>2, Frames DEF Receive, AlreadyProcessed, durable
    <3>2. PartitionOf[o] = p
      <4>1. 1 \in DOMAIN queue[k][p] /\ Record(k, p) = queue[k][p][1]
        BY <1>9, RecordTypes DEF Receive
      <4> QED BY <4>1 DEF WorkInHand
    <3> SUFFICES ASSUME NEW j \in Kinds PROVE Fresh(j)'
      OBVIOUS
    <3>3. CASE j = k
      BY <3>1, <3>2, <3>3 DEF Fresh, Current, Record
    <3>4. CASE j # k
      BY <3>1, <3>4 DEF WindowInv, Fresh, Current, Record, OnlyMoves
    <3> QED BY <3>3, <3>4
  <2> QED BY <2>1, <2>2
<1>10. ASSUME NEW k \in Kinds,
              \/ \E result \in Results : Apply(k, result)
              \/ ApplyRefused(k) \/ Mark(k) \/ CountDownstream(k) \/ CommitLost(k)
       PROVE  Goal'
  BY <1>10, FreshQuiet, Frames
     DEF Apply, ApplyRefused, Mark, CountDownstream, CommitLost, durable
<1>11. ASSUME NEW k \in Kinds, Commit(k)
       PROVE  Goal'
  <2>1. OnlyMoves(k) /\ pc'[k] = "idle"
    BY <1>11, Frames DEF Commit
  <2>2. \A j \in Kinds : j # k => queue'[j] = queue[j]
    BY <1>11 DEF Commit, TypeOK
  <2> QED BY <2>1, <2>2, FreshFrame
<1>12. ASSUME Crash
       PROVE  Goal'
  BY <1>12 DEF Crash, Fresh
<1>13. ASSUME NEW s \in Schedulers, Query(s)
       PROVE  Goal'
  BY <1>1, <1>13 DEF Query, durable
<1>14. ASSUME NEW id \in cache, Forget(id)
       PROVE  Goal'
  BY <1>1, <1>14 DEF Forget, durable
<1>15. CASE UNCHANGED vars
  BY <1>1, <1>15 DEF vars, durable
<1> HIDE DEF Goal
<1> QED
  BY <1>2, <1>3, <1>4, <1>5, <1>6, <1>7, <1>8, <1>9, <1>10, <1>11, <1>12, <1>13,
     <1>14, <1>15, Zenon
  DEF Next, Caller, Scheduler, Dispatcher, Listener

-----------------------------------------------------------------------------
\* The windows are kept.
LEMMA WindowInvariance == Spec => [](IInv /\ WindowInv)
<1>1. Init => WindowInv
  <2> SUFFICES ASSUME Init PROVE WindowInv
    OBVIOUS
  <2>1. \A o \in Orders : db[o].receipts = <<>> /\ applied[o] = <<>>
    BY DEF Init, NewOrder
  <2>2. KeepLast(<<>>, EventIds) = <<>> /\ Apart(<<>>, EventIds)
    BY BoundsAssumption DEF KeepLast, Apart
  <2>3. \A k \in Kinds : Fresh(k)
    BY ThreadKinds DEF Init, Fresh
  <2> QED BY <2>1, <2>2, <2>3 DEF WindowInv, Windowed
<1>2. IInv /\ WindowInv /\ [Next]_vars => IInv' /\ WindowInv'
  <2> SUFFICES ASSUME IInv, WindowInv, [Next]_vars PROVE IInv' /\ WindowInv'
    OBVIOUS
  <2>1. IInv'
    BY TypeStep, LockStep, WorkStep, CopyStep DEF IInv
  <2>2. WindowInv'
    BY WindowedStep, FreshStep DEF WindowInv
  <2> QED BY <2>1, <2>2
<1> QED BY <1>1, <1>2, InitInv, PTL DEF Spec

\* No event is applied twice within a receipt window, whatever is redelivered
\* and whatever the cache forgets.
THEOREM OnceInWindow == Spec => []AppliedOnceInWindow
<1>1. IInv /\ WindowInv => AppliedOnceInWindow
  <2> SUFFICES ASSUME IInv, WindowInv, NEW o \in Orders
               PROVE  \A i, j \in DOMAIN applied[o] :
                        i < j /\ applied[o][i] = applied[o][j] => j - i > EventIds
    BY DEF AppliedOnceInWindow
  <2>1. DOMAIN applied[o] = 1 .. Len(applied[o])
    BY DEF IInv, TypeOK, Receipts
  <2> QED BY <2>1 DEF WindowInv, Windowed, Apart
<1> QED BY <1>1, WindowInvariance, PTL

-----------------------------------------------------------------------------
(* Lists as sets *)

\* What appending an element to a list does to its set.
LEMMA SetAppended ==
  ASSUME NEW S, NEW q \in Seq(S), NEW x \in S
  PROVE  ToSet(Append(q, x)) = ToSet(q) \cup {x}
<1> DEFINE qx == Append(q, x)
<1>1. /\ DOMAIN q = 1 .. Len(q) /\ Len(q) \in Nat
      /\ DOMAIN qx = 1 .. (Len(q) + 1)
      /\ \A i \in 1 .. Len(q) : qx[i] = q[i]
      /\ qx[Len(q) + 1] = x
  OBVIOUS
<1> HIDE DEF qx
<1>2. \A i \in DOMAIN q : q[i] \in ToSet(qx)
  <2> SUFFICES ASSUME NEW i \in DOMAIN q PROVE q[i] \in ToSet(qx)
    OBVIOUS
  <2>1. i \in DOMAIN qx /\ qx[i] = q[i]
    BY <1>1
  <2> QED BY <2>1 DEF ToSet
<1>3. x \in ToSet(qx)
  <2>1. Len(q) + 1 \in DOMAIN qx
    BY <1>1
  <2> QED BY <1>1, <2>1 DEF ToSet
<1>4. \A i \in DOMAIN qx : qx[i] \in ToSet(q) \cup {x}
  <2> SUFFICES ASSUME NEW i \in DOMAIN qx, i # Len(q) + 1 PROVE qx[i] \in ToSet(q)
    BY <1>1
  <2>1. i \in DOMAIN q /\ qx[i] = q[i]
    BY <1>1
  <2> QED BY <2>1 DEF ToSet
<1>5. ToSet(qx) = ToSet(q) \cup {x}
  BY <1>2, <1>3, <1>4 DEF ToSet
<1> QED BY <1>5 DEF qx

\* An event at the end of an outbox or a partition.
LEMMA EventAppended ==
  ASSUME NEW q \in Events, NEW e \in Event
  PROVE  ToSet(Append(q, e)) = ToSet(q) \cup {e}
  BY SetAppended DEF Events

\* The head of an outbox or a partition goes, the rest stays.
LEMMA HeadGone ==
  ASSUME NEW q \in Events, q # <<>>
  PROVE  /\ Tail(q) \in Events
         /\ Head(q) \in ToSet(q)
         /\ ToSet(q) = ToSet(Tail(q)) \cup {Head(q)}
<1>1. /\ Len(q) \in Nat /\ Len(q) > 0 /\ DOMAIN q = 1 .. Len(q)
      /\ Tail(q) \in Events /\ Head(q) = q[1]
      /\ DOMAIN Tail(q) = 1 .. (Len(q) - 1)
      /\ \A i \in 1 .. (Len(q) - 1) : Tail(q)[i] = q[i + 1]
  BY DEF Events
<1>2. ASSUME NEW i \in DOMAIN q, i # 1
      PROVE  q[i] \in ToSet(Tail(q))
  <2>1. i - 1 \in 1 .. (Len(q) - 1) /\ (i - 1) + 1 = i
    BY <1>1, <1>2
  <2>2. Tail(q)[i - 1] = q[i]
    BY <1>1, <2>1
  <2> QED BY <1>1, <2>1, <2>2 DEF ToSet
<1>3. ASSUME NEW i \in DOMAIN Tail(q)
      PROVE  Tail(q)[i] \in ToSet(q)
  <2>1. i + 1 \in DOMAIN q /\ Tail(q)[i] = q[i + 1]
    BY <1>1
  <2> QED BY <2>1 DEF ToSet
<1>4. Head(q) \in ToSet(q)
  <2>1. 1 \in DOMAIN q /\ Head(q) = q[1]
    BY <1>1
  <2> QED BY <2>1 DEF ToSet
<1>5. ToSet(q) \subseteq ToSet(Tail(q)) \cup {Head(q)}
  BY <1>1, <1>2 DEF ToSet
<1>6. ToSet(Tail(q)) \subseteq ToSet(q)
  BY <1>3 DEF ToSet
<1> QED BY <1>1, <1>4, <1>5, <1>6

\* An id at the end of the history applied.
LEMMA IdAppended ==
  ASSUME NEW s \in Receipts, NEW id \in EventId
  PROVE  ToSet(Append(s, id)) = ToSet(s) \cup {id}
  BY SetAppended DEF Receipts

\* A receipt in the window is in the history.
LEMMA ReceiptInHistory ==
  ASSUME NEW s \in Receipts, NEW n \in Nat, NEW id, Contains(KeepLast(s, n), id)
  PROVE  id \in ToSet(s)
<1>1. DOMAIN s = 1 .. Len(s) /\ Len(s) \in Nat
  BY DEF Receipts
<1>2. CASE ~(Len(s) > n)
  BY <1>1, <1>2 DEF KeepLast, Contains, ToSet
<1>3. CASE Len(s) > n
  <2>1. PICK i \in 1 .. n : KeepLast(s, n)[i] = id
    BY <1>3, KeepLastOfLong DEF Contains
  <2>2. s[Len(s) - n + i] = id
    BY <1>3, <2>1, KeepLastOfLong
  <2>3. Len(s) - n + i \in DOMAIN s
    BY <1>1, <1>3
  <2> QED BY <2>2, <2>3 DEF ToSet
<1> QED BY <1>2, <1>3

-----------------------------------------------------------------------------
(* The steps that move events *)

\* No other order's events are touched.
OthersKept(o) ==
  \A i \in Orders : i # o => /\ db'[i].pending = db[i].pending
                             /\ issued'[i] = issued[i]
                             /\ applied'[i] = applied[i]

\* Nothing is staged, sent, applied or committed.
Still ==
  /\ \A o \in Orders : db'[o].pending = db[o].pending
  /\ UNCHANGED <<queue, issued, applied>>

\* A status change is written together with its event.
Announces(o) ==
  \E s \in Status :
    /\ issued'[o] = Append(issued[o], s)
    /\ db'[o].pending = Append(db[o].pending,
         [kind |-> "status", order |-> o, n |-> Len(issued[o]) + 1, status |-> s])
    /\ applied'[o] = applied[o]
    /\ OthersKept(o)
    /\ UNCHANGED queue

\* The dispatcher removes the head of an outbox.
Removes(o) ==
  /\ pc["dispatch"] = "removing" /\ o = at["dispatch"]
  /\ db[o].pending # <<>>
  /\ Head(copy["dispatch"].pending) = Head(db[o].pending)
  /\ db'[o].pending = Tail(db[o].pending)
  /\ issued'[o] = issued[o] /\ applied'[o] = applied[o]
  /\ OthersKept(o)
  /\ UNCHANGED queue

\* The dispatcher sends the head of an outbox.
Sends(o) ==
  /\ pc["dispatch"] \in {"sending", "resending"} /\ o = at["dispatch"]
  /\ db[o].pending # <<>>
  /\ Deliver(Head(db[o].pending))
  /\ \A i \in Orders : db'[i].pending = db[i].pending
  /\ UNCHANGED <<issued, applied>>

\* A listener applies its record, and stages what follows from it.
Applies(k, o) ==
  /\ pc[k] = "applying" /\ o = at[k]
  /\ applied'[o] = Append(applied[o], Id(Current(k)))
  /\ db'[o].pending = IF Downstream(Current(k))
                        THEN Append(db[o].pending, BusinessEvent(Current(k), db[o]))
                        ELSE db[o].pending
  /\ issued'[o] = issued[o]
  /\ OthersKept(o)
  /\ UNCHANGED queue

\* A listener removes its record.
Commits(k, o) ==
  /\ pc[k] = "acking" /\ o = at[k]
  /\ queue' = [queue EXCEPT ![k][PartitionOf[o]] = Tail(@)]
  /\ \A i \in Orders : db'[i].pending = db[i].pending
  /\ UNCHANGED <<issued, applied>>

Moves(o) ==
  \/ Announces(o) \/ Removes(o) \/ Sends(o)
  \/ \E k \in Kinds : Applies(k, o) \/ Commits(k, o)

\* What the document operators do to the outbox.
LEMMA PendingFacts ==
  ASSUME NEW doc \in Doc, NEW e \in Event, NEW outcome
  PROVE  /\ Processed(doc, outcome).pending = doc.pending
         /\ Polled(doc, outcome).pending = doc.pending
         /\ Stage(doc, e).pending = Append(doc.pending, e)
         /\ HeadRemoved(doc).pending = Tail(doc.pending)
         /\ Stored(doc).pending = doc.pending
         /\ Applied(doc, e).pending = IF Downstream(e)
                                        THEN Append(doc.pending, BusinessEvent(e, doc))
                                        ELSE doc.pending
<1>1. WithReceipt(doc, e).pending = doc.pending /\ WithReceipt(doc, e) \in Doc
  BY WithReceiptType DEF WithReceipt, Doc
<1>2. \A d \in Doc, f \in Event : Stage(d, f).pending = Append(d.pending, f)
  BY DEF Stage, Doc
<1>3. BusinessEvent(e, doc) \in Event
  BY EventTypes DEF BusinessEvent, Event, Doc, Kinds
<1>4. Applied(doc, e).pending = IF Downstream(e)
                                  THEN Append(doc.pending, BusinessEvent(e, doc))
                                  ELSE doc.pending
  BY <1>1, <1>2, <1>3 DEF Applied
<1>5. Stored(doc).pending = doc.pending
  BY DEF Stored, Doc
<1>6. /\ Processed(doc, outcome).pending = doc.pending
      /\ Polled(doc, outcome).pending = doc.pending
      /\ HeadRemoved(doc).pending = Tail(doc.pending)
  BY DEF Processed, Polled, HeadRemoved, Doc
<1> QED BY <1>2, <1>4, <1>5, <1>6

\* What a save does to the outboxes.
LEMMA SavePending ==
  ASSUME IInv, NEW t \in Threads, pc[t] \in Reading, NEW doc \in Doc,
         NEW result, Save(t, doc, result)
  PROVE  /\ at[t] \in Orders
         /\ \A o \in Orders : o # at[t] => db'[o].pending = db[o].pending
         /\ ~Effective(result) => db'[at[t]].pending = db[at[t]].pending
         /\ Effective(result) => db'[at[t]].pending = doc.pending
<1>1. at[t] \in Orders /\ VersionMatches(t)
  BY SaveStores, NoConflict
<1>2. Stored(doc).pending = doc.pending
  BY DEF Stored, Doc
<1> QED BY <1>1, <1>2 DEF Save, IInv, TypeOK

\* A status change is saved, or its save fails.
LEMMA SaveStatusMoves ==
  ASSUME IInv, NEW t \in Callers, NEW outcome \in Outcomes(t), NEW result \in Results,
         SaveStatusChange(t, outcome, result)
  PROVE  Still \/ \E o \in Orders : Announces(o)
<1> DEFINE o == at[t]
           doc == Answered(t, outcome)
           event == StatusEvent(o, Len(issued[o]) + 1, doc)
<1>1. /\ t \in Threads /\ pc[t] \in Reading /\ pc[t] # "idle"
      /\ o \in Orders /\ copy[t] \in Doc /\ issued[o] \in Seq(Status)
  BY ThreadKinds DEF SaveStatusChange, IInv, WorkInHand, TypeOK, Reading
<1>2. doc \in Doc /\ doc.pending = copy[t].pending /\ doc.status \in Status
  <2>1. doc = Polled(copy[t], outcome) \/ doc = Processed(copy[t], outcome)
    BY DEF Answered
  <2>2. doc \in Doc
    BY <1>1, <2>1, AnsweredTypes
  <2>3. doc.pending = copy[t].pending
    BY <1>1, <2>1 DEF Polled, Processed, Doc
  <2> QED BY <2>2, <2>3 DEF Doc
<1>3. copy[t] = db[o]
  BY <1>1 DEF IInv, CopyIsCurrent
<1>4. event \in Event
  <2>1. Len(issued[o]) + 1 \in Nat
    BY <1>1
  <2> QED BY <1>1, <1>2, <2>1, EventTypes DEF StatusEvent, Event, Kinds
<1>5. event = [kind |-> "status", order |-> o, n |-> Len(issued[o]) + 1,
               status |-> doc.status]
  BY DEF StatusEvent
<1>6. /\ Save(t, Stage(doc, event), result)
      /\ UNCHANGED <<queue, applied>>
      /\ issued' = IF Effective(result)
                     THEN [issued EXCEPT ![o] = Append(@, doc.status)] ELSE issued
  BY DEF SaveStatusChange
<1> HIDE DEF doc, event
<1>7. Stage(doc, event) \in Doc /\ Stage(doc, event).pending = Append(doc.pending, event)
  BY <1>2, <1>4, StageType DEF Stage, Doc
<1>8. /\ \A i \in Orders : i # o => db'[i].pending = db[i].pending
      /\ ~Effective(result) => db'[o].pending = db[o].pending
      /\ Effective(result) => db'[o].pending = Append(db[o].pending, event)
  BY <1>1, <1>2, <1>3, <1>6, <1>7, SavePending
<1>9. CASE ~Effective(result)
  <2>1. \A i \in Orders : db'[i].pending = db[i].pending
    BY <1>8, <1>9
  <2> QED BY <1>6, <1>9, <2>1 DEF Still
<1>10. CASE Effective(result)
  <2>1. /\ issued'[o] = Append(issued[o], doc.status)
        /\ \A i \in Orders : i # o => issued'[i] = issued[i]
    BY <1>1, <1>6, <1>10 DEF IInv, TypeOK
  <2>2. OthersKept(o)
    BY <1>6, <1>8, <2>1 DEF OthersKept
  <2>3. db'[o].pending = Append(db[o].pending,
          [kind |-> "status", order |-> o, n |-> Len(issued[o]) + 1,
           status |-> doc.status])
    BY <1>5, <1>8, <1>10
  <2>4. applied'[o] = applied[o]
    BY <1>6
  <2>5. Announces(o)
    BY <1>2, <1>6, <2>1, <2>2, <2>3, <2>4 DEF Announces
  <2> QED BY <1>1, <2>5
<1> QED BY <1>9, <1>10

\* A head is removed from its outbox, or the save fails.
LEMMA RemoveHeadMoves ==
  ASSUME IInv, NEW result \in Results, RemoveHead(result)
  PROVE  Still \/ \E o \in Orders : Removes(o)
<1> DEFINE t == "dispatch"
           o == at[t]
           doc == HeadRemoved(copy[t])
<1>1. /\ t \in Threads /\ pc[t] = "removing" /\ pc[t] \in Reading
      /\ o \in Orders /\ copy[t] \in Doc /\ copy[t].pending # <<>>
  BY ThreadKinds DEF RemoveHead, IInv, WorkInHand, TypeOK, Reading
<1>2. copy[t] = db[o]
  BY <1>1 DEF IInv, CopyIsCurrent
<1>3. doc \in Doc /\ doc.pending = Tail(copy[t].pending)
  BY <1>1, HeadRemovedType DEF HeadRemoved, Doc
<1>4. Save(t, doc, result) /\ UNCHANGED <<queue, issued, applied>>
  BY DEF RemoveHead, history
<1> HIDE DEF doc
<1>5. /\ \A i \in Orders : i # o => db'[i].pending = db[i].pending
      /\ ~Effective(result) => db'[o].pending = db[o].pending
      /\ Effective(result) => db'[o].pending = Tail(db[o].pending)
  BY <1>1, <1>2, <1>3, <1>4, SavePending
<1>6. CASE ~Effective(result)
  <2>1. \A i \in Orders : db'[i].pending = db[i].pending
    BY <1>5, <1>6
  <2> QED BY <1>4, <2>1 DEF Still
<1>7. CASE Effective(result)
  <2>1. OthersKept(o) /\ issued'[o] = issued[o] /\ applied'[o] = applied[o]
    BY <1>4, <1>5 DEF OthersKept
  <2>2. Removes(o)
    BY <1>1, <1>2, <1>4, <1>5, <1>7, <2>1 DEF Removes
  <2> QED BY <1>1, <2>2
<1> QED BY <1>6, <1>7

\* A head is sent, or the send fails.
LEMMA SendMoves ==
  ASSUME IInv, NEW result \in Results, Send(result)
  PROVE  Still \/ \E o \in Orders : Sends(o)
<1> DEFINE o == at["dispatch"]
<1>1. /\ pc["dispatch"] \in {"sending", "resending"} /\ pc["dispatch"] \in Reading
      /\ o \in Orders /\ copy["dispatch"].pending # <<>>
  BY ThreadKinds DEF Send, IInv, WorkInHand, Reading
<1>2. copy["dispatch"] = db[o]
  BY <1>1, ThreadKinds DEF IInv, CopyIsCurrent
<1>3. /\ Deliver(Head(db[o].pending)) \/ UNCHANGED queue
      /\ UNCHANGED <<db, issued, applied>>
  BY <1>2 DEF Send, history
<1>4. CASE UNCHANGED queue
  BY <1>3, <1>4 DEF Still
<1>5. CASE Deliver(Head(db[o].pending))
  BY <1>1, <1>2, <1>3, <1>5 DEF Sends
<1> QED BY <1>3, <1>4, <1>5

\* A record is applied, or the save fails.
LEMMA ApplyMoves ==
  ASSUME IInv, NEW k \in Kinds, NEW result \in Results, Apply(k, result)
  PROVE  Still \/ \E o \in Orders : Applies(k, o)
<1> DEFINE o == at[k]
           e == Current(k)
           doc == Applied(copy[k], e)
<1>1. /\ k \in Threads /\ pc[k] = "applying" /\ pc[k] \in Reading
      /\ o \in Orders /\ copy[k] \in Doc /\ e \in Event
  BY ThreadKinds, CurrentTypes DEF Apply, IInv, TypeOK, Reading
<1>2. copy[k] = db[o]
  BY <1>1 DEF IInv, CopyIsCurrent
<1>3. /\ doc \in Doc
      /\ doc.pending = IF Downstream(e)
                         THEN Append(copy[k].pending, BusinessEvent(e, copy[k]))
                         ELSE copy[k].pending
  BY <1>1, AppliedType, PendingFacts
<1>4. /\ Save(k, doc, result) /\ UNCHANGED <<queue, issued>>
      /\ applied' = IF Effective(result)
                      THEN [applied EXCEPT ![o] = Append(@, Id(e))] ELSE applied
  BY DEF Apply
<1> HIDE DEF doc, e
<1>5. /\ \A i \in Orders : i # o => db'[i].pending = db[i].pending
      /\ ~Effective(result) => db'[o].pending = db[o].pending
      /\ Effective(result) => db'[o].pending = doc.pending
  BY <1>1, <1>3, <1>4, SavePending
<1>6. CASE ~Effective(result)
  <2>1. \A i \in Orders : db'[i].pending = db[i].pending
    BY <1>5, <1>6
  <2> QED BY <1>4, <1>6, <2>1 DEF Still
<1>7. CASE Effective(result)
  <2>1. /\ applied'[o] = Append(applied[o], Id(e))
        /\ \A i \in Orders : i # o => applied'[i] = applied[i]
    BY <1>1, <1>4, <1>7 DEF IInv, TypeOK
  <2>2. OthersKept(o) /\ issued'[o] = issued[o]
    BY <1>4, <1>5, <2>1 DEF OthersKept
  <2>3. Applies(k, o)
    BY <1>1, <1>2, <1>3, <1>4, <1>5, <1>7, <2>1, <2>2 DEF Applies, e
  <2> QED BY <1>1, <2>3
<1> QED BY <1>6, <1>7

\* Every step moves one event, or none.
LEMMA EventStep ==
  ASSUME IInv, [Next]_vars
  PROVE  Still \/ \E o \in Orders : Moves(o)
<1> DEFINE Goal == Still \/ \E o \in Orders : Moves(o)
<1>1. ASSUME UNCHANGED <<durable, history>>
      PROVE  Goal
  BY <1>1 DEF Still, durable, history
<1>2. ASSUME NEW t \in Callers, NEW outcome \in Outcomes(t), NEW result \in Results,
             SaveStatusChange(t, outcome, result)
      PROVE  Goal
  BY <1>2, SaveStatusMoves DEF Moves
<1>3. ASSUME NEW result \in Results, RemoveHead(result) \/ Send(result)
      PROVE  Goal
  BY <1>3, RemoveHeadMoves, SendMoves DEF Moves
<1>4. ASSUME NEW k \in Kinds, NEW result \in Results, Apply(k, result)
      PROVE  Goal
  BY <1>4, ApplyMoves DEF Moves
<1>5. ASSUME NEW k \in Kinds, Commit(k)
      PROVE  Goal
  <2>1. at[k] \in Orders
    BY <1>5, CurrentTypes DEF Commit, IInv
  <2>2. Commits(k, at[k])
    BY <1>5 DEF Commit, Commits, history
  <2> QED BY <2>1, <2>2 DEF Moves
<1>6. ASSUME \/ \E t \in Http, o \in Orders : HttpBegin(t, o)
             \/ \E s \in Schedulers : Query(s) \/ \E o \in Orders : TakeCandidate(s, o)
             \/ \E t \in Callers : CountEnqueued(t) \/ CallFails(t) \/ StageRefused(t)
             \/ CountPublished
      PROVE  Goal
  BY <1>1, <1>6, Zenon
     DEF HttpBegin, Query, TakeCandidate, CountEnqueued, CallFails, StageRefused,
         CountPublished, durable, history
<1>7. ASSUME \/ \E k \in Kinds : \/ \E p \in Partitions : Receive(k, p)
                                 \/ ApplyRefused(k) \/ Mark(k) \/ CountDownstream(k)
                                 \/ CommitLost(k)
             \/ \E id \in cache : Forget(id)
             \/ Crash
             \/ UNCHANGED vars
      PROVE  Goal
  BY <1>1, <1>7, Zenon
     DEF Receive, ApplyRefused, Mark, CountDownstream, CommitLost, Forget, Crash,
         vars, durable, history
<1> HIDE DEF Goal
<1>8. Goal
  BY <1>2, <1>3, <1>4, <1>5, <1>6, <1>7, Zenon
  DEF Next, Caller, Scheduler, Dispatcher, Listener
<1> QED BY <1>8 DEF Goal

-----------------------------------------------------------------------------
(* What the steps leave in the outboxes, the topics and the histories *)

\* An event delivered is in the partition of its order; nothing else changes.
LEMMA DeliverSet ==
  ASSUME TypeOK, NEW e \in Event, Deliver(e), NEW k \in Kinds, NEW p \in Partitions
  PROVE  ToSet(queue'[k][p]) =
           IF k = e.kind /\ p = PartitionOf[e.order]
             THEN ToSet(queue[k][p]) \cup {e} ELSE ToSet(queue[k][p])
<1>1. e.kind \in Kinds /\ PartitionOf[e.order] \in Partitions
  BY PipelineAssumption DEF Event
<1>2. queue[k][p] \in Events
  BY DEF TypeOK
<1>3. queue'[k][p] = IF k = e.kind /\ p = PartitionOf[e.order]
                       THEN Append(queue[k][p], e) ELSE queue[k][p]
  BY <1>1 DEF Deliver, TypeOK
<1>4. ToSet(Append(queue[k][p], e)) = ToSet(queue[k][p]) \cup {e}
  BY <1>2, EventAppended
<1> QED BY <1>3, <1>4

\* A commit takes the record in hand from its partition, and nothing else.
LEMMA CommitSet ==
  ASSUME IInv, NEW j \in Kinds, NEW o \in Orders, Commits(j, o),
         NEW k \in Kinds, NEW p \in Partitions
  PROVE  ToSet(queue[k][p]) =
           IF k = j /\ p = PartitionOf[o]
             THEN ToSet(queue'[k][p]) \cup {Current(j)} ELSE ToSet(queue'[k][p])
<1>1. PartitionOf[o] \in Partitions /\ queue[j][PartitionOf[o]] # <<>>
  BY CurrentTypes DEF Commits, IInv
<1>2. queue'[k][p] = IF k = j /\ p = PartitionOf[o]
                       THEN Tail(queue[k][p]) ELSE queue[k][p]
  BY <1>1 DEF Commits, IInv, TypeOK
<1>3. queue[j][PartitionOf[o]] \in Events
  BY <1>1 DEF IInv, TypeOK
<1>4. Current(j) = Head(queue[j][PartitionOf[o]])
  BY DEF Commits, Current, Record
<1> QED BY <1>1, <1>2, <1>3, <1>4, HeadGone

\* Applying adds the id of the record in hand to the history.
LEMMA ApplyAdds ==
  ASSUME IInv, NEW k \in Kinds, NEW o \in Orders, Applies(k, o)
  PROVE  ToSet(applied'[o]) = ToSet(applied[o]) \cup {Id(Current(k))}
<1>1. Id(Current(k)) \in EventId
  BY CurrentTypes, EventTypes DEF Applies, IInv, Id, EventId, Event
<1>2. applied[o] \in Receipts /\ applied'[o] = Append(applied[o], Id(Current(k)))
  BY DEF Applies, IInv, TypeOK
<1> QED BY <1>1, <1>2, IdAppended

\* What is written for an order and applied to it stays so.
LEMMA HistoryGrows ==
  ASSUME IInv, [Next]_vars, NEW o \in Orders
  PROVE  /\ \A n \in DOMAIN issued[o] : n \in DOMAIN issued'[o] /\ issued'[o][n] = issued[o][n]
         /\ ToSet(applied[o]) \subseteq ToSet(applied'[o])
<1> DEFINE Grows ==
             /\ \A n \in DOMAIN issued[o] :
                  n \in DOMAIN issued'[o] /\ issued'[o][n] = issued[o][n]
             /\ ToSet(applied[o]) \subseteq ToSet(applied'[o])
<1>1. ASSUME issued'[o] = issued[o], applied'[o] = applied[o]
      PROVE  Grows
  BY <1>1
<1>2. ASSUME NEW i \in Orders, Announces(i), i = o
      PROVE  Grows
  <2>1. PICK s \in Status : issued'[o] = Append(issued[o], s)
    BY <1>2 DEF Announces
  <2>2. issued[o] \in Seq(Status)
    BY DEF IInv, TypeOK
  <2>3. \A n \in DOMAIN issued[o] : n \in DOMAIN issued'[o] /\ issued'[o][n] = issued[o][n]
    BY <2>1, <2>2
  <2>4. applied'[o] = applied[o]
    BY <1>2 DEF Announces
  <2> QED BY <2>3, <2>4
<1>3. ASSUME NEW k \in Kinds, NEW i \in Orders, Applies(k, i), i = o
      PROVE  Grows
  BY <1>3, ApplyAdds DEF Applies
<1>4. ASSUME NEW i \in Orders, i # o, OthersKept(i)
      PROVE  Grows
  BY <1>1, <1>4 DEF OthersKept
<1>5. CASE Still
  BY <1>1, <1>5 DEF Still
<1>6. ASSUME NEW i \in Orders, Moves(i)
      PROVE  Grows
  <2>1. CASE i # o
    <3>1. OthersKept(i) \/ UNCHANGED <<issued, applied>>
      BY <1>6, Zenon DEF Moves, Announces, Removes, Sends, Applies, Commits
    <3> QED BY <1>1, <1>4, <2>1, <3>1
  <2>2. CASE i = o
    <3>1. \/ Announces(i) \/ \E k \in Kinds : Applies(k, i)
          \/ issued'[o] = issued[o] /\ applied'[o] = applied[o]
      BY <1>6, <2>2 DEF Moves, Removes, Sends, Commits
    <3> QED BY <1>1, <1>2, <1>3, <2>2, <3>1
  <2> QED BY <2>1, <2>2
<1>7. Still \/ \E i \in Orders : Moves(i)
  BY EventStep
<1> QED BY <1>5, <1>6, <1>7, Zenon

-----------------------------------------------------------------------------
(* The cause of an event *)

\* An id stands for a written status change; one of the business topic for an
\* applied completion.
Grounded(o, id) ==
  /\ id[2] \in DOMAIN issued[o]
  /\ id[1] = "business" => /\ issued[o][id[2]] = "COMPLETED"
                           /\ <<"status", id[2]>> \in ToSet(applied[o])

\* A status event tells the status that was written.
Caused(e) ==
  /\ Grounded(e.order, Id(e))
  /\ e.kind = "status" => e.status = issued[e.order][e.n]

StagedCaused == \A o \in Orders : \A e \in ToSet(db[o].pending) : e.order = o /\ Caused(e)
SentCaused == \A k \in Kinds, p \in Partitions : \A e \in ToSet(queue[k][p]) : Caused(e)
AppliedCaused == \A o \in Orders : \A id \in ToSet(applied[o]) : Grounded(o, id)

CauseInv == StagedCaused /\ SentCaused /\ AppliedCaused

\* Members of the lists are events and ids.
LEMMA MemberTypes ==
  ASSUME TypeOK
  PROVE  /\ \A o \in Orders : /\ db[o].pending \in Events
                              /\ \A e \in ToSet(db[o].pending) : e \in Event
                              /\ applied[o] \in Receipts
                              /\ \A id \in ToSet(applied[o]) : id \in EventId
         /\ \A k \in Kinds, p \in Partitions : \A e \in ToSet(queue[k][p]) : e \in Event
<1>1. \A q \in Events : \A e \in ToSet(q) : e \in Event
  BY DEF Events, ToSet
<1>2. \A q \in Receipts : \A id \in ToSet(q) : id \in EventId
  BY DEF Receipts, ToSet
<1> QED BY <1>1, <1>2 DEF TypeOK, Doc

\* A cause stays.
LEMMA CauseStays ==
  ASSUME IInv, [Next]_vars
  PROVE  /\ \A o \in Orders : \A id : Grounded(o, id) => Grounded(o, id)'
         /\ \A e \in Event : Caused(e) => Caused(e)'
<1>1. ASSUME NEW o \in Orders, NEW id, Grounded(o, id)
      PROVE  Grounded(o, id)'
  BY <1>1, HistoryGrows DEF Grounded
<1>2. ASSUME NEW e \in Event, Caused(e)
      PROVE  Caused(e)'
  <2>1. e.order \in Orders /\ Id(e)[2] = e.n
    BY DEF Event, Id
  <2>2. e.n \in DOMAIN issued[e.order]
    BY <1>2, <2>1 DEF Caused, Grounded
  <2>3. issued'[e.order][e.n] = issued[e.order][e.n]
    BY <2>1, <2>2, HistoryGrows
  <2> QED BY <1>1, <1>2, <2>1, <2>3 DEF Caused
<1> QED BY <1>1, <1>2

\* The record in hand has its cause.
LEMMA CurrentCaused ==
  ASSUME IInv, CauseInv, NEW k \in Kinds, pc[k] # "idle"
  PROVE  /\ Current(k) \in Event /\ Current(k).order = at[k]
         /\ Current(k) \in ToSet(queue[k][PartitionOf[at[k]]])
         /\ Caused(Current(k))
<1>1. /\ Current(k) \in Event /\ Current(k).order = at[k]
      /\ PartitionOf[at[k]] \in Partitions /\ queue[k][PartitionOf[at[k]]] # <<>>
  BY CurrentTypes DEF IInv
<1>2. queue[k][PartitionOf[at[k]]] \in Events
  BY <1>1 DEF IInv, TypeOK
<1>3. Current(k) \in ToSet(queue[k][PartitionOf[at[k]]])
  BY <1>1, <1>2, HeadGone DEF Current, Record
<1> QED BY <1>1, <1>3 DEF CauseInv, SentCaused

\* An event that enters an outbox has its cause.
LEMMA StagedStep ==
  ASSUME IInv, CauseInv, [Next]_vars
  PROVE  StagedCaused'
<1> SUFFICES ASSUME NEW o \in Orders, NEW e \in ToSet(db'[o].pending)
             PROVE  e.order = o /\ Caused(e)'
  BY DEF StagedCaused
<1>1. db[o].pending \in Events
  BY MemberTypes DEF IInv
<1>2. ASSUME e \in ToSet(db[o].pending)
      PROVE  e.order = o /\ Caused(e)'
  <2>1. e \in Event /\ e.order = o /\ Caused(e)
    BY <1>2, MemberTypes DEF IInv, CauseInv, StagedCaused
  <2> QED BY <2>1, CauseStays
<1>3. ASSUME db'[o].pending = db[o].pending
      PROVE  e.order = o /\ Caused(e)'
  BY <1>2, <1>3
<1>4. ASSUME Announces(o)
      PROVE  e.order = o /\ Caused(e)'
  <2>1. PICK s \in Status :
          /\ issued'[o] = Append(issued[o], s)
          /\ db'[o].pending = Append(db[o].pending,
               [kind |-> "status", order |-> o, n |-> Len(issued[o]) + 1, status |-> s])
    BY <1>4 DEF Announces
  <2> DEFINE new == [kind |-> "status", order |-> o, n |-> Len(issued[o]) + 1,
                     status |-> s]
  <2>2. /\ issued[o] \in Seq(Status) /\ Len(issued[o]) + 1 \in Nat
        /\ Len(issued[o]) + 1 \in DOMAIN issued'[o]
        /\ issued'[o][Len(issued[o]) + 1] = s
    BY <2>1 DEF IInv, TypeOK
  <2>3. new \in Event
    BY <2>2 DEF Event, Kinds
  <2>4. ToSet(db'[o].pending) = ToSet(db[o].pending) \cup {new}
    BY <1>1, <2>1, <2>3, EventAppended
  <2>5. ASSUME e = new
        PROVE  e.order = o /\ Caused(e)'
    <3>1. e.order = o /\ Id(e) = <<"status", Len(issued[o]) + 1>>
      BY <2>5 DEF Id
    <3>2. e.n = Len(issued[o]) + 1 /\ e.status = s
      BY <2>5
    <3>3. Id(e)[1] # "business" /\ Id(e)[2] = Len(issued[o]) + 1
      BY <3>1
    <3>4. Grounded(o, Id(e))'
      BY <2>2, <3>3 DEF Grounded
    <3> QED BY <2>2, <3>1, <3>2, <3>4 DEF Caused
  <2> HIDE DEF new
  <2> QED BY <1>2, <2>4, <2>5
<1>5. ASSUME Removes(o)
      PROVE  e.order = o /\ Caused(e)'
  <2>1. ToSet(db'[o].pending) \subseteq ToSet(db[o].pending)
    BY <1>1, <1>5, HeadGone DEF Removes
  <2> QED BY <1>2, <2>1
<1>6. ASSUME NEW k \in Kinds, Applies(k, o)
      PROVE  e.order = o /\ Caused(e)'
  <2>1. pc[k] # "idle" /\ at[k] = o
    BY <1>6 DEF Applies
  <2>2. PICK c \in Event : c = Current(k)
    BY <2>1, CurrentCaused
  <2>3. c.order = o /\ Caused(c)
    BY <2>1, <2>2, CurrentCaused
  <2>4. Id(c) \in ToSet(applied'[o])
    BY <1>6, <2>2, ApplyAdds DEF Applies
  <2>5. CASE ~Downstream(c)
    BY <1>3, <1>6, <2>2, <2>5 DEF Applies
  <2>6. CASE Downstream(c)
    <3> DEFINE new == BusinessEvent(c, db[o])
    <3>1. new \in Event
      BY EventTypes DEF IInv, TypeOK
    <3>2. ToSet(db'[o].pending) = ToSet(db[o].pending) \cup {new}
      BY <1>1, <1>6, <2>2, <2>6, <3>1, EventAppended DEF Applies
    <3>3. ASSUME e = new
          PROVE  e.order = o /\ Caused(e)'
      <4>1. e.kind = "business" /\ e.order = o /\ e.n = c.n
        BY <2>3, <3>3 DEF BusinessEvent
      <4>2. c.kind = "status" /\ c.status = "COMPLETED"
        BY <2>6 DEF Downstream
      <4>3. c.n \in DOMAIN issued[o] /\ issued[o][c.n] = "COMPLETED"
        BY <2>3, <4>2 DEF Caused, Grounded, Id
      <4>4. c.n \in DOMAIN issued'[o] /\ issued'[o][c.n] = "COMPLETED"
        BY <4>3, HistoryGrows
      <4>5. Id(c) = <<"status", c.n>>
        BY <4>2 DEF Id
      <4>6. Id(e)[1] = "business" /\ Id(e)[2] = c.n
        BY <4>1 DEF Id
      <4>7. Grounded(o, Id(e))'
        BY <2>4, <4>4, <4>5, <4>6 DEF Grounded
      <4> QED BY <4>1, <4>7 DEF Caused
    <3> HIDE DEF new
    <3> QED BY <1>2, <3>2, <3>3
  <2> QED BY <2>5, <2>6
<1>7. Still \/ \E i \in Orders : Moves(i)
  BY EventStep
<1>8. ASSUME NEW i \in Orders, Moves(i)
      PROVE  e.order = o /\ Caused(e)'
  <2>1. CASE i # o
    <3>1. db'[o].pending = db[o].pending
      BY <1>8, <2>1, Zenon
      DEF Moves, Announces, Removes, Sends, Applies, Commits, OthersKept
    <3> QED BY <1>3, <3>1
  <2>2. CASE i = o
    <3>1. \/ Announces(o) \/ Removes(o) \/ \E k \in Kinds : Applies(k, o)
          \/ db'[o].pending = db[o].pending
      BY <1>8, <2>2 DEF Moves, Sends, Commits
    <3> QED BY <1>3, <1>4, <1>5, <1>6, <3>1
  <2> QED BY <2>1, <2>2
<1> QED BY <1>3, <1>7, <1>8 DEF Still

\* An event that is sent was staged.
LEMMA SentStep ==
  ASSUME IInv, CauseInv, [Next]_vars
  PROVE  SentCaused'
<1> SUFFICES ASSUME NEW k \in Kinds, NEW p \in Partitions, NEW e \in ToSet(queue'[k][p])
             PROVE  Caused(e)'
  BY DEF SentCaused
<1>1. ASSUME e \in ToSet(queue[k][p])
      PROVE  Caused(e)'
  <2>1. e \in Event /\ Caused(e)
    BY <1>1, MemberTypes DEF IInv, CauseInv, SentCaused
  <2> QED BY <2>1, CauseStays
<1>2. ASSUME UNCHANGED queue
      PROVE  Caused(e)'
  BY <1>1, <1>2
<1>3. ASSUME NEW o \in Orders, Sends(o)
      PROVE  Caused(e)'
  <2>1. PICK h \in Event : h = Head(db[o].pending) /\ h \in ToSet(db[o].pending)
    BY <1>3, HeadGone, MemberTypes DEF Sends, IInv
  <2>2. Caused(h) /\ Deliver(h)
    BY <1>3, <2>1 DEF Sends, CauseInv, StagedCaused
  <2>3. Caused(h)'
    BY <2>2, CauseStays
  <2>4. e \in ToSet(queue[k][p]) \/ e = h
    BY <2>2, DeliverSet DEF IInv
  <2> QED BY <1>1, <2>3, <2>4
<1>4. ASSUME NEW j \in Kinds, NEW o \in Orders, Commits(j, o)
      PROVE  Caused(e)'
  <2>1. e \in ToSet(queue[k][p])
    BY <1>4, CommitSet
  <2> QED BY <1>1, <2>1
<1>5. Still \/ \E i \in Orders : Moves(i)
  BY EventStep
<1>6. \/ UNCHANGED queue
      \/ \E o \in Orders : Sends(o) \/ \E j \in Kinds : Commits(j, o)
  BY <1>5, Zenon DEF Still, Moves, Announces, Removes, Applies
<1> QED BY <1>2, <1>3, <1>4, <1>6

\* An event that is applied was sent.
LEMMA AppliedStep ==
  ASSUME IInv, CauseInv, [Next]_vars
  PROVE  AppliedCaused'
<1> SUFFICES ASSUME NEW o \in Orders, NEW id \in ToSet(applied'[o])
             PROVE  Grounded(o, id)'
  BY DEF AppliedCaused
<1>1. ASSUME id \in ToSet(applied[o])
      PROVE  Grounded(o, id)'
  BY <1>1, CauseStays DEF CauseInv, AppliedCaused
<1>2. ASSUME NEW k \in Kinds, Applies(k, o)
      PROVE  Grounded(o, id)'
  <2>1. pc[k] # "idle" /\ at[k] = o
    BY <1>2 DEF Applies
  <2>2. PICK c \in Event : c = Current(k)
    BY <2>1, CurrentCaused
  <2>3. Grounded(o, Id(c))
    BY <2>1, <2>2, CurrentCaused DEF Caused
  <2>4. id \in ToSet(applied[o]) \/ id = Id(c)
    BY <1>2, <2>2, ApplyAdds
  <2> QED BY <1>1, <2>3, <2>4, CauseStays
<1>3. Still \/ \E i \in Orders : Moves(i)
  BY EventStep
<1>4. applied'[o] = applied[o] \/ \E k \in Kinds : Applies(k, o)
  BY <1>3, Zenon DEF Still, Moves, Announces, Removes, Sends, Applies, Commits, OthersKept
<1> QED BY <1>1, <1>2, <1>4

\* Every event has its cause, at any time.
LEMMA CauseInvariance == Spec => [](IInv /\ WindowInv /\ CauseInv)
<1>1. Init => CauseInv
  <2> SUFFICES ASSUME Init PROVE CauseInv
    OBVIOUS
  <2>1. ToSet(<<>>) = {}
    BY DEF ToSet
  <2>2. /\ \A o \in Orders : db[o].pending = <<>> /\ applied[o] = <<>>
        /\ \A k \in Kinds, p \in Partitions : queue[k][p] = <<>>
    BY DEF Init, NewOrder
  <2> QED BY <2>1, <2>2 DEF CauseInv, StagedCaused, SentCaused, AppliedCaused
<1>2. IInv /\ CauseInv /\ [Next]_vars => CauseInv'
  BY StagedStep, SentStep, AppliedStep DEF CauseInv
<1> QED BY <1>1, <1>2, WindowInvariance, PTL DEF Spec

\* No event is staged, sent or applied without the status change or the applied
\* completion it stands for, whatever is sent twice, redelivered or lost.
THEOREM NoEventInvented == Spec => []NothingInvented
<1>1. IInv /\ CauseInv => NothingInvented
  <2> SUFFICES ASSUME IInv, CauseInv, NEW o \in Orders
               PROVE  /\ \A e \in Waiting(o) : e.order = o /\ Caused(e)
                      /\ \A id \in Known(o) : Grounded(o, id)
    BY DEF NothingInvented, Caused, Grounded, Id
  <2>1. PartitionOf[o] \in Partitions
    BY PipelineAssumption
  <2>2. \A e \in Waiting(o) : e.order = o /\ Caused(e)
    BY <2>1 DEF Waiting, Queued, CauseInv, StagedCaused, SentCaused
  <2>3. \A id \in Known(o) : Grounded(o, id)
    BY <2>2 DEF Known, CauseInv, AppliedCaused, Caused
  <2> QED BY <2>2, <2>3
<1> QED BY <1>1, CauseInvariance, PTL

-----------------------------------------------------------------------------
(* Nothing leaves before it has arrived *)

\* The cache only knows events that were applied.
CacheInv == \A o \in Orders : \A id : <<o, id>> \in cache => id \in ToSet(applied[o])

\* A listener is done with its record only if the record is applied.
AckInv(k) ==
  pc[k] \in {"marking", "chaining", "acking"} => Id(Current(k)) \in ToSet(applied[at[k]])

\* The ids of the events of an order that have left its outbox for good.
SentIds(o) == {Id(e) : e \in Queued(o)} \cup ToSet(applied[o])

\* The dispatcher removes a head only if it has been sent.
HeadSent ==
  pc["dispatch"] \in {"resending", "removing"} =>
    Id(Head(copy["dispatch"].pending)) \in SentIds(at["dispatch"])

ArrivedInv == CacheInv /\ (\A k \in Kinds : AckInv(k)) /\ HeadSent

\* What was sent stays in its topic until it is applied.
LEMMA SentGrows ==
  ASSUME IInv, CauseInv, ArrivedInv, [Next]_vars, NEW o \in Orders, NEW id \in SentIds(o)
  PROVE  id \in SentIds(o)'
<1>1. CASE id \in ToSet(applied[o])
  BY <1>1, HistoryGrows DEF SentIds
<1>2. CASE id \notin ToSet(applied[o])
  <2> DEFINE p == PartitionOf[o]
  <2>1. p \in Partitions
    BY PipelineAssumption
  <2> HIDE DEF p
  <2>2. PICK k \in Kinds : \E e \in ToSet(queue[k][p]) : e.order = o /\ Id(e) = id
    BY <1>2 DEF SentIds, Queued, p
  <2>3. PICK e \in ToSet(queue[k][p]) : e.order = o /\ Id(e) = id
    BY <2>2
  <2>4. ASSUME e \in ToSet(queue'[k][p])
        PROVE  id \in SentIds(o)'
    BY <2>3, <2>4 DEF SentIds, Queued, p
  <2>5. ASSUME NEW i \in Orders, Sends(i)
        PROVE  e \in ToSet(queue'[k][p])
    <3>1. PICK h \in Event : h = Head(db[i].pending)
      BY <2>5, HeadGone, MemberTypes DEF Sends, IInv
    <3> QED BY <2>1, <2>5, <3>1, DeliverSet DEF Sends, IInv
  <2>6. ASSUME NEW j \in Kinds, NEW i \in Orders, Commits(j, i), e \notin ToSet(queue'[k][p])
        PROVE  FALSE
    <3> DEFINE left == ToSet(queue'[k][p])
    <3>0. ToSet(queue[k][p]) = IF k = j /\ p = PartitionOf[i]
                                 THEN left \cup {Current(j)} ELSE left
      BY <2>1, <2>6, CommitSet
    <3>1. k = j /\ e = Current(j)
      <4>1. e \notin left
        BY <2>6
      <4> HIDE DEF left
      <4> QED BY <3>0, <4>1
    <3>2. pc[j] = "acking" /\ at[j] = i
      BY <2>6 DEF Commits
    <3>3. Current(j).order = i
      BY <3>2, CurrentCaused
    <3>4. i = o
      BY <2>3, <3>1, <3>3
    <3>5. Id(Current(j)) \in ToSet(applied[o])
      BY <3>2, <3>4 DEF ArrivedInv, AckInv
    <3> QED BY <1>2, <2>3, <3>1, <3>5
  <2>7. Still \/ \E i \in Orders : Moves(i)
    BY EventStep
  <2>8. \/ UNCHANGED queue
        \/ \E i \in Orders : Sends(i) \/ \E j \in Kinds : Commits(j, i)
    BY <2>7, Zenon DEF Still, Moves, Announces, Removes, Applies
  <2>9. e \in ToSet(queue'[k][p])
    BY <2>5, <2>6, <2>8
  <2> QED BY <2>4, <2>9
<1> QED BY <1>1, <1>2

\* Known, outbox and the rest.
LEMMA KnownParts ==
  \A o \in Orders : Known(o) = {Id(e) : e \in ToSet(db[o].pending)} \cup SentIds(o)
  BY DEF Known, Waiting, SentIds

\* So it is in the next state.
LEMMA KnownPartsNext ==
  \A o \in Orders : Known(o)' = {Id(e) : e \in ToSet(db'[o].pending)} \cup SentIds(o)'
  BY DEF Known, Waiting, SentIds

\* What was staged stays in its outbox until it is sent.
LEMMA KnownGrows ==
  ASSUME IInv, CauseInv, ArrivedInv, [Next]_vars, NEW o \in Orders, NEW id \in Known(o)
  PROVE  id \in Known(o)'
<1>1. CASE id \in SentIds(o)
  BY <1>1, SentGrows, KnownPartsNext
<1>2. CASE id \notin SentIds(o)
  <2>1. PICK e \in ToSet(db[o].pending) : Id(e) = id
    BY <1>2, KnownParts
  <2>2. ASSUME e \in ToSet(db'[o].pending)
        PROVE  id \in Known(o)'
    BY <2>1, <2>2, KnownPartsNext
  <2>3. ASSUME e \notin ToSet(db'[o].pending), Removes(o)
        PROVE  FALSE
    <3>1. e = Head(db[o].pending)
      BY <2>3, HeadGone, MemberTypes DEF Removes, IInv
    <3>2. Id(e) \in SentIds(o)
      BY <2>3, <3>1 DEF Removes, ArrivedInv, HeadSent
    <3> QED BY <1>2, <2>1, <3>2
  <2>4. ASSUME NEW f \in Event, db'[o].pending = Append(db[o].pending, f)
        PROVE  e \in ToSet(db'[o].pending)
    BY <2>4, EventAppended, MemberTypes DEF IInv
  <2>5. ASSUME Announces(o)
        PROVE  e \in ToSet(db'[o].pending)
    <3>1. PICK s \in Status :
            db'[o].pending = Append(db[o].pending,
              [kind |-> "status", order |-> o, n |-> Len(issued[o]) + 1, status |-> s])
      BY <2>5 DEF Announces
    <3>2. issued[o] \in Seq(Status)
      BY DEF IInv, TypeOK
    <3>3. Len(issued[o]) + 1 \in Nat
      BY <3>2
    <3>4. [kind |-> "status", order |-> o, n |-> Len(issued[o]) + 1, status |-> s] \in Event
      BY <3>3 DEF Event, Kinds
    <3> QED BY <2>4, <3>1, <3>4
  <2>6. ASSUME NEW k \in Kinds, Applies(k, o)
        PROVE  e \in ToSet(db'[o].pending)
    <3>1. Current(k) \in Event
      BY <2>6, CurrentTypes DEF Applies, IInv
    <3>2. BusinessEvent(Current(k), db[o]) \in Event
      BY <3>1, EventTypes DEF IInv, TypeOK
    <3> QED BY <2>4, <2>6, <3>2 DEF Applies
  <2>7. Still \/ \E i \in Orders : Moves(i)
    BY EventStep
  <2>8. \/ db'[o].pending = db[o].pending
        \/ Announces(o) \/ Removes(o) \/ \E k \in Kinds : Applies(k, o)
    <3>1. ASSUME NEW i \in Orders, Moves(i), i # o
          PROVE  db'[o].pending = db[o].pending
      BY <3>1, Zenon DEF Moves, Announces, Removes, Sends, Applies, Commits, OthersKept
    <3>2. Moves(o) => \/ db'[o].pending = db[o].pending
                      \/ Announces(o) \/ Removes(o) \/ \E k \in Kinds : Applies(k, o)
      BY Zenon DEF Moves, Sends, Commits
    <3> QED BY <2>7, <3>1, <3>2, Zenon DEF Still
  <2>9. ASSUME db'[o].pending = db[o].pending
        PROVE  e \in ToSet(db'[o].pending)
    BY <2>9
  <2>10. e \in ToSet(db'[o].pending) \/ Removes(o)
    BY <2>5, <2>6, <2>8, <2>9, Zenon
  <2> QED BY <2>2, <2>3, <2>10, Zenon
<1> QED BY <1>1, <1>2

\* Every step that writes or applies also stages what must follow.
LEMMA LostStep ==
  ASSUME IInv, CauseInv, ArrivedInv, NothingLost, [Next]_vars
  PROVE  NothingLost'
<1> SUFFICES ASSUME NEW o \in Orders, NEW n \in DOMAIN issued'[o]
             PROVE  /\ <<"status", n>> \in Known(o)'
                    /\ <<"status", n>> \in ToSet(applied'[o]) /\ issued'[o][n] = "COMPLETED"
                         => <<"business", n>> \in Known(o)'
  BY DEF NothingLost
<1>1. Still \/ \E i \in Orders : Moves(i)
  BY EventStep
<1>2. ASSUME NEW e \in ToSet(db'[o].pending)
      PROVE  Id(e) \in Known(o)'
  BY KnownPartsNext
<1>3. <<"status", n>> \in Known(o)'
  <2>1. CASE n \in DOMAIN issued[o]
    BY <2>1, KnownGrows DEF NothingLost
  <2>2. CASE n \notin DOMAIN issued[o]
    <3>1. Announces(o)
      BY <1>1, <2>2, Zenon
      DEF Still, Moves, Announces, Removes, Sends, Applies, Commits, OthersKept
    <3>2. PICK s \in Status :
            /\ issued'[o] = Append(issued[o], s)
            /\ db'[o].pending = Append(db[o].pending,
                 [kind |-> "status", order |-> o, n |-> Len(issued[o]) + 1, status |-> s])
      BY <3>1 DEF Announces
    <3> DEFINE new == [kind |-> "status", order |-> o, n |-> Len(issued[o]) + 1,
                       status |-> s]
    <3>3. issued[o] \in Seq(Status) /\ db[o].pending \in Events
      BY MemberTypes DEF IInv, TypeOK
    <3>4. Len(issued[o]) + 1 \in Nat /\ n = Len(issued[o]) + 1
      BY <2>2, <3>2, <3>3
    <3>5. new \in Event /\ Id(new) = <<"status", n>>
      BY <3>4 DEF Event, Kinds, Id
    <3> HIDE DEF new
    <3>6. new \in ToSet(db'[o].pending)
      BY <3>2, <3>3, <3>5, EventAppended DEF new
    <3> QED BY <1>2, <3>5, <3>6
  <2> QED BY <2>1, <2>2
<1>4. ASSUME <<"status", n>> \in ToSet(applied'[o]), issued'[o][n] = "COMPLETED"
      PROVE  <<"business", n>> \in Known(o)'
  <2>1. CASE <<"status", n>> \in ToSet(applied[o])
    <3>1. n \in DOMAIN issued[o]
      BY <2>1 DEF CauseInv, AppliedCaused, Grounded
    <3>2. issued[o][n] = "COMPLETED"
      BY <1>4, <3>1, HistoryGrows
    <3>3. <<"business", n>> \in Known(o)
      BY <2>1, <3>1, <3>2 DEF NothingLost
    <3> QED BY <3>3, KnownGrows
  <2>2. CASE <<"status", n>> \notin ToSet(applied[o])
    <3>1. PICK k \in Kinds : Applies(k, o)
      BY <1>1, <1>4, <2>2, Zenon
      DEF Still, Moves, Announces, Removes, Sends, Applies, Commits, OthersKept
    <3>2. pc[k] # "idle" /\ at[k] = o /\ issued'[o] = issued[o]
      BY <3>1 DEF Applies
    <3> DEFINE c == Current(k)
               new == BusinessEvent(c, db[o])
    <3>3. c \in Event /\ c.order = o /\ Caused(c)
      BY <3>2, CurrentCaused
    <3>4. Id(c) = <<"status", n>>
      BY <1>4, <2>2, <3>1, ApplyAdds
    <3>5. db'[o].pending = IF Downstream(c) THEN Append(db[o].pending, new)
                                            ELSE db[o].pending
      BY <3>1 DEF Applies
    <3> HIDE DEF c
    <3>6. c.kind = "status" /\ c.n = n
      BY <3>4 DEF Id
    <3>7. Downstream(c)
      BY <1>4, <3>2, <3>3, <3>6 DEF Downstream, Caused
    <3>8. new \in Event /\ db[o].pending \in Events /\ Id(new) = <<"business", n>>
      BY <3>3, <3>6, EventTypes, MemberTypes DEF IInv, TypeOK, BusinessEvent, Id
    <3> HIDE DEF new
    <3>9. new \in ToSet(db'[o].pending)
      BY <3>5, <3>7, <3>8, EventAppended
    <3> QED BY <1>2, <3>8, <3>9
  <2> QED BY <2>1, <2>2
<1> QED BY <1>3, <1>4

\* A record that is in the cache or has a receipt is in the history.
LEMMA ProcessedApplied ==
  ASSUME IInv, WindowInv, ArrivedInv, NEW e \in Event, AlreadyProcessed(e)
  PROVE  Id(e) \in ToSet(applied[e.order])
<1>1. e.order \in Orders /\ EventIds \in Nat
  BY BoundsAssumption DEF Event
<1>2. CASE <<e.order, Id(e)>> \in cache
  BY <1>1, <1>2 DEF ArrivedInv, CacheInv
<1>3. CASE Contains(db[e.order].receipts, Id(e))
  <2>1. applied[e.order] \in Receipts
    BY <1>1 DEF IInv, TypeOK
  <2>2. db[e.order].receipts = KeepLast(applied[e.order], EventIds)
    BY <1>1 DEF WindowInv, Windowed
  <2> QED BY <1>1, <1>3, <2>1, <2>2, ReceiptInHistory
<1> QED BY <1>2, <1>3 DEF AlreadyProcessed

\* A step of one thread that moves no other listener's record.
LEMMA AckFrame ==
  ASSUME IInv, ArrivedInv, [Next]_vars, NEW t, OnlyMoves(t),
         t \in Kinds => AckInv(t)',
         \A k \in Kinds : pc[k] # "idle" /\ k # t =>
           Head(queue'[k][PartitionOf[at[k]]]) = Head(queue[k][PartitionOf[at[k]]])
  PROVE  \A k \in Kinds : AckInv(k)'
<1> SUFFICES ASSUME NEW k \in Kinds, k # t, pc'[k] \in {"marking", "chaining", "acking"}
             PROVE  Id(Head(queue'[k][PartitionOf[at'[k]]])) \in ToSet(applied'[at'[k]])
  BY DEF AckInv, Current, Record
<1>1. pc'[k] = pc[k] /\ at'[k] = at[k]
  BY ThreadKinds DEF OnlyMoves
<1>2. at[k] \in Orders
  BY <1>1, CurrentTypes DEF IInv
<1>3. Id(Head(queue[k][PartitionOf[at[k]]])) \in ToSet(applied[at[k]])
  BY <1>1 DEF ArrivedInv, AckInv, Current, Record
<1>4. Head(queue'[k][PartitionOf[at[k]]]) = Head(queue[k][PartitionOf[at[k]]])
  BY <1>1
<1> QED BY <1>1, <1>2, <1>3, <1>4, HistoryGrows

\* A step of one thread that leaves the topics alone.
LEMMA AckQuiet ==
  ASSUME IInv, ArrivedInv, [Next]_vars, NEW t, OnlyMoves(t), UNCHANGED queue,
         t \in Kinds => AckInv(t)'
  PROVE  \A k \in Kinds : AckInv(k)'
  BY AckFrame

\* A listener that goes on with an applied record.
LEMMA AckOn ==
  ASSUME IInv, [Next]_vars, NEW k \in Kinds, pc[k] # "idle", at'[k] = at[k],
         UNCHANGED queue, Id(Current(k)) \in ToSet(applied'[at[k]])
  PROVE  AckInv(k)'
  BY DEF AckInv, Current, Record

\* Every step keeps the records of the listeners applied.
LEMMA AckStep ==
  ASSUME IInv, WindowInv, CauseInv, ArrivedInv, [Next]_vars
  PROVE  \A k \in Kinds : AckInv(k)'
<1> DEFINE Goal == \A k \in Kinds : AckInv(k)
<1> SUFFICES Goal'
  OBVIOUS
<1> USE ThreadKinds DEF IInv
<1>0. ASSUME NEW t, t \notin Kinds, OnlyMoves(t), UNCHANGED queue
      PROVE  Goal'
  BY <1>0, AckQuiet
<1>1. ASSUME UNCHANGED <<threads, queue>>
      PROVE  Goal'
  <2>1. OnlyMoves("dispatch")
    BY <1>1 DEF OnlyMoves, threads
  <2> QED BY <1>0, <1>1, <2>1
<1>2. ASSUME NEW t \in Http, NEW o \in Orders, HttpBegin(t, o)
      PROVE  Goal'
  <2>1. t \notin Kinds
    BY PipelineAssumption
  <2> QED BY <1>0, <1>2, <2>1, Frames DEF HttpBegin, durable
<1>3. ASSUME NEW s \in Schedulers, NEW o \in Orders, TakeCandidate(s, o)
      PROVE  Goal'
  <2>1. CASE StillDue(s, db[o])
    <3>1. OnlyMoves(s) /\ queue' = queue /\ s \notin Kinds
      BY <1>3, <2>1, Frames DEF TakeCandidate, durable, Schedulers, Kinds
    <3> QED BY <1>0, <3>1
  <2>2. CASE ~StillDue(s, db[o])
    BY <1>1, <1>3, <2>2 DEF TakeCandidate, durable
  <2> QED BY <2>1, <2>2
<1>4. ASSUME NEW t \in Callers,
             \/ \E outcome \in Outcomes(t), result \in Results :
                  SaveStatusChange(t, outcome, result)
             \/ CountEnqueued(t) \/ CallFails(t) \/ StageRefused(t)
      PROVE  Goal'
  <2>1. OnlyMoves(t) /\ queue' = queue
    BY <1>4, Frames
    DEF SaveStatusChange, CountEnqueued, CallFails, StageRefused, durable
  <2> QED BY <1>0, <2>1
<1>5. ASSUME NEW result \in Results, Send(result)
      PROVE  Goal'
  <2> DEFINE event == Head(copy["dispatch"].pending)
  <2>1. copy["dispatch"].pending \in Events /\ copy["dispatch"].pending # <<>>
    BY <1>5 DEF Send, WorkInHand, TypeOK, Doc
  <2>2. event \in Event
    BY <2>1 DEF Events
  <2>3. Deliver(event) \/ UNCHANGED queue
    BY <1>5 DEF Send
  <2>4. OnlyMoves("dispatch")
    <3>1. \/ Goto("dispatch", "resending") \/ Goto("dispatch", "removing")
          \/ Finish("dispatch")
      BY <1>5, Zenon DEF Send
    <3> QED BY <3>1, Frames
  <2> HIDE DEF event
  <2>5. ASSUME Deliver(event), NEW k \in Kinds, pc[k] # "idle"
        PROVE  Head(queue'[k][PartitionOf[at[k]]]) = Head(queue[k][PartitionOf[at[k]]])
    <3>1. PartitionOf[at[k]] \in Partitions /\ queue[k][PartitionOf[at[k]]] # <<>>
      BY <2>5, CurrentTypes
    <3> QED BY <2>2, <2>5, <3>1, DeliverWork
  <2> QED BY <2>3, <2>4, <2>5, AckFrame
<1>6. ASSUME NEW result \in Results, RemoveHead(result)
      PROVE  Goal'
  <2>1. OnlyMoves("dispatch")
    <3>1. CASE result = "ok"
      BY <1>6, <3>1 DEF RemoveHead, OnlyMoves, TypeOK
    <3>2. CASE result # "ok"
      BY <1>6, <3>2, Frames DEF RemoveHead
    <3> QED BY <3>1, <3>2
  <2> QED BY <1>0, <1>6, <2>1 DEF RemoveHead
<1>7. ASSUME CountPublished
      PROVE  Goal'
  BY <1>0, <1>7, Frames DEF CountPublished, durable
<1>8. ASSUME NEW k \in Kinds, NEW p \in Partitions, Receive(k, p)
      PROVE  Goal'
  <2> DEFINE e == Record(k, p)
  <2>1. queue' = queue /\ applied' = applied /\ queue[k][p] # <<>>
    BY <1>8 DEF Receive, durable, history
  <2>2. e \in Event /\ PartitionOf[e.order] = p
    BY <2>1, RecordTypes DEF WorkInHand
  <2>3. CASE AlreadyProcessed(e)
    <3>1. OnlyMoves(k) /\ at'[k] = e.order
      BY <1>8, <2>3 DEF Receive, OnlyMoves, TypeOK
    <3>2. Id(e) \in ToSet(applied[e.order])
      BY <2>2, <2>3, ProcessedApplied
    <3>3. AckInv(k)'
      BY <2>1, <2>2, <3>1, <3>2 DEF AckInv, Current, Record
    <3> QED BY <2>1, <3>1, <3>3, AckQuiet
  <2>4. CASE ~AlreadyProcessed(e)
    <3>1. OnlyMoves(k) /\ pc'[k] = "applying"
      BY <1>8, <2>4, Frames DEF Receive
    <3>2. AckInv(k)'
      BY <3>1 DEF AckInv
    <3> QED BY <2>1, <3>1, <3>2, AckQuiet
  <2> QED BY <2>3, <2>4
<1>9. ASSUME NEW k \in Kinds, NEW result \in Results, Apply(k, result)
      PROVE  Goal'
  <2>1. queue' = queue /\ pc[k] = "applying"
    BY <1>9 DEF Apply
  <2>2. CASE result = "ok"
    <3>1. OnlyMoves(k) /\ at'[k] = at[k]
      BY <1>9, <2>2, Frames DEF Apply
    <3>2. at[k] \in Orders /\ Id(Current(k)) \in EventId
      BY <2>1, CurrentTypes, EventTypes DEF Id, Event, EventId
    <3>3. applied[at[k]] \in Receipts
      BY <3>2 DEF TypeOK
    <3>4. applied'[at[k]] = Append(applied[at[k]], Id(Current(k)))
      BY <1>9, <2>2, <3>2 DEF Apply, Effective, TypeOK
    <3>5. Id(Current(k)) \in ToSet(applied'[at[k]])
      BY <3>2, <3>3, <3>4, IdAppended
    <3>6. AckInv(k)'
      BY <2>1, <3>1, <3>5, AckOn
    <3> QED BY <2>1, <3>1, <3>6, AckQuiet
  <2>3. CASE result # "ok"
    <3>1. OnlyMoves(k) /\ pc'[k] = "idle"
      BY <1>9, <2>3, Frames DEF Apply
    <3>2. AckInv(k)'
      BY <3>1 DEF AckInv
    <3> QED BY <2>1, <3>1, <3>2, AckQuiet
  <2> QED BY <2>2, <2>3
<1>10. ASSUME NEW k \in Kinds, Mark(k) \/ CountDownstream(k)
       PROVE  Goal'
  <2>1. /\ Goto(k, "chaining") \/ Leave(k)
        /\ pc[k] \in {"marking", "chaining"} /\ queue' = queue /\ applied' = applied
    BY <1>10 DEF Mark, CountDownstream, durable, history
  <2>2. OnlyMoves(k) /\ at'[k] = at[k]
    BY <2>1, Frames
  <2>3. Id(Current(k)) \in ToSet(applied'[at[k]])
    BY <2>1 DEF ArrivedInv, AckInv
  <2>4. AckInv(k)'
    BY <2>1, <2>2, <2>3, AckOn
  <2> QED BY <2>1, <2>2, <2>4, AckQuiet
<1>11. ASSUME NEW k \in Kinds, ApplyRefused(k) \/ CommitLost(k)
       PROVE  Goal'
  <2>1. OnlyMoves(k) /\ pc'[k] = "idle" /\ queue' = queue
    BY <1>11, Frames DEF ApplyRefused, CommitLost, durable
  <2>2. AckInv(k)'
    BY <2>1 DEF AckInv
  <2> QED BY <2>1, <2>2, AckQuiet
<1>12. ASSUME NEW k \in Kinds, Commit(k)
       PROVE  Goal'
  <2>1. OnlyMoves(k) /\ pc'[k] = "idle"
    BY <1>12, Frames DEF Commit
  <2>2. \A j \in Kinds : j # k => queue'[j] = queue[j]
    BY <1>12 DEF Commit, TypeOK
  <2>3. AckInv(k)'
    BY <2>1 DEF AckInv
  <2> QED BY <2>1, <2>2, <2>3, AckFrame
<1>13. ASSUME Crash
       PROVE  Goal'
  BY <1>13 DEF Crash, AckInv
<1>14. ASSUME \/ \E s \in Schedulers : Query(s)
              \/ \E id \in cache : Forget(id)
              \/ UNCHANGED vars
       PROVE  Goal'
  BY <1>1, <1>14 DEF Query, Forget, durable, vars
<1> HIDE DEF Goal
<1> QED
  BY <1>2, <1>3, <1>4, <1>5, <1>6, <1>7, <1>8, <1>9, <1>10, <1>11, <1>12, <1>13,
     <1>14, Zenon
  DEF Next, Caller, Scheduler, Dispatcher, Listener

\* Every step keeps the cache within the histories.
LEMMA CacheStep ==
  ASSUME IInv, CauseInv, ArrivedInv, [Next]_vars
  PROVE  CacheInv'
<1> SUFFICES ASSUME NEW o \in Orders, NEW id, <<o, id>> \in cache'
             PROVE  id \in ToSet(applied'[o])
  BY DEF CacheInv
<1>1. ASSUME <<o, id>> \in cache
      PROVE  id \in ToSet(applied'[o])
  BY <1>1, HistoryGrows DEF ArrivedInv, CacheInv
<1>2. ASSUME NEW k \in Kinds, Mark(k)
      PROVE  id \in ToSet(applied'[o])
  <2>1. applied' = applied /\ pc[k] = "marking"
    BY <1>2 DEF Mark, history
  <2>2. <<o, id>> \in cache \/ (o = at[k] /\ id = Id(Current(k)))
    BY <1>2 DEF Mark
  <2>3. Id(Current(k)) \in ToSet(applied[at[k]])
    BY <2>1 DEF ArrivedInv, AckInv
  <2> QED BY <1>1, <2>1, <2>2, <2>3
<1>3. cache' \subseteq cache \/ \E k \in Kinds : Mark(k)
  <2>1. ASSUME UNCHANGED cache
        PROVE  cache' \subseteq cache
    BY <2>1
  <2>2. ASSUME \/ \E t \in Http, o_1 \in Orders : HttpBegin(t, o_1)
               \/ \E s \in Schedulers : Query(s) \/ \E o_1 \in Orders : TakeCandidate(s, o_1)
               \/ \E t \in Callers :
                    \/ \E outcome \in Outcomes(t), result \in Results :
                         SaveStatusChange(t, outcome, result)
                    \/ CountEnqueued(t) \/ CallFails(t) \/ StageRefused(t)
               \/ \E result \in Results : Send(result) \/ RemoveHead(result)
               \/ CountPublished
        PROVE  cache' \subseteq cache
    BY <2>1, <2>2, Zenon
       DEF HttpBegin, Query, TakeCandidate, SaveStatusChange, CountEnqueued, CallFails,
           StageRefused, Send, RemoveHead, CountPublished
  <2>3. ASSUME \/ \E k \in Kinds : \/ \E p \in Partitions : Receive(k, p)
                                   \/ \E result \in Results : Apply(k, result)
                                   \/ ApplyRefused(k) \/ CountDownstream(k)
                                   \/ Commit(k) \/ CommitLost(k)
               \/ UNCHANGED vars
        PROVE  cache' \subseteq cache
    BY <2>1, <2>3, Zenon
       DEF Receive, Apply, ApplyRefused, CountDownstream, Commit, CommitLost, vars
  <2>4. ASSUME Crash \/ \E i \in cache : Forget(i)
        PROVE  cache' \subseteq cache
    BY <2>4 DEF Crash, Forget
  <2> QED BY <2>2, <2>3, <2>4, Zenon DEF Next, Caller, Scheduler, Dispatcher, Listener
<1> QED BY <1>1, <1>2, <1>3

\* Another thread's step, or one that keeps the dispatcher's head.
LEMMA HeadKept ==
  ASSUME IInv, CauseInv, ArrivedInv, [Next]_vars,
         UNCHANGED <<at["dispatch"], copy["dispatch"]>>,
         pc'["dispatch"] \in {"resending", "removing"} =>
           pc["dispatch"] \in {"resending", "removing"}
  PROVE  HeadSent'
<1> SUFFICES ASSUME pc["dispatch"] \in {"resending", "removing"}
             PROVE  Id(Head(copy["dispatch"].pending)) \in SentIds(at["dispatch"])'
  BY DEF HeadSent
<1>1. PICK o \in Orders : o = at["dispatch"]
  BY ThreadKinds DEF IInv, WorkInHand
<1>2. PICK id : id = Id(Head(copy["dispatch"].pending))
  OBVIOUS
<1>3. id \in SentIds(o)
  BY <1>1, <1>2 DEF ArrivedInv, HeadSent
<1>4. id \in SentIds(o)'
  BY <1>3, SentGrows
<1> QED BY <1>1, <1>2, <1>4 DEF SentIds, Queued

\* Every step keeps what the dispatcher will remove in its topic.
LEMMA HeadStep ==
  ASSUME IInv, CauseInv, ArrivedInv, [Next]_vars
  PROVE  HeadSent'
<1> USE ThreadKinds DEF IInv
<1>1. ASSUME NEW t, t # "dispatch", OnlyMoves(t)
      PROVE  HeadSent'
  BY <1>1, HeadKept DEF OnlyMoves
<1>2. ASSUME pc'["dispatch"] \notin {"resending", "removing"}
      PROVE  HeadSent'
  BY <1>2 DEF HeadSent
<1>3. ASSUME UNCHANGED threads
      PROVE  HeadSent'
  BY <1>3, HeadKept DEF threads
<1>4. ASSUME NEW t \in Http, NEW o \in Orders, HttpBegin(t, o)
      PROVE  HeadSent'
  <2>1. t # "dispatch"
    BY DEF Callers
  <2> QED BY <1>1, <1>4, <2>1, Frames DEF HttpBegin
<1>5. ASSUME NEW s \in Schedulers, NEW o \in Orders, TakeCandidate(s, o)
      PROVE  HeadSent'
  <2>1. CASE StillDue(s, db[o])
    <3>1. OnlyMoves(s) /\ pc'[s] = FirstStep(s)
      BY <1>5, <2>1, Frames DEF TakeCandidate
    <3> QED BY <1>1, <1>2, <3>1 DEF FirstStep
  <2>2. CASE ~StillDue(s, db[o])
    BY <1>3, <1>5, <2>2 DEF TakeCandidate
  <2> QED BY <2>1, <2>2
<1>6. ASSUME NEW t \in Callers,
             \/ \E outcome \in Outcomes(t), result \in Results :
                  SaveStatusChange(t, outcome, result)
             \/ CountEnqueued(t) \/ CallFails(t) \/ StageRefused(t)
      PROVE  HeadSent'
  <2>1. OnlyMoves(t)
    BY <1>6, Frames DEF SaveStatusChange, CountEnqueued, CallFails, StageRefused
  <2> QED BY <1>1, <2>1
<1>7. ASSUME NEW result \in Results, Send(result)
      PROVE  HeadSent'
  <2>1. CASE result = "ok"
    <3>1. Goto("dispatch", "resending") \/ Goto("dispatch", "removing")
      BY <1>7, <2>1, Zenon DEF Send
    <3>2. UNCHANGED <<at["dispatch"], copy["dispatch"]>>
      BY <3>1 DEF Goto
    <3>3. PICK o \in Orders : o = at["dispatch"]
      BY <1>7 DEF Send, WorkInHand
    <3>4. copy["dispatch"] = db[o] /\ copy["dispatch"].pending # <<>>
      BY <1>7, <3>3 DEF Send, CopyIsCurrent, Reading, WorkInHand
    <3>5. PICK h \in Event : h = Head(db[o].pending) /\ h \in ToSet(db[o].pending)
      BY <3>4, HeadGone, MemberTypes
    <3>6. h.order = o
      BY <3>5 DEF CauseInv, StagedCaused
    <3>7. Deliver(h)
      BY <1>7, <2>1, <3>4, <3>5 DEF Send, Effective
    <3>8. h.kind \in Kinds /\ PartitionOf[o] \in Partitions
      BY PipelineAssumption DEF Event
    <3>9. h \in ToSet(queue'[h.kind][PartitionOf[o]])
      BY <3>6, <3>7, <3>8, DeliverSet
    <3>10. Id(h) \in SentIds(o)'
      BY <3>6, <3>8, <3>9 DEF SentIds, Queued
    <3> QED BY <3>2, <3>3, <3>4, <3>5, <3>10 DEF HeadSent, SentIds, Queued
  <2>2. CASE result # "ok"
    <3>1. Finish("dispatch")
      BY <1>7, <2>2, Zenon DEF Send
    <3> QED BY <1>2, <3>1, Frames
  <2> QED BY <2>1, <2>2
<1>8. ASSUME NEW result \in Results, RemoveHead(result)
      PROVE  HeadSent'
  <2>1. pc'["dispatch"] \in {"removed", "idle"}
    <3>1. CASE result = "ok"
      BY <1>8, <3>1 DEF RemoveHead, TypeOK
    <3>2. CASE result # "ok"
      BY <1>8, <3>2, Frames DEF RemoveHead
    <3> QED BY <3>1, <3>2
  <2> QED BY <1>2, <2>1
<1>9. ASSUME CountPublished
      PROVE  HeadSent'
  BY <1>2, <1>9, Frames DEF CountPublished
<1>10. ASSUME NEW k \in Kinds, NEW p \in Partitions, Receive(k, p)
       PROVE  HeadSent'
  <2>1. OnlyMoves(k)
    <3>1. CASE AlreadyProcessed(Record(k, p))
      BY <1>10, <3>1 DEF Receive, OnlyMoves, TypeOK
    <3>2. CASE ~AlreadyProcessed(Record(k, p))
      BY <1>10, <3>2, Frames DEF Receive
    <3> QED BY <3>1, <3>2
  <2> QED BY <1>1, <2>1
<1>11. ASSUME NEW k \in Kinds,
              \/ \E result \in Results : Apply(k, result)
              \/ ApplyRefused(k) \/ Mark(k) \/ CountDownstream(k)
              \/ Commit(k) \/ CommitLost(k)
       PROVE  HeadSent'
  <2>1. OnlyMoves(k)
    BY <1>11, Frames DEF Apply, ApplyRefused, Mark, CountDownstream, Commit, CommitLost
  <2> QED BY <1>1, <2>1
<1>12. ASSUME Crash
       PROVE  HeadSent'
  BY <1>12 DEF Crash, HeadSent
<1>13. ASSUME \/ \E s \in Schedulers : Query(s)
              \/ \E id \in cache : Forget(id)
              \/ UNCHANGED vars
       PROVE  HeadSent'
  BY <1>3, <1>13 DEF Query, Forget, vars
<1> QED
  BY <1>4, <1>5, <1>6, <1>7, <1>8, <1>9, <1>10, <1>11, <1>12, <1>13, Zenon
  DEF Next, Caller, Scheduler, Dispatcher, Listener

-----------------------------------------------------------------------------
\* The whole invariant of the events.
EventInv == CauseInv /\ ArrivedInv /\ NothingLost

LEMMA EventInvariance == Spec => [](IInv /\ WindowInv /\ EventInv)
<1>1. Init => ArrivedInv /\ NothingLost
  <2> SUFFICES ASSUME Init PROVE ArrivedInv /\ NothingLost
    OBVIOUS
  <2>1. CacheInv
    BY DEF Init, CacheInv
  <2>2. (\A k \in Kinds : AckInv(k)) /\ HeadSent
    BY ThreadKinds DEF Init, AckInv, HeadSent
  <2>3. NothingLost
    BY DEF Init, NothingLost
  <2> QED BY <2>1, <2>2, <2>3 DEF ArrivedInv
<1>2. IInv /\ WindowInv /\ CauseInv /\ ArrivedInv /\ NothingLost /\ [Next]_vars
        => ArrivedInv' /\ NothingLost'
  <2> SUFFICES ASSUME IInv, WindowInv, CauseInv, ArrivedInv, NothingLost, [Next]_vars
               PROVE  ArrivedInv' /\ NothingLost'
    OBVIOUS
  <2>1. CacheInv' /\ (\A k \in Kinds : AckInv(k)') /\ HeadSent'
    BY CacheStep, AckStep, HeadStep
  <2>2. NothingLost'
    BY LostStep
  <2> QED BY <2>1, <2>2 DEF ArrivedInv
<1> QED BY <1>1, <1>2, CauseInvariance, PTL DEF Spec, EventInv

\* Every written status change, and the account opening of every applied
\* completion, is in the outbox, in its topic or applied at any time, whatever
\* call fails, is not acknowledged or is repeated and wherever the replica stops.
THEOREM NoEventLost == Spec => []NothingLost
  BY EventInvariance, PTL DEF EventInv

\* What EventProcessor would discard as a duplicate was applied.
DuplicatesApplied ==
  \A k \in Kinds, p \in Partitions :
    queue[k][p] # <<>> /\ AlreadyProcessed(Record(k, p)) =>
      Id(Record(k, p)) \in ToSet(applied[Record(k, p).order])

\* Cache and receipts never run ahead of the documents: a record is discarded as
\* a duplicate only if its event was applied to its order, although the cache
\* is written after the document and lost in a crash.
THEOREM DiscardsOnlyApplied == Spec => []DuplicatesApplied
<1>1. IInv /\ WindowInv /\ EventInv => DuplicatesApplied
  BY RecordTypes, ProcessedApplied DEF DuplicatesApplied, EventInv, IInv
<1> QED BY <1>1, EventInvariance, PTL

-----------------------------------------------------------------------------
(* Lists in which every event follows those that must come before it *)

\* The numbers that come before an event: all smaller ones in the status topic,
\* those of the completions C (pairs of an order and a number) in the other.
Earlier(e, C) == {m \in 1 .. (e.n - 1) : e.kind = "business" => <<e.order, m>> \in C}

IsEvent(e, o, id) == e.order = o /\ Id(e) = id

\* Every event that comes before one in the list is among the pairs of an order
\* and an id in B or further ahead in the list.
Ordered(q, C, B) ==
  \A i \in DOMAIN q : \A m \in Earlier(q[i], C) :
    \/ <<q[i].order, <<q[i].kind, m>>>> \in B
    \/ \E j \in DOMAIN q : j < i /\ IsEvent(q[j], q[i].order, <<q[i].kind, m>>)

\* More pairs behind the list do no harm.
LEMMA OrderedGrows ==
  ASSUME NEW q, NEW C, NEW D, NEW A, NEW B, Ordered(q, C, A), A \subseteq B,
         \A e \in ToSet(q) : Earlier(e, D) = Earlier(e, C)
  PROVE  Ordered(q, D, B)
<1>1. \A i \in DOMAIN q : Earlier(q[i], D) = Earlier(q[i], C)
  BY DEF ToSet
<1> QED BY <1>1 DEF Ordered

\* All that comes before the head is behind the list.
LEMMA OrderedHead ==
  ASSUME NEW q \in Events, NEW C, NEW B, Ordered(q, C, B), q # <<>>,
         NEW m \in Earlier(Head(q), C)
  PROVE  <<Head(q).order, <<Head(q).kind, m>>>> \in B
<1>1. DOMAIN q = 1 .. Len(q) /\ Head(q) = q[1] /\ 1 \in DOMAIN q
  BY DEF Events
<1>2. ~\E j \in DOMAIN q : j < 1
  BY <1>1
<1> QED BY <1>1, <1>2 DEF Ordered

\* An event may follow if all that comes before it is in the list or behind it.
LEMMA OrderedAppend ==
  ASSUME NEW q \in Events, NEW e \in Event, NEW C, NEW B, Ordered(q, C, B),
         \A m \in Earlier(e, C) :
           \/ <<e.order, <<e.kind, m>>>> \in B
           \/ \E f \in ToSet(q) : IsEvent(f, e.order, <<e.kind, m>>)
  PROVE  Ordered(Append(q, e), C, B)
<1> DEFINE qe == Append(q, e)
<1>1. /\ Len(q) \in Nat /\ DOMAIN q = 1 .. Len(q) /\ DOMAIN qe = 1 .. (Len(q) + 1)
      /\ \A i \in 1 .. Len(q) : qe[i] = q[i]
      /\ qe[Len(q) + 1] = e
  BY DEF Events
<1> HIDE DEF qe
<1>2. ASSUME NEW i \in DOMAIN qe, NEW m \in Earlier(qe[i], C)
      PROVE  \/ <<qe[i].order, <<qe[i].kind, m>>>> \in B
             \/ \E j \in DOMAIN qe : j < i /\ IsEvent(qe[j], qe[i].order, <<qe[i].kind, m>>)
  <2>1. CASE i = Len(q) + 1
    <3>1. qe[i] = e
      BY <1>1, <2>1
    <3>2. ASSUME NEW f \in ToSet(q), IsEvent(f, e.order, <<e.kind, m>>)
          PROVE  \E j \in DOMAIN qe : j < i /\ IsEvent(qe[j], e.order, <<e.kind, m>>)
      <4>1. PICK j \in DOMAIN q : q[j] = f
        BY DEF ToSet
      <4>2. j \in DOMAIN qe /\ j < i /\ qe[j] = f
        BY <1>1, <2>1, <4>1
      <4> QED BY <3>2, <4>2
    <3> QED BY <1>2, <3>1, <3>2
  <2>2. CASE i # Len(q) + 1
    <3>1. i \in DOMAIN q /\ qe[i] = q[i]
      BY <1>1, <2>2
    <3>2. ASSUME NEW j \in DOMAIN q, j < i, IsEvent(q[j], q[i].order, <<q[i].kind, m>>)
          PROVE  \E l \in DOMAIN qe :
                   l < i /\ IsEvent(qe[l], q[i].order, <<q[i].kind, m>>)
      <4>1. j \in DOMAIN qe /\ qe[j] = q[j]
        BY <1>1
      <4> QED BY <3>2, <4>1
    <3> QED BY <1>2, <3>1, <3>2 DEF Ordered
  <2> QED BY <2>1, <2>2
<1>3. Ordered(qe, C, B)
  BY <1>2 DEF Ordered
<1> QED BY <1>3 DEF qe

\* The head may go once it is behind the list.
LEMMA OrderedTail ==
  ASSUME NEW q \in Events, q # <<>>, NEW C, NEW B, Ordered(q, C, B),
         <<Head(q).order, Id(Head(q))>> \in B
  PROVE  Ordered(Tail(q), C, B)
<1> DEFINE t == Tail(q)
<1>1. /\ Len(q) \in Nat /\ Len(q) > 0 /\ DOMAIN q = 1 .. Len(q)
      /\ DOMAIN t = 1 .. (Len(q) - 1) /\ Head(q) = q[1]
      /\ \A i \in 1 .. (Len(q) - 1) : t[i] = q[i + 1]
  BY DEF Events
<1> HIDE DEF t
<1>2. ASSUME NEW i \in DOMAIN t, NEW m \in Earlier(t[i], C)
      PROVE  \/ <<t[i].order, <<t[i].kind, m>>>> \in B
             \/ \E j \in DOMAIN t : j < i /\ IsEvent(t[j], t[i].order, <<t[i].kind, m>>)
  <2>1. i + 1 \in DOMAIN q /\ t[i] = q[i + 1]
    BY <1>1
  <2>2. ASSUME NEW j \in DOMAIN q, j < i + 1, IsEvent(q[j], t[i].order, <<t[i].kind, m>>)
        PROVE  \/ <<t[i].order, <<t[i].kind, m>>>> \in B
               \/ \E l \in DOMAIN t : l < i /\ IsEvent(t[l], t[i].order, <<t[i].kind, m>>)
    <3>1. CASE j = 1
      BY <1>1, <2>2, <3>1 DEF IsEvent
    <3>2. CASE j # 1
      <4>1. j - 1 \in DOMAIN t /\ j - 1 < i /\ (j - 1) + 1 = j
        BY <1>1, <2>2, <3>2
      <4>2. t[j - 1] = q[j]
        BY <1>1, <4>1
      <4> QED BY <2>2, <4>1, <4>2
    <3> QED BY <3>1, <3>2
  <2> QED BY <1>2, <2>1, <2>2 DEF Ordered
<1>3. Ordered(t, C, B)
  BY <1>2 DEF Ordered
<1> QED BY <1>3 DEF t

-----------------------------------------------------------------------------
(* The invariant *)

\* The completions written, the events applied, and those that were at least sent.
Completed == {on \in Orders \X Nat : on[2] \in DOMAIN issued[on[1]]
                                     /\ issued[on[1]][on[2]] = "COMPLETED"}
AppliedPairs == {oi \in Orders \X EventId : oi[2] \in ToSet(applied[oi[1]])}
SentPairs == {oi \in Orders \X EventId : oi[2] \in SentIds(oi[1])}

\* A topic holds the events of its kind.
TopicKinds == \A k \in Kinds, p \in Partitions : \A e \in ToSet(queue[k][p]) : e.kind = k

StagedOrdered == \A o \in Orders : Ordered(db[o].pending, Completed, SentPairs)
SentOrdered ==
  \A k \in Kinds, p \in Partitions : Ordered(queue[k][p], Completed, AppliedPairs)

\* Whatever was applied, all that comes before it was applied as well: for a
\* status change every earlier one, for an account opening that of every earlier
\* completion.
NoGap ==
  \A o \in Orders : \A id \in ToSet(applied[o]) : \A m \in 1 .. (id[2] - 1) :
    (id[1] = "business" => issued[o][m] = "COMPLETED")
      => <<id[1], m>> \in ToSet(applied[o])

SequenceInv == TopicKinds /\ StagedOrdered /\ SentOrdered /\ NoGap

\* What was sent or applied stays so.
LEMMA PairsGrow ==
  ASSUME IInv, CauseInv, ArrivedInv, [Next]_vars
  PROVE  AppliedPairs \subseteq AppliedPairs' /\ SentPairs \subseteq SentPairs'
<1>1. AppliedPairs \subseteq AppliedPairs'
  BY HistoryGrows DEF AppliedPairs
<1>2. SentPairs \subseteq SentPairs'
  <2> SUFFICES ASSUME NEW oi \in Orders \X EventId, oi[2] \in SentIds(oi[1])
               PROVE  oi[2] \in SentIds(oi[1])'
    BY DEF SentPairs
  <2>1. oi[1] \in Orders
    OBVIOUS
  <2>2. PICK o \in Orders : \E id : o = oi[1] /\ id = oi[2]
    BY <2>1
  <2>3. PICK id : o = oi[1] /\ id = oi[2]
    BY <2>2
  <2>4. id \in SentIds(o)'
    BY <2>3, SentGrows
  <2> QED BY <2>3, <2>4
<1> QED BY <1>1, <1>2

\* The status changes before a written one do not change.
LEMMA EarlierKept ==
  ASSUME IInv, [Next]_vars, NEW o \in Orders, NEW n \in DOMAIN issued[o],
         NEW m \in 1 .. n
  PROVE  m \in DOMAIN issued[o] /\ m \in DOMAIN issued'[o] /\ issued'[o][m] = issued[o][m]
<1>1. DOMAIN issued[o] = 1 .. Len(issued[o]) /\ Len(issued[o]) \in Nat
  <2>1. issued[o] \in Seq(Status)
    BY DEF IInv, TypeOK
  <2> QED BY <2>1
<1>2. m \in DOMAIN issued[o]
  BY <1>1
<1> QED BY <1>2, HistoryGrows

\* What comes before an event that has its cause stays the same.
LEMMA EarlierStays ==
  ASSUME IInv, [Next]_vars, NEW e \in Event, Caused(e)
  PROVE  Earlier(e, Completed') = Earlier(e, Completed)
<1>1. e.order \in Orders /\ e.n \in Nat /\ e.n \in DOMAIN issued[e.order]
  BY DEF Event, Caused, Grounded, Id
<1>2. ASSUME NEW m \in 1 .. (e.n - 1)
      PROVE  <<e.order, m>> \in Completed' <=> <<e.order, m>> \in Completed
  <2>1. m \in 1 .. e.n /\ m \in Nat
    BY <1>1
  <2>2. /\ m \in DOMAIN issued[e.order] /\ m \in DOMAIN issued'[e.order]
        /\ issued'[e.order][m] = issued[e.order][m]
    BY <1>1, <2>1, EarlierKept
  <2> QED BY <1>1, <2>1, <2>2 DEF Completed
<1> QED BY <1>2 DEF Earlier

\* Hence the order of an outbox or a partition survives a step that does not touch it.
LEMMA OrderedStays ==
  ASSUME IInv, CauseInv, ArrivedInv, SequenceInv, [Next]_vars
  PROVE  /\ \A o \in Orders : Ordered(db[o].pending, Completed', SentPairs')
         /\ \A k \in Kinds, p \in Partitions : Ordered(queue[k][p], Completed', AppliedPairs')
<1>1. ASSUME NEW o \in Orders
      PROVE  Ordered(db[o].pending, Completed', SentPairs')
  <2>1. \A e \in ToSet(db[o].pending) : e \in Event /\ Caused(e)
    BY MemberTypes DEF IInv, CauseInv, StagedCaused
  <2>2. \A e \in ToSet(db[o].pending) : Earlier(e, Completed') = Earlier(e, Completed)
    BY <2>1, EarlierStays
  <2>3. Ordered(db[o].pending, Completed, SentPairs)
    BY DEF SequenceInv, StagedOrdered
  <2> QED BY <2>2, <2>3, PairsGrow, OrderedGrows
<1>2. ASSUME NEW k \in Kinds, NEW p \in Partitions
      PROVE  Ordered(queue[k][p], Completed', AppliedPairs')
  <2>1. \A e \in ToSet(queue[k][p]) : e \in Event /\ Caused(e)
    BY MemberTypes DEF IInv, CauseInv, SentCaused
  <2>2. \A e \in ToSet(queue[k][p]) : Earlier(e, Completed') = Earlier(e, Completed)
    BY <2>1, EarlierStays
  <2>3. Ordered(queue[k][p], Completed, AppliedPairs)
    BY DEF SequenceInv, SentOrdered
  <2> QED BY <2>2, <2>3, PairsGrow, OrderedGrows
<1> QED BY <1>1, <1>2

-----------------------------------------------------------------------------
(* Every step keeps the invariant *)

\* An event is sent to the topic of its kind.
LEMMA TopicStep ==
  ASSUME IInv, CauseInv, TopicKinds, [Next]_vars
  PROVE  TopicKinds'
<1> SUFFICES ASSUME NEW k \in Kinds, NEW p \in Partitions, NEW e \in ToSet(queue'[k][p])
             PROVE  e.kind = k
  BY DEF TopicKinds
<1>1. ASSUME e \in ToSet(queue[k][p])
      PROVE  e.kind = k
  BY <1>1 DEF TopicKinds
<1>2. ASSUME NEW o \in Orders, Sends(o)
      PROVE  e.kind = k
  <2>1. PICK h \in Event : h = Head(db[o].pending)
    BY <1>2, HeadGone, MemberTypes DEF Sends, IInv
  <2>2. Deliver(h)
    BY <1>2, <2>1 DEF Sends
  <2>3. e \in ToSet(queue[k][p]) \/ (e = h /\ k = h.kind)
    BY <2>2, DeliverSet DEF IInv
  <2> QED BY <1>1, <2>3
<1>3. ASSUME NEW j \in Kinds, NEW o \in Orders, Commits(j, o)
      PROVE  e.kind = k
  BY <1>1, <1>3, CommitSet
<1>4. Still \/ \E i \in Orders : Moves(i)
  BY EventStep
<1>5. \/ UNCHANGED queue
      \/ \E o \in Orders : Sends(o) \/ \E j \in Kinds : Commits(j, o)
  BY <1>4, Zenon DEF Still, Moves, Announces, Removes, Applies
<1>6. CASE UNCHANGED queue
  BY <1>1, <1>6
<1> QED BY <1>2, <1>3, <1>5, <1>6

\* An id that is known was sent, or its event is in the outbox.
LEMMA KnownSomewhere ==
  ASSUME IInv, CauseInv, ArrivedInv, [Next]_vars, NEW o \in Orders, NEW id \in Known(o)
  PROVE  <<o, id>> \in SentPairs' \/ \E f \in ToSet(db[o].pending) : IsEvent(f, o, id)
<1>1. CASE id \in SentIds(o)
  <2>1. id \in EventId
    <3>1. ASSUME NEW k \in Kinds, NEW e \in ToSet(queue[k][PartitionOf[o]])
          PROVE  Id(e) \in EventId
      <4>1. e \in Event
        BY MemberTypes, PipelineAssumption DEF IInv
      <4> QED BY <4>1 DEF Id, EventId, Event
    <3>2. \A i \in ToSet(applied[o]) : i \in EventId
      BY MemberTypes DEF IInv
    <3> QED BY <1>1, <3>1, <3>2 DEF SentIds, Queued
  <2>2. <<o, id>> \in SentPairs
    BY <1>1, <2>1 DEF SentPairs
  <2> QED BY <2>2, PairsGrow
<1>2. CASE id \notin SentIds(o)
  <2>1. PICK f \in ToSet(db[o].pending) : Id(f) = id
    BY <1>2, KnownParts
  <2>2. f.order = o
    BY DEF CauseInv, StagedCaused
  <2> QED BY <2>1, <2>2 DEF IsEvent
<1> QED BY <1>1, <1>2

\* The record in hand is the head of a partition behind which all is applied that
\* comes before it.
LEMMA CurrentInTurn ==
  ASSUME IInv, CauseInv, SequenceInv, NEW k \in Kinds, pc[k] # "idle",
         NEW m \in Earlier(Current(k), Completed)
  PROVE  Current(k).kind = k /\ <<k, m>> \in ToSet(applied[at[k]])
<1>1. PICK c \in Event : c = Current(k)
  BY CurrentCaused
<1>2. c.order = at[k] /\ c \in ToSet(queue[k][PartitionOf[at[k]]])
  BY <1>1, CurrentCaused
<1>3. PartitionOf[at[k]] \in Partitions /\ queue[k][PartitionOf[at[k]]] # <<>>
  BY CurrentTypes DEF IInv
<1>4. c.kind = k
  BY <1>2, <1>3 DEF SequenceInv, TopicKinds
<1> DEFINE q == queue[k][PartitionOf[at[k]]]
<1>5. q \in Events /\ q # <<>> /\ Head(q) = c
  BY <1>1, <1>3 DEF IInv, TypeOK, Current, Record
<1>6. Ordered(q, Completed, AppliedPairs)
  BY <1>3 DEF SequenceInv, SentOrdered
<1>7. m \in Earlier(Head(q), Completed)
  BY <1>1, <1>5
<1> HIDE DEF q
<1>8. <<c.order, <<c.kind, m>>>> \in AppliedPairs
  BY <1>5, <1>6, <1>7, OrderedHead
<1>9. <<c.kind, m>> \in ToSet(applied[c.order])
  BY <1>8 DEF AppliedPairs
<1> QED BY <1>1, <1>2, <1>4, <1>9

\* An event is staged behind all that comes before it.
LEMMA StagedOrderStep ==
  ASSUME IInv, CauseInv, ArrivedInv, NothingLost, SequenceInv, [Next]_vars
  PROVE  StagedOrdered'
<1> SUFFICES ASSUME NEW o \in Orders
             PROVE  Ordered(db'[o].pending, Completed', SentPairs')
  BY DEF StagedOrdered
<1> DEFINE q == db[o].pending
<1>1. q \in Events
  BY MemberTypes DEF IInv
<1>2. Ordered(q, Completed', SentPairs')
  BY OrderedStays
<1> HIDE DEF q
<1>3. ASSUME Announces(o)
      PROVE  Ordered(db'[o].pending, Completed', SentPairs')
  <2>1. PICK s \in Status :
          db'[o].pending = Append(q,
            [kind |-> "status", order |-> o, n |-> Len(issued[o]) + 1, status |-> s])
    BY <1>3 DEF Announces, q
  <2> DEFINE new == [kind |-> "status", order |-> o, n |-> Len(issued[o]) + 1,
                     status |-> s]
  <2>2. /\ issued[o] \in Seq(Status) /\ Len(issued[o]) \in Nat
        /\ DOMAIN issued[o] = 1 .. Len(issued[o])
    <3>1. issued[o] \in Seq(Status)
      BY DEF IInv, TypeOK
    <3> QED BY <3>1
  <2>3. /\ new \in Event /\ new.order = o /\ new.kind = "status"
        /\ new.n = Len(issued[o]) + 1 /\ new.n - 1 = Len(issued[o])
    BY <2>2 DEF Event, Kinds
  <2> HIDE DEF new
  <2>4. ASSUME NEW m \in Earlier(new, Completed')
        PROVE  \/ <<new.order, <<new.kind, m>>>> \in SentPairs'
               \/ \E f \in ToSet(q) : IsEvent(f, new.order, <<new.kind, m>>)
    <3>1. m \in DOMAIN issued[o]
      BY <2>2, <2>3 DEF Earlier
    <3>2. <<"status", m>> \in Known(o)
      BY <3>1 DEF NothingLost
    <3> QED BY <2>3, <3>2, KnownSomewhere DEF q
  <2>5. Ordered(Append(q, new), Completed', SentPairs')
    BY <1>1, <1>2, <2>3, <2>4, OrderedAppend
  <2> QED BY <2>1, <2>5 DEF new
<1>4. ASSUME Removes(o)
      PROVE  Ordered(db'[o].pending, Completed', SentPairs')
  <2>1. q # <<>> /\ db'[o].pending = Tail(q)
    BY <1>4 DEF Removes, q
  <2>2. PICK h \in Event : h = Head(q) /\ h \in ToSet(q)
    BY <1>1, <2>1, HeadGone, MemberTypes DEF IInv, q
  <2>3. h.order = o /\ Id(h) \in EventId
    BY <2>2, EventTypes DEF CauseInv, StagedCaused, q, Event, Id, EventId
  <2>4. Id(h) \in SentIds(o)
    BY <1>4, <2>2 DEF Removes, ArrivedInv, HeadSent, q
  <2>5. <<h.order, Id(h)>> \in SentPairs'
    BY <2>3, <2>4, PairsGrow DEF SentPairs
  <2>6. Ordered(Tail(q), Completed', SentPairs')
    BY <1>1, <1>2, <2>1, <2>2, <2>5, OrderedTail
  <2> QED BY <2>1, <2>6
<1>5. ASSUME NEW k \in Kinds, Applies(k, o)
      PROVE  Ordered(db'[o].pending, Completed', SentPairs')
  <2>1. /\ pc[k] # "idle" /\ at[k] = o
        /\ issued'[o] = issued[o]
    BY <1>5 DEF Applies
  <2>2. PICK c \in Event : c = Current(k)
    BY <2>1, CurrentCaused
  <2> DEFINE new == BusinessEvent(c, db[o])
  <2>3. /\ new \in Event /\ new.kind = "business" /\ new.n = c.n
        /\ c.order = o /\ new.order = o /\ c.n \in Nat
    <3>1. new \in Event
      BY EventTypes DEF IInv, TypeOK
    <3>2. c.order = o
      BY <2>1, <2>2, CurrentCaused
    <3> QED BY <3>1, <3>2 DEF BusinessEvent, Event
  <2>4. db'[o].pending = IF Downstream(c) THEN Append(q, new) ELSE q
    BY <1>5, <2>2 DEF Applies, q
  <2> HIDE DEF new
  <2>5. ASSUME Downstream(c), NEW m \in Earlier(new, Completed')
        PROVE  \/ <<new.order, <<new.kind, m>>>> \in SentPairs'
               \/ \E f \in ToSet(q) : IsEvent(f, new.order, <<new.kind, m>>)
    <3>1. m \in 1 .. (c.n - 1) /\ <<o, m>> \in Completed'
      BY <2>3, <2>5 DEF Earlier
    <3>2. m \in DOMAIN issued[o] /\ issued[o][m] = "COMPLETED"
      BY <2>1, <3>1 DEF Completed
    <3>3. c.kind = "status" /\ m \in Earlier(c, Completed)
      BY <2>5, <3>1 DEF Downstream, Earlier
    <3>4. <<"status", m>> \in ToSet(applied[o])
      BY <2>1, <2>2, <3>3, CurrentInTurn
    <3>5. <<"business", m>> \in Known(o)
      BY <3>2, <3>4 DEF NothingLost
    <3> QED BY <2>3, <3>5, KnownSomewhere DEF q
  <2>6. CASE Downstream(c)
    <3>1. Ordered(Append(q, new), Completed', SentPairs')
      BY <1>1, <1>2, <2>3, <2>5, <2>6, OrderedAppend
    <3> QED BY <2>4, <2>6, <3>1
  <2>7. CASE ~Downstream(c)
    BY <1>2, <2>4, <2>7
  <2> QED BY <2>6, <2>7
<1>6. Still \/ \E i \in Orders : Moves(i)
  BY EventStep
<1>7. \/ db'[o].pending = q
      \/ Announces(o) \/ Removes(o) \/ \E k \in Kinds : Applies(k, o)
  <2>1. ASSUME NEW i \in Orders, Moves(i), i # o
        PROVE  db'[o].pending = db[o].pending
    BY <2>1, Zenon DEF Moves, Announces, Removes, Sends, Applies, Commits, OthersKept
  <2>2. Moves(o) => \/ db'[o].pending = db[o].pending
                    \/ Announces(o) \/ Removes(o) \/ \E k \in Kinds : Applies(k, o)
    BY Zenon DEF Moves, Sends, Commits
  <2> QED BY <1>6, <2>1, <2>2, Zenon DEF Still, q
<1>8. CASE db'[o].pending = q
  BY <1>2, <1>8
<1> QED BY <1>3, <1>4, <1>5, <1>7, <1>8, Zenon

\* An event is sent behind all that comes before it.
LEMMA SentOrderStep ==
  ASSUME IInv, CauseInv, ArrivedInv, SequenceInv, [Next]_vars
  PROVE  SentOrdered'
<1> SUFFICES ASSUME NEW k \in Kinds, NEW p \in Partitions
             PROVE  Ordered(queue'[k][p], Completed', AppliedPairs')
  BY DEF SentOrdered
<1> DEFINE q == queue[k][p]
<1>1. q \in Events /\ Ordered(q, Completed', AppliedPairs')
  BY OrderedStays DEF IInv, TypeOK
<1> HIDE DEF q
<1>2. CASE queue'[k][p] = q
  BY <1>1, <1>2
<1>3. ASSUME NEW o \in Orders, Sends(o)
      PROVE  Ordered(queue'[k][p], Completed', AppliedPairs')
  <2>1. db[o].pending \in Events /\ db[o].pending # <<>>
    BY <1>3, MemberTypes DEF Sends, IInv
  <2>2. PICK h \in Event : h = Head(db[o].pending) /\ h \in ToSet(db[o].pending)
    BY <2>1, HeadGone, MemberTypes DEF IInv
  <2>3. /\ h.order = o /\ h.kind \in Kinds /\ PartitionOf[o] \in Partitions
        /\ Caused(h)
    BY <2>2, PipelineAssumption DEF CauseInv, StagedCaused, Event
  <2>4. Deliver(h)
    BY <1>3, <2>2 DEF Sends
  <2>5. queue'[k][p] = IF h.kind = k /\ p = PartitionOf[o] THEN Append(q, h) ELSE q
    BY <2>3, <2>4 DEF Deliver, IInv, TypeOK, q
  <2>6. ASSUME h.kind = k, p = PartitionOf[o], NEW m \in Earlier(h, Completed')
        PROVE  \/ <<h.order, <<h.kind, m>>>> \in AppliedPairs'
               \/ \E f \in ToSet(q) : IsEvent(f, h.order, <<h.kind, m>>)
    <3>1. m \in Earlier(h, Completed)
      BY <2>2, <2>3, EarlierStays
    <3>2. Ordered(db[o].pending, Completed, SentPairs)
      BY DEF SequenceInv, StagedOrdered
    <3>3. <<o, <<k, m>>>> \in SentPairs
      BY <2>1, <2>2, <2>3, <2>6, <3>1, <3>2, OrderedHead
    <3>4. <<k, m>> \in SentIds(o) /\ <<k, m>> \in EventId
      BY <3>3 DEF SentPairs
    <3>5. CASE <<k, m>> \in ToSet(applied[o])
      <4>1. <<o, <<k, m>>>> \in AppliedPairs
        BY <3>4, <3>5 DEF AppliedPairs
      <4> QED BY <2>3, <2>6, <4>1, PairsGrow
    <3>6. CASE <<k, m>> \notin ToSet(applied[o])
      <4>1. PICK j \in Kinds : \E f \in ToSet(queue[j][PartitionOf[o]]) :
                                 f.order = o /\ Id(f) = <<k, m>>
        BY <3>4, <3>6 DEF SentIds, Queued
      <4>2. PICK f \in ToSet(queue[j][PartitionOf[o]]) : f.order = o /\ Id(f) = <<k, m>>
        BY <4>1
      <4>3. f.kind = j
        BY <2>3 DEF SequenceInv, TopicKinds
      <4>4. j = k
        BY <4>2, <4>3 DEF Id
      <4> QED BY <2>3, <2>6, <4>2, <4>4 DEF IsEvent, q
    <3> QED BY <3>5, <3>6
  <2>7. CASE h.kind = k /\ p = PartitionOf[o]
    <3>1. Ordered(Append(q, h), Completed', AppliedPairs')
      BY <1>1, <2>6, <2>7, OrderedAppend
    <3> QED BY <2>5, <2>7, <3>1
  <2>8. CASE ~(h.kind = k /\ p = PartitionOf[o])
    BY <1>1, <2>5, <2>8
  <2> QED BY <2>7, <2>8
<1>4. ASSUME NEW j \in Kinds, NEW o \in Orders, Commits(j, o)
      PROVE  Ordered(queue'[k][p], Completed', AppliedPairs')
  <2>1. /\ pc[j] = "acking" /\ at[j] = o /\ PartitionOf[o] \in Partitions
        /\ queue[j][PartitionOf[o]] # <<>>
        /\ Current(j) \in Event /\ Current(j).order = o
    BY <1>4, CurrentTypes DEF Commits, IInv
  <2>2. queue'[k][p] = IF k = j /\ p = PartitionOf[o] THEN Tail(q) ELSE q
    BY <1>4, <2>1 DEF Commits, IInv, TypeOK, q
  <2>3. Id(Current(j)) \in ToSet(applied[o])
    BY <2>1 DEF ArrivedInv, AckInv
  <2>4. CASE k = j /\ p = PartitionOf[o]
    <3>1. PICK c \in Event : c = Current(j)
      BY <2>1
    <3>2. q # <<>> /\ Head(q) = c
      BY <2>1, <2>4, <3>1 DEF q, Current, Record
    <3>3. Id(c) \in EventId
      BY EventTypes DEF Event, Id, EventId
    <3>4. <<c.order, Id(c)>> \in AppliedPairs
      BY <2>1, <2>3, <3>1, <3>3 DEF AppliedPairs
    <3>5. <<Head(q).order, Id(Head(q))>> \in AppliedPairs'
      BY <3>2, <3>4, PairsGrow
    <3>6. Ordered(Tail(q), Completed', AppliedPairs')
      BY <1>1, <3>2, <3>5, OrderedTail
    <3> QED BY <2>2, <2>4, <3>6
  <2>5. CASE ~(k = j /\ p = PartitionOf[o])
    BY <1>1, <2>2, <2>5
  <2> QED BY <2>4, <2>5
<1>5. Still \/ \E i \in Orders : Moves(i)
  BY EventStep
<1>6. \/ UNCHANGED queue
      \/ \E o \in Orders : Sends(o) \/ \E j \in Kinds : Commits(j, o)
  BY <1>5, Zenon DEF Still, Moves, Announces, Removes, Applies
<1>7. CASE UNCHANGED queue
  BY <1>2, <1>7 DEF q
<1> QED BY <1>3, <1>4, <1>6, <1>7, Zenon

\* An event is applied after all that comes before it.
LEMMA NoGapStep ==
  ASSUME IInv, CauseInv, ArrivedInv, SequenceInv, [Next]_vars
  PROVE  NoGap'
<1> SUFFICES ASSUME NEW o \in Orders, NEW id \in ToSet(applied'[o]),
                    NEW m \in 1 .. (id[2] - 1),
                    id[1] = "business" => issued'[o][m] = "COMPLETED"
             PROVE  <<id[1], m>> \in ToSet(applied'[o])
  BY DEF NoGap
<1>1. ToSet(applied[o]) \subseteq ToSet(applied'[o])
  BY HistoryGrows
<1>2. CASE id \in ToSet(applied[o])
  <2>1. id \in EventId /\ id[2] \in Nat /\ id[2] \in DOMAIN issued[o]
    BY <1>2, MemberTypes DEF IInv, CauseInv, AppliedCaused, Grounded, EventId
  <2>2. m \in 1 .. id[2]
    BY <2>1
  <2>3. issued'[o][m] = issued[o][m]
    BY <2>1, <2>2, EarlierKept
  <2> QED BY <1>1, <1>2, <2>3 DEF SequenceInv, NoGap
<1>3. CASE id \notin ToSet(applied[o])
  <2>1. Still \/ \E i \in Orders : Moves(i)
    BY EventStep
  <2>2. PICK k \in Kinds : Applies(k, o)
    BY <1>3, <2>1, Zenon
    DEF Still, Moves, Announces, Removes, Sends, Applies, Commits, OthersKept
  <2>3. pc[k] # "idle" /\ at[k] = o /\ issued'[o] = issued[o]
    BY <2>2 DEF Applies
  <2>4. PICK c \in Event : c = Current(k)
    BY <2>3, CurrentCaused
  <2>5. /\ c.order = o /\ c.n \in Nat /\ c.n \in DOMAIN issued[o]
        /\ id = Id(c) /\ id[1] = c.kind /\ id[2] = c.n
    <3>1. c.order = o /\ Caused(c)
      BY <2>3, <2>4, CurrentCaused
    <3>2. id = Id(c)
      BY <1>3, <2>2, <2>4, ApplyAdds
    <3> QED BY <3>1, <3>2 DEF Caused, Grounded, Id, Event
  <2>6. m \in DOMAIN issued[o]
    <3>1. m \in 1 .. c.n
      BY <2>5
    <3> QED BY <2>5, <3>1, EarlierKept
  <2>7. m \in Earlier(c, Completed)
    BY <2>3, <2>5, <2>6 DEF Earlier, Completed
  <2>8. c.kind = k /\ <<k, m>> \in ToSet(applied[o])
    BY <2>3, <2>4, <2>7, CurrentInTurn
  <2> QED BY <1>1, <2>5, <2>8
<1> QED BY <1>2, <1>3

-----------------------------------------------------------------------------
\* The sequence is kept.
LEMMA SequenceInvariance == Spec => [](IInv /\ WindowInv /\ EventInv /\ SequenceInv)
<1>1. Init => SequenceInv
  <2> SUFFICES ASSUME Init PROVE SequenceInv
    OBVIOUS
  <2>1. /\ \A o \in Orders : db[o].pending = <<>> /\ applied[o] = <<>>
        /\ \A k \in Kinds, p \in Partitions : queue[k][p] = <<>>
    BY DEF Init, NewOrder
  <2>2. ToSet(<<>>) = {} /\ \A C, B : Ordered(<<>>, C, B)
    BY DEF ToSet, Ordered
  <2> QED BY <2>1, <2>2 DEF SequenceInv, TopicKinds, StagedOrdered, SentOrdered, NoGap
<1>2. IInv /\ EventInv /\ SequenceInv /\ [Next]_vars => SequenceInv'
  <2> SUFFICES ASSUME IInv, EventInv, SequenceInv, [Next]_vars PROVE SequenceInv'
    OBVIOUS
  <2>1. TopicKinds' /\ StagedOrdered' /\ SentOrdered' /\ NoGap'
    BY TopicStep, StagedOrderStep, SentOrderStep, NoGapStep DEF EventInv, SequenceInv
  <2> QED BY <2>1 DEF SequenceInv
<1> QED BY <1>1, <1>2, EventInvariance, PTL DEF Spec

\* At any time the status changes applied to an order are the first ones written
\* for it, and the accounts opened are those of its first completions: none
\* overtakes another or leaves one out, however often the dispatcher sends and the
\* broker delivers them and wherever the replica stops.
THEOREM NoneOvertakes == Spec => []NoGap
  BY SequenceInvariance, PTL DEF SequenceInv

-----------------------------------------------------------------------------
(* The numbers of the events applied *)

\* A new largest member is the last one of a set and changes no other's place.
LEMMA NthAdded ==
  ASSUME NEW S, S \subseteq Nat, IsFiniteSet(S), NEW x \in Nat, \A i \in S : i < x
  PROVE  /\ IsFiniteSet(S \cup {x})
         /\ Cardinality(S) \in Nat
         /\ Cardinality(S \cup {x}) = Cardinality(S) + 1
         /\ \A n \in 1 .. Cardinality(S) : Nth(S \cup {x}, n) = Nth(S, n)
         /\ Nth(S \cup {x}, Cardinality(S) + 1) = x
<1> DEFINE T == S \cup {x}
           UpTo(U, i) == {j \in U : j <= i}
<1>1. /\ IsFiniteSet(T) /\ Cardinality(S) \in Nat
      /\ Cardinality(T) = Cardinality(S) + 1
  <2>1. x \notin S
    OBVIOUS
  <2>2. Cardinality(S) \in Nat
    BY FS_CardinalityType
  <2> QED BY <2>1, <2>2, FS_AddElement
<1>2. \A i \in S : UpTo(T, i) = UpTo(S, i)
  OBVIOUS
<1>3. UpTo(T, x) = T
  <2>1. \A j \in T : j <= x
    OBVIOUS
  <2> QED BY <2>1
<1> HIDE DEF UpTo
<1>4. ASSUME NEW i \in S
      PROVE  Cardinality(UpTo(S, i)) \in Nat /\ Cardinality(UpTo(S, i)) <= Cardinality(S)
  <2>1. UpTo(S, i) \in SUBSET S
    BY DEF UpTo
  <2>2. IsFiniteSet(UpTo(S, i)) /\ Cardinality(UpTo(S, i)) <= Cardinality(S)
    BY <2>1, FS_Subset
  <2> QED BY <2>2, FS_CardinalityType
<1>5. ASSUME NEW n \in 1 .. Cardinality(S)
      PROVE  Nth(T, n) = Nth(S, n)
  <2>1. \A i : i \in T /\ Cardinality(UpTo(T, i)) = n <=> i \in S /\ Cardinality(UpTo(S, i)) = n
    <3>1. n # Cardinality(S) + 1
      BY <1>1
    <3> QED BY <1>1, <1>2, <1>3, <3>1
  <2>2. {i \in T : Cardinality(UpTo(T, i)) = n} = {i \in S : Cardinality(UpTo(S, i)) = n}
    <3> HIDE DEF T
    <3> QED BY <2>1
  <2> QED BY <2>2 DEF Nth, UpTo
<1>6. Nth(T, Cardinality(S) + 1) = x
  <2>1. {i \in T : Cardinality(UpTo(T, i)) = Cardinality(S) + 1} = {x}
    <3>1. \A i \in S : Cardinality(UpTo(T, i)) # Cardinality(S) + 1
      BY <1>1, <1>2, <1>4
    <3>2. Cardinality(UpTo(T, x)) = Cardinality(S) + 1
      BY <1>1, <1>3
    <3> QED BY <3>1, <3>2
  <2> QED BY <2>1 DEF Nth, UpTo
<1> QED BY <1>1, <1>5, <1>6

\* Every place up to the number of places is taken by one of them.
Placed(ids, k) ==
  \A n \in 1 .. Cardinality(Places(ids, k)) : Nth(Places(ids, k), n) \in Places(ids, k)

\* The places of a kind in a list of ids.
LEMMA PlacesTypes ==
  ASSUME NEW s \in Receipts, NEW k
  PROVE  /\ Places(s, k) \subseteq 1 .. Len(s) /\ Places(s, k) \subseteq Nat
         /\ IsFiniteSet(Places(s, k)) /\ Cardinality(Places(s, k)) \in Nat
<1>1. Len(s) \in Nat /\ DOMAIN s = 1 .. Len(s)
  BY DEF Receipts
<1>2. Places(s, k) \in SUBSET (1 .. Len(s))
  BY <1>1 DEF Places
<1>3. IsFiniteSet(1 .. Len(s))
  BY <1>1, FS_Interval
<1>4. IsFiniteSet(Places(s, k))
  BY <1>2, <1>3, FS_Subset
<1> QED BY <1>1, <1>2, <1>4, FS_CardinalityType

\* The numbers are numbers, and those of the ids in the list.
LEMMA NumbersTypes ==
  ASSUME NEW s \in Receipts, NEW k, Placed(s, k)
  PROVE  /\ NumbersIn(s, k) \in Seq(Nat)
         /\ Len(NumbersIn(s, k)) = Cardinality(Places(s, k))
<1> DEFINE P == Places(s, k)
<1>1. P \subseteq 1 .. Len(s) /\ Cardinality(P) \in Nat
  BY PlacesTypes
<1>2. \A i \in 1 .. Len(s) : s[i][2] \in Nat
  <2>1. \A i \in 1 .. Len(s) : s[i] \in EventId
    BY DEF Receipts
  <2> QED BY <2>1 DEF EventId
<1>3. \A n \in 1 .. Cardinality(P) : s[Nth(P, n)][2] \in Nat
  BY <1>1, <1>2 DEF Placed
<1>4. NumbersIn(s, k) \in [1 .. Cardinality(P) -> Nat]
  BY <1>3 DEF NumbersIn
<1> HIDE DEF P
<1> QED BY <1>1, <1>4 DEF P

\* An id that is added adds its number to those of its kind.
LEMMA NumbersAppended ==
  ASSUME NEW s \in Receipts, NEW id \in EventId, NEW k, Placed(s, k)
  PROVE  /\ Placed(Append(s, id), k)
         /\ NumbersIn(Append(s, id), k) =
              IF id[1] = k THEN Append(NumbersIn(s, k), id[2]) ELSE NumbersIn(s, k)
<1> DEFINE sx == Append(s, id)
           x == Len(s) + 1
           P == Places(s, k)
           Q == Places(sx, k)
<1>1. /\ Len(s) \in Nat /\ DOMAIN s = 1 .. Len(s) /\ DOMAIN sx = 1 .. x
      /\ \A i \in 1 .. Len(s) : sx[i] = s[i]
      /\ sx[x] = id
  BY DEF Receipts
<1> HIDE DEF sx
<1>2. /\ P \subseteq 1 .. Len(s) /\ P \subseteq Nat
      /\ IsFiniteSet(P) /\ Cardinality(P) \in Nat
  BY PlacesTypes
<1>3. Q = IF id[1] = k THEN P \cup {x} ELSE P
  BY <1>1 DEF Places
<1>4. NumbersIn(s, k) = [n \in 1 .. Cardinality(P) |-> s[Nth(P, n)][2]]
  BY DEF NumbersIn
<1>5. NumbersIn(sx, k) = [n \in 1 .. Cardinality(Q) |-> sx[Nth(Q, n)][2]]
  BY DEF NumbersIn
<1>6. \A n \in 1 .. Cardinality(P) : Nth(P, n) \in P
  BY DEF Placed
<1> HIDE DEF P, Q, x
<1>7. \A n \in 1 .. Cardinality(P) : sx[Nth(P, n)] = s[Nth(P, n)]
  BY <1>1, <1>2, <1>6
<1>8. CASE id[1] # k
  <2>1. Q = P
    BY <1>3, <1>8
  <2>2. NumbersIn(sx, k) = NumbersIn(s, k)
    BY <1>4, <1>5, <1>7, <2>1
  <2>3. Placed(sx, k)
    BY <1>6, <2>1 DEF Placed, Q
  <2> QED BY <1>8, <2>2, <2>3 DEF sx
<1>9. CASE id[1] = k
  <2>1. x \in Nat /\ \A i \in P : i < x
    BY <1>1, <1>2 DEF x
  <2>2. Q = P \cup {x}
    BY <1>3, <1>9
  <2>3. /\ Cardinality(Q) = Cardinality(P) + 1
        /\ \A n \in 1 .. Cardinality(P) : Nth(Q, n) = Nth(P, n)
        /\ Nth(Q, Cardinality(P) + 1) = x
    BY <1>2, <2>1, <2>2, NthAdded
  <2>4. NumbersIn(s, k) \in Seq(Nat) /\ Len(NumbersIn(s, k)) = Cardinality(P)
    BY NumbersTypes DEF P
  <2>5. id[2] \in Nat
    BY DEF EventId
  <2>6. DOMAIN NumbersIn(sx, k) = 1 .. (Cardinality(P) + 1)
    BY <1>5, <2>3
  <2>7. ASSUME NEW n \in 1 .. (Cardinality(P) + 1)
        PROVE  NumbersIn(sx, k)[n] = Append(NumbersIn(s, k), id[2])[n]
    <3>1. CASE n = Cardinality(P) + 1
      <4>1. NumbersIn(sx, k)[n] = id[2]
        BY <1>1, <1>2, <1>5, <2>3, <3>1
      <4> QED BY <2>4, <2>5, <3>1, <4>1
    <3>2. CASE n # Cardinality(P) + 1
      <4>1. n \in 1 .. Cardinality(P)
        BY <1>2, <3>2
      <4>2. NumbersIn(sx, k)[n] = NumbersIn(s, k)[n]
        BY <1>2, <1>4, <1>5, <1>7, <2>3, <4>1
      <4> QED BY <2>4, <2>5, <4>1, <4>2
    <3> QED BY <3>1, <3>2
  <2>8. NumbersIn(sx, k) = Append(NumbersIn(s, k), id[2])
    <3> DEFINE f == Append(NumbersIn(s, k), id[2])
    <3>1. f \in [1 .. (Cardinality(P) + 1) -> Nat]
      <4>1. f \in Seq(Nat) /\ Len(f) = Cardinality(P) + 1
        BY <2>4, <2>5
      <4> HIDE DEF f
      <4> QED BY <4>1
    <3> HIDE DEF f
    <3>2. NumbersIn(sx, k) = [n \in 1 .. (Cardinality(P) + 1) |-> NumbersIn(sx, k)[n]]
      BY <1>5, <2>3
    <3>3. \A n \in 1 .. (Cardinality(P) + 1) : NumbersIn(sx, k)[n] = f[n]
      BY <2>7 DEF f
    <3>4. NumbersIn(sx, k) = f
      BY <3>1, <3>2, <3>3
    <3> QED BY <3>4 DEF f
  <2>9. \A n \in 1 .. Cardinality(Q) : Nth(Q, n) \in Q
    <3> SUFFICES ASSUME NEW n \in 1 .. Cardinality(Q) PROVE Nth(Q, n) \in Q
      OBVIOUS
    <3>1. n = Cardinality(P) + 1 \/ n \in 1 .. Cardinality(P)
      BY <1>2, <2>3
    <3> QED BY <1>6, <2>2, <2>3, <3>1
  <2>10. Placed(sx, k)
    BY <2>9 DEF Placed, Q
  <2> QED BY <1>9, <2>8, <2>10 DEF sx
<1> QED BY <1>8, <1>9

-----------------------------------------------------------------------------
(* The events applied, in numbers *)

\* The numbers of a kind are those of the ids applied.
Numbered(o, k) ==
  \A n \in Nat :
    <<k, n>> \in ToSet(applied[o]) <=> \E i \in DOMAIN Numbers(o, k) : Numbers(o, k)[i] = n

NumbersInv ==
  \A o \in Orders, k \in Kinds : Placed(applied[o], k) /\ Numbered(o, k)

\* What applying a record does to the numbers of its order.
LEMMA ApplyNumbers ==
  ASSUME IInv, NumbersInv, NEW k \in Kinds, NEW o \in Orders, Applies(k, o),
         NEW j \in Kinds
  PROVE  /\ Numbers(o, j) \in Seq(Nat) /\ Current(k).n \in Nat
         /\ Placed(applied'[o], j)
         /\ Numbers(o, j)' = IF Current(k).kind = j
                               THEN Append(Numbers(o, j), Current(k).n) ELSE Numbers(o, j)
<1>1. PICK c \in Event : c = Current(k)
  BY CurrentTypes DEF Applies, IInv
<1>2. Id(c) \in EventId /\ Id(c)[1] = c.kind /\ Id(c)[2] = c.n /\ c.n \in Nat
  BY EventTypes DEF Event, Id, EventId
<1>3. applied[o] \in Receipts /\ applied'[o] = Append(applied[o], Id(c))
  BY <1>1 DEF Applies, IInv, TypeOK
<1>4. Placed(applied[o], j)
  BY DEF NumbersInv
<1>5. Numbers(o, j) \in Seq(Nat)
  BY <1>3, <1>4, NumbersTypes DEF Numbers
<1>6. PICK s \in Receipts : s = applied[o]
  BY <1>3
<1>7. PICK id \in EventId : id = Id(c)
  BY <1>2
<1>8. applied'[o] = Append(s, id) /\ id[1] = c.kind /\ id[2] = c.n
  BY <1>2, <1>3, <1>6, <1>7
<1>9. /\ Placed(Append(s, id), j)
      /\ NumbersIn(Append(s, id), j) =
           IF id[1] = j THEN Append(NumbersIn(s, j), id[2]) ELSE NumbersIn(s, j)
  BY <1>4, <1>6, NumbersAppended
<1>10. Numbers(o, j) = NumbersIn(s, j) /\ Numbers(o, j)' = NumbersIn(Append(s, id), j)
  BY <1>6, <1>8 DEF Numbers
<1> QED BY <1>1, <1>2, <1>5, <1>8, <1>9, <1>10

\* Only applying a record changes what was applied to an order.
LEMMA AppliedChanges ==
  ASSUME IInv, [Next]_vars, NEW o \in Orders
  PROVE  applied'[o] = applied[o] \/ \E k \in Kinds : Applies(k, o)
<1>1. Still \/ \E i \in Orders : Moves(i)
  BY EventStep
<1> QED BY <1>1, Zenon
    DEF Still, Moves, Announces, Removes, Sends, Applies, Commits, OthersKept

\* The numbers stay those of the ids applied.
LEMMA NumbersStep ==
  ASSUME IInv, NumbersInv, [Next]_vars
  PROVE  NumbersInv'
<1> SUFFICES ASSUME NEW o \in Orders, NEW j \in Kinds
             PROVE  Placed(applied'[o], j) /\ Numbered(o, j)'
  BY DEF NumbersInv
<1>1. Placed(applied[o], j) /\ Numbered(o, j)
  BY DEF NumbersInv
<1>2. CASE applied'[o] = applied[o]
  BY <1>1, <1>2 DEF Numbered, Numbers
<1>3. ASSUME NEW k \in Kinds, Applies(k, o)
      PROVE  Placed(applied'[o], j) /\ Numbered(o, j)'
  <2>1. PICK c \in Event : c = Current(k)
    BY <1>3, CurrentTypes DEF Applies, IInv
  <2>2. PICK f \in Seq(Nat) : f = Numbers(o, j)
    BY <1>3, ApplyNumbers
  <2>3. PICK g : g = Numbers(o, j)'
    OBVIOUS
  <2>4. /\ Placed(applied'[o], j) /\ c.n \in Nat /\ c.kind \in Kinds
        /\ g = IF c.kind = j THEN Append(f, c.n) ELSE f
    BY <1>3, <2>1, <2>2, <2>3, ApplyNumbers DEF Event
  <2>5. ToSet(applied'[o]) = ToSet(applied[o]) \cup {Id(c)}
    BY <1>3, <2>1, ApplyAdds
  <2>6. ASSUME NEW n \in Nat
        PROVE  <<j, n>> \in ToSet(applied'[o]) <=> \E i \in DOMAIN g : g[i] = n
    <3>1. <<j, n>> \in ToSet(applied[o]) <=> \E i \in DOMAIN f : f[i] = n
      BY <1>1, <2>2 DEF Numbered
    <3>2. <<j, n>> = Id(c) <=> c.kind = j /\ c.n = n
      BY DEF Id
    <3>3. CASE c.kind # j
      BY <2>4, <2>5, <3>1, <3>2, <3>3
    <3>4. CASE c.kind = j
      <4>1. /\ DOMAIN f = 1 .. Len(f) /\ Len(f) \in Nat
            /\ DOMAIN g = 1 .. (Len(f) + 1)
            /\ \A i \in 1 .. Len(f) : g[i] = f[i]
            /\ g[Len(f) + 1] = c.n
        BY <2>4, <3>4
      <4>2. (\E i \in DOMAIN g : g[i] = n) <=> (\E i \in DOMAIN f : f[i] = n) \/ n = c.n
        BY <4>1
      <4> QED BY <2>5, <3>1, <3>2, <3>4, <4>2
    <3> QED BY <3>3, <3>4
  <2> QED BY <2>3, <2>4, <2>6 DEF Numbered
<1> QED BY <1>2, <1>3, AppliedChanges

\* Inside the receipt window a record is applied for the first time.
LEMMA FirstTime ==
  ASSUME IInv, AppliedOnceInWindow', NEW k \in Kinds, NEW o \in Orders, Applies(k, o),
         Len(applied'[o]) <= EventIds
  PROVE  Id(Current(k)) \notin ToSet(applied[o])
<1>1. PICK id \in EventId : id = Id(Current(k))
  BY CurrentTypes, EventTypes DEF Applies, IInv, Id, EventId, Event
<1>2. PICK s \in Receipts : s = applied[o]
  BY DEF IInv, TypeOK
<1>3. PICK t : t = applied'[o]
  OBVIOUS
<1>4. t = Append(s, id)
  BY <1>1, <1>2, <1>3 DEF Applies
<1>5. /\ Len(s) \in Nat /\ DOMAIN s = 1 .. Len(s) /\ DOMAIN t = 1 .. (Len(s) + 1)
      /\ Len(t) = Len(s) + 1
      /\ \A i \in 1 .. Len(s) : t[i] = s[i]
      /\ t[Len(s) + 1] = id
  BY <1>4 DEF Receipts
<1>6. \A i, j \in DOMAIN t : i < j /\ t[i] = t[j] => j - i > EventIds
  BY <1>3 DEF AppliedOnceInWindow
<1>7. ASSUME id \in ToSet(s)
      PROVE  FALSE
  <2>1. PICK i \in DOMAIN s : s[i] = id
    BY <1>7 DEF ToSet
  <2>2. /\ i \in DOMAIN t /\ Len(s) + 1 \in DOMAIN t /\ i < Len(s) + 1
        /\ t[i] = t[Len(s) + 1]
    BY <1>5, <2>1
  <2>3. (Len(s) + 1) - i > EventIds
    BY <1>6, <2>2
  <2>4. Len(s) + 1 <= EventIds /\ EventIds \in Nat /\ i \in Nat /\ i > 0
    BY <1>3, <1>5, <2>1, BoundsAssumption
  <2> QED BY <1>5, <2>3, <2>4
<1> QED BY <1>1, <1>2, <1>7

\* The status event applied is the next one.
LEMMA NextStatus ==
  ASSUME IInv, CauseInv, SequenceInv, NumbersInv, AppliedInOrder, AppliedOnceInWindow',
         NEW k \in Kinds, NEW o \in Orders, Applies(k, o), Len(applied'[o]) <= EventIds,
         Current(k).kind = "status"
  PROVE  /\ Len(applied[o]) <= EventIds
         /\ Current(k).n = Len(Numbers(o, "status")) + 1
<1>1. "status" \in Kinds /\ pc[k] # "idle" /\ at[k] = o
  BY DEF Kinds, Applies
<1>2. PICK c \in Event : c = Current(k)
  BY <1>1, CurrentCaused
<1>3. /\ c.kind = "status" /\ Id(c) = <<"status", c.n>> /\ c.order = o
      /\ c.n \in Nat /\ c.n \in DOMAIN issued[o]
  <2>1. c.order = o /\ Caused(c)
    BY <1>1, <1>2, CurrentCaused
  <2> QED BY <1>2, <2>1 DEF Caused, Grounded, Id, Event
<1>4. DOMAIN issued[o] = 1 .. Len(issued[o]) /\ Len(issued[o]) \in Nat
  <2>1. issued[o] \in Seq(Status)
    BY DEF IInv, TypeOK
  <2> QED BY <2>1
<1>5. Len(applied[o]) <= EventIds
  <2>1. applied[o] \in Receipts /\ applied'[o] = Append(applied[o], Id(c))
    BY <1>2 DEF Applies, IInv, TypeOK
  <2>2. Len(applied'[o]) = Len(applied[o]) + 1 /\ Len(applied[o]) \in Nat
    BY <2>1 DEF Receipts
  <2> QED BY <2>2, BoundsAssumption
<1>6. PICK f \in Seq(Nat) : f = Numbers(o, "status")
  BY <1>1, ApplyNumbers
<1>7. /\ DOMAIN f = 1 .. Len(f) /\ Len(f) \in Nat
      /\ \A i \in 1 .. Len(f) : f[i] = i
  BY <1>5, <1>6 DEF AppliedInOrder
<1>8. \A n \in Nat : <<"status", n>> \in ToSet(applied[o]) <=> n \in 1 .. Len(f)
  BY <1>1, <1>6, <1>7 DEF NumbersInv, Numbered
<1>9. c.n \notin 1 .. Len(f)
  BY <1>2, <1>3, <1>8, FirstTime
<1>10. ~(c.n > Len(f) + 1)
  <2> SUFFICES ASSUME c.n > Len(f) + 1 PROVE FALSE
    OBVIOUS
  <2>1. Len(f) + 1 \in Earlier(c, Completed)
    BY <1>3, <1>7 DEF Earlier
  <2>2. <<"status", Len(f) + 1>> \in ToSet(applied[o])
    BY <1>1, <1>2, <1>3, <2>1, CurrentInTurn
  <2> QED BY <1>7, <1>8, <2>2
<1>11. c.n = Len(f) + 1
  BY <1>3, <1>4, <1>7, <1>9, <1>10
<1> QED BY <1>2, <1>5, <1>6, <1>11

\* Status events are applied in order.
LEMMA InOrderStep ==
  ASSUME IInv, CauseInv, SequenceInv, NumbersInv, AppliedInOrder, AppliedOnceInWindow',
         [Next]_vars
  PROVE  AppliedInOrder'
<1> SUFFICES ASSUME NEW o \in Orders, Len(applied'[o]) <= EventIds,
                    NEW i \in DOMAIN Numbers(o, "status")'
             PROVE  Numbers(o, "status")'[i] = i
  BY DEF AppliedInOrder
<1>1. CASE applied'[o] = applied[o]
  BY <1>1 DEF AppliedInOrder, Numbers
<1>2. ASSUME NEW k \in Kinds, Applies(k, o)
      PROVE  Numbers(o, "status")'[i] = i
  <2>1. PICK f \in Seq(Nat) : f = Numbers(o, "status")
    BY <1>2, ApplyNumbers DEF Kinds
  <2>2. PICK n : n = Current(k).n
    OBVIOUS
  <2>3. /\ n \in Nat
        /\ Numbers(o, "status")' = IF Current(k).kind = "status" THEN Append(f, n) ELSE f
    BY <1>2, <2>1, <2>2, ApplyNumbers DEF Kinds
  <2>4. Len(applied[o]) <= EventIds
    <3>1. PICK id \in EventId : id = Id(Current(k))
      BY <1>2, CurrentTypes, EventTypes DEF Applies, IInv, Id, EventId, Event
    <3>2. applied[o] \in Receipts /\ applied'[o] = Append(applied[o], id)
      BY <1>2, <3>1 DEF Applies, IInv, TypeOK
    <3>3. Len(applied'[o]) = Len(applied[o]) + 1 /\ Len(applied[o]) \in Nat
      BY <3>2 DEF Receipts
    <3> QED BY <3>3, BoundsAssumption
  <2>5. DOMAIN f = 1 .. Len(f) /\ Len(f) \in Nat /\ \A l \in DOMAIN f : f[l] = l
    BY <2>1, <2>4 DEF AppliedInOrder
  <2>6. CASE Current(k).kind = "status"
    <3>1. n = Len(f) + 1
      BY <1>2, <2>1, <2>2, <2>6, NextStatus
    <3>2. Numbers(o, "status")' = Append(f, n)
      BY <2>3, <2>6
    <3> QED BY <2>3, <2>5, <3>1, <3>2
  <2>7. CASE Current(k).kind # "status"
    BY <2>3, <2>5, <2>7
  <2> QED BY <2>6, <2>7
<1> QED BY <1>1, <1>2, AppliedChanges

LedgerInv == IInv /\ EventInv /\ SequenceInv /\ NumbersInv /\ AppliedInOrder

LEMMA LedgerInvariance == Spec => [](LedgerInv /\ AppliedOnceInWindow)
<1>1. Init => NumbersInv /\ AppliedInOrder
  <2> SUFFICES ASSUME Init PROVE NumbersInv /\ AppliedInOrder
    OBVIOUS
  <2>1. \A o \in Orders : applied[o] = <<>>
    BY DEF Init
  <2>2. \A k : Places(<<>>, k) = {}
    BY DEF Places
  <2>3. Cardinality({}) = 0
    BY FS_EmptySet
  <2>4. ASSUME NEW k
        PROVE  Placed(<<>>, k) /\ DOMAIN NumbersIn(<<>>, k) = {}
    <3>1. Cardinality(Places(<<>>, k)) = 0
      BY <2>2, <2>3
    <3> QED BY <3>1 DEF Placed, NumbersIn
  <2>5. ToSet(<<>>) = {}
    BY DEF ToSet
  <2> QED BY <2>1, <2>4, <2>5 DEF NumbersInv, Numbered, Numbers, AppliedInOrder
<1>2. ASSUME IInv, EventInv, SequenceInv, NumbersInv, AppliedInOrder,
             AppliedOnceInWindow', [Next]_vars
      PROVE  NumbersInv' /\ AppliedInOrder'
  BY <1>2, NumbersStep, InOrderStep DEF EventInv
<1> QED BY <1>1, <1>2, SequenceInvariance, OnceInWindow, PTL DEF Spec, LedgerInv

\* Status events are applied to an order in the order of the changes they announce
\* and without a gap, for every number of orders, threads and faults, as long as the
\* receipt window of the order is not exceeded.
THEOREM StatusesInOrder == Spec => []AppliedInOrder
  BY LedgerInvariance, PTL DEF LedgerInv

-----------------------------------------------------------------------------
(* The refinement of OrderLedger, step by step *)

\* As long as an order is inside its window, what was delivered to it is the
\* beginning of what was written.
LEMMA DeliveredFacts ==
  ASSUME LedgerInv, NEW o \in Orders, Len(applied[o]) <= EventIds
  PROVE  /\ Numbers(o, "status") \in Seq(Nat) /\ Numbers(o, "business") \in Seq(Nat)
         /\ issued[o] \in Seq(Status)
         /\ DOMAIN Numbers(o, "status") \subseteq DOMAIN issued[o]
         /\ Delivered[o] = [i \in 1 .. Len(Numbers(o, "status")) |-> issued[o][i]]
<1>1. "status" \in Kinds /\ "business" \in Kinds
  BY DEF Kinds
<1>2. Numbers(o, "status") \in Seq(Nat) /\ Numbers(o, "business") \in Seq(Nat)
  <2>1. applied[o] \in Receipts /\ Placed(applied[o], "status") /\ Placed(applied[o], "business")
    BY <1>1 DEF LedgerInv, IInv, TypeOK, NumbersInv
  <2> QED BY <2>1, NumbersTypes DEF Numbers
<1>3. PICK f \in Seq(Nat) : f = Numbers(o, "status")
  BY <1>2
<1>4. DOMAIN f = 1 .. Len(f) /\ \A i \in DOMAIN f : f[i] = i
  BY <1>3 DEF LedgerInv, AppliedInOrder
<1>5. Delivered[o] = [i \in DOMAIN f |-> issued[o][f[i]]]
  BY <1>3 DEF Delivered
<1>6. Delivered[o] = [i \in 1 .. Len(f) |-> issued[o][i]]
  BY <1>4, <1>5
<1>7. ASSUME NEW i \in DOMAIN f
      PROVE  i \in DOMAIN issued[o]
  <2>1. i \in Nat /\ f[i] = i
    BY <1>4, <1>7
  <2>2. <<"status", i>> \in ToSet(applied[o])
    BY <1>1, <1>3, <1>7, <2>1 DEF LedgerInv, NumbersInv, Numbered
  <2> QED BY <2>2 DEF LedgerInv, EventInv, CauseInv, AppliedCaused, Grounded
<1>8. issued[o] \in Seq(Status)
  BY DEF LedgerInv, IInv, TypeOK
<1> QED BY <1>2, <1>3, <1>6, <1>7, <1>8

\* What is delivered of an order depends on what was written for it and applied to it.
LEMMA DeliveredKept ==
  ASSUME NEW o \in Orders, issued'[o] = issued[o], Numbers(o, "status")' = Numbers(o, "status")
  PROVE  Delivered'[o] = Delivered[o]
<1>1. PICK f : f = Numbers(o, "status")
  OBVIOUS
<1>2. Delivered[o] = [i \in DOMAIN f |-> issued[o][f[i]]]
  BY <1>1 DEF Delivered
<1>3. Delivered'[o] = [i \in DOMAIN f |-> issued'[o][f[i]]]
  BY <1>1 DEF Delivered
<1> QED BY <1>2, <1>3

\* A status change written is issued in the ledger.
LEMMA AnnouncesIssues ==
  ASSUME LedgerInv, LedgerInv', Fits, Fits', NEW o \in Orders, Announces(o)
  PROVE  Ledger!Issue(o)
<1>1. PICK s \in Status : issued'[o] = Append(issued[o], s)
  BY DEF Announces
<1>2. /\ \A i \in Orders : applied'[i] = applied[i]
      /\ \A i \in Orders : i # o => issued'[i] = issued[i]
  BY DEF Announces, OthersKept
<1>3. issued' = [issued EXCEPT ![o] = Append(@, s)]
  BY <1>1, <1>2 DEF LedgerInv, IInv, TypeOK
<1>4. \A i \in Orders, k \in Kinds : Numbers(i, k)' = Numbers(i, k)
  BY <1>2 DEF Numbers
<1>5. Delivered'[o] = Delivered[o]
  <2>1. PICK f \in Seq(Nat) : f = Numbers(o, "status")
    BY DeliveredFacts DEF Fits
  <2>2. f = Numbers(o, "status")'
    BY <1>4, <2>1 DEF Kinds
  <2>3. PICK t \in Seq(Status) : t = issued[o]
    BY DEF LedgerInv, IInv, TypeOK
  <2>4. /\ Delivered[o] = [i \in 1 .. Len(f) |-> t[i]]
        /\ 1 .. Len(f) \subseteq 1 .. Len(t)
    BY <2>1, <2>3, DeliveredFacts DEF Fits
  <2>5. Delivered'[o] = [i \in 1 .. Len(f) |-> issued'[o][i]]
    <3>1. \A i \in DOMAIN f : f[i] = i
      BY <2>1 DEF LedgerInv, AppliedInOrder, Fits
    <3>2. Delivered'[o] = [i \in DOMAIN f |-> issued'[o][f[i]]]
      BY <2>2 DEF Delivered
    <3> QED BY <3>1, <3>2
  <2>6. \A i \in 1 .. Len(f) : issued'[o][i] = t[i]
    BY <1>1, <2>3, <2>4
  <2> QED BY <2>4, <2>5, <2>6
<1>6. Delivered' = Delivered
  <2>1. \A i \in Orders : Delivered'[i] = Delivered[i]
    BY <1>2, <1>4, <1>5, DeliveredKept DEF Kinds
  <2> QED BY <2>1 DEF Delivered
<1>7. AccountsOpened' = AccountsOpened
  BY <1>4 DEF AccountsOpened, Kinds
<1> QED BY <1>3, <1>6, <1>7 DEF Ledger!Issue

\* The account openings of a ledger, by the ids applied.
LEMMA OpenedMembers ==
  ASSUME LedgerInv, NEW o \in Orders, NEW n \in Nat
  PROVE  n \in Ledger!Opened(o) <=> <<"business", n>> \in ToSet(applied[o])
<1>1. Numbered(o, "business")
  BY DEF LedgerInv, NumbersInv, Kinds
<1>2. AccountsOpened[o] = Numbers(o, "business")
  BY DEF AccountsOpened
<1>3. Ledger!Opened(o) = {Numbers(o, "business")[i] : i \in DOMAIN Numbers(o, "business")}
  BY <1>2 DEF Ledger!Opened
<1> QED BY <1>1, <1>3 DEF Numbered

\* The completions of a ledger, by the ids applied.
LEMMA CompletionMembers ==
  ASSUME LedgerInv, NEW o \in Orders, Len(applied[o]) <= EventIds, NEW n
  PROVE  n \in Ledger!Completions(o)
           <=> /\ n \in Nat /\ <<"status", n>> \in ToSet(applied[o])
               /\ issued[o][n] = "COMPLETED"
<1>1. Numbered(o, "status")
  BY DEF LedgerInv, NumbersInv, Kinds
<1>2. PICK f \in Seq(Nat) : f = Numbers(o, "status")
  BY DeliveredFacts
<1>3. DOMAIN f = 1 .. Len(f) /\ Len(f) \in Nat /\ \A i \in DOMAIN f : f[i] = i
  BY <1>2 DEF LedgerInv, AppliedInOrder
<1>4. ASSUME NEW m \in Nat
      PROVE  <<"status", m>> \in ToSet(applied[o]) <=> m \in 1 .. Len(f)
  <2>1. <<"status", m>> \in ToSet(applied[o]) <=> \E i \in DOMAIN f : f[i] = m
    BY <1>1, <1>2 DEF Numbered
  <2> QED BY <1>3, <2>1
<1>5. Delivered[o] = [i \in 1 .. Len(f) |-> issued[o][i]]
  BY <1>2, DeliveredFacts
<1>6. Ledger!Completions(o) = {m \in 1 .. Len(f) : issued[o][m] = "COMPLETED"}
  BY <1>5 DEF Ledger!Completions
<1> QED BY <1>3, <1>4, <1>6

\* A status event applied is delivered in the ledger, a business event applied opens
\* the account of the oldest completion that is left.
LEMMA AppliesDelivers ==
  ASSUME LedgerInv, LedgerInv', AppliedOnceInWindow', Fits, Fits', NEW k \in Kinds,
         NEW o \in Orders, Applies(k, o)
  PROVE  Ledger!Deliver(o) \/ Ledger!Open(o)
<1>1. IInv /\ CauseInv /\ SequenceInv /\ NumbersInv /\ AppliedInOrder
  BY DEF LedgerInv, EventInv
<1>2. /\ pc[k] # "idle" /\ at[k] = o
      /\ \A i \in Orders : issued'[i] = issued[i]
      /\ \A i \in Orders : i # o => applied'[i] = applied[i]
  BY DEF Applies, OthersKept
<1>3. issued' = issued
  BY <1>1, <1>2 DEF LedgerInv, IInv, TypeOK
<1>4. PICK c \in Event : c = Current(k)
  BY <1>1, <1>2, CurrentCaused
<1>5. c.order = o /\ c.n \in Nat /\ c.kind \in Kinds /\ Id(c) = <<c.kind, c.n>>
  BY <1>1, <1>2, <1>4, CurrentCaused DEF Event, Id
<1>6. \A i \in Orders, j \in Kinds : i # o \/ c.kind # j => Numbers(i, j)' = Numbers(i, j)
  <2>1. \A i \in Orders, j \in Kinds : i # o => Numbers(i, j)' = Numbers(i, j)
    BY <1>2 DEF Numbers
  <2>2. \A j \in Kinds : c.kind # j => Numbers(o, j)' = Numbers(o, j)
    BY <1>1, <1>4, ApplyNumbers
  <2> QED BY <2>1, <2>2
<1>7. Id(c) \notin ToSet(applied[o])
  BY <1>1, <1>4, FirstTime DEF Fits
<1>8. CASE c.kind = "status"
  <2>1. PICK f \in Seq(Nat) : f = Numbers(o, "status")
    BY DeliveredFacts DEF Fits
  <2>2. c.n = Len(f) + 1
    BY <1>1, <1>4, <1>8, <2>1, NextStatus DEF Fits
  <2>3. Numbers(o, "status")' = Append(f, c.n)
    BY <1>1, <1>4, <1>8, <2>1, ApplyNumbers DEF Kinds
  <2>4. PICK t \in Seq(Status) : t = issued[o]
    BY <1>1 DEF IInv, TypeOK
  <2>5. /\ Delivered[o] = [i \in 1 .. Len(f) |-> t[i]]
        /\ Len(f) \in Nat
        /\ \A i \in 1 .. Len(f) : f[i] = i
    <3>1. \A i \in DOMAIN f : f[i] = i
      BY <1>1, <2>1 DEF AppliedInOrder, Fits
    <3>2. DOMAIN f = 1 .. Len(f) /\ Len(f) \in Nat
      OBVIOUS
    <3>3. Delivered[o] = [i \in 1 .. Len(f) |-> t[i]]
      BY <2>1, <2>4, DeliveredFacts DEF Fits
    <3> QED BY <3>1, <3>2, <3>3
  <2>6. c.n \in DOMAIN t
    <3>1. Caused(c)
      BY <1>1, <1>2, <1>4, CurrentCaused
    <3> QED BY <1>5, <2>4, <3>1 DEF Caused, Grounded
  <2>7. Len(Delivered[o]) = Len(f) /\ Delivered[o] \in Seq(Status)
    BY <2>2, <2>4, <2>5, <2>6
  <2>8. Len(Delivered[o]) < Len(issued[o])
    BY <2>2, <2>4, <2>6, <2>7
  <2>9. Delivered'[o] = Append(Delivered[o], issued[o][Len(Delivered[o]) + 1])
    <3> DEFINE g == Append(f, c.n)
    <3>1. Delivered'[o] = [i \in DOMAIN g |-> t[g[i]]]
      BY <1>3, <2>3, <2>4 DEF Delivered
    <3>2. /\ DOMAIN g = 1 .. (Len(f) + 1)
          /\ \A i \in 1 .. (Len(f) + 1) : g[i] = i
      BY <2>2, <2>5
    <3> HIDE DEF g
    <3>3. Delivered'[o] = [i \in 1 .. (Len(f) + 1) |-> t[i]]
      BY <3>1, <3>2
    <3>4. PICK d \in Seq(Status) : d = Delivered[o]
      BY <2>7
    <3>5. Append(d, t[Len(f) + 1]) = [i \in 1 .. (Len(f) + 1) |-> t[i]]
      BY <2>2, <2>5, <2>6, <2>7, <3>4
    <3> QED BY <2>4, <2>7, <3>3, <3>4, <3>5
  <2>10. \A i \in Orders : i # o => Delivered'[i] = Delivered[i]
    BY <1>2, <1>6, DeliveredKept DEF Kinds
  <2>11. Delivered' = [Delivered EXCEPT ![o] = Append(@, issued[o][Len(@) + 1])]
    BY <2>9, <2>10 DEF Delivered
  <2>12. AccountsOpened' = AccountsOpened
    BY <1>6, <1>8 DEF AccountsOpened, Kinds
  <2> QED BY <1>3, <2>8, <2>11, <2>12 DEF Ledger!Deliver
<1>9. CASE c.kind = "business"
  <2>1. Delivered' = Delivered
    <3>1. \A i \in Orders : Delivered'[i] = Delivered[i]
      BY <1>2, <1>6, <1>9, DeliveredKept DEF Kinds
    <3> QED BY <3>1 DEF Delivered
  <2>2. AccountsOpened' = [AccountsOpened EXCEPT ![o] = Append(@, c.n)]
    <3>1. Numbers(o, "business")' = Append(Numbers(o, "business"), c.n)
      BY <1>1, <1>4, <1>9, ApplyNumbers DEF Kinds
    <3>2. \A i \in Orders : i # o => Numbers(i, "business")' = Numbers(i, "business")
      BY <1>6 DEF Kinds
    <3> QED BY <3>1, <3>2 DEF AccountsOpened
  <2>3. c.n \in Ledger!Completions(o)
    <3>1. Grounded(o, Id(c))
      BY <1>1, <1>2, <1>4, <1>5, CurrentCaused DEF Caused
    <3>2. <<"status", c.n>> \in ToSet(applied[o]) /\ issued[o][c.n] = "COMPLETED"
      BY <1>5, <1>9, <3>1 DEF Grounded
    <3> QED BY <1>5, <3>2, CompletionMembers DEF Fits
  <2>4. c.n \notin Ledger!Opened(o)
    BY <1>5, <1>7, <1>9, OpenedMembers
  <2>5. ASSUME NEW m \in Ledger!Completions(o) \ Ledger!Opened(o), m < c.n
        PROVE  FALSE
    <3>1. /\ m \in Nat /\ issued[o][m] = "COMPLETED"
          /\ <<"status", m>> \in ToSet(applied[o])
      BY CompletionMembers DEF Fits
    <3>2. m \in DOMAIN issued[o] /\ m > 0
      <4>1. m \in DOMAIN issued[o]
        BY <1>1, <3>1 DEF CauseInv, AppliedCaused, Grounded
      <4>2. issued[o] \in Seq(Status)
        BY <1>1 DEF IInv, TypeOK
      <4> QED BY <4>1, <4>2
    <3>3. m \in Earlier(c, Completed)
      BY <1>5, <2>5, <3>1, <3>2 DEF Earlier, Completed
    <3>4. <<"business", m>> \in ToSet(applied[o])
      BY <1>1, <1>2, <1>4, <1>9, <3>3, CurrentInTurn
    <3> QED BY <3>1, <3>4, OpenedMembers
  <2>6. \A m \in Ledger!Completions(o) \ Ledger!Opened(o) : c.n <= m
    <3>1. \A m \in Ledger!Completions(o) : m \in Nat
      BY CompletionMembers DEF Fits
    <3> QED BY <1>5, <2>5, <3>1
  <2>7. \E n \in Ledger!Completions(o) \ Ledger!Opened(o) :
          /\ \A m \in Ledger!Completions(o) \ Ledger!Opened(o) : n <= m
          /\ AccountsOpened' = [AccountsOpened EXCEPT ![o] = Append(@, n)]
    BY <2>2, <2>3, <2>4, <2>6
  <2> QED BY <1>3, <2>1, <2>7 DEF Ledger!Open
<1> QED BY <1>5, <1>8, <1>9 DEF Kinds

\* Every step of the pipeline is a step of the ledger, or none of its business.
LEMMA LedgerStep ==
  ASSUME LedgerInv, LedgerInv', AppliedOnceInWindow', Fits, Fits', [Next]_vars
  PROVE  [Ledger!Next]_(Ledger!vars)
<1>1. Still \/ \E o \in Orders : Moves(o)
  BY EventStep DEF LedgerInv
<1>2. CASE /\ \A o \in Orders : issued'[o] = issued[o]
           /\ \A o \in Orders : applied'[o] = applied[o]
  <2>1. issued' = issued /\ applied' = applied
    BY <1>2 DEF LedgerInv, IInv, TypeOK
  <2>2. Delivered' = Delivered /\ AccountsOpened' = AccountsOpened
    BY <2>1 DEF Delivered, AccountsOpened, Numbers
  <2> QED BY <2>1, <2>2 DEF Ledger!vars
<1>3. ASSUME NEW o \in Orders, Announces(o)
      PROVE  Ledger!Next
  BY <1>3, AnnouncesIssues DEF Ledger!Next
<1>4. ASSUME NEW k \in Kinds, NEW o \in Orders, Applies(k, o)
      PROVE  Ledger!Next
  BY <1>4, AppliesDelivers DEF Ledger!Next
<1>5. ASSUME NEW o \in Orders,
             Removes(o) \/ Sends(o) \/ \E k \in Kinds : Commits(k, o)
      PROVE  /\ \A i \in Orders : issued'[i] = issued[i]
             /\ \A i \in Orders : applied'[i] = applied[i]
  BY <1>5 DEF Removes, Sends, Commits, OthersKept
<1>6. CASE Still
  BY <1>2, <1>6 DEF Still
<1> QED BY <1>1, <1>2, <1>3, <1>4, <1>5, <1>6, Zenon DEF Moves

\* As long as no order exceeds its receipt window, every behaviour of the pipeline is
\* one of the ledger, whatever fails, is sent twice, redelivered or lost in a crash:
\* each status change is delivered exactly once and in order, and each delivered
\* completion opens the account exactly once and in order.
THEOREM PipelineImplementsLedger == Spec /\ []Fits => ImplementsLedger
<1>1. Init => Ledger!Init
  <2> SUFFICES ASSUME Init PROVE Ledger!Init
    OBVIOUS
  <2>1. issued = [o \in Orders |-> <<>>] /\ \A o \in Orders : applied[o] = <<>>
    BY DEF Init
  <2>2. Places(<<>>, "status") = {} /\ Places(<<>>, "business") = {}
    BY DEF Places
  <2>3. Cardinality(Places(<<>>, "status")) = 0 /\ Cardinality(Places(<<>>, "business")) = 0
    BY <2>2, FS_EmptySet
  <2>4. NumbersIn(<<>>, "status") = <<>> /\ NumbersIn(<<>>, "business") = <<>>
    BY <2>3 DEF NumbersIn
  <2>5. \A o \in Orders : Numbers(o, "status") = <<>> /\ Numbers(o, "business") = <<>>
    BY <2>1, <2>4 DEF Numbers
  <2>6. Delivered = [o \in Orders |-> <<>>] /\ AccountsOpened = [o \in Orders |-> <<>>]
    BY <2>5 DEF Delivered, AccountsOpened
  <2> QED BY <2>1, <2>6 DEF Ledger!Init
<1>2. LedgerInv /\ LedgerInv' /\ AppliedOnceInWindow' /\ Fits /\ Fits' /\ [Next]_vars
        => [Ledger!Next]_(Ledger!vars)
  BY LedgerStep
<1> QED BY <1>1, <1>2, LedgerInvariance, PTL DEF Spec, ImplementsLedger, Ledger!Spec
=============================================================================

---------------------------- MODULE OrderPipeline ----------------------------
(***************************************************************************)
(* The order pipeline of one application replica: HTTP workers, the retry, *)
(* polling and outbox schedulers and the two Kafka listeners, working on   *)
(* the order documents under the striped locks of OrderLocks.              *)
(*                                                                         *)
(* Durable: db (MongoDB) and queue (Kafka).  Volatile, lost in a crash:    *)
(* the locks, the threads, the dedup cache and the ResearchMetrics         *)
(* counters.  issued and applied are history variables: the status changes *)
(* written for an order, and the ids of the events its document applied.   *)
(***************************************************************************)
EXTENDS OrderDocument, FiniteSets

CONSTANTS
  Http,          \* request worker threads
  Stripes,       \* the locks of OrderLocks (1024)
  StripeOf,      \* the lock of an order: floorMod(hash(id), 1024)
  Partitions,    \* partitions of a topic (6)
  PartitionOf,   \* the partition Kafka gives the key of an order
  Page,          \* the size of a scheduler's result page (100)
  Duplicated,    \* the <<order, kind>> TrafficProfile sends twice
  MaxRequests,   \* bound: HTTP requests
  MaxFaults,     \* bound: calls that fail and change nothing
  MaxUnacked,    \* bound: calls that take effect and still report a failure
  MaxForgets,    \* bound: ids the dedup cache evicts or expires
  MaxCrashes,    \* bound: crashes of the replica
  NoThread, NoOrder

Schedulers == {"poll", "retry", "dispatch"}
Threads == Http \cup Schedulers \cup Kinds

\* The threads that call the external service.
Callers == Http \cup {"poll", "retry"}

Counters == {"enqueued", "published", "deliveries", "consumed", "duplicate"}
Bounds == {"requests", "faults", "unacked", "forgets", "crashes"}
MaxSpent == [requests |-> MaxRequests, faults |-> MaxFaults,
             unacked |-> MaxUnacked, forgets |-> MaxForgets,
             crashes |-> MaxCrashes]

ASSUME PipelineAssumption ==
  /\ Http \cap (Schedulers \cup Kinds) = {}
  /\ NoThread \notin Threads
  /\ NoOrder \notin Orders
  /\ StripeOf \in [Orders -> Stripes]
  /\ PartitionOf \in [Orders -> Partitions]
  /\ Page \in Nat \ {0}
  /\ Duplicated \subseteq Orders \X Kinds
  /\ MaxSpent \in [Bounds -> Nat]

VARIABLES
  db,       \* the stored document of each order
  holder,   \* the thread that holds each lock
  pc,       \* what each thread does next
  at,       \* the order each thread works on
  copy,     \* the document each thread has read and not yet saved
  todo,     \* the rest of each scheduler's page of candidates
  queue,    \* the uncommitted records of each topic and partition
  cache,    \* the ids in the dedup cache
  count,    \* the ResearchMetrics counters of the event flow
  issued,   \* the statuses written for each order, oldest first
  applied,  \* the ids of the events applied to each order, oldest first
  spent     \* how much of each bound is used up

durable  == <<db, queue>>
threads  == <<holder, pc, at, copy>>
history  == <<issued, applied>>
vars == <<durable, threads, todo, cache, count, history, spent>>

-----------------------------------------------------------------------------
(* Types *)

Steps == {"idle",
          "calling", "saved",                            \* callers
          "sending", "resending", "removing", "removed", \* dispatcher
          "applying", "marking", "chaining", "acking"}   \* listeners

\* Documents hold a status of OrderStatus and lists of events and event ids,
\* topics hold events; a thread is at a step and works on a seeded order.
TypeOK ==
  /\ db \in [Orders -> Doc]
  /\ holder \in [Stripes -> Threads \cup {NoThread}]
  /\ pc \in [Threads -> Steps]
  /\ at \in [Threads -> Orders \cup {NoOrder}]
  /\ copy \in [Threads -> Doc]
  /\ todo \in [Schedulers -> SUBSET Orders]
  /\ queue \in [Kinds -> [Partitions -> Events]]
  /\ cache \subseteq Orders \X EventId
  /\ count \in [Counters -> Nat]
  /\ issued \in [Orders -> Seq(Status)]
  /\ applied \in [Orders -> Receipts]
  /\ spent \in [Bounds -> Nat]

Init ==
  /\ db = [o \in Orders |-> NewOrder]
  /\ holder = [s \in Stripes |-> NoThread]
  /\ pc = [t \in Threads |-> "idle"]
  /\ at = [t \in Threads |-> NoOrder]
  /\ copy = [t \in Threads |-> NewOrder]
  /\ todo = [s \in Schedulers |-> {}]
  /\ queue = [k \in Kinds |-> [p \in Partitions |-> <<>>]]
  /\ cache = {}
  /\ count = [c \in Counters |-> 0]
  /\ issued = [o \in Orders |-> <<>>]
  /\ applied = [o \in Orders |-> <<>>]
  /\ spent = [b \in Bounds |-> 0]

-----------------------------------------------------------------------------
(* The lock of an order, and the calls that can fail *)

\* Variant: a lock that excludes nobody.
FreeAlways(o) == TRUE

Free(o) == holder[StripeOf[o]] = NoThread

\* lock() and findById(): nothing else happens to the order in between.
Acquire(t, o, step) ==
  /\ holder' = [holder EXCEPT ![StripeOf[o]] = t]
  /\ at' = [at EXCEPT ![t] = o]
  /\ copy' = [copy EXCEPT ![t] = db[o]]
  /\ pc' = [pc EXCEPT ![t] = step]

Unlock(t) == holder' = [holder EXCEPT ![StripeOf[at[t]]] = NoThread]

\* The locked section ends, normally or by an exception.
Finish(t) ==
  /\ Unlock(t)
  /\ at' = [at EXCEPT ![t] = NoOrder]
  /\ copy' = [copy EXCEPT ![t] = NewOrder]
  /\ pc' = [pc EXCEPT ![t] = "idle"]

\* A listener leaves the locked section, and then its work.
Leave(k) ==
  /\ Unlock(k)
  /\ copy' = [copy EXCEPT ![k] = NewOrder]
  /\ pc' = [pc EXCEPT ![k] = "acking"]
  /\ UNCHANGED at

Return(k) ==
  /\ pc' = [pc EXCEPT ![k] = "idle"]
  /\ at' = [at EXCEPT ![k] = NoOrder]
  /\ UNCHANGED <<holder, copy>>

Goto(t, step) ==
  /\ pc' = [pc EXCEPT ![t] = step]
  /\ UNCHANGED <<holder, at, copy>>

Spend(b) ==
  /\ spent[b] < MaxSpent[b]
  /\ spent' = [spent EXCEPT ![b] = @ + 1]

Increment(c) == count' = [count EXCEPT ![c] = @ + 1]

\* A save or a send returns ("ok"), fails without an effect ("failed"), or
\* takes effect and reports a failure all the same ("unacked").
Results == {"ok", "failed", "unacked"}
Effective(result) == result \in {"ok", "unacked"}
Charge(result) == CASE result = "ok" -> UNCHANGED spent
                    [] result = "failed" -> Spend("faults")
                    [] result = "unacked" -> Spend("unacked")

\* The @Version check: the document must not have been written since it was
\* read.
VersionMatches(t) == copy[t].version = db[at[t]].version

Save(t, doc, result) ==
  IF VersionMatches(t)
  THEN /\ Charge(result)
       /\ db' = IF Effective(result)
                  THEN [db EXCEPT ![at[t]] = Stored(doc)] ELSE db
  ELSE result = "failed" /\ UNCHANGED <<db, spent>>

-----------------------------------------------------------------------------
(* HTTP requests: OrderFlowController -> OrderFlowService.process *)

HttpBegin(t, o) ==
  /\ pc[t] = "idle"
  /\ Free(o)
  /\ Spend("requests")
  /\ Acquire(t, o, "calling")
  /\ UNCHANGED <<durable, todo, cache, count, history>>

-----------------------------------------------------------------------------
(* The schedulers: query a page of candidates, then take them one by one *)

\* OrderRepository: what the query of each scheduler selects.
Matches(s, doc) ==
  CASE s = "poll" -> doc.status = "WAITING"
    [] s = "retry" -> Retryable(doc)
    [] s = "dispatch" -> doc.pending # <<>>

Query(s) ==
  /\ pc[s] = "idle"
  /\ todo[s] = {}
  /\ \E page \in SUBSET {o \in Orders : Matches(s, db[o])} :
       /\ page # {}
       /\ \/ Cardinality(page) = Page
          \/ Cardinality(page) < Page /\ \A o \in Orders : Matches(s, db[o]) => o \in page
       /\ todo' = [todo EXCEPT ![s] = page]
  /\ UNCHANGED <<durable, threads, cache, count, history, spent>>

\* The candidate may be stale: what the scheduler checks again under the lock.
\* Variants: the poll result is written to whatever status the order has by now;
\* a retry does not look at the attempts again.
StillDueAnyStatus(s, doc) ==
  CASE s = "poll" -> TRUE
    [] s = "retry" -> doc.status = "FAILED" /\ doc.attempts < RetryLimit
    [] s = "dispatch" -> doc.pending # <<>>

StillDueAnyAttempts(s, doc) ==
  CASE s = "poll" -> doc.status = "WAITING"
    [] s = "retry" -> doc.status = "FAILED"
    [] s = "dispatch" -> doc.pending # <<>>

StillDue(s, doc) ==
  CASE s = "poll" -> doc.status = "WAITING"
    [] s = "retry" -> doc.status = "FAILED" /\ doc.attempts < RetryLimit
    [] s = "dispatch" -> doc.pending # <<>>

FirstStep(s) == IF s = "dispatch" THEN "sending" ELSE "calling"

TakeCandidate(s, o) ==
  /\ pc[s] = "idle"
  /\ o \in todo[s]
  /\ Free(o)
  /\ todo' = [todo EXCEPT ![s] = @ \ {o}]
  /\ IF StillDue(s, db[o]) THEN Acquire(s, o, FirstStep(s))
                           ELSE UNCHANGED threads
  /\ UNCHANGED <<durable, cache, count, history, spent>>

-----------------------------------------------------------------------------
(* The answer of the external service, and the status change it leads to *)

Outcomes(t) == IF t = "poll" THEN {"done", "failed"} ELSE {"ok", "expected"}

Answered(t, outcome) == IF t = "poll" THEN Polled(copy[t], outcome)
                                      ELSE Processed(copy[t], outcome)

\* The new status and the event that announces it are one document write.
SaveStatusChange(t, outcome, result) ==
  LET doc == Answered(t, outcome)
      event == StatusEvent(at[t], Len(issued[at[t]]) + 1, doc)
  IN /\ pc[t] = "calling"
     /\ CanStage(doc)
     /\ Save(t, Stage(doc, event), result)
     /\ issued' = IF Effective(result)
                    THEN [issued EXCEPT ![at[t]] = Append(@, doc.status)]
                    ELSE issued
     /\ IF result = "ok" THEN Goto(t, "saved") ELSE Finish(t)
     /\ UNCHANGED <<queue, todo, cache, count, applied>>

CountEnqueued(t) ==
  /\ pc[t] = "saved"
  /\ Increment("enqueued")
  /\ Finish(t)
  /\ UNCHANGED <<durable, todo, cache, history, spent>>

\* Variant: no finally around the locked section.
CallFailsLocked(t) ==
  /\ pc[t] = "calling"
  /\ Spend("faults")
  /\ Return(t)
  /\ UNCHANGED <<durable, todo, cache, count, history>>

\* An unexpected answer: the exception leaves the document unsaved.
CallFails(t) ==
  /\ pc[t] = "calling"
  /\ Spend("faults")
  /\ Finish(t)
  /\ UNCHANGED <<durable, todo, cache, count, history>>

\* "Outbox full": the status change is given up with the event.
StageRefused(t) ==
  /\ pc[t] = "calling"
  /\ ~CanStage(copy[t])
  /\ Finish(t)
  /\ UNCHANGED <<durable, todo, cache, count, history, spent>>

-----------------------------------------------------------------------------
(* OutboxDispatcher: send the head, remove it, and so on until none is left *)

Deliver(e) ==
  queue' = [queue EXCEPT ![e.kind][PartitionOf[e.order]] = Append(@, e)]

\* Variant: a failed send is logged, and the head removed.
SendOrDrop(result) ==
  LET t == "dispatch"
      event == Head(copy[t].pending)
      twice == <<at[t], event.kind>> \in Duplicated
  IN /\ pc[t] \in {"sending", "resending"}
     /\ Charge(result)
     /\ IF Effective(result) THEN Deliver(event) ELSE UNCHANGED queue
     /\ IF result = "ok" THEN Increment("deliveries") ELSE UNCHANGED count
     /\ Goto(t, IF result = "ok" /\ pc[t] = "sending" /\ twice THEN "resending"
                                                               ELSE "removing")
     /\ UNCHANGED <<db, todo, cache, history>>

Send(result) ==
  LET t == "dispatch"
      event == Head(copy[t].pending)
      twice == <<at[t], event.kind>> \in Duplicated
  IN /\ pc[t] \in {"sending", "resending"}
     /\ Charge(result)
     /\ IF Effective(result) THEN Deliver(event) ELSE UNCHANGED queue
     /\ IF result = "ok"
        THEN /\ Increment("deliveries")
             /\ Goto(t, IF pc[t] = "sending" /\ twice THEN "resending"
                                                     ELSE "removing")
        ELSE Finish(t) /\ UNCHANGED count
     /\ UNCHANGED <<db, todo, cache, history>>

RemoveHead(result) ==
  LET t == "dispatch"
  IN /\ pc[t] = "removing"
     /\ Save(t, HeadRemoved(copy[t]), result)
     /\ IF result = "ok"
        THEN /\ copy' = [copy EXCEPT ![t] = db'[at[t]]]
             /\ pc' = [pc EXCEPT ![t] = "removed"]
             /\ UNCHANGED <<holder, at>>
        ELSE Finish(t)
     /\ UNCHANGED <<queue, todo, cache, count, history>>

\* Variant: the loop does not see that the outbox has become empty.
CountPublishedOnward ==
  LET t == "dispatch"
  IN /\ pc[t] = "removed"
     /\ Increment("published")
     /\ Goto(t, "sending")
     /\ UNCHANGED <<durable, todo, cache, history, spent>>

CountPublished ==
  LET t == "dispatch"
  IN /\ pc[t] = "removed"
     /\ Increment("published")
     /\ IF copy[t].pending = <<>> THEN Finish(t) ELSE Goto(t, "sending")
     /\ UNCHANGED <<durable, todo, cache, history, spent>>

-----------------------------------------------------------------------------
(* EventProcessor, run by the listener thread of each topic *)

Record(k, p) == Head(queue[k][p])

\* The record listener k works on.
Current(k) == Record(k, PartitionOf[at[k]])

\* Variant: only the cache is asked.
AlreadyCached(e) == <<e.order, Id(e)>> \in cache

AlreadyProcessed(e) ==
  \/ <<e.order, Id(e)>> \in cache
  \/ Contains(db[e.order].receipts, Id(e))

Receive(k, p) ==
  /\ pc[k] = "idle"
  /\ queue[k][p] # <<>>
  /\ Free(Record(k, p).order)
  /\ IF AlreadyProcessed(Record(k, p))
     THEN /\ Increment("duplicate")
          /\ at' = [at EXCEPT ![k] = Record(k, p).order]
          /\ pc' = [pc EXCEPT ![k] = "acking"]
          /\ UNCHANGED <<holder, copy>>
     ELSE Acquire(k, Record(k, p).order, "applying") /\ UNCHANGED count
  /\ UNCHANGED <<durable, todo, cache, history, spent>>

\* Receipt and downstream event are one document write.
Apply(k, result) ==
  /\ pc[k] = "applying"
  /\ Downstream(Current(k)) => CanStage(copy[k])
  /\ Save(k, Applied(copy[k], Current(k)), result)
  /\ applied' = IF Effective(result)
                  THEN [applied EXCEPT ![at[k]] = Append(@, Id(Current(k)))]
                  ELSE applied
  /\ IF result = "ok" THEN Goto(k, "marking") ELSE Finish(k)
  /\ UNCHANGED <<queue, todo, cache, count, issued>>

\* Variant: the listener waits for room with the lock held.
ApplyBlocked(k) ==
  /\ pc[k] = "applying"
  /\ Downstream(Current(k)) /\ ~CanStage(copy[k])
  /\ UNCHANGED vars

\* The outbox has no room for the downstream event: the record is retried.
ApplyRefused(k) ==
  /\ pc[k] = "applying"
  /\ Downstream(Current(k)) /\ ~CanStage(copy[k])
  /\ Finish(k)
  /\ UNCHANGED <<durable, todo, cache, count, history, spent>>

Mark(k) ==
  /\ pc[k] = "marking"
  /\ cache' = cache \cup {<<at[k], Id(Current(k))>>}
  /\ Increment("consumed")
  /\ IF Downstream(Current(k)) THEN Goto(k, "chaining") ELSE Leave(k)
  /\ UNCHANGED <<durable, todo, history, spent>>

\* Variant: the downstream event is not counted.
LeaveUncounted(k) ==
  /\ pc[k] = "chaining"
  /\ Leave(k)
  /\ UNCHANGED <<durable, todo, cache, count, history, spent>>

CountDownstream(k) ==
  /\ pc[k] = "chaining"
  /\ Increment("enqueued")
  /\ Leave(k)
  /\ UNCHANGED <<durable, todo, cache, history, spent>>

\* ack-mode record: the offset is committed once the listener has returned.
Commit(k) ==
  /\ pc[k] = "acking"
  /\ queue' = [queue EXCEPT ![k][PartitionOf[at[k]]] = Tail(@)]
  /\ Return(k)
  /\ UNCHANGED <<db, todo, cache, count, history, spent>>

\* The commit is lost (a rebalance took the partition): redelivery.
CommitLost(k) ==
  /\ pc[k] = "acking"
  /\ Spend("unacked")
  /\ Return(k)
  /\ UNCHANGED <<durable, todo, cache, count, history>>

-----------------------------------------------------------------------------
(* The cache is best effort, and the replica may stop at any point *)

Forget(id) ==
  /\ Spend("forgets")
  /\ cache' = cache \ {id}
  /\ UNCHANGED <<durable, threads, todo, count, history>>

Crash ==
  /\ Spend("crashes")
  /\ holder' = [s \in Stripes |-> NoThread]
  /\ pc' = [t \in Threads |-> "idle"]
  /\ at' = [t \in Threads |-> NoOrder]
  /\ copy' = [t \in Threads |-> NewOrder]
  /\ todo' = [s \in Schedulers |-> {}]
  /\ cache' = {}
  /\ count' = [c \in Counters |-> 0]
  /\ UNCHANGED <<durable, history>>

-----------------------------------------------------------------------------
Caller(t) ==
  \/ \E outcome \in Outcomes(t), result \in Results :
       SaveStatusChange(t, outcome, result)
  \/ CountEnqueued(t)
  \/ CallFails(t)
  \/ StageRefused(t)

Scheduler(s) == Query(s) \/ \E o \in Orders : TakeCandidate(s, o)

Dispatcher == \E result \in Results : Send(result) \/ RemoveHead(result)

Listener(k) ==
  \/ \E p \in Partitions : Receive(k, p)
  \/ \E result \in Results : Apply(k, result)
  \/ ApplyRefused(k)
  \/ Mark(k)
  \/ CountDownstream(k)
  \/ Commit(k)
  \/ CommitLost(k)

Next ==
  \/ \E t \in Http, o \in Orders : HttpBegin(t, o)
  \/ \E s \in Schedulers : Scheduler(s)
  \/ \E t \in Callers : Caller(t)
  \/ Dispatcher
  \/ CountPublished
  \/ \E k \in Kinds : Listener(k)
  \/ \E id \in cache : Forget(id)
  \/ Crash

Spec == Init /\ [][Next]_vars
=============================================================================

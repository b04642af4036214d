-------------------------- MODULE OrderPipelineProps --------------------------
(***************************************************************************)
(* What makes the order pipeline correct: invariants, action properties,   *)
(* liveness under the fairness of the threads, and the refinement of       *)
(* OrderLedger.                                                            *)
(***************************************************************************)
EXTENDS OrderPipeline, FiniteSetsExt

-----------------------------------------------------------------------------
(* Where the events of an order are *)

Queued(o) == UNION {{e \in ToSet(queue[k][PartitionOf[o]]) : e.order = o} :
                      k \in Kinds}
Waiting(o) == ToSet(db[o].pending) \cup Queued(o)
Known(o) == {Id(e) : e \in Waiting(o)} \cup ToSet(applied[o])

\* The n-th smallest of a set of numbers.
Nth(S, n) == CHOOSE i \in S : Cardinality({j \in S : j <= i}) = n

\* The numbers of the events of a kind in a list of ids, first to last.
Places(ids, k) == {i \in DOMAIN ids : ids[i][1] = k}
NumbersIn(ids, k) ==
  [n \in 1 .. Cardinality(Places(ids, k)) |-> ids[Nth(Places(ids, k), n)][2]]

Numbers(o, k) == NumbersIn(applied[o], k)

-----------------------------------------------------------------------------
(* The locks *)

Locked == Steps \ {"idle", "acking"}
Reading == {"calling", "sending", "resending", "removing", "removed", "applying"}

\* OrderLocks.withOrder: a lock is held by exactly the thread that is inside
\* the locked section of an order of its stripe, and by nobody otherwise: no
\* two threads work on one stripe, and no exception leaves a lock behind.
LockDiscipline ==
  \A s \in Stripes, t \in Threads :
    holder[s] = t <=> /\ pc[t] \in Locked
                      /\ at[t] \in Orders
                      /\ StripeOf[at[t]] = s

\* D-003, one writer per order: the document a thread has read under the lock
\* is still the stored one when it decides and when it saves, so that neither
\* a lost update nor an optimistic-lock conflict can happen.
CopyIsCurrent ==
  \A t \in Threads : pc[t] \in Reading => copy[t] = db[at[t]]

\* What a thread has in hand while it works: each kind of thread goes through
\* its own steps on an order of the collection; the dispatcher has an event to
\* send; and the record a listener works on stays at the head of the partition
\* of its order until the listener commits it.
WorkInHand ==
  /\ \A t \in Callers : pc[t] \in {"idle", "calling", "saved"}
  /\ pc["dispatch"] \in {"idle", "sending", "resending", "removing", "removed"}
  /\ pc["dispatch"] \in {"sending", "resending", "removing"}
       => copy["dispatch"].pending # <<>>
  /\ \A k \in Kinds : pc[k] \in {"idle", "applying", "marking", "chaining", "acking"}
  /\ \A t \in Threads : pc[t] # "idle" => at[t] \in Orders
  /\ \A k \in Kinds : pc[k] # "idle" =>
       /\ queue[k][PartitionOf[at[k]]] # <<>>
       /\ Current(k).order = at[k]
  /\ \A k \in Kinds, p \in Partitions : \A i \in DOMAIN queue[k][p] :
       PartitionOf[queue[k][p][i].order] = p

-----------------------------------------------------------------------------
(* The events *)

\* Change, receipt and outbox are one document: a written status change, and
\* the account opening of an applied COMPLETED event, is at any time in the
\* outbox, in its topic or applied, whatever fails or crashes in between.
NothingLost ==
  \A o \in Orders : \A n \in DOMAIN issued[o] :
    /\ <<"status", n>> \in Known(o)
    /\ <<"status", n>> \in ToSet(applied[o]) /\ issued[o][n] = "COMPLETED"
         => <<"business", n>> \in Known(o)

\* No event without its cause: a staged, sent or applied status event
\* announces a status that was written under its number, a business event
\* comes from a COMPLETED event that was applied.
NothingInvented ==
  \A o \in Orders :
    /\ \A e \in Waiting(o) :
         e.kind = "status" => /\ e.n \in DOMAIN issued[o]
                              /\ e.status = issued[o][e.n]
    /\ \A id \in Known(o) :
         /\ id[2] \in DOMAIN issued[o]
         /\ id[1] = "business" => /\ issued[o][id[2]] = "COMPLETED"
                                  /\ <<"status", id[2]>> \in ToSet(applied[o])

\* Receipts are authoritative inside their window: an event is not applied to
\* an order a second time before EVENT_IDS others were, however often it is
\* redelivered and whatever the cache has forgotten.
AppliedOnceInWindow ==
  \A o \in Orders : \A i, j \in DOMAIN applied[o] :
    i < j /\ applied[o][i] = applied[o][j] => j - i > EventIds

\* Status events of an order are applied in the order of the changes they
\* announce, without a gap, as long as the receipt window is not exceeded.
AppliedInOrder ==
  \A o \in Orders :
    Len(applied[o]) <= EventIds =>
      \A i \in DOMAIN Numbers(o, "status") : Numbers(o, "status")[i] = i

\* No order has applied more events than the receipt window holds.
Fits == \A o \in Orders : Len(applied[o]) <= EventIds

-----------------------------------------------------------------------------
(* The counters that drain detection and run validation compare *)

\* The places in a family of sequences.
Slots(f) == UNION {{<<x, i>> : i \in DOMAIN f[x]} : x \in DOMAIN f}

Staged == Slots([o \in Orders |-> db[o].pending])
Records == Slots([kp \in Kinds \X Partitions |-> queue[kp[1]][kp[2]]])
Applications == Slots(applied)
KnownEvents == UNION {{<<o, id>> : id \in Known(o)} : o \in Orders}

Quiet == \A t \in Threads : pc[t] = "idle"
Exact == spent["unacked"] = 0 /\ spent["crashes"] = 0

\* While every effect was acknowledged and the replica has not restarted, the
\* counters account for every event whenever no operation is under way: those
\* enqueued are known (none is applied twice while the receipts fit), those not
\* yet published are in an outbox, those consumed were applied, and every
\* delivery is consumed, counted as a duplicate or still in its topic (the
\* balance validate-run.py:93 demands of an empty topic).
CountersAccount ==
  Quiet /\ Exact =>
    /\ Fits => count["enqueued"] = Cardinality(KnownEvents)
    /\ count["enqueued"] = count["published"] + Cardinality(Staged)
    /\ count["consumed"] = Cardinality(Applications)
    /\ count["deliveries"] =
         count["consumed"] + count["duplicate"] + Cardinality(Records)

-----------------------------------------------------------------------------
(* What a step may never do *)

Writes(t, o) == at[t] = o /\ pc[t] = "calling" /\ db'[o] # db[o]

\* StatusPollingScheduler.pollOne: the poll result is written to an order only
\* if the order is waiting at that moment, however old the page is in which
\* the scheduler found it.
PollWritesOnlyWaiting ==
  [][\A o \in Orders : Writes("poll", o) => db[o].status = "WAITING"]_vars

\* OrderFlowService.retry: the retry scheduler adds an attempt only to an order
\* that is failed at that moment and never brings an order above the limit.
RetryStaysInLimit ==
  [][\A o \in Orders : Writes("retry", o) =>
       /\ db[o].status = "FAILED"
       /\ db'[o].attempts <= RetryLimit]_vars

-----------------------------------------------------------------------------
(* Fairness and liveness *)

\* The schedulers run again and again, a listener reads every partition, a
\* thread that keeps asking for a lock gets it (ReentrantLock serves its queue)
\* and a thread that holds one goes on.
Fairness ==
  /\ \A s \in Schedulers : /\ WF_vars(Query(s))
                           /\ SF_vars(\E o \in Orders : TakeCandidate(s, o))
  /\ \A t \in Callers : WF_vars(Caller(t))
  /\ WF_vars(Dispatcher)
  /\ WF_vars(CountPublished)
  /\ \A k \in Kinds :
       /\ \A p \in Partitions : SF_vars(Receive(k, p))
       /\ WF_vars(pc[k] # "idle" /\ Listener(k))

FairSpec == Spec /\ Fairness

Settled ==
  /\ \A o \in Orders : /\ db[o].pending = <<>>
                       /\ db[o].status # "WAITING"
                       /\ ~Retryable(db[o])
  /\ \A k \in Kinds, p \in Partitions : queue[k][p] = <<>>

\* Once requests stop and calls succeed again, the background work ends: no
\* order waits or is to be retried, outboxes and topics are empty for good.
EventuallySettled == <>[]Settled

\* What OrderLedger sees of the pipeline.
Delivered ==
  [o \in Orders |-> [i \in DOMAIN Numbers(o, "status") |->
                      issued[o][Numbers(o, "status")[i]]]]
AccountsOpened == [o \in Orders |-> Numbers(o, "business")]

Ledger == INSTANCE OrderLedger WITH delivered <- Delivered, opened <- AccountsOpened

\* The pipeline delivers exactly once and in order ...
ImplementsLedger == Ledger!Spec

\* ... and it does deliver: every status change is eventually applied, and
\* every applied completion eventually opens the account.
DeliversLedger == Ledger!Fairness
=============================================================================

------------------------------ MODULE DrainCheck ------------------------------
(***************************************************************************)
(* The end of an experiment run: once k6 has ended, the runner polls       *)
(* /research/state and takes check-drained.py's word that the background   *)
(* work of the pipeline is finished.  ResearchStateController reads the    *)
(* database first and the counters after it, one by one, while the         *)
(* pipeline goes on.                                                       *)
(*                                                                         *)
(* ResearchMetrics.snapshot visits the counters in the order of the bins   *)
(* of its ConcurrentHashMap, which follows from their names:               *)
(* events_enqueued in bin 12 of 32, events_consumed in 17,                 *)
(* events_published in 22.                                                 *)
(*                                                                         *)
(* An answer that cannot pass any more is not read to its end.             *)
(***************************************************************************)
EXTENDS OrderPipelineProps

VARIABLES
  phase,     \* phase.txt of the run; "failed": the runner gave up
  answered,  \* k6 has ended with code 0: each of its requests was answered
  unread,    \* the orders that the aggregate of the bounds has still to visit
  next,      \* what the state request reads next
  seen       \* the number of the first counter read

reading == <<unread, next, seen>>
drainVars == <<vars, phase, answered, reading>>

DrainInit ==
  /\ Init
  /\ phase = "scenario"
  /\ answered = FALSE
  /\ unread = Orders /\ next = "bounds" /\ seen = 0

-----------------------------------------------------------------------------
\* A request that k6 has given up (after 15 s) or left behind may still be at work,
\* or wait for its turn, when k6 has ended.
Background ==
  /\ Next
  /\ answered => spent'["requests"] = spent["requests"]
  /\ UNCHANGED <<phase, answered, reading>>

\* The runner goes on to the drain whatever the exit code of k6 is; it is 0 only if no
\* request went unanswered.
LoadEnds ==
  /\ phase = "scenario"
  /\ phase' = "drain"
  /\ answered' \in {FALSE, \A t \in Http : pc[t] = "idle"}
  /\ UNCHANGED <<vars, reading>>

\* Variant: only the outbox is looked at.
OutboxClear(doc) == doc.pending = <<>>

\* What an order adds to the bounds that check-drained.py wants to be zero.
BoundsClear(doc) ==
  /\ doc.pending = <<>>
  /\ doc.status # "WAITING"
  /\ ~Retryable(doc)

\* A poll that fails is followed by another one.
Again == unread' = Orders /\ next' = "bounds" /\ seen' = 0

\* The aggregate visits one document after the other.
ReadBounds(o) ==
  /\ phase = "drain"
  /\ next = "bounds" /\ o \in unread
  /\ BoundsClear(db[o])
  /\ unread' = unread \ {o}
  /\ next' = IF unread' = {} THEN "enqueued" ELSE "bounds"
  /\ UNCHANGED <<vars, phase, answered, seen>>

ReadEnqueued ==
  /\ phase = "drain"
  /\ next = "enqueued"
  /\ seen' = count["enqueued"]
  /\ next' = "consumed"
  /\ UNCHANGED <<vars, phase, answered, unread>>

ReadConsumed ==
  /\ phase = "drain"
  /\ next = "consumed"
  /\ IF count["consumed"] = seen THEN next' = "published" /\ UNCHANGED <<unread, seen>>
                                 ELSE Again
  /\ UNCHANGED <<vars, phase, answered>>

\* The last counter, the file the answer is stored in, and the verdict on it.
ReadPublished ==
  /\ phase = "drain"
  /\ next = "published"
  /\ IF count["published"] = seen THEN phase' = "post-load-idle" /\ UNCHANGED reading
                                  ELSE Again /\ UNCHANGED phase
  /\ UNCHANGED <<vars, answered>>

\* The drain deadline passes, a state request fails or the collector dies.
GiveUp ==
  /\ phase = "drain"
  /\ phase' = "failed"
  /\ Again
  /\ UNCHANGED <<vars, answered>>

Poll == (\E o \in Orders : ReadBounds(o)) \/ ReadEnqueued \/ ReadConsumed \/ ReadPublished

DrainNext == Background \/ LoadEnds \/ Poll \/ GiveUp

DrainSpec == DrainInit /\ [][DrainNext]_drainVars

\* The runner polls until it has a verdict.  The threads of the pipeline go on, and the
\* dispatcher gets a lock it keeps asking for.
FairDrainSpec ==
  /\ DrainSpec
  /\ WF_drainVars(Poll)
  /\ \A s \in Schedulers : WF_vars(Scheduler(s))
  /\ SF_vars(Scheduler("dispatch"))
  /\ \A t \in Callers : WF_vars(Caller(t))
  /\ WF_vars(Dispatcher \/ CountPublished)
  /\ \A k \in Kinds : WF_vars(Listener(k))

-----------------------------------------------------------------------------
Drained == phase = "post-load-idle"

\* The status changes that were written and not yet applied.
Unapplied ==
  UNION {{<<o, <<"status", n>>>> : n \in {m \in DOMAIN issued[o] :
                              <<"status", m>> \notin ToSet(applied[o])}} : o \in Orders}

\* When the runner declares the drain of an answered workload complete, no order is
\* left waiting or to be retried and no thread works on one, and this stays so through
\* the phase that is measured as idle; the counters, read one by one as they are, hide
\* no more unapplied status changes than calls have failed.
LeftoversCharged ==
  Drained /\ answered =>
    /\ \A o \in Orders : db[o].status # "WAITING" /\ ~Retryable(db[o])
    /\ \A t \in Callers : pc[t] = "idle"
    /\ Exact /\ Fits => Cardinality(Unapplied) <= spent["faults"]

\* Polling /research/state comes to an end: as long as every effect was
\* acknowledged, the counters do agree at some point and the runner sees it.
DrainEnds ==
  phase = "drain" ~> phase \in {"post-load-idle", "failed"}

\* RESEARCH_PROTOCOL.md:46, after the drain the outbox is empty and all logical
\* events are published and processed.
DrainComplete ==
  Drained /\ answered => \A o \in Orders :
    /\ db[o].pending = <<>>
    /\ \A id \in Known(o) : id \in ToSet(applied[o])
=============================================================================

---------------------------- MODULE OrderDocument ----------------------------
(***************************************************************************)
(* The order aggregate as it is stored in MongoDB, and the pure part of    *)
(* what the services do to it.  An order keeps its status, the number of   *)
(* FNS attempts, the optimistic-lock version, the receipts of the Kafka    *)
(* events it has applied and the outbox of the events it has staged; all   *)
(* of it is one document, hence one atomic write.                          *)
(*                                                                         *)
(* Left out: payload, clients, fail messages, time stamps and the history  *)
(* list, none of which any guard of the code reads.                        *)
(***************************************************************************)
EXTENDS Integers, Sequences, SequencesExt

CONSTANTS
  Orders,       \* ids of the seeded orders
  RetryLimit,   \* FNS attempts after which an order is no longer retried (3)
  Outbox,       \* OrderBounds.OUTBOX: staged events an order may hold (256)
  EventIds      \* OrderBounds.EVENT_IDS: receipts an order keeps (1024)

ASSUME BoundsAssumption ==
  /\ RetryLimit \in Nat \ {0}
  /\ Outbox \in Nat \ {0}
  /\ EventIds \in Nat \ {0}

Status == {"NEW", "WAITING", "COMPLETED", "FAILED"}

\* A topic, the listener thread that reads it and the type of its events are
\* in one-to-one correspondence; all three go by these names.
Kinds == {"status", "business"}

\* Event n of an order's status topic; a business event has its parent's n.
Event == [kind: Kinds, order: Orders, n: Nat, status: Status]

EventId == Kinds \X Nat

Receipts == Seq(EventId)
Events == Seq(Event)

Doc == [status: Status, attempts: Nat, version: Nat,
        receipts: Receipts, pending: Events]

-----------------------------------------------------------------------------
(* Events and documents *)

Id(e) == <<e.kind, e.n>>

\* The random UUID of a status event is abstracted to its place n among the
\* status events of its order: fresh, and never used for another event.
StatusEvent(o, n, doc) ==
  [kind |-> "status", order |-> o, n |-> n, status |-> doc.status]

\* parentId + ":business"; the status is the order's status now, which need
\* not be the one the parent event announced.
BusinessEvent(parent, doc) ==
  [kind |-> "business", order |-> parent.order, n |-> parent.n,
   status |-> doc.status]

NewOrder == [status |-> "NEW", attempts |-> 0, version |-> 0,
             receipts |-> <<>>, pending |-> <<>>]

Retryable(doc) == doc.status = "FAILED" /\ doc.attempts < RetryLimit

-----------------------------------------------------------------------------
(* What the services change in the copy they read *)

\* OrderFlowService.processLocked: one more attempt; an expected fault of the
\* external service or a synthetic conflict fails the order.
Processed(doc, outcome) ==
  [doc EXCEPT !.attempts = @ + 1,
              !.status = IF outcome = "ok" THEN "WAITING" ELSE "FAILED"]

\* Variant: the Goskey process status is stored in place of the order status.
PolledRaw(doc, outcome) ==
  [doc EXCEPT !.status = IF outcome = "done" THEN "DONE" ELSE "FAILED"]

\* StatusPollingScheduler.pollOne: a final answer settles the order.
Polled(doc, outcome) ==
  [doc EXCEPT !.status = IF outcome = "done" THEN "COMPLETED" ELSE "FAILED"]

CanStage(doc) == Len(doc.pending) < Outbox

\* Variant: the outbox is a stack.
StageOnTop(doc, e) == [doc EXCEPT !.pending = <<e>> \o @]

Stage(doc, e) == [doc EXCEPT !.pending = Append(@, e)]

WithReceipt(doc, e) == [doc EXCEPT !.receipts = Append(@, Id(e))]

\* Variant: any status event has a business event.
DownstreamAlways(e) == e.kind = "status"

\* A COMPLETED status event makes its consumer stage a business event.
Downstream(e) == e.kind = "status" /\ e.status = "COMPLETED"

Applied(doc, e) ==
  IF Downstream(e) THEN Stage(WithReceipt(doc, e), BusinessEvent(e, doc))
                   ELSE WithReceipt(doc, e)

HeadRemoved(doc) == [doc EXCEPT !.pending = Tail(@)]

-----------------------------------------------------------------------------
(* repository.save: OrderBounds trims the receipts, the driver advances the *)
(* version                                                                  *)

KeepLast(s, n) == IF Len(s) > n THEN SubSeq(s, Len(s) - n + 1, Len(s)) ELSE s

Stored(doc) == [doc EXCEPT !.receipts = KeepLast(@, EventIds),
                           !.version = @ + 1]
=============================================================================

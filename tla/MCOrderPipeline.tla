---------------------------- MODULE MCOrderPipeline ----------------------------
(* Instances of OrderPipeline for TLC. *)
EXTENDS OrderPipelineProps

CONSTANTS o1, o2, h1, l1, p1

\* Two orders that share a lock and a partition.
OneStripe == [o \in Orders |-> l1]
OnePartition == [o \in Orders |-> p1]

\* Every event of the order o1 is sent twice, those of o2 are not.
DuplicatedEvents == {o1} \X Kinds

\* Only the business events of o1 are sent twice.
DuplicatedBusinessEvents == {<<o1, "business">>}
=============================================================================

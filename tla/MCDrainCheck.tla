----------------------------- MODULE MCDrainCheck -----------------------------
(* An instance of DrainCheck for TLC. *)
EXTENDS DrainCheck

CONSTANTS o1, o2, h1, l1, p1

OneStripe == [o \in Orders |-> l1]
OnePartition == [o \in Orders |-> p1]

\* No event is sent twice on purpose.
NoDuplicates == {}
=============================================================================

------------------------------ MODULE OrderLedger ------------------------------
(***************************************************************************)
(* What the pipeline promises about one order, without outbox, topics,     *)
(* locks or retries: every status change is delivered to the status        *)
(* consumer exactly once and in the order the changes were made, and every *)
(* delivered COMPLETED opens the account exactly once, again in order.     *)
(***************************************************************************)
EXTENDS Naturals, Sequences

CONSTANTS Orders, Status

VARIABLES
  issued,     \* the statuses each order went through
  delivered,  \* those of them the status consumer has seen
  opened      \* the places in issued whose account opening was consumed

vars == <<issued, delivered, opened>>

Init ==
  /\ issued = [o \in Orders |-> <<>>]
  /\ delivered = [o \in Orders |-> <<>>]
  /\ opened = [o \in Orders |-> <<>>]

Issue(o) ==
  /\ \E s \in Status : issued' = [issued EXCEPT ![o] = Append(@, s)]
  /\ UNCHANGED <<delivered, opened>>

Deliver(o) ==
  /\ Len(delivered[o]) < Len(issued[o])
  /\ delivered' = [delivered EXCEPT ![o] = Append(@, issued[o][Len(@) + 1])]
  /\ UNCHANGED <<issued, opened>>

Completions(o) == {n \in DOMAIN delivered[o] : delivered[o][n] = "COMPLETED"}
Opened(o) == {opened[o][i] : i \in DOMAIN opened[o]}

\* The oldest delivered completion that has not opened an account yet.
Open(o) ==
  /\ \E n \in Completions(o) \ Opened(o) :
       /\ \A m \in Completions(o) \ Opened(o) : n <= m
       /\ opened' = [opened EXCEPT ![o] = Append(@, n)]
  /\ UNCHANGED <<issued, delivered>>

Next == \E o \in Orders : Issue(o) \/ Deliver(o) \/ Open(o)

Fairness == \A o \in Orders : WF_vars(Deliver(o)) /\ WF_vars(Open(o))

Spec == Init /\ [][Next]_vars

FairSpec == Spec /\ Fairness
=============================================================================

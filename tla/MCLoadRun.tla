------------------------------ MODULE MCLoadRun ------------------------------
EXTENDS LoadRun

\* Hash codes on the limits of the modes, negative ones among them.
MCPlans ==
  {[profile |-> profile, rate |-> 1, unit |-> 25, duration |-> 100, pool |-> 3,
    seed |-> 4, seedOrders |-> 3, external |-> external, mongo |-> (0 :> 2 @@ 1 :> -99 @@ 2 :> 7)] :
     profile \in {"normal", "faults"},
     external \in {0 :> -98 @@ 1 :> -1 @@ 2 :> 107, 0 :> 9 @@ 1 :> 14 @@ 2 :> -97}}
  \cup
  {[profile |-> "faults", rate |-> 2, unit |-> 14, duration |-> 21, pool |-> 2,
    seed |-> 1, seedOrders |-> 3, external |-> 0 :> 8 @@ 1 :> 24, mongo |-> 0 :> 1 @@ 1 :> -1]}

MCOtherCounts == {0, 2, 4}
=============================================================================

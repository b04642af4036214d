\* Three ids in a cache of two; entries expire after two of five time units.
SPECIFICATION Spec
CONSTANTS
  e1 = e1
  e2 = e2
  e3 = e3
  Ids = {e1, e2, e3}
  Capacity = 2
  Ttl = 2
  MaxClock = 4
  MaxAccepted = 4
SYMMETRY Symmetry
INVARIANTS
  ForgetsForCause
  AcceptedOnce

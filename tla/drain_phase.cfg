\* The runner's drain check against the pipeline at work under its fairness: two
\* requests on one order, answered or left behind by k6, and a call that fails at any
\* point; no crash and no unacknowledged effect, which end the experiment.
SPECIFICATION FairDrainSpec
CONSTANTS
  o1 = o1
  o2 = o2
  h1 = h1
  l1 = l1
  p1 = p1
  NoThread = NoThread
  NoOrder = NoOrder
  Orders = {o1}
  Http = {h1}
  Stripes = {l1}
  StripeOf <- OneStripe
  Partitions = {p1}
  PartitionOf <- OnePartition
  Duplicated <- NoDuplicates
  RetryLimit = 1
  Outbox = 2
  EventIds = 8
  Page = 1
  MaxRequests = 2
  MaxFaults = 1
  MaxUnacked = 0
  MaxForgets = 0
  MaxCrashes = 0
CHECK_DEADLOCK FALSE
INVARIANTS
  LeftoversCharged
  AppliedInOrder
PROPERTIES
  DrainEnds

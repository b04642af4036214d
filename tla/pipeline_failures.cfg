\* One order, every event sent twice, the smallest receipt window; a call that fails,
\* an effect that is not acknowledged, a forgotten id and a crash, each once and at
\* any point.
SPECIFICATION Spec
CONSTANTS
  o1 = o1
  o2 = o2
  h1 = h1
  l1 = l1
  p1 = p1
  NoThread = NoThread
  NoOrder = NoOrder
  Orders = {o1}
  Http = {h1}
  Stripes = {l1}
  StripeOf <- OneStripe
  Partitions = {p1}
  PartitionOf <- OnePartition
  Duplicated <- DuplicatedEvents
  RetryLimit = 1
  Outbox = 2
  EventIds = 1
  Page = 1
  MaxRequests = 1
  MaxFaults = 1
  MaxUnacked = 1
  MaxForgets = 1
  MaxCrashes = 1
CHECK_DEADLOCK FALSE
INVARIANTS
  LockDiscipline
  NothingLost
  AppliedOnceInWindow

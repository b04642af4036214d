\* The pipeline implements OrderLedger and settles, with an outbox of one and every
\* event sent twice, while a call fails and two effects are not acknowledged.
SPECIFICATION FairSpec
CONSTANTS
  o1 = o1
  o2 = o2
  h1 = h1
  l1 = l1
  p1 = p1
  NoThread = NoThread
  NoOrder = NoOrder
  Orders = {o1}
  Http = {h1}
  Stripes = {l1}
  StripeOf <- OneStripe
  Partitions = {p1}
  PartitionOf <- OnePartition
  Duplicated <- DuplicatedEvents
  RetryLimit = 1
  Outbox = 1
  EventIds = 8
  Page = 1
  MaxRequests = 1
  MaxFaults = 1
  MaxUnacked = 2
  MaxForgets = 0
  MaxCrashes = 0
CHECK_DEADLOCK FALSE
PROPERTIES
  ImplementsLedger
  DeliversLedger
  EventuallySettled

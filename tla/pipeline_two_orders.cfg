\* Two orders that share a lock, a partition and a scheduler page of one; nothing fails.
\* All threads interleave; the receipt window is never exceeded.
SPECIFICATION Spec
CONSTANTS
  o1 = o1
  o2 = o2
  h1 = h1
  l1 = l1
  p1 = p1
  NoThread = NoThread
  NoOrder = NoOrder
  Orders = {o1, o2}
  Http = {h1}
  Stripes = {l1}
  StripeOf <- OneStripe
  Partitions = {p1}
  PartitionOf <- OnePartition
  Duplicated <- DuplicatedEvents
  RetryLimit = 2
  Outbox = 2
  EventIds = 8
  Page = 1
  MaxRequests = 2
  MaxFaults = 0
  MaxUnacked = 0
  MaxForgets = 0
  MaxCrashes = 0
CHECK_DEADLOCK FALSE
INVARIANTS
  TypeOK
  CopyIsCurrent
  WorkInHand
  NothingInvented
  CountersAccount
PROPERTIES
  PollWritesOnlyWaiting
  RetryStaysInLimit

\* Three orders and four requests at most; one failed insert, misbehaviour of the
\* service or lost answer, at any point.
SPECIFICATION Spec
CONSTANTS
  Plans <- MCPlans
  OtherCounts <- MCOtherCounts
  MaxVUs = 2
  MaxFaults = 1
CHECK_DEADLOCK FALSE
INVARIANTS
  SeededExactly
  PoolUsedEvenly
  OutcomesPredicted
  AdmittedAsPlanned
  LatencyAccounted

\* A reading whose CPU counter is in a malformed line; the clock is never set back.
SPECIFICATION Spec
CONSTANTS
  Interval = 200
  Planned <- MCPlanned
  Duration = 600
  Counters <- MCCounters
  Work <- MCWork
  Tick = 100
  Shift = 300
  MaxClock = 900
  MaxSetBacks = 0
  MaxMalformed = 1
CHECK_DEADLOCK FALSE
INVARIANTS
  FailureLeavesEvidence

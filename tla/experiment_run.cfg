\* An idle and a load scenario; commands fail, the script is interrupted up to two
\* times and may be killed at any point.
SPECIFICATION FairSpec
CONSTANTS
  MaxSignals = 2
CHECK_DEADLOCK FALSE
INVARIANTS
  PhasesInOrder
  EligibleRun
  ExitTells
PROPERTIES
  FirstCodeKept
  RunEnds

\* Two wrappers and two runs; kills, failed experiments and changes of the
\* environment at any point.
SPECIFICATION FairSpec
CONSTANTS
  Wrappers <- MCWrappers
  Runs = 2
  MaxKills = 2
  MaxFailures = 1
  MaxChanges = 1
CHECK_DEADLOCK FALSE
INVARIANTS
  OneExperiment
  ZeroMarkerIsTrue
  CompleteMeansVerified
  AttemptsPreserved
  Comparable
PROPERTIES
  VerifiedStays
  FingerprintOnlyAccepted
  SeriesCompletes

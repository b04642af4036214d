\* A sample measured in one phase and filed under the next.
SPECIFICATION Spec
CONSTANTS
  MaxSignals = 0
CHECK_DEADLOCK FALSE
INVARIANTS
  SampleOfItsPhase

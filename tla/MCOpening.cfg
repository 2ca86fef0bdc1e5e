SPECIFICATION Spec
CONSTANTS
  N = 3
  Cap = 2
  Faults = 1
  Gap = 1
  Programs <- MCPrograms
  OpenC <- MCOpenC
CHECK_DEADLOCK FALSE
INVARIANT SameRound
INVARIANT NothingUnchecked
PROPERTY AllEnd

\* A change during the round that an earlier change triggered.
SPECIFICATION Spec
CONSTANTS
  StartDelay = 1
  Debounce = 1
  IdleInterval = 4
  BackoffBase = 1
  MaxTime = 6
  MaxWrites = 2
  MaxManual = 1
  MaxFailures = 3
INVARIANT ChangeKeepsDebounce
\* The clock stops at MaxTime.
CHECK_DEADLOCK FALSE

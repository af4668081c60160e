\* Changes at any time, one manual round, up to three failures in a row.
SPECIFICATION Spec
CONSTANTS
  StartDelay = 1
  Debounce = 1
  IdleInterval = 4
  BackoffBase = 1
  MaxTime = 5
  MaxWrites = 2
  MaxManual = 1
  MaxFailures = 3
INVARIANTS TypeOK NoLostWakeup DueWithinIdleInterval
PROPERTIES OnlyOutcomesPostpone NoHotLoop
\* The clock stops at MaxTime.
CHECK_DEADLOCK FALSE

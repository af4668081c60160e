\* Four daemons, two restarts, two commands and a host that may die once.
SPECIFICATION Spec
CONSTANTS
  RestartBudget = 2
  MaxSpawns = 4
  MaxCommands = 2
  MaxLaunches = 2
INVARIANTS TypeOK EngineAccounted
PROPERTY CrashIsHandled
CHECK_DEADLOCK FALSE

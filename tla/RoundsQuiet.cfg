\* Every local operation, between rounds; two of them, one failure.  No record
\* fails to apply: a library that could not take a record is not expected to
\* show it.
SPECIFICATION FairSpec
CONSTANTS
  NoRow = NoRow
  NoDoc = NoDoc
  Tomb = Tomb
  Device = {1, 2}
  Now = {1}
  PullPageLimit = 1
  PushBatchLimit = 2
  MergeRoundsMax = 4
  MaxEdits = 2
  MaxEditsEach = 2
  MaxCopies = 2
  MaxFailures = 1
  MaxUnapplied = 0
  Operations = {"title", "body", "trash", "restore", "delete", "purge", "switch"}
  EditsDuringRounds = FALSE
INVARIANTS TypeOK SettledAgrees BodiesKept NothingLeftBehind
PROPERTY EventuallyConverged

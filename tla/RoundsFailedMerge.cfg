\* A snippet is trashed on both devices during their rounds.
SPECIFICATION Spec
CONSTANTS
  NoRow = NoRow
  NoDoc = NoDoc
  Tomb = Tomb
  Device = {1, 2}
  Now = {1}
  PullPageLimit = 1
  PushBatchLimit = 2
  MergeRoundsMax = 4
  MaxEdits = 4
  MaxEditsEach = 2
  MaxCopies = 2
  MaxFailures = 0
  MaxUnapplied = 0
  Operations = {"body", "trash"}
  EditsDuringRounds = TRUE
INVARIANT FailedMergeMeetsHeadAgain

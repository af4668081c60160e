\* A body edit between push and pull of a round is overwritten.
SPECIFICATION Spec
CONSTANTS
  NoRow = NoRow
  NoDoc = NoDoc
  Tomb = Tomb
  Device = {1, 2}
  Now = {1}
  PullPageLimit = 1
  PushBatchLimit = 2
  MergeRoundsMax = 4
  MaxEdits = 2
  MaxEditsEach = 1
  MaxCopies = 1
  MaxFailures = 0
  MaxUnapplied = 0
  Operations = {"body"}
  EditsDuringRounds = TRUE
INVARIANT BodiesKept

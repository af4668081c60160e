\* Edits during rounds, a lost reply or a restart, sync switched off and on.
SPECIFICATION Spec
CONSTANTS
  NoRow = NoRow
  NoDoc = NoDoc
  Tomb = Tomb
  Device = {1, 2}
  Now = {1}
  PullPageLimit = 1
  PushBatchLimit = 2
  MergeRoundsMax = 4
  MaxEdits = 3
  MaxEditsEach = 2
  MaxCopies = 2
  MaxFailures = 1
  MaxUnapplied = 1
  Operations = {"body", "trash", "switch"}
  EditsDuringRounds = TRUE
INVARIANTS ShadowTracksServer QueueIntact
PROPERTIES ShadowAdvances ImplementsLog

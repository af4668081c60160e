\* Three edits or deletions on two devices, one failed round, restart or file
\* passed unapplied.
SPECIFICATION Spec
CONSTANTS
  NoRow = NoRow
  NoDoc = NoDoc
  Tomb = Tomb
  Device = {1, 2}
  Now = {1}
  Operations = {"body", "trash"}
  MaxEdits = 3
  MaxCopies = 3
  MaxFailures = 1
INVARIANTS TypeOK AppliedIsPublished SettledAgrees BodiesKeptOnce
PROPERTIES ReadIsKnown
CHECK_DEADLOCK FALSE

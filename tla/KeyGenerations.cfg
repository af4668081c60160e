\* Three devices, one record; two rotations, vault grants, crashes or failed
\* requests in any mixture; one record, key message or device cut off by a
\* revocation.
SPECIFICATION Spec
CONSTANTS
  a = a
  b = b
  c = c
  Device = {a, b, c}
  First = a
  Writer = {b, c}
  MaxRecords = 1
  MaxBusy = 2
  MaxTrouble = 2
  MaxBarred = 1
SYMMETRY Symmetry
INVARIANTS TypeOK KeysNotLost
PROPERTIES RecordsAwaitKeys
CHECK_DEADLOCK FALSE

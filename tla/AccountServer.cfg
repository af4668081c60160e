\* Two requests in flight over three devices, one pairing session, a restart.
SPECIFICATION Spec
CONSTANTS
  Nobody = Nobody
  Device = {d1, d2, d3}
  Slot = {s1}
  Request = {r1, r2}
  MaxChallenges = 3
SYMMETRY Symmetry
INVARIANTS TypeOK TrustAnchored DirectoryProvable SingleUse
PROPERTIES DevicesPermanent
CHECK_DEADLOCK FALSE

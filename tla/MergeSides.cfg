\* Three values tell base, local and remote apart.
SPECIFICATION SidesSpec
CONSTANTS
  Null = null
  Value = {v1, v2, v3}
  MaxUsage = 1
  MaxClock = 2
INVARIANTS SidesTypeOK MergeIsSymmetric EditsSurvive MergeSettles

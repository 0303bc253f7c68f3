SPECIFICATION Spec
CONSTANTS
  Sub = {u1}
  Issuers = {"U", "R", "M"}
  MaxEntries = 3
  MaxTime = 1
  MaxAudits = 1
  PageSize = 2
  MaxOmissions = 0
  MayMisjudge = FALSE
  NULL = NULL
SYMMETRY Symmetry
INVARIANT HonestNeverMissing
CHECK_DEADLOCK FALSE

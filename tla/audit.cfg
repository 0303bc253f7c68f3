SPECIFICATION Spec
CONSTANTS
  Sub = {u1}
  Issuers = {"M"}
  MaxEntries = 3
  MaxTime = 1
  MaxAudits = 2
  PageSize = 2
  MaxOmissions = 1
  MayMisjudge = TRUE
  NULL = NULL
SYMMETRY Symmetry
INVARIANTS OmissionCaught NoWrongVerdictPasses NoFalseAlarm
PROPERTY CheckpointsExtend
CHECK_DEADLOCK FALSE

SPECIFICATION Spec
CONSTANTS
  MaxCalls = 3
  Earlier = {k}
  Workers = 2
  Slots = 2
  NULL = NULL
INVARIANTS ExclusiveUse PrunedForGood
PROPERTY CallsEnd
CHECK_DEADLOCK FALSE

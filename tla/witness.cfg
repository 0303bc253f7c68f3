SPECIFICATION Spec
CONSTANTS
  Entry = {e1, e2}
  MaxTree = 3
  Logs <- ShownLogs
  Proofs <- Given
  Root <- TreeRoot
  Path <- TreePath
  Proves <- VerifyConsistency
  MaxSize = 9
  MaxForged = 5
  MaxLogEntries = 3
  MaxWaiting = 2
  MaxRestores = 1
  NULL = NULL
INVARIANTS ProofsExact OneHistory HeldOneHistory NoFalseRefusal
CHECK_DEADLOCK FALSE

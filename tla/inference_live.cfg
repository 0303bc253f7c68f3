SPECIFICATION FairSpec
CONSTANTS
  Sub = {u1, u2}
  Nonce = {n}
  NonceOf <- SharedNonce
  Modes = {"strict"}
  Scenarios = {"normal"}
  PreExecs = {FALSE}
  RequireRelay = FALSE
  Slots = 1
  MaxExecutions = 2
  BacklogLimit = 1
  MaxCalls = 0
  MaxFaults = 1
  UNKNOWN = UNKNOWN
  ERROR = ERROR
  NULL = NULL
INVARIANT NonceOnce
PROPERTIES RequestsEnd RelayFrees
CHECK_DEADLOCK FALSE

SPECIFICATION Spec
CONSTANTS
  Sub = {u1}
  Nonce = {u1}
  NonceOf <- OwnNonce
  Modes = {"observe", "protect", "strict"}
  Scenarios = {"normal", "response_tamper", "request_tamper", "missing_receipt", "missing_relay"}
  PreExecs = {FALSE, TRUE}
  RequireRelay = FALSE
  Slots = 2
  MaxExecutions = 2
  BacklogLimit = 1
  MaxCalls = 1
  MaxFaults = 1
  UNKNOWN = UNKNOWN
  ERROR = ERROR
  NULL = NULL
INVARIANTS OneStatement RepliesBacked ReleasedGenuine ReleasedRecorded
PROPERTIES RelayOnce ModelOnce DecisionFinal
CHECK_DEADLOCK FALSE

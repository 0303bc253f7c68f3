SPECIFICATION Spec
CONSTANTS
  Scenarios <- Chosen
  Near = 2
  Delays = {0, 900}
  Transforms = {{"identity"}, {"public-formatter-v1"}, {"identity", "public-formatter-v1"}, {"identity", "private"}}
  Formatter = "public-formatter-v1"
  Recomputable = {"identity", "public-formatter-v1"}
  LateThreshold = 1000
  Trusted = {"M"}
  HashOf <- Hashes
  AllowTools = FALSE
  MaxIndex = 3
  NULL = NULL
CHECK_DEADLOCK FALSE
INVARIANTS GatesExact HarmNeverUsed PassedIsGenuine FalsifiedIsFailed NoUnjustBlame HonestServed

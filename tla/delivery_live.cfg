SPECIFICATION FairSpec
CONSTANTS
  Sub = {u1}
  Request = {q1}
  MaxLogEntries = 4
  NoSub = NoSub
  NULL = NULL
  Slot = {k1, k2}
  Services = {"R"}
  Faulty = {"R"}
  QueueLimit = 5
  Bounded = TRUE
  MaxRequests = 1
  ServiceLimit = 2
  ServiceQueue = 3
  PartialRebuild = FALSE
  MaxFaults = 1
INVARIANTS
  NothingLost
  ContractBeforeUse
PROPERTIES
  ResponseStays
  OutboxesDrain
CHECK_DEADLOCK FALSE

SPECIFICATION FairSpec
CONSTANTS
  Sub = {u1}
  Request = {q1}
  MaxLogEntries = 5
  NoSub = NoSub
  NULL = NULL
  Slot = {k1}
  Services = {}
  Faulty = {}
  QueueLimit = 5
  Bounded = TRUE
  MaxRequests = 1
  ServiceLimit = 2
  ServiceQueue = 3
  PartialRebuild = FALSE
  MaxFaults = 1
PROPERTIES
  RetiredTSettles
CHECK_DEADLOCK FALSE

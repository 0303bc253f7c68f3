SPECIFICATION Spec
CONSTANTS
  Sub = {u1, u2}
  Request = {q1}
  MaxLogEntries = 5
  NoSub = NoSub
  NULL = NULL
  Slot = {k1, k2}
  Services = {}
  Faulty = {}
  QueueLimit = 6
  Bounded = TRUE
  MaxRequests = 2
  ServiceLimit = 2
  ServiceQueue = 3
  PartialRebuild = TRUE
  MaxFaults = 1
SYMMETRY SlotSymmetry
INVARIANTS
  HeldReceiptsBacked
  VerdictsReplayable
  MemoryFollowsJournal
  ContractFirst
  AdmittedNeverFull
PROPERTIES
  KeepsPromise
CHECK_DEADLOCK FALSE

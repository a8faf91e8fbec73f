CONSTANTS
  k1 = k1
  k2 = k2
  good = good
  bad = bad
  None = None
  Cores = {k1, k2}
  Consumers = {good, bad}
  Accounts = {svc}
  CoreOf <- MCCoreOf
  Reverting = {bad}
  Results = {r1, r2}
  Urls = {"url"}
  EXPIRY_TIME = 1
  ExternalExpiry = {0, 6}
  MaxUint = 6
  MaxTime = 3
  MaxRequests = 2
  MaxLogs = 3
SPECIFICATION Spec
INVARIANTS TypeOK ConsumerConsistent CommitmentAnnounced OngoingIsAnswerable
PROPERTIES AnsweredInTime ImplementsOneShot
CHECK_DEADLOCK FALSE

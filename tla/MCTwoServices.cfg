CONSTANTS
  core = core
  consumer = consumer
  svc = svc
  None = None
  NoResult = NoResult
  Cores = {core}
  Consumers = {consumer}
  Accounts = {svc}
  CoreOf <- MCCoreOf
  ServedCore <- MCServedCore
  AccountOf <- MCAccountOf
  Reverting = {}
  Results = {r1, r2}
  Urls = {"url"}
  EmptyUrl = ""
  Unsavable = {}
  EXPIRY_TIME = 1
  ExternalExpiry = {1}
  MaxUint = 6
  MaxTime = 3
  MaxRequests = 2
  MaxLogs = 2
  Services = {s1, s2}
  Threads = {t1, t2}
  CorePoolSize = 1
  QueueCapacity = 1
  MaxCrashes = 1
SPECIFICATION SystemSpec
SYMMETRY ThreadSymmetry
INVARIANTS SystemTypeOK ExclusiveProcessing DeliveredIsRecorded
CHECK_DEADLOCK FALSE

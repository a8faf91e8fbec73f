CONSTANTS
  core = core
  consumer = consumer
  svc = svc
  None = None
  NoResult = NoResult
  Cores = {core}
  Consumers = {consumer}
  Accounts = {svc}
  CoreOf <- MCCoreOf
  ServedCore <- MCServedCore
  AccountOf <- MCAccountOf
  Reverting = {}
  Results = {r1, r2}
  Urls = {"url"}
  EmptyUrl = ""
  Unsavable = {}
  EXPIRY_TIME = 1
  ExternalExpiry = {}
  MaxUint = 6
  MaxTime = 3
  MaxRequests = 1
  MaxLogs = 1
  Services = {s1}
  Threads = {t1}
  CorePoolSize = 1
  QueueCapacity = 1
  MaxCrashes = 0
SPECIFICATION SystemSpec
INVARIANTS SuccessMeansDelivered
CHECK_DEADLOCK FALSE

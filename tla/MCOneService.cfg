CONSTANTS
  core = core
  consumer = consumer
  svc = svc
  None = None
  NoResult = NoResult
  Cores = {core}
  Consumers = {consumer}
  Accounts = {svc}
  CoreOf <- MCCoreOf
  ServedCore <- MCServedCore
  AccountOf <- MCAccountOf
  Reverting = {}
  Results = {r1, r2}
  Urls = {"url", "", "long"}
  EmptyUrl = ""
  Unsavable = {"long"}
  EXPIRY_TIME = 1
  ExternalExpiry = {}
  MaxUint = 6
  MaxTime = 4
  MaxRequests = 3
  MaxLogs = 3
  Services = {s1}
  Threads = {t1, t2}
  CorePoolSize = 1
  QueueCapacity = 0
  MaxCrashes = 1
SPECIFICATION SystemSpec
SYMMETRY ThreadSymmetry
PROPERTIES FinishedRecordsStay
CHECK_DEADLOCK FALSE

CONSTANTS
  core = core
  consumer = consumer
  svc = svc
  None = None
  NoResult = NoResult
  Cores = {core}
  Consumers = {consumer}
  Accounts = {svc}
  CoreOf <- MCCoreOf
  ServedCore <- MCServedCore
  AccountOf <- MCAccountOf
  Reverting = {}
  Results = {r1, r2}
  Urls = {"url"}
  EmptyUrl = ""
  Unsavable = {}
  EXPIRY_TIME = 4
  ExternalExpiry = {}
  MaxUint = 6
  MaxTime = 4
  MaxRequests = 2
  MaxLogs = 2
  Services = {s1, s2}
  Threads = {t1}
  CorePoolSize = 1
  QueueCapacity = 1
  MaxCrashes = 0
SPECIFICATION FairSystemSpec
PROPERTIES AwaitedRequestsAreSettled
CHECK_DEADLOCK FALSE

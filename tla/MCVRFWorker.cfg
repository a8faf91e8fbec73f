CONSTANTS
  k1 = k1
  asking = asking
  key = key
  None = None
  NoResult = NoResult
  Cores = {k1, asking}
  HashIsPassed = {k1}
  Clients = {own, foreign}
  Foreign = {foreign}
  CoreOf <- MCCoreOf
  KeyOf <- MCKeyOf
  KeyHashes = {key, otherKey}
  Seeds = {seed}
  HashWindow = 1
  MaxBlock = 3
  MaxNonce = 1
  Platforms = {"fiscobcos2", "fiscobcos3"}
  Served <- MCServed
  ServiceKey = key
  Threads = {t1, t2}
  MaxEvents = 2
  MaxCrashes = 1
SPECIFICATION WorkerSpec
SYMMETRY ThreadSymmetry
INVARIANTS WorkerTypeOK ExclusiveProcessing DeliveredIsRecorded SuccessTellsRandomness ServiceRandomnessIsFixed PushedEventsAreKept
PROPERTIES OwnRecordsStay
CHECK_DEADLOCK FALSE

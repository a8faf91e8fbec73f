CONSTANTS
  k1 = k1
  k25519 = k25519
  own = own
  keyHash = keyHash
  None = None
  Cores = {k1, k25519}
  HashIsPassed = {k1}
  Clients = {own, foreign}
  Foreign = {foreign}
  CoreOf <- MCCoreOf
  KeyOf <- MCKeyOf
  KeyHashes = {keyHash}
  Seeds = {seed1, seed2}
  HashWindow = 1
  MaxBlock = 3
  MaxEvents = 3
  MaxNonce = 2
SPECIFICATION Spec
SYMMETRY SeedSymmetry
INVARIANTS TypeOK AssertionHolds ClientConsistent RandomnessIsItsOwn OwnRequestsAreServable
PROPERTIES ImplementsOneShot
CHECK_DEADLOCK FALSE

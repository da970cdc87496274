SPECIFICATION FairSpec
CONSTANTS
  alice = alice
  bob = bob
  Players <- MCPlayers
  Escrows = {}
  Settlements = {"dual", "retired"}
  Helpers = {"anonymizer"}
  Commitments = {}
  NoCommitment = NoCommitment
  Amounts = {1, 2}
  TTLs = {0, 1}
  Purse = 1
  PoolFloat = 0
  InitialTTL = 1
  U64Max = 4
  StartTime = 1
  LastOwnerTime = 2
  MaxTime = 3
  MaxLocked = 2
  Hands = {h1}
  Results <- OneResult
  Operators = {"op"}
  ProgramHashes = {}
  NoHash = NoHash
  NoDigest = NoDigest
  NoCm = NoCm
PROPERTIES SelfUnlock
CHECK_DEADLOCK FALSE

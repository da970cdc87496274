SPECIFICATION Spec
CONSTANTS
  alice = alice
  bob = bob
  Players <- MCPlayers
  Escrows = {"esc1", "esc2"}
  Settlements = {"dual"}
  Helpers = {}
  Commitments = {c1}
  NoCommitment = NoCommitment
  Amounts = {1, 2}
  TTLs = {}
  Purse = 2
  PoolFloat = 0
  InitialTTL = 1
  U64Max = 4
  StartTime = 1
  LastOwnerTime = 1
  MaxTime = 1
  MaxLocked = 2
  Hands = {h1}
  Results <- MCResults
  Operators = {"op"}
  ProgramHashes = {}
  NoHash = NoHash
  NoDigest = NoDigest
  NoCm = NoCm
INVARIANTS LockedWithinBalance
CHECK_DEADLOCK FALSE

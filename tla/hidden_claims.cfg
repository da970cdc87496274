SPECIFICATION Spec
CONSTANTS
  alice = alice
  bob = bob
  Players <- MCPlayers
  Escrows = {"esc1"}
  Settlements = {"dual"}
  Helpers = {}
  Commitments = {c1}
  NoCommitment = NoCommitment
  Amounts = {1}
  TTLs = {}
  Purse = 1
  PoolFloat = 0
  InitialTTL = 1
  U64Max = 4
  StartTime = 1
  LastOwnerTime = 1
  MaxTime = 1
  MaxLocked = 1
  Hands = {h1}
  Results <- OneResult
  Operators = {"op"}
  ProgramHashes = {ph}
  NoHash = NoHash
  NoDigest = NoDigest
  NoCm = NoCm
INVARIANTS HiddenClaimsPayable
CHECK_DEADLOCK FALSE

SPECIFICATION AnonymizerSpec
CONSTANTS
  alice = alice
  bob = bob
  Players <- MCPlayers
  Escrows = {"anonymizer"}
  Anonymizer = "anonymizer"
  Secrets = {s1}
  NoteIds = {n1}
  Settlements = {"dual"}
  Helpers = {}
  Commitments <- SecretCommitments
  NoCommitment = NoCommitment
  Amounts = {1}
  TTLs = {}
  Purse = 1
  PoolFloat = 0
  InitialTTL = 1
  U64Max = 4
  StartTime = 1
  LastOwnerTime = 1
  MaxTime = 1
  MaxLocked = 1
  Hands = {h1}
  Results <- MCResults
  Operators = {"op"}
  ProgramHashes = {}
  NoHash = NoHash
  NoDigest = NoDigest
  NoCm = NoCm
INVARIANTS SecretOpensClaim
CHECK_DEADLOCK FALSE

CONSTANTS
    Providers = {"starknet"}
    Ids = {1, 2}
    Empty = {}
    MaxPayAttempts = 2
    MaxEvents = 2
    MaxRestarts = 1
SPECIFICATION FairSpec
PROPERTIES VaultDepositsMinted
CHECK_DEADLOCK FALSE

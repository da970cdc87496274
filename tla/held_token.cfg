CONSTANTS
    Accounts = {a, b}
    TokensOf <- TwoStreets
    QueueCapacity = 2
    MaxHolds = 2
    MaxDead = 1
    MaxNonce = 2
    MaxDeliveries = 3
    MaxHand = 2
    MaxKey = 1
SPECIFICATION Spec
INVARIANTS HeldStaysPlayable
CHECK_DEADLOCK FALSE

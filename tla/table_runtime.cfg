CONSTANTS
    Accounts = {a, b}
    TokensOf <- TwoStreets
    QueueCapacity = 2
    MaxHolds = 2
    MaxDead = 1
    MaxNonce = 2
    MaxDeliveries = 3
    MaxHand = 2
    MaxKey = 1
SPECIFICATION FairSpec
INVARIANTS TypeOK
PROPERTIES ImplementsInbox HeldNotForever
CHECK_DEADLOCK FALSE

CONSTANTS
    Wallets = {a, b}
    MaxHand = 2
    MaxSeatings = 3
    MaxAttempts = 2
    Modes = {"linear"}
SPECIFICATION Spec
INVARIANTS NobodyWaitsForSettledHand
CHECK_DEADLOCK FALSE

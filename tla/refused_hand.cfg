CONSTANTS
    Wallets = {a, b}
    MaxHand = 2
    MaxSeatings = 3
    MaxAttempts = 2
    Modes = {"linear"}
SPECIFICATION Spec
INVARIANTS RefusedNeverSettles
CHECK_DEADLOCK FALSE

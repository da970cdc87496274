CONSTANTS
    Wallets = {a, b}
    MaxHand = 2
    MaxSeatings = 2
    MaxAttempts = 3
    Modes = {"dev", "appchain", "legacy", "linear", "proved", "snip36"}
SPECIFICATION FairSpec
INVARIANTS OneSubmissionAtATime
PROPERTIES FreedLeaversOweNothing RedeliveryEnds
CHECK_DEADLOCK FALSE

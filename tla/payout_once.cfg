CONSTANTS
    Payouts = {p1, p2}
    MaxRetries = 3
    MaxPosts = 3
    MaxRestarts = 1
SPECIFICATION FairSpec
INVARIANTS QueuedOnce
CHECK_DEADLOCK FALSE

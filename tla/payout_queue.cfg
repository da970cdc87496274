CONSTANTS
    Payouts = {p1, p2}
    MaxRetries = 3
    MaxPosts = 3
    MaxRestarts = 1
SPECIFICATION FairSpec
INVARIANTS TypeOK OneAttemptPending TransfersBounded
PROPERTIES EntriesResolve
CHECK_DEADLOCK FALSE

CONSTANTS
    Providers = {"mock", "starknet"}
    Ids = {1, 2, 3}
    Empty = {3}
    MaxPayAttempts = 2
    MaxEvents = 2
    MaxRestarts = 1
SPECIFICATION FairSpec
INVARIANTS PaymentsBounded QuietReportBalanced
PROPERTIES MarkedIsFinal DepositsMinted
CHECK_DEADLOCK FALSE

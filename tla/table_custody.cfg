SPECIFICATION FairSpec
CONSTANTS
  MaxPlayers = 2
  RakeBps = 2500
  RakeCap = 2
  SmallBlind = 1
  BigBlind = 2
  AnteMode = "bba"
  AnteAmount = 1
  RunItTwice = TRUE
  TimeBank = 1
  TimeBankRefill = 1
  BettingTimeout = 1
  MaxTotalBet = 9
  MaxSteps = 8
  BuyIns = {4}
  FundAmounts = {1}
  Kickable = {0, 1}
  Leavers = {0}
  Rankings <- WeakOrders
  MaxHands = 2
INVARIANTS CustodyCovered
PROPERTIES CustodyKept HandEnds
CHECK_DEADLOCK FALSE

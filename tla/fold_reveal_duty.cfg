SPECIFICATION Spec
CONSTANTS
  MaxPlayers = 3
  RakeBps = 2500
  RakeCap = 2
  SmallBlind = 1
  BigBlind = 2
  AnteMode = "none"
  AnteAmount = 0
  RunItTwice = TRUE
  TimeBank = 0
  TimeBankRefill = 0
  BettingTimeout = 1
  MaxTotalBet = 11
  MaxSteps = 8
  BuyIns = {3, 5}
  FundAmounts = {}
  Kickable = {1}
  Leavers = {}
  Rankings <- WeakOrders
  MaxHands = 2
INVARIANTS FoldEndsRevealDuty
CHECK_DEADLOCK FALSE

SPECIFICATION Spec
CONSTANTS
  MaxPlayers = 4
  RakeBps = 2500
  RakeCap = 2
  SmallBlind = 1
  BigBlind = 1
  AnteMode = "none"
  AnteAmount = 0
  RunItTwice = FALSE
  TimeBank = 0
  TimeBankRefill = 0
  BettingTimeout = 1
  MaxTotalBet = 4
  MaxSteps = 8
  BuyIns = {1}
  FundAmounts = {}
  Kickable = {}
  Leavers = {}
  Rankings <- WeakOrders
  MaxHands = 1
INVARIANT ShowdownSettleable
CHECK_DEADLOCK FALSE

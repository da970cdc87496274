SPECIFICATION Spec
CONSTANTS
  MaxPlayers = 3
  RakeBps = 2500
  RakeCap = 2
  Contributions = {0, 1, 2, 3, 5}
  Rankings <- WeakOrders
  Buttons = {1}
  NoPlan = NoPlan
INVARIANTS PlanConserves PotsMatchReference WinsWhatItMatched UncalledBetReturned RakeBounded
CHECK_DEADLOCK FALSE

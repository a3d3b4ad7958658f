SPECIFICATION MCSpec
CONSTANTS
  a = a
  b = b
  l1 = l1
  l2 = l2
  Flusher = Flusher
  Free = Free
  Traders <- Pair
  Markets = {1, 2}
  Orders = {1, 2}
  Liquidations = {l1, l2}
  Prices = {1000000, 1100000}
  Marks = {0, 1100000}
  Qtys = {1}
  MaxFills = 1
  Leverages = {50}
  MakerLeverage = 20
  Openings <- AllPortfolios
  Deposit <- Unlimited
  UsdScale = 1
  PriceScale <- OneScale
  FundingIndexes = {0, 1000}
  FaultKinds = {"refuse", "receipt", "read", "timeout", "crash"}
  MaxFaults = 1
INVARIANTS
  MirrorExact
  ChainCatchesUp
  PnlOnce
  NoWaitCycle
CHECK_DEADLOCK FALSE

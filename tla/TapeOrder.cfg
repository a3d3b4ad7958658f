SPECIFICATION MCSpec
CONSTANTS
  ActiveScenarios = {"tape"}
  Signers = {a, b}
  Nonces = {1, 2, 3}
  MaxSaves = 3
  MaxShutdowns = 1
  MaxCrashes = 2
  r1 = r1
  r2 = r2
  RiskMarkets = {r1, r2}
  RiskSizes <- SizeSet
  RiskMarks = {95, 100, 109, 117}
  RiskAmounts = {9}
  RISK_SCALE = 10
  RISK_BPS = 100
  RISK_MMR_BPS = 3
  WideBps = 10
  Scenarios <- ScenarioCorners
  AssetGroups <- OwnGroups
  ThresholdBps = 60
  KappaBps = 10
  LiquidityBps <- Spreads
  RhoBps <- Correlations
  BetaBps = 50
  MaxCollateral = 27
  EntryPrice = 100
  MaxFills = 3
  FillSizes <- FillSizeSet
  TapeHandlers = {1, 2}
  TapeWindow = 3
  TapeDay = 2
  TapePrices = {10, 20}
  TapeFills <- FillSet
  SeedSpans = {}
  TapeStart = 3
  MaxTapeTime = 7
  MaxTapeTrades = 3
  FUNDING_PREMIUM_WINDOW = 2
  FUNDING_RATE_CLAMP_BPS = 5
  RATE_UNIT = 2
  INDEX_UNIT = 4000
  MAX_ATTEMPTS = 2
  PythPrices = {4, 10000}
  TICK_DIVISOR = 10
  BookMids = {990, 1000, 1001}
  MaxFundingTime = 3
  MaxPolls = 3
  Portfolios = {p, q}
  KnownMarkets = {k1}
  OtherMarkets = {x}
  OiMarket = k1
  StartBlock = 1
  MAX_GET_LOGS_BLOCK_RANGE = 2
  MaxBlocks = 4
  FxMarkets = {f1}
  MaxPriceAge = 1
  MaxAfloat = 2
  PushTimes = {13, 14, 15, 16, 30, 31, 32}
  FeedHandlers = {1, 2}
  FeedSide = "bids"
  FeedTicks = {1, 2, 3}
  FeedQtys = {0, 1}
  MAX_DEPTH_LEVELS = 2
  Group = 2
  FeedCapacity = 2
  MaxMutations = 3
INVARIANT
  CandlesAscend
CHECK_DEADLOCK FALSE

SPECIFICATION MCSpec
CONSTANTS
  a = a
  b = b
  fund = fund
  cash = cash
  yield = yield
  h1 = h1
  h2 = h2
  fees = fees
  m1 = m1
  m2 = m2
  Accounts <- Everyone
  Fund = fund
  Traders = {a, b}
  Assets <- AssetList
  Cash = cash
  TierHaircuts <- Tiers
  PriceOf <- Prices
  Amounts = {7, 30}
  Batches <- BatchSet
  Sizes = {5}
  Marks = {90, 100, 120}
  MaxNotionals = {300, 5000}
  Requirements = {0, 35}
  Signed <- Terms
  Losses = {1, 2}
  Lifetime = 1
  MaxTime = 3
  MaxSteps = 5
  RoleSteps = 3
  BoundsEnabled = TRUE
  VaultAccount = a
  Holders = {h1, h2}
  FeeRecipient = fees
  FeeBps = {0, 2000}
  ShareAmounts = {5, 30}
  SCALE = 100
  BackstopMarkets = {m1, m2}
  Pnls <- Attested
  Draws = {1, 2}
  p1 = p1
  p2 = p2
  p3 = p3
  u1 = u1
  u2 = u2
  WINDOW_BLOCKS = 3
  Width = 12
  MaxBlock = 5
  OracleBlocks = 3
  FundingBlocks = 2
  EscrowBlocks = 3
  Trades <- TradeSet
  FeedPrices = {0, 96, 100, 104}
  MAX_STALENESS_SECONDS = 1
  DivergenceBps = {500}
  Bounds <- BoundSet
  PositionKeys = {p1, p2, p3}
  INDEX_SCALE = 10000
  FxPositions = {p1, p2}
  Rates <- RateSet
  SECONDS_PER_YEAR = 7
  FX_SCALE = 1000
  Users = {u1, u2}
  Bonds = {0, 1}
  Expiries = {0, 2, 4}
  OrderSizes = {1}
  MIN_RECYCLE_FEE = 1
  ExpiryWidth = 2
  MaxOrders = 3
INVARIANTS
  CustodyBacked
  SubsidyWithinAttestation
  PricesSound
  FundingForTimeOpen
  EscrowSound
PROPERTIES
  WithdrawKeepsMargin
  LiquidationSound
  VaultFair
CHECK_DEADLOCK FALSE

SPECIFICATION MCSpec
CONSTANTS
  Width = 2
  MaxTick = 8
  OrderIds = {1, 2, 3}
  ClobPrices = {0, 1, 2}
  ClobSizes <- ClobSizeSet
  ClobExpiries = {1, 2}
  Dynamic = TRUE
  SpreadBps = 1000
  MaxSpreadBps = 4000
  WidenBps = 5000
  InventoryRef = 2
  QuoteWindow = 3
  LookWindow = 2
  LookBps = 1500
  Cap = 2
  MaxHistory = 4
  Prices = {10, 20}
  MaxQty = 3
  MaxSteps = 5
  Slots = {1, 2, 3}
  HalfSpreads <- HalfSpreadSets
  Mids = {0, 100}
  QuoteSize = 10
  SkewPerUnit = 2
  Collaterals = {45, 90}
  MaxInventory = 900
  MAX_BATCH_SIZE = 2
  NOTIONAL_THRESHOLD = 2
  ProofTicks = {1, 2, 3}
  SweepQtys = {2, 6}
  MakerSizes = {1, 2, 3}
  MaxSweepFills = 4
  FieldModulus = 37
  FieldBits = 6
  BIAS = 12
  SHIFT = 3
  MarginSizes <- MarginSizeSet
  TrustedTerms = {0, 2}
INVARIANTS
  LadderExact
  ProofsDecide
PROPERTIES
  ClobInOrder
  MakersAgree
  BotKeepsTrack
CHECK_DEADLOCK FALSE

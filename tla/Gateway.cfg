SPECIFICATION Spec
CONSTANTS
  Never = Never
  Dynamic = FALSE
  SpreadBps = 1000
  MaxSpreadBps = 1000
  WidenBps = 0
  InventoryRef = 1
  QuoteWindow = 2
  LookWindow = 2
  LookBps = 2000
  Cap = 1
  MaxHistory = 2
  MaxRequests = 2
  Signers = {a, b}
  Nonces = {1, 2}
  Ticks = {10, 11}
  MaxSaneTick = 11
  Qtys = {1, 2}
  Tifs = {"GTC", "IOC", "FOK"}
  PostOnly = {TRUE, FALSE}
  Kinds = {"order", "offer", "cancel"}
  Warm = {10}
  Prices = {10}
  MaxPolls = 0
SYMMETRY Symmetry
INVARIANTS
  OutcomeAsPromised
CHECK_DEADLOCK FALSE

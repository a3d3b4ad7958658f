SPECIFICATION Spec
CONSTANTS
  Never = Never
  Dynamic = FALSE
  SpreadBps = 1000
  MaxSpreadBps = 1000
  WidenBps = 0
  InventoryRef = 1
  QuoteWindow = 2
  LookWindow = 2
  LookBps = 2000
  Cap = 1
  MaxHistory = 2
  MaxRequests = 3
  Signers = {a, b}
  Nonces = {1, 2}
  Ticks = {10}
  MaxSaneTick = 10
  Qtys = {1}
  Tifs = {"GTC"}
  PostOnly = {FALSE}
  Kinds = {"order", "cancel"}
  Warm = {10}
  Prices = {10}
  MaxPolls = 0
SYMMETRY Symmetry
INVARIANTS
  ZeroSum
  OrdersStayWithOwners
  OverfilledOnlyByRescue
CHECK_DEADLOCK FALSE

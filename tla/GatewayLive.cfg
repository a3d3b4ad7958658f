SPECIFICATION FairSpec
CONSTANTS
  Never = Never
  Dynamic = FALSE
  SpreadBps = 1000
  MaxSpreadBps = 1000
  WidenBps = 0
  InventoryRef = 1
  QuoteWindow = 2
  LookWindow = 2
  LookBps = 2000
  Cap = 1
  MaxHistory = 2
  MaxRequests = 2
  Signers = {a, b}
  Nonces = {1}
  Ticks = {10, 12}
  MaxSaneTick = 11
  Qtys = {1}
  Tifs = {"GTC", "IOC", "FOK"}
  PostOnly = {FALSE}
  Kinds = {"order", "offer", "cancel"}
  Warm = {}
  Prices = {10}
  MaxPolls = 1
PROPERTIES
  Answered
CHECK_DEADLOCK FALSE

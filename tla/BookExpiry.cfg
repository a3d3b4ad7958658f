SPECIFICATION MCSpec
CONSTANTS
  Owners = {o1, o2}
  MaxTick = 1
  MaxQty = 2
  MaxSlots = 2
  Times = {0, 1}
  Expiries = {1}
PROPERTIES
  ImplementsPriceTimeBook
  SubmitReturns

SPECIFICATION MCSpec
CONSTANTS
  Owners = {o1, o2}
  MaxTick = 1
  MaxQty = 2
  MaxSlots = 3
  Times = {0}
  Expiries = {}
SYMMETRY Symmetry
INVARIANTS
  TypeOK
  LinkIntegrity
  FreeListExact
  TouchExact
  NotCrossed
  NoOrderStranded
PROPERTIES
  ImplementsPriceTimeBook

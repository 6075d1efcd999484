SPECIFICATION Spec
CONSTANTS
  Orders = {o1, o2}
  Pays = {g1, g2}
  Calls = {p1, p2}
  NoPay = NoPay
  NoOrder = NoOrder
  RecheckOrders = 3
  MaxFailures = 1
SYMMETRY Symmetry
INVARIANTS TypeOK MoneyIsKept OrdersAreInReach
PROPERTIES ImplementsSettlement NoOrderPilesUp
CONSTRAINT SmallBill
CHECK_DEADLOCK FALSE

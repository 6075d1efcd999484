SPECIFICATION FairSpec
CONSTANTS
  Orders = {o1, o2}
  Pays = {g1}
  Calls = {p1}
  NoPay = NoPay
  NoOrder = NoOrder
  RecheckOrders = 1
  MaxFailures = 2
PROPERTIES SettledIsCredited CollectedIsSettled
CHECK_DEADLOCK FALSE

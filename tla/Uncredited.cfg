SPECIFICATION FairSpec
CONSTANTS
  Keys = {k1}
  Externals = {}
  GwRefunds = {g1}
  Calls = {p1}
  NoRefund = NoRefund
  NoGw = NoGw
  Paid = 2
  Earning <- PromotedRide
  MaxFailures = 1
PROPERTIES CapturedIsCredited
CHECK_DEADLOCK FALSE

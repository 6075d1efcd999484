SPECIFICATION FairSpec
CONSTANTS
  Keys = {k1}
  Externals = {}
  GwRefunds = {g1, g2}
  Calls = {p1}
  NoRefund = NoRefund
  NoGw = NoGw
  Paid = 2
  Earning <- PromotedRide
  MaxFailures = 2
PROPERTIES RequestsEnd ReturnedReachesTheDriver
CHECK_DEADLOCK FALSE

SPECIFICATION Spec
CONSTANTS
  Keys = {k1, k2}
  Externals = {e1, e2}
  GwRefunds = {g1, g2}
  Calls = {p1, p2}
  NoRefund = NoRefund
  NoGw = NoGw
  Paid = 2
  Earning <- PromotedRide
  MaxFailures = 1
SYMMETRY Symmetry
INVARIANTS TypeOK RequestsAreSafe BooksConverge OneEntryEach
PROPERTIES ReturnedIsFinal
CONSTRAINT RequestsOrDashboard
CHECK_DEADLOCK FALSE

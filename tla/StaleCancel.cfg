SPECIFICATION Spec
CONSTANTS
  Rides = {r1}
  Drivers = {d1, d2}
  Calls = {p1, p2}
  NoRide = NoRide
  NoDriver = NoDriver
  CustomerOf <- OwnCustomer
  CandidatesPerAttempt = 2
  MaxCancelRetries = 2
  MaxFailures = 0
SYMMETRY Symmetry
INVARIANT NormalFlowsReleaseDriver
CHECK_DEADLOCK FALSE

SPECIFICATION Spec
CONSTANTS
  Rides = {r1, r2, r3}
  Drivers = {d1}
  Calls = {p1, p2}
  NoRide = NoRide
  NoDriver = NoDriver
  CustomerOf <- LonersAndOthers
  CandidatesPerAttempt = 1
  MaxCancelRetries = 2
  MaxFailures = 0
SYMMETRY Symmetry
INVARIANTS IInv DriverIndexNeverFires OneOpenRidePerCustomer
CONSTRAINT TwoRidesBooked
CHECK_DEADLOCK FALSE

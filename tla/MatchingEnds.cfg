SPECIFICATION FairSpec
CONSTANTS
  Rides = {r1}
  Drivers = {d1}
  Calls = {p1, p2}
  NoRide = NoRide
  NoDriver = NoDriver
  CustomerOf <- OwnCustomer
  CandidatesPerAttempt = 1
  MaxCancelRetries = 2
  MaxFailures = 1

PROPERTIES MatchingEnds
CHECK_DEADLOCK FALSE

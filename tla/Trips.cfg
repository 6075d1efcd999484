CONSTANTS
  ReconRuns = {"m1", "m2"}
  ReconPages <- OnePage
  ReconMaxPages = 2
  ReconMaxFailures = 1
  PromoRides = {"r1", "r2", "r3"}
  PromoUserOf <- PromoUser
  PromoPerUserLimit = 1
  PromoLimits = {1, 2}
  PromoMaxFailures = 1
  CodeAttempts = {"p1", "p2"}
  CodeMaxGuesses = 2
  CodeMaxCodes = 3
  CodeMaxRequests = 2
  CodeMaxFailures = 1
  NoCodeMaxGuesses = 1
  NoCodeMaxCodes = 2
  NoCodeMaxRequests = 1
  NoCodeMaxFailures = 0
SPECIFICATION Spec
CONSTRAINT Bounds
ACTION_CONSTRAINT Turns
INVARIANTS ReconciliationHolds PlacesHold
PROPERTIES TripCodesHold CircuitsHold DriverMoneyHolds FollowingHolds ChargesHold
CHECK_DEADLOCK FALSE

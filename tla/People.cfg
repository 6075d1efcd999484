CONSTANTS
  SignUpForms = {"f1", "f2", "f3"}
  OwnedForms = {"f1", "f2"}
  RoleOfForm <- FormRole
  SignUpMaxCodes = 2
  SignUpMaxSteps = 4
  SignInRequests = {"p1", "p2"}
  SignInMaxSessions = 3
  SignInMaxTickets = 2
  SignInMaxBlocks = 1
  SendSenders = {"p1", "p2"}
  SendMaxAttempts = 2
  SendMaxPerWindow = 2
  SendMaxSends = 3
  SendMaxWindows = 2
  CheckSenders = {"p1"}
  CheckVerifiers = {"v1", "v2"}
  CheckMaxAttempts = 2
  CheckMaxPerWindow = 2
  CheckMaxSends = 2
  CheckMaxWindows = 1
  RatingRides = {"r1", "r2"}
  RatingStars = {1, 5}
  RatingTaps = {"t1", "t2"}
  RatingMaxErrors = 1
  ComplaintFilers = {"f1", "f2"}
  ComplaintAdmins = {"a1", "a2"}
  ComplaintMaxTickets = 2
  ComplaintMaxUpdates = 3
  BulkUsers = {1, 2, 3}
  BulkBatchSize = 2
  BulkAdmins = {"a1"}
  BulkSenders = {"s1", "s2"}
  BulkMaxEdits = 1
  BulkMaxBlocks = 1
  BulkMaxFailures = 1
  PhoneTokens = {"t1", "t2", "t3"}
  PhoneIssued <- PhoneOfToken
  PhonePeople = {"u1", "u2"}
  PhoneRequests = {"q1", "q2"}
  PhoneDeliveries = {"d1"}
  PhoneMaxPerUser = 1
  PhoneMaxRegistrations = 3
  PhoneMaxDeliveries = 1
  NoticeDrivers = {"d1", "d2"}
  NoticeRefunds = {0}
  NoticeMaxVersion = 6
  CentreNotes = {"n1", "n2"}
  CentreBatches <- TwoBatches
  CentreMaxReads = 2
  PushNotes = {"n1", "n2"}
  PushBatches <- TwoBatches
  PushDevices = {"p1", "p2"}
  PushMaxFailures = 1
  PushMaxCrashes = 1
  SosPresses = {"p1", "p2"}
  SosContacts = {"k1"}
  SosTeam = {"s1", "s2"}
  SosUpdateMax = 1
  SosMaxRecorded = 2
  SosMaxIncidents = 2
  SosMaxRounds = 3
  SosMaxCrashes = 1
  BookRequests = {"r1", "r2"}
  BookPhones = {"n1", "n2", "n3"}
  BookMax = 2
  BookMaxMade = 3
SPECIFICATION FairSpec
CONSTRAINT Bounds
ACTION_CONSTRAINT Turns
INVARIANTS SignUpHolds FeedbackHolds MessagesHold
PROPERTIES OneTimeCodesHold SessionsHold DeletionHolds LockIsFelt SafetyHolds 
CHECK_DEADLOCK FALSE

SPECIFICATION FairPracticeSpec
CONSTANTS
  Request <- Requests
  Unit <- Units
  KindOf <- Kinds
  UnitOf <- Units_Of
  SeedOf <- Seeds_Of
  Seed <- Seeds
  Cap = 2
  MaxTokens = 1
  MaxRequests = 3
  MaxFaults = 1
INVARIANTS PassIsAnnounced GuardMeansCompleted Accounted RecommendationOpen
PROPERTIES RouteForward EveryAnswerEnds
CHECK_DEADLOCK FALSE

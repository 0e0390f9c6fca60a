SPECIFICATION Spec
CONSTANTS
  Units = 2
  Seeds = 2
  First = 2
  Second = 1
  Lapse = 1
  MaxDay = 4
  MaxAnswers = 3
  Criterion <- Criteria
  UnknownId = "x"
  Malformed = Malformed
  MaxEntries = 3
  MaxGolden = 16
  MaxLines = 4
  Width = 4
  MaxScore = 2
  Budgets = {5, 10, 14}
  Checks <- TwoChecks
  Question <- Questions
  Points <- Worth
  KeyTo <- Keys
  Option = {"a", "b"}
  Blank = ""
  Threshold = 6000
  PassSkipUnits = {"1.3", "1.4"}
  FailBaselineUnits = {"0.1"}
  MaxAttempts = 3
  Learner = {l1, l2}
  Module = {"1.1", "12.1"}
  PhaseUnits = {"12.1"}
  CapstoneUnit = "12.1"
  MaxRows = 3
  l1 = l1
  l2 = l2
  p1 = p1
  p2 = p2
  p3 = p3
  d1 = d1
  d2 = d2
  Trainee = {"ann"}
  Said <- Messages
  SimSeat = {d1, d2}
  MaxSims = 2
  MaxTurns = 2
  MaxScores = 2
  MaxSimFaults = 1
  Peer = {p1, p2, p3}
  Cohort = {"w35"}
  Week = {1}
  PodSeat = {d1, d2}
  Capacity = 1
  Letters = 2
  MaxPods = 2
  MaxPosts = 1
  Reader = {"ann"}
  CohortWeek = {"w35"}
  Dispatch = {d1, d2}
  RouteLength = 2
  MaxMailFaults = 1
  Builder = {"ann", "ben"}
  Unit = {"0.1", "1.1"}
  GallerySeat = {d1, d2}
  Most = 2
  MaxBuilds = 2
  MaxShows = 3
INVARIANTS StageIsLongestChain DecayedIsReviewed ReviewInterleaved PassNeedsEveryCriterion GateStricterThanCalibration PassWasContained ExcerptFits PlacementSound MetricsConsistent ClearedIsEarned PodsBounded DigestOnce GalleryVerified
SYMMETRY ActorSymmetry
CHECK_DEADLOCK FALSE

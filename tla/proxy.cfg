SPECIFICATION FairSpec
CONSTANTS
  NoUnit = NoUnit
  NoRequest = NoRequest
  Request <- FourRequests
  Student <- Students
  Unit <- OneUnit
  StudentOf <- FourSentBy
  UnitOf <- FourSentFor
  Cap = 2
  UnitCap = 1
  MaxTokens = 2
  MaxFaults = 1
INVARIANTS StudentOvershoot Metered UnitOvershootPerStudent
PROPERTIES EveryRequestEnds
CHECK_DEADLOCK FALSE

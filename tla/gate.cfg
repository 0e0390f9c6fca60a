SPECIFICATION FairSpec
CONSTANTS
  Student <- OneStudent
  Unit <- Units
  Gate <- Gates
  UnitOf <- Clears
  Unlocks <- Opens
  RebateGate <- Rebates
  PlacementOpens <- Placements
  MaxEvents = 3
  MaxFaults = 2
  CommitInOrder = TRUE
INVARIANTS EmittedOnce PassedIsVerified UnlockedIsPassed BehindCursorApplied
PROPERTIES PassedInTheEnd

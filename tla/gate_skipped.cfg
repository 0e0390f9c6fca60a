SPECIFICATION Spec
CONSTANTS
  Student <- OneStudent
  Unit <- Units
  Gate <- Gates
  UnitOf <- Clears
  Unlocks <- Opens
  RebateGate <- Rebates
  PlacementOpens <- Placements
  MaxEvents = 3
  MaxFaults = 0
  CommitInOrder = FALSE
INVARIANTS BehindCursorApplied

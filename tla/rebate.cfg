SPECIFICATION FairSpec
CONSTANTS
  Rebate <- Rebates
  Configured <- Known
  Unit <- Units
  Window = 1
  MaxTime = 3
  MaxEvents = 2
  MaxFaults = 2
INVARIANTS EarnedByPassage
PROPERTIES ImplementsRebateLedger EarnerNeverRejected PendingSettles

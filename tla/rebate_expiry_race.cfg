SPECIFICATION Spec
CONSTANTS
  Rebate <- Rebates
  Configured <- Known
  Unit <- Units
  Window = 1
  MaxTime = 2
  MaxEvents = 2
  MaxFaults = 0
PROPERTIES ExpiryMeansNoPassage

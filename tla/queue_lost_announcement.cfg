SPECIFICATION FairSpec
CONSTANTS
  w1 = w1
  w2 = w2
  w3 = w3
  Submission <- OneSubmission
  Worker <- TwoWorkers
  NoSubmission = NoSubmission
  NoWorker = NoWorker
  FaultKind = {"db"}
  MaxFaults = 1
PROPERTIES EveryVerdictIssued

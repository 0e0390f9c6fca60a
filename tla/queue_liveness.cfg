SPECIFICATION FairSpec
CONSTANTS
  w1 = w1
  w2 = w2
  w3 = w3
  Submission <- OneSubmission
  Worker <- ThreeWorkers
  NoSubmission = NoSubmission
  NoWorker = NoWorker
  FaultKind = {"crash"}
  MaxFaults = 2
PROPERTIES EverySubmissionSettles

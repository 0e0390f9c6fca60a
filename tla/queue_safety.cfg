SPECIFICATION Spec
CONSTANTS
  w1 = w1
  w2 = w2
  w3 = w3
  Submission <- TwoSubmissions
  Worker <- TwoWorkers
  NoSubmission = NoSubmission
  NoWorker = NoWorker
  FaultKind <- AllFaults
  MaxFaults = 2
SYMMETRY WorkerSymmetry
INVARIANTS ExactlyOnce GradedIsIssued
PROPERTIES ImplementsLedger

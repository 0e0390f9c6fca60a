--------------------------- MODULE GradingQueueMC ----------------------------
(* Small instances of GradingQueue for TLC.                                *)
EXTENDS GradingQueue, TLC

CONSTANTS w1, w2, w3

OneSubmission  == {1}
TwoSubmissions == {1, 2}

TwoWorkers   == {w1, w2}
ThreeWorkers == {w1, w2, w3}

(* Workers run the same program: the safety runs may permute them.         *)
WorkerSymmetry == Permutations(Worker)
=============================================================================

---------------------------- MODULE GradingQueue -----------------------------
(***************************************************************************)
(* The submission queue of platform/grading: the rows of the submissions   *)
(* and verdicts tables, the verdict.issued events, and any number of       *)
(* worker.py processes that claim, grade, write, finish and reap.  Every   *)
(* database call of a worker is a step of its own (finish_submission, a    *)
(* two-statement transaction, is three), so workers interleave, crash and  *)
(* lose the database anywhere between two calls.                           *)
(*                                                                         *)
(* PostgreSQL runs the scripts at READ COMMITTED: each statement sees what *)
(* was committed when it started, and an UPDATE waits for a row another    *)
(* open transaction has updated.  rowLock is that waiting; scan and saw    *)
(* are the statement snapshots that are used after they were taken.        *)
(***************************************************************************)
EXTENDS Naturals, Sequences, FiniteSets

CONSTANTS
  Submission,     \* ids of submissions rows (one per student, unit, commit)
  Worker,         \* worker processes
  NoSubmission,   \* a worker holds no row
  NoWorker,       \* no open transaction has updated the row
  FaultKind,      \* the faults that may happen, among AllFaults
  MaxFaults       \* how many faults happen in one behaviour

AllFaults == {"crash", "db", "grade", "budget", "regrade"}

ASSUME SubmissionAssumption == Submission \subseteq Nat
ASSUME NullAssumption == NoSubmission \notin Submission /\ NoWorker \notin Worker
ASSUME FaultAssumption == FaultKind \subseteq AllFaults /\ MaxFaults \in Nat

Status    == {"absent", "queued", "grading", "graded", "error"}
Outcome   == {"pass", "fail"}
NoVerdict == "none"
Age       == {"fresh", "old", "claimOld"}
Pc        == {"reap", "recover", "requeue", "claim", "grade", "write",
              "finish", "insert", "commit", "fail", "block", "down"}

VARIABLES
  status,    \* submissions.status of each row
  age,       \* "old": created_at is KEEL_STALE_AFTER_S ago; "claimOld": so is its claim
  verdict,   \* verdicts.overall for the row, or NoVerdict
  issued,    \* the committed verdict.issued events of the row, by payload overall
  blocked,   \* the rows with a grade.budget_blocked event
  rowLock,   \* the worker whose open transaction has updated the row
  pc,        \* the database call (or grade) each worker makes next
  cur,       \* the row it processes or recovers
  outcome,   \* the overall it holds for that row
  recover,   \* reap_stale: the rows still to recover, read in one SELECT
  scan,      \* reap_stale: the rows its requeue UPDATE found
  saw,       \* finish_submission: its NOT EXISTS found a verdict.issued
  faults     \* faults so far

rows    == <<status, age, verdict, issued, blocked, rowLock>>
workers == <<pc, cur, outcome, recover, scan, saw>>
vars    == <<rows, workers, faults>>

TypeOK ==
  /\ status \in [Submission -> Status]
  /\ age \in [Submission -> Age]
  /\ verdict \in [Submission -> Outcome \cup {NoVerdict}]
  /\ issued \in [Submission -> Seq(Outcome)]
  /\ blocked \in SUBSET Submission
  /\ rowLock \in [Submission -> Worker \cup {NoWorker}]
  /\ pc \in [Worker -> Pc]
  /\ cur \in [Worker -> Submission \cup {NoSubmission}]
  /\ outcome \in [Worker -> Outcome \cup {NoVerdict}]
  /\ recover \in [Worker -> SUBSET Submission]
  /\ scan \in [Worker -> SUBSET Submission]
  /\ saw \in [Worker -> BOOLEAN]
  /\ faults \in Nat

Init ==
  /\ status = [s \in Submission |-> "absent"]
  /\ age = [s \in Submission |-> "fresh"]
  /\ verdict = [s \in Submission |-> NoVerdict]
  /\ issued = [s \in Submission |-> << >>]
  /\ blocked = {}
  /\ rowLock = [s \in Submission |-> NoWorker]
  /\ pc = [w \in Worker |-> "reap"]
  /\ cur = [w \in Worker |-> NoSubmission]
  /\ outcome = [w \in Worker |-> NoVerdict]
  /\ recover = [w \in Worker |-> {}]
  /\ scan = [w \in Worker |-> {}]
  /\ saw = [w \in Worker |-> FALSE]
  /\ faults = 0

Goto(w, label) == pc' = [pc EXCEPT ![w] = label]

(* The worker is done with its row: process_submission or the loop body    *)
(* returns and the local variables go.                                     *)
Drop(w) ==
  /\ cur' = [cur EXCEPT ![w] = NoSubmission]
  /\ outcome' = [outcome EXCEPT ![w] = NoVerdict]

Fault(kind) ==
  /\ kind \in FaultKind
  /\ faults < MaxFaults
  /\ faults' = faults + 1

Recovering(w) == cur[w] \in recover[w]

-----------------------------------------------------------------------------
(* The queue's environment.                                                *)

(* A push webhook stores a new submission.  A redelivery of a known one is *)
(* ON CONFLICT DO NOTHING: a stuttering step.                              *)
Push(s) ==
  /\ status[s] = "absent"
  /\ status' = [status EXCEPT ![s] = "queued"]
  /\ UNCHANGED <<age, verdict, issued, blocked, rowLock, workers, faults>>

(* Time passes: created_at falls behind the staleness threshold, and later *)
(* so does the moment of the current claim (which the code does not store).*)
TurnOld(s) ==
  /\ status[s] # "absent"
  /\ \/ age[s] = "fresh" /\ age' = [age EXCEPT ![s] = "old"]
     \/ /\ age[s] = "old" /\ status[s] = "grading"
        /\ age' = [age EXCEPT ![s] = "claimOld"]
  /\ UNCHANGED <<status, verdict, issued, blocked, rowLock, workers, faults>>

(* An operator forces a settled row back to queued (a regrade after a      *)
(* budget top-up, the poison redelivery of the worker's own tests).        *)
Regrade(s) ==
  /\ Fault("regrade")
  /\ status[s] \in {"graded", "error"} /\ rowLock[s] = NoWorker
  /\ status' = [status EXCEPT ![s] = "queued"]
  /\ UNCHANGED <<age, verdict, issued, blocked, rowLock, workers>>

-----------------------------------------------------------------------------
(* reap_stale                                                              *)

(* The SELECT of every grading row that already has a verdict.             *)
ReapSelect(w) ==
  /\ pc[w] = "reap"
  /\ recover' = [recover EXCEPT ![w] =
       {s \in Submission : status[s] = "grading" /\ verdict[s] # NoVerdict}]
  /\ Goto(w, "recover")
  /\ UNCHANGED <<rows, cur, outcome, scan, saw, faults>>

(* for r in rows: finish_submission(r)                                     *)
RecoverNext(w, s) ==
  /\ pc[w] = "recover" /\ s \in recover[w]
  /\ cur' = [cur EXCEPT ![w] = s]
  /\ outcome' = [outcome EXCEPT ![w] = verdict[s]]
  /\ Goto(w, "finish")
  /\ UNCHANGED <<rows, recover, scan, saw, faults>>

Stale(s) == status[s] = "grading" /\ age[s] # "fresh" /\ verdict[s] = NoVerdict

(* Faulty variant: a reaper that only recovers, and requeues nothing.      *)
ReapScanSkipped(w) ==
  /\ pc[w] = "recover" /\ recover[w] = {}
  /\ Goto(w, "claim")
  /\ UNCHANGED <<rows, cur, outcome, recover, scan, saw, faults>>

(* The requeue UPDATE starts: its snapshot decides which rows it will try. *)
ReapScan(w) ==
  /\ pc[w] = "recover" /\ recover[w] = {}
  /\ LET found == {s \in Submission : Stale(s)}
     IN  /\ scan' = [scan EXCEPT ![w] = found]
         /\ Goto(w, IF found = {} THEN "claim" ELSE "requeue")
  /\ UNCHANGED <<rows, cur, outcome, recover, saw, faults>>

(* It waits for open transactions on those rows, checks again that each is *)
(* still grading (not that it still has no verdict: the subquery keeps the *)
(* statement's snapshot) and commits.                                      *)
ReapRequeue(w) ==
  /\ pc[w] = "requeue"
  /\ \A s \in scan[w] : rowLock[s] = NoWorker
  /\ status' = [s \in Submission |->
       IF s \in scan[w] /\ status[s] = "grading" THEN "queued" ELSE status[s]]
  /\ scan' = [scan EXCEPT ![w] = {}]
  /\ Goto(w, "claim")
  /\ UNCHANGED <<age, verdict, issued, blocked, rowLock,
                 cur, outcome, recover, saw, faults>>

-----------------------------------------------------------------------------
(* claim_submission                                                        *)

Claimable == {s \in Submission : status[s] = "queued" /\ rowLock[s] = NoWorker}

(* ORDER BY id LIMIT 1 FOR UPDATE SKIP LOCKED: the oldest row nobody holds.*)
ClaimSubmission(w, s) ==
  /\ pc[w] = "claim"
  /\ s \in Claimable /\ \A t \in Claimable : s <= t
  /\ status' = [status EXCEPT ![s] = "grading"]
  /\ age' = [age EXCEPT ![s] = IF @ = "claimOld" THEN "old" ELSE @]
  /\ cur' = [cur EXCEPT ![w] = s]
  /\ Goto(w, "grade")
  /\ UNCHANGED <<verdict, issued, blocked, rowLock, outcome, recover, scan, saw, faults>>

ClaimNothing(w) ==
  /\ pc[w] = "claim" /\ Claimable = {}
  /\ Goto(w, "reap")
  /\ UNCHANGED <<rows, cur, outcome, recover, scan, saw, faults>>

-----------------------------------------------------------------------------
(* process_submission                                                      *)

(* grade_real: the LLM judge may well answer differently on a second run.  *)
GradeOk(w, o) ==
  /\ pc[w] = "grade"
  /\ outcome' = [outcome EXCEPT ![w] = o]
  /\ Goto(w, "write")
  /\ UNCHANGED <<rows, cur, recover, scan, saw, faults>>

(* GradeError: no submission directory, a failed layer or judge.           *)
GradeError(w) ==
  /\ pc[w] = "grade" /\ Fault("grade")
  /\ Goto(w, "fail")
  /\ UNCHANGED <<rows, cur, outcome, recover, scan, saw>>

(* BudgetBlocked: the proxy answered the judge 429 budget_exceeded.        *)
GradeBlocked(w) ==
  /\ pc[w] = "grade" /\ Fault("budget")
  /\ Goto(w, "block")
  /\ UNCHANGED <<rows, cur, outcome, recover, scan, saw>>

(* Faulty variants: ON CONFLICT DO UPDATE, and a loser that keeps the      *)
(* outcome it graded itself.                                               *)
WriteVerdictUpsert(w) ==
  /\ pc[w] = "write"
  /\ verdict' = [verdict EXCEPT ![cur[w]] = outcome[w]]
  /\ Goto(w, "finish")
  /\ UNCHANGED <<status, age, issued, blocked, rowLock, cur, outcome,
                 recover, scan, saw, faults>>

(* write_verdict: INSERT .. ON CONFLICT DO NOTHING, and on a conflict the  *)
(* outcome is the stored one.                                              *)
WriteVerdict(w) ==
  /\ pc[w] = "write"
  /\ LET s == cur[w]
         stored == IF verdict[s] = NoVerdict THEN outcome[w] ELSE verdict[s]
     IN  /\ verdict' = [verdict EXCEPT ![s] = stored]
         /\ outcome' = [outcome EXCEPT ![w] = stored]
  /\ Goto(w, "finish")
  /\ UNCHANGED <<status, age, issued, blocked, rowLock, cur, recover, scan, saw, faults>>

(* Faulty variants: no row lock (the event inserted in a transaction of    *)
(* its own), and a status that commits before the event (no BEGIN).        *)
FinishUpdateNoLock(w) ==
  /\ pc[w] = "finish"
  /\ Goto(w, "insert")
  /\ UNCHANGED <<rows, cur, outcome, recover, scan, saw, faults>>

FinishUpdateAutocommit(w) ==
  /\ pc[w] = "finish" /\ rowLock[cur[w]] = NoWorker
  /\ status' = [status EXCEPT ![cur[w]] = "graded"]
  /\ rowLock' = [rowLock EXCEPT ![cur[w]] = w]
  /\ Goto(w, "insert")
  /\ UNCHANGED <<age, verdict, issued, blocked, cur, outcome, recover, scan, saw, faults>>

(* finish_submission, first statement: the UPDATE takes the row and keeps  *)
(* it until the transaction ends.                                          *)
FinishUpdate(w) ==
  /\ pc[w] = "finish" /\ rowLock[cur[w]] = NoWorker
  /\ rowLock' = [rowLock EXCEPT ![cur[w]] = w]
  /\ Goto(w, "insert")
  /\ UNCHANGED <<status, age, verdict, issued, blocked,
                 cur, outcome, recover, scan, saw, faults>>

(* Second statement: the snapshot its NOT EXISTS is evaluated on.          *)
FinishInsert(w) ==
  /\ pc[w] = "insert"
  /\ saw' = [saw EXCEPT ![w] = issued[cur[w]] # << >>]
  /\ Goto(w, "commit")
  /\ UNCHANGED <<rows, cur, outcome, recover, scan, faults>>

(* COMMIT: status, event and lock release become visible together.         *)
Commit(w, s) ==
  /\ pc[w] = "commit" /\ s = cur[w]
  /\ status' = [status EXCEPT ![s] = "graded"]
  /\ issued' = [issued EXCEPT ![s] = IF saw[w] THEN @ ELSE Append(@, outcome[w])]
  /\ rowLock' = [rowLock EXCEPT ![s] = NoWorker]

FinishCommit(w) ==
  /\ Commit(w, cur[w])
  /\ recover' = [recover EXCEPT ![w] = @ \ {cur[w]}]
  /\ Goto(w, IF Recovering(w) THEN "recover" ELSE "reap")
  /\ saw' = [saw EXCEPT ![w] = FALSE]
  /\ Drop(w)
  /\ UNCHANGED <<age, verdict, blocked, scan, faults>>

(* run_worker's handler: UPDATE .. SET status = 'error', whatever it was.  *)
MarkError(w) ==
  /\ pc[w] = "fail" /\ rowLock[cur[w]] = NoWorker
  /\ status' = [status EXCEPT ![cur[w]] = "error"]
  /\ Goto(w, "reap")
  /\ Drop(w)
  /\ UNCHANGED <<age, verdict, issued, blocked, rowLock, recover, scan, saw, faults>>

(* budget_block: the same UPDATE and one grade.budget_blocked event.       *)
BudgetBlock(w) ==
  /\ pc[w] = "block" /\ rowLock[cur[w]] = NoWorker
  /\ status' = [status EXCEPT ![cur[w]] = "error"]
  /\ blocked' = blocked \cup {cur[w]}
  /\ Goto(w, "reap")
  /\ Drop(w)
  /\ UNCHANGED <<age, verdict, issued, rowLock, recover, scan, saw, faults>>

-----------------------------------------------------------------------------
(* Failures.                                                               *)

(* The locks of the worker's open transaction, if it has one, are released *)
(* and nothing of the transaction stays.                                   *)
Rollback(w) ==
  rowLock' = [s \in Submission |-> IF rowLock[s] = w THEN NoWorker ELSE rowLock[s]]

(* Where run_worker goes on when the db_sql at this point raises: the      *)
(* reaper's and the claim's errors are logged and skipped, an error while  *)
(* processing marks the row, and a failed mark gives the row up.           *)
AfterDbError(w) ==
  CASE pc[w] \in {"reap", "recover", "requeue"} \/ Recovering(w) -> "claim"
    [] pc[w] \in {"claim", "fail"} -> "reap"
    [] OTHER -> "fail"

(* db_sql raises: the psql session of this call failed and rolled back.    *)
DbFail(w) ==
  /\ pc[w] \notin {"grade", "down"} /\ Fault("db")
  /\ pc[w] = "recover" => recover[w] = {}
  /\ Rollback(w)
  /\ Goto(w, AfterDbError(w))
  /\ IF AfterDbError(w) = "fail"
       THEN UNCHANGED <<cur, outcome>>
       ELSE Drop(w)
  /\ recover' = [recover EXCEPT ![w] = {}]
  /\ scan' = [scan EXCEPT ![w] = {}]
  /\ saw' = [saw EXCEPT ![w] = FALSE]
  /\ UNCHANGED <<status, age, verdict, issued, blocked>>

(* db_sql raises although finish_submission's COMMIT went through: psql    *)
(* fails before it could say so.                                           *)
FinishReplyLost(w) ==
  /\ Fault("db")
  /\ Commit(w, cur[w])
  /\ Goto(w, AfterDbError(w))
  /\ IF Recovering(w) THEN Drop(w) ELSE UNCHANGED <<cur, outcome>>
  /\ recover' = [recover EXCEPT ![w] = {}]
  /\ saw' = [saw EXCEPT ![w] = FALSE]
  /\ UNCHANGED <<age, verdict, blocked, scan>>

(* The process dies; the server aborts its open transaction.               *)
Crash(w) ==
  /\ pc[w] # "down" /\ Fault("crash")
  /\ Rollback(w)
  /\ Goto(w, "down")
  /\ Drop(w)
  /\ recover' = [recover EXCEPT ![w] = {}]
  /\ scan' = [scan EXCEPT ![w] = {}]
  /\ saw' = [saw EXCEPT ![w] = FALSE]
  /\ UNCHANGED <<status, age, verdict, issued, blocked>>

(* systemd starts it again (Restart=always).                               *)
Restart(w) ==
  /\ pc[w] = "down"
  /\ Goto(w, "reap")
  /\ UNCHANGED <<rows, cur, outcome, recover, scan, saw, faults>>

-----------------------------------------------------------------------------
(* What a worker does when nothing fails.                                  *)
Reap(w) ==
  \/ ReapSelect(w)
  \/ \E s \in Submission : RecoverNext(w, s)
  \/ ReapScan(w)
  \/ ReapRequeue(w)

Process(w) ==
  \/ \E s \in Submission : ClaimSubmission(w, s)
  \/ ClaimNothing(w)
  \/ \E o \in Outcome : GradeOk(w, o)
  \/ WriteVerdict(w)
  \/ FinishUpdate(w)
  \/ FinishInsert(w)
  \/ FinishCommit(w)
  \/ MarkError(w)
  \/ BudgetBlock(w)

Step(w) == Reap(w) \/ Process(w) \/ Restart(w)

Fail(w) == GradeError(w) \/ GradeBlocked(w) \/ DbFail(w) \/ FinishReplyLost(w) \/ Crash(w)

Next ==
  \/ \E s \in Submission : Push(s) \/ TurnOld(s) \/ Regrade(s)
  \/ \E w \in Worker : Step(w) \/ Fail(w)

Spec == Init /\ [][Next]_vars

(* run_worker loops without waiting on anything but the calls it makes,    *)
(* each bounded (psql, the judge's HTTP timeout, the sandbox wall cap),    *)
(* systemd restarts what died, and rows grow old by themselves.            *)
Fairness ==
  /\ \A w \in Worker : WF_vars(Step(w))
  /\ \A s \in Submission : WF_vars(TurnOld(s))

FairSpec == Spec /\ Fairness

-----------------------------------------------------------------------------
(* Properties.                                                             *)

(* Exactly-once verdicts, the promise in worker.py's first sentence: no    *)
(* interleaving of finish_submission and the reaper's recovery, no crash   *)
(* and no redelivery puts a second verdict.issued on the spine.            *)
ExactlyOnce == \A s \in Submission : Len(issued[s]) <= 1

(* Every announced overall is the one stored in verdicts, although two     *)
(* graders of the row may have reached different outcomes: the loser of    *)
(* the insert must reconcile before it finishes.                           *)
IssuedMatchesVerdict ==
  \A s \in Submission : \A i \in 1 .. Len(issued[s]) :
    issued[s][i] = verdict[s] /\ verdict[s] # NoVerdict

(* A row that says graded has its verdict and its event: status and event  *)
(* commit together, and nothing else sets graded.                          *)
GradedIsIssued ==
  \A s \in Submission : status[s] = "graded" =>
    verdict[s] # NoVerdict /\ issued[s] # << >>

(* The row lock is what makes finish_submission's NOT EXISTS sound: what   *)
(* it saw is still the truth when it commits.                              *)
SnapshotStillTrue ==
  \A w \in Worker : pc[w] = "commit" => (saw[w] <=> issued[cur[w]] # << >>)

(* What the three invariants above rest on.  A worker inside the finish    *)
(* transaction, and nobody else, holds the lock of its row ...             *)
LockInv ==
  \A w \in Worker, s \in Submission :
    rowLock[s] = w <=> pc[w] \in {"insert", "commit"} /\ cur[w] = s

(* ... a worker past the claim has a row, and from WRITE on it carries the *)
(* stored outcome of that row and no other ...                             *)
HoldsRow ==
  \A w \in Worker :
    /\ pc[w] \in {"grade", "write", "finish", "insert", "commit", "fail", "block"} =>
         cur[w] \in Submission
    /\ pc[w] = "write" => outcome[w] \in Outcome
    /\ pc[w] \in {"finish", "insert", "commit"} =>
         outcome[w] \in Outcome /\ outcome[w] = verdict[cur[w]]

(* ... and what the reaper recovers has been decided.                      *)
RecoverDecided ==
  \A w \in Worker : \A s \in recover[w] : verdict[s] # NoVerdict

(* The inductive invariant of GradingQueueProofs.                          *)
QueueInv ==
  /\ LockInv
  /\ HoldsRow
  /\ RecoverDecided
  /\ SnapshotStillTrue
  /\ ExactlyOnce
  /\ IssuedMatchesVerdict
  /\ GradedIsIssued

(* Every submission that is pushed is settled, whatever crashes.           *)
EverySubmissionSettles ==
  \A s \in Submission :
    status[s] = "queued" ~> status[s] \in {"graded", "error"}

(* Every verdict that is written is announced, whatever fails between      *)
(* WRITE and FINISH (the reaper's first duty).                             *)
EveryVerdictIssued ==
  \A s \in Submission : verdict[s] # NoVerdict ~> issued[s] # << >>

Announced == {s \in Submission : issued[s] # << >>}

Ledger == INSTANCE VerdictLedger WITH decided <- verdict, announced <- Announced

(* The queue implements the ledger: one decision, one announcement of it.  *)
ImplementsLedger == Ledger!LedgerSpec
=============================================================================

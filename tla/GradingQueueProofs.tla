------------------------- MODULE GradingQueueProofs --------------------------
(***************************************************************************)
(* Proofs about GradingQueue, for every set of submissions and workers and *)
(* any number of faults.                                                   *)
(***************************************************************************)
EXTENDS GradingQueue, TLAPS

(* What a COMMIT of the finish transaction leaves in the rows.             *)
LEMMA CommitTypes ==
  ASSUME TypeOK, HoldsRow, NEW w \in Worker, Commit(w, cur[w])
  PROVE  /\ status' \in [Submission -> Status]
         /\ issued' \in [Submission -> Seq(Outcome)]
         /\ rowLock' \in [Submission -> Worker \cup {NoWorker}]
<1>1. cur[w] \in Submission /\ outcome[w] \in Outcome
  BY DEF Commit, HoldsRow
<1> QED BY <1>1 DEF Commit, TypeOK, Status

(* Every step keeps every variable in its type.  HoldsRow is needed: a     *)
(* worker that wrote or blocked without a row would leave it.              *)
LEMMA TypeStep == TypeOK /\ HoldsRow /\ [Next]_vars => TypeOK'
<1> SUFFICES ASSUME TypeOK, HoldsRow, [Next]_vars
             PROVE  TypeOK'
  OBVIOUS
<1> USE DEF TypeOK, Status, Age, Outcome, NoVerdict, Pc, rows, workers, Goto, Drop, Fault
<1>1. ASSUME NEW s \in Submission, Push(s) \/ TurnOld(s) \/ Regrade(s)
      PROVE  TypeOK'
  <2>1. CASE Push(s)
    BY <2>1 DEF Push
  <2>2. CASE TurnOld(s)
    <3>1. age' \in [Submission -> Age]
      BY <2>2 DEF TurnOld
    <3> QED BY <2>2, <3>1 DEF TurnOld
  <2>3. CASE Regrade(s)
    BY <2>3 DEF Regrade
  <2> QED BY <1>1, <2>1, <2>2, <2>3
<1>2. ASSUME NEW w \in Worker, Reap(w)
      PROVE  TypeOK'
  <2>1. CASE ReapSelect(w)
    BY <2>1 DEF ReapSelect
  <2>2. ASSUME NEW s \in Submission, RecoverNext(w, s)
        PROVE  TypeOK'
    BY <2>2 DEF RecoverNext
  <2>3. CASE ReapScan(w)
    BY <2>3 DEF ReapScan, Stale
  <2>4. CASE ReapRequeue(w)
    BY <2>4 DEF ReapRequeue
  <2> QED BY <1>2, <2>1, <2>2, <2>3, <2>4 DEF Reap
<1>3. ASSUME NEW w \in Worker, Process(w)
      PROVE  TypeOK'
  <2>1. ASSUME NEW s \in Submission, ClaimSubmission(w, s)
        PROVE  TypeOK'
    BY <2>1 DEF ClaimSubmission
  <2>2. CASE ClaimNothing(w)
    BY <2>2 DEF ClaimNothing
  <2>3. ASSUME NEW o \in Outcome, GradeOk(w, o)
        PROVE  TypeOK'
    BY <2>3 DEF GradeOk
  <2>4. CASE WriteVerdict(w)
    <3>1. cur[w] \in Submission /\ outcome[w] \in Outcome
      BY <2>4 DEF WriteVerdict, HoldsRow
    <3> QED BY <2>4, <3>1 DEF WriteVerdict
  <2>5. CASE FinishUpdate(w)
    BY <2>5 DEF FinishUpdate
  <2>6. CASE FinishInsert(w)
    BY <2>6 DEF FinishInsert
  <2>7. CASE FinishCommit(w)
    <3>1. status' \in [Submission -> Status] /\ issued' \in [Submission -> Seq(Outcome)]
          /\ rowLock' \in [Submission -> Worker \cup {NoWorker}]
      BY <2>7, CommitTypes DEF FinishCommit, TypeOK, Status, Outcome
    <3> QED BY <2>7, <3>1 DEF FinishCommit
  <2>8. CASE MarkError(w)
    BY <2>8 DEF MarkError
  <2>9. CASE BudgetBlock(w)
    <3>1. cur[w] \in Submission
      BY <2>9 DEF BudgetBlock, HoldsRow
    <3> QED BY <2>9, <3>1 DEF BudgetBlock
  <2> QED BY <1>3, <2>1, <2>2, <2>3, <2>4, <2>5, <2>6, <2>7, <2>8, <2>9 DEF Process
<1>4. ASSUME NEW w \in Worker, Restart(w) \/ Fail(w)
      PROVE  TypeOK'
  <2>1. CASE Restart(w)
    BY <2>1 DEF Restart
  <2>2. CASE GradeError(w)
    BY <2>2 DEF GradeError
  <2>3. CASE GradeBlocked(w)
    BY <2>3 DEF GradeBlocked
  <2>4. CASE DbFail(w)
    <3>1. AfterDbError(w) \in Pc
      BY DEF AfterDbError
    <3>2. rowLock' \in [Submission -> Worker \cup {NoWorker}]
      BY <2>4 DEF DbFail, Rollback
    <3>3. /\ cur' \in [Worker -> Submission \cup {NoSubmission}]
          /\ outcome' \in [Worker -> Outcome \cup {NoVerdict}]
      BY <2>4 DEF DbFail
    <3>4. /\ pc' \in [Worker -> Pc]
          /\ recover' \in [Worker -> SUBSET Submission]
          /\ scan' \in [Worker -> SUBSET Submission]
          /\ saw' \in [Worker -> BOOLEAN]
          /\ faults' \in Nat
      BY <2>4, <3>1 DEF DbFail
    <3> QED BY <2>4, <3>2, <3>3, <3>4 DEF DbFail
  <2>5. CASE Crash(w)
    BY <2>5 DEF Crash, Rollback
  <2>6. CASE FinishReplyLost(w)
    <3>1. status' \in [Submission -> Status] /\ issued' \in [Submission -> Seq(Outcome)]
          /\ rowLock' \in [Submission -> Worker \cup {NoWorker}]
      BY <2>6, CommitTypes DEF FinishReplyLost, TypeOK, Status, Outcome
    <3>2. AfterDbError(w) \in Pc
      BY DEF AfterDbError
    <3>3. /\ cur' \in [Worker -> Submission \cup {NoSubmission}]
          /\ outcome' \in [Worker -> Outcome \cup {NoVerdict}]
      BY <2>6 DEF FinishReplyLost
    <3>4. /\ pc' \in [Worker -> Pc]
          /\ recover' \in [Worker -> SUBSET Submission]
          /\ saw' \in [Worker -> BOOLEAN]
          /\ faults' \in Nat
      BY <2>6, <3>2 DEF FinishReplyLost
    <3> QED BY <2>6, <3>1, <3>3, <3>4 DEF FinishReplyLost
  <2> QED BY <1>4, <2>1, <2>2, <2>3, <2>4, <2>5, <2>6 DEF Fail
<1>5. CASE UNCHANGED vars
  BY <1>5 DEF vars
<1> QED BY <1>1, <1>2, <1>3, <1>4, <1>5 DEF Next, Step

(* The lock of a row is held by exactly the worker inside its finish       *)
(* transaction: taken by FinishUpdate, released by commit, rollback, crash.*)
LEMMA LockStep == TypeOK /\ LockInv /\ HoldsRow /\ [Next]_vars => LockInv'
<1> SUFFICES ASSUME TypeOK, LockInv, HoldsRow, [Next]_vars
             PROVE  LockInv'
  OBVIOUS
<1> USE DEF TypeOK, LockInv, HoldsRow, rows, workers
<1>1. ASSUME NEW s \in Submission, Push(s) \/ TurnOld(s) \/ Regrade(s)
      PROVE  LockInv'
  <2>1. CASE Push(s)
    BY <2>1 DEF Push
  <2>2. CASE TurnOld(s)
    BY <2>2 DEF TurnOld
  <2>3. CASE Regrade(s)
    BY <2>3 DEF Regrade, Fault
  <2> QED BY <1>1, <2>1, <2>2, <2>3
<1>2. ASSUME NEW w \in Worker, Reap(w)
      PROVE  LockInv'
  <2>1. CASE ReapSelect(w)
    BY <2>1 DEF ReapSelect, Goto
  <2>2. ASSUME NEW s \in Submission, RecoverNext(w, s)
        PROVE  LockInv'
    BY <2>2 DEF RecoverNext, Goto
  <2>3. CASE ReapScan(w)
    BY <2>3 DEF ReapScan, Goto
  <2>4. CASE ReapRequeue(w)
    BY <2>4 DEF ReapRequeue, Goto
  <2> QED BY <1>2, <2>1, <2>2, <2>3, <2>4 DEF Reap
<1>3. ASSUME NEW w \in Worker, Process(w)
      PROVE  LockInv'
  <2>1. ASSUME NEW s \in Submission, ClaimSubmission(w, s)
        PROVE  LockInv'
    BY <2>1 DEF ClaimSubmission, Goto
  <2>2. CASE ClaimNothing(w)
    BY <2>2 DEF ClaimNothing, Goto
  <2>3. ASSUME NEW o \in Outcome, GradeOk(w, o)
        PROVE  LockInv'
    BY <2>3 DEF GradeOk, Goto
  <2>4. CASE WriteVerdict(w)
    BY <2>4 DEF WriteVerdict, Goto
  <2>5. CASE FinishUpdate(w)
    BY <2>5, NullAssumption DEF FinishUpdate, Goto
  <2>6. CASE FinishInsert(w)
    BY <2>6 DEF FinishInsert, Goto
  <2>7. CASE FinishCommit(w)
    BY <2>7, NullAssumption DEF FinishCommit, Commit, Goto, Drop
  <2>8. CASE MarkError(w)
    BY <2>8 DEF MarkError, Goto, Drop
  <2>9. CASE BudgetBlock(w)
    BY <2>9 DEF BudgetBlock, Goto, Drop
  <2> QED BY <1>3, <2>1, <2>2, <2>3, <2>4, <2>5, <2>6, <2>7, <2>8, <2>9 DEF Process
<1>4. ASSUME NEW w \in Worker, Restart(w) \/ Fail(w)
      PROVE  LockInv'
  <2>1. CASE Restart(w)
    BY <2>1 DEF Restart, Goto
  <2>2. CASE GradeError(w)
    BY <2>2 DEF GradeError, Fault, Goto
  <2>3. CASE GradeBlocked(w)
    BY <2>3 DEF GradeBlocked, Fault, Goto
  <2>4. CASE DbFail(w)
    <3>1. pc'[w] \notin {"insert", "commit"} /\ \A v \in Worker \ {w} : pc'[v] = pc[v] /\ cur'[v] = cur[v]
      BY <2>4 DEF DbFail, AfterDbError, Goto, Drop
    <3>2. \A s \in Submission : rowLock'[s] = IF rowLock[s] = w THEN NoWorker ELSE rowLock[s]
      BY <2>4 DEF DbFail, Rollback
    <3>3. ASSUME NEW v \in Worker, NEW s \in Submission
          PROVE  rowLock'[s] = v <=> pc'[v] \in {"insert", "commit"} /\ cur'[v] = s
      <4>1. CASE v = w
        <5>1. rowLock'[s] # w
          BY <3>2, NullAssumption
        <5> QED BY <3>1, <4>1, <5>1
      <4>2. CASE v # w
        <5>1. rowLock'[s] = v <=> rowLock[s] = v
          BY <3>2, <4>2, NullAssumption
        <5> QED BY <3>1, <4>2, <5>1
      <4> QED BY <4>1, <4>2
    <3> QED BY <3>3
  <2>5. CASE Crash(w)
    BY <2>5, NullAssumption DEF Crash, Rollback, Goto, Drop
  <2>6. CASE FinishReplyLost(w)
    <3>1. pc'[w] \notin {"insert", "commit"} /\ \A v \in Worker \ {w} : pc'[v] = pc[v] /\ cur'[v] = cur[v]
      BY <2>6 DEF FinishReplyLost, Commit, AfterDbError, Goto, Drop
    <3>2. /\ rowLock' = [rowLock EXCEPT ![cur[w]] = NoWorker]
          /\ pc[w] = "commit" /\ cur[w] \in Submission
      BY <2>6 DEF FinishReplyLost, Commit
    <3>3. ASSUME NEW v \in Worker, NEW s \in Submission
          PROVE  rowLock'[s] = v <=> pc'[v] \in {"insert", "commit"} /\ cur'[v] = s
      <4>1. CASE v = w
        BY <3>1, <3>2, <4>1, NullAssumption
      <4>2. CASE v # w
        BY <3>1, <3>2, <4>2, NullAssumption
      <4> QED BY <4>1, <4>2
    <3> QED BY <3>3
  <2> QED BY <1>4, <2>1, <2>2, <2>3, <2>4, <2>5, <2>6 DEF Fail
<1>5. CASE UNCHANGED vars
  BY <1>5 DEF vars
<1> QED BY <1>1, <1>2, <1>3, <1>4, <1>5 DEF Next, Step

(* Who has a row keeps it, with the stored outcome, until it drops it.     *)
LEMMA RowStep == TypeOK /\ HoldsRow /\ RecoverDecided /\ [Next]_vars => (HoldsRow /\ RecoverDecided)'
<1> SUFFICES ASSUME TypeOK, HoldsRow, RecoverDecided, [Next]_vars
             PROVE  (HoldsRow /\ RecoverDecided)'
  OBVIOUS
<1> USE DEF TypeOK, HoldsRow, RecoverDecided, rows, workers, Outcome, NoVerdict
<1>1. ASSUME NEW s \in Submission, Push(s) \/ TurnOld(s) \/ Regrade(s)
      PROVE  (HoldsRow /\ RecoverDecided)'
  <2>1. CASE Push(s)
    BY <2>1 DEF Push
  <2>2. CASE TurnOld(s)
    BY <2>2 DEF TurnOld
  <2>3. CASE Regrade(s)
    BY <2>3 DEF Regrade, Fault
  <2> QED BY <1>1, <2>1, <2>2, <2>3
<1>2. ASSUME NEW w \in Worker, Reap(w)
      PROVE  (HoldsRow /\ RecoverDecided)'
  <2>1. CASE ReapSelect(w)
    BY <2>1 DEF ReapSelect, Goto
  <2>2. ASSUME NEW s \in Submission, RecoverNext(w, s)
        PROVE  (HoldsRow /\ RecoverDecided)'
    BY <2>2 DEF RecoverNext, Goto
  <2>3. CASE ReapScan(w)
    BY <2>3 DEF ReapScan, Goto
  <2>4. CASE ReapRequeue(w)
    BY <2>4 DEF ReapRequeue, Goto
  <2> QED BY <1>2, <2>1, <2>2, <2>3, <2>4 DEF Reap
<1>3. ASSUME NEW w \in Worker, Process(w)
      PROVE  (HoldsRow /\ RecoverDecided)'
  <2>1. ASSUME NEW s \in Submission, ClaimSubmission(w, s)
        PROVE  (HoldsRow /\ RecoverDecided)'
    BY <2>1 DEF ClaimSubmission, Goto
  <2>2. CASE ClaimNothing(w)
    BY <2>2 DEF ClaimNothing, Goto
  <2>3. ASSUME NEW o \in Outcome, GradeOk(w, o)
        PROVE  (HoldsRow /\ RecoverDecided)'
    BY <2>3 DEF GradeOk, Goto
  <2>4. CASE WriteVerdict(w)
    BY <2>4 DEF WriteVerdict, Goto
  <2>5. CASE FinishUpdate(w)
    BY <2>5 DEF FinishUpdate, Goto
  <2>6. CASE FinishInsert(w)
    BY <2>6 DEF FinishInsert, Goto
  <2>7. CASE FinishCommit(w)
    BY <2>7 DEF FinishCommit, Commit, Goto, Drop
  <2>8. CASE MarkError(w)
    BY <2>8 DEF MarkError, Goto, Drop
  <2>9. CASE BudgetBlock(w)
    BY <2>9 DEF BudgetBlock, Goto, Drop
  <2> QED BY <1>3, <2>1, <2>2, <2>3, <2>4, <2>5, <2>6, <2>7, <2>8, <2>9 DEF Process
<1>4. ASSUME NEW w \in Worker, Restart(w) \/ Fail(w)
      PROVE  (HoldsRow /\ RecoverDecided)'
  <2>1. CASE Restart(w)
    BY <2>1 DEF Restart, Goto
  <2>2. CASE GradeError(w)
    BY <2>2 DEF GradeError, Fault, Goto
  <2>3. CASE GradeBlocked(w)
    BY <2>3 DEF GradeBlocked, Fault, Goto
  <2>4. CASE DbFail(w)
    <3>1. \A v \in Worker \ {w} : /\ pc'[v] = pc[v] /\ cur'[v] = cur[v]
                                 /\ outcome'[v] = outcome[v] /\ recover'[v] = recover[v]
      BY <2>4 DEF DbFail, AfterDbError, Goto, Drop
    <3>2. /\ pc'[w] \in {"claim", "reap", "fail"} /\ recover'[w] = {} /\ verdict' = verdict
          /\ pc'[w] = "fail" => cur'[w] = cur[w] /\ pc[w] \in {"write", "finish", "insert", "commit", "block"}
      BY <2>4 DEF DbFail, AfterDbError, Goto, Drop, Pc
    <3> QED BY <3>1, <3>2
  <2>5. CASE Crash(w)
    BY <2>5 DEF Crash, Rollback, Fault, Goto, Drop
  <2>6. CASE FinishReplyLost(w)
    <3>1. \A v \in Worker \ {w} : /\ pc'[v] = pc[v] /\ cur'[v] = cur[v]
                                 /\ outcome'[v] = outcome[v] /\ recover'[v] = recover[v]
      BY <2>6 DEF FinishReplyLost, AfterDbError, Goto, Drop
    <3>2. /\ pc'[w] \in {"claim", "fail"} /\ recover'[w] = {} /\ verdict' = verdict
          /\ pc'[w] = "fail" => cur'[w] = cur[w] /\ pc[w] = "commit"
      BY <2>6 DEF FinishReplyLost, Commit, AfterDbError, Goto, Drop, Pc
    <3> QED BY <3>1, <3>2
  <2> QED BY <1>4, <2>1, <2>2, <2>3, <2>4, <2>5, <2>6 DEF Fail
<1>5. CASE UNCHANGED vars
  BY <1>5 DEF vars
<1> QED BY <1>1, <1>2, <1>3, <1>4, <1>5 DEF Next, Step

(* A COMMIT of the finish transaction announces the stored outcome, once.  *)
LEMMA CommitAnnounces ==
  ASSUME TypeOK, QueueInv, NEW w \in Worker, Commit(w, cur[w]), verdict' = verdict,
         pc'[w] # "commit",
         \A v \in Worker \ {w} : pc'[v] = pc[v] /\ cur'[v] = cur[v] /\ saw'[v] = saw[v]
  PROVE  (SnapshotStillTrue /\ ExactlyOnce /\ IssuedMatchesVerdict /\ GradedIsIssued)'
<1> USE DEF TypeOK, QueueInv, LockInv, HoldsRow, RecoverDecided, SnapshotStillTrue, ExactlyOnce,
            IssuedMatchesVerdict, GradedIsIssued, NoVerdict
<1>1. PICK s \in Submission : s = cur[w]
  BY DEF Commit
<1>2. /\ outcome[w] \in Outcome /\ outcome[w] = verdict[s]
      /\ saw[w] <=> issued[s] # << >>
  BY <1>1 DEF Commit
<1>3. /\ \A t \in Submission \ {s} : issued'[t] = issued[t] /\ status'[t] = status[t]
      /\ issued'[s] = IF saw[w] THEN issued[s] ELSE Append(issued[s], outcome[w])
      /\ verdict' = verdict
  BY <1>1 DEF Commit
<1>4. \A v \in Worker \ {w} : saw'[v] = saw[v] /\ cur'[v] = cur[v] /\ pc'[v] = pc[v]
  BY DEF Commit
<1>5. SnapshotStillTrue'
  <2>1. pc'[w] # "commit"
    BY DEF Commit
  <2>2. \A v \in Worker \ {w} : pc[v] = "commit" => cur[v] # s
    BY <1>1 DEF Commit
  <2> QED BY <1>3, <1>4, <2>1, <2>2
<1>6. /\ issued'[s] # << >> /\ Len(issued'[s]) <= 1
      /\ \A i \in 1 .. Len(issued'[s]) : issued'[s][i] = verdict[s]
  <2>1. CASE saw[w]
    BY <1>2, <1>3, <2>1
  <2>2. CASE ~saw[w]
    BY <1>2, <1>3, <2>2
  <2> QED BY <2>1, <2>2
<1>7. verdict[s] # NoVerdict
  BY <1>2 DEF Outcome
<1>8. ASSUME NEW t \in Submission
      PROVE  /\ Len(issued'[t]) <= 1
             /\ \A i \in 1 .. Len(issued'[t]) : issued'[t][i] = verdict'[t] /\ verdict'[t] # NoVerdict
             /\ status'[t] = "graded" => verdict'[t] # NoVerdict /\ issued'[t] # << >>
  <2>1. CASE t = s
    BY <1>3, <1>6, <1>7, <2>1
  <2>2. CASE t # s
    BY <1>3, <2>2
  <2> QED BY <2>1, <2>2
<1> QED BY <1>5, <1>8

(* The announcements themselves.                                           *)
LEMMA AnnounceStep == TypeOK /\ QueueInv /\ [Next]_vars => (SnapshotStillTrue /\ ExactlyOnce /\ IssuedMatchesVerdict /\ GradedIsIssued)'
<1> SUFFICES ASSUME TypeOK, QueueInv, [Next]_vars
             PROVE  (SnapshotStillTrue /\ ExactlyOnce /\ IssuedMatchesVerdict /\ GradedIsIssued)'
  OBVIOUS
<1> USE DEF TypeOK, QueueInv, LockInv, HoldsRow, RecoverDecided, SnapshotStillTrue, ExactlyOnce,
            IssuedMatchesVerdict, GradedIsIssued, rows, workers, NoVerdict
<1>1. ASSUME NEW s \in Submission, Push(s) \/ TurnOld(s) \/ Regrade(s)
      PROVE  (SnapshotStillTrue /\ ExactlyOnce /\ IssuedMatchesVerdict /\ GradedIsIssued)'
  <2>1. CASE Push(s)
    BY <2>1 DEF Push
  <2>2. CASE TurnOld(s)
    BY <2>2 DEF TurnOld
  <2>3. CASE Regrade(s)
    BY <2>3 DEF Regrade, Fault
  <2> QED BY <1>1, <2>1, <2>2, <2>3
<1>2. ASSUME NEW w \in Worker, Reap(w)
      PROVE  (SnapshotStillTrue /\ ExactlyOnce /\ IssuedMatchesVerdict /\ GradedIsIssued)'
  <2>1. CASE ReapSelect(w)
    BY <2>1 DEF ReapSelect, Goto
  <2>2. ASSUME NEW s \in Submission, RecoverNext(w, s)
        PROVE  (SnapshotStillTrue /\ ExactlyOnce /\ IssuedMatchesVerdict /\ GradedIsIssued)'
    BY <2>2 DEF RecoverNext, Goto
  <2>3. CASE ReapScan(w)
    BY <2>3 DEF ReapScan, Goto
  <2>4. CASE ReapRequeue(w)
    BY <2>4 DEF ReapRequeue, Goto
  <2> QED BY <1>2, <2>1, <2>2, <2>3, <2>4 DEF Reap
<1>3. ASSUME NEW w \in Worker, Process(w)
      PROVE  (SnapshotStillTrue /\ ExactlyOnce /\ IssuedMatchesVerdict /\ GradedIsIssued)'
  <2>1. ASSUME NEW s \in Submission, ClaimSubmission(w, s)
        PROVE  (SnapshotStillTrue /\ ExactlyOnce /\ IssuedMatchesVerdict /\ GradedIsIssued)'
    BY <2>1 DEF ClaimSubmission, Goto
  <2>2. CASE ClaimNothing(w)
    BY <2>2 DEF ClaimNothing, Goto
  <2>3. ASSUME NEW o \in Outcome, GradeOk(w, o)
        PROVE  (SnapshotStillTrue /\ ExactlyOnce /\ IssuedMatchesVerdict /\ GradedIsIssued)'
    BY <2>3 DEF GradeOk, Goto
  <2>4. CASE WriteVerdict(w)
    BY <2>4 DEF WriteVerdict, Goto
  <2>5. CASE FinishUpdate(w)
    BY <2>5 DEF FinishUpdate, Goto
  <2>6. CASE FinishInsert(w)
    BY <2>6 DEF FinishInsert, Goto
  <2>7. CASE FinishCommit(w)
    <3>1. pc'[w] # "commit" /\ \A v \in Worker \ {w} : pc'[v] = pc[v] /\ cur'[v] = cur[v] /\ saw'[v] = saw[v]
      BY <2>7 DEF FinishCommit, Goto, Drop
    <3> QED BY <2>7, <3>1, CommitAnnounces DEF FinishCommit
  <2>8. CASE MarkError(w)
    BY <2>8 DEF MarkError, Goto, Drop
  <2>9. CASE BudgetBlock(w)
    BY <2>9 DEF BudgetBlock, Goto, Drop
  <2> QED BY <1>3, <2>1, <2>2, <2>3, <2>4, <2>5, <2>6, <2>7, <2>8, <2>9 DEF Process
<1>4. ASSUME NEW w \in Worker, Restart(w) \/ Fail(w)
      PROVE  (SnapshotStillTrue /\ ExactlyOnce /\ IssuedMatchesVerdict /\ GradedIsIssued)'
  <2>1. CASE Restart(w)
    BY <2>1 DEF Restart, Goto
  <2>2. CASE GradeError(w)
    BY <2>2 DEF GradeError, Fault, Goto
  <2>3. CASE GradeBlocked(w)
    BY <2>3 DEF GradeBlocked, Fault, Goto
  <2>4. CASE DbFail(w)
    BY <2>4 DEF DbFail, Rollback, AfterDbError, Fault, Goto, Drop
  <2>5. CASE Crash(w)
    BY <2>5 DEF Crash, Rollback, Fault, Goto, Drop
  <2>6. CASE FinishReplyLost(w)
    <3>1. pc'[w] # "commit" /\ \A v \in Worker \ {w} : pc'[v] = pc[v] /\ cur'[v] = cur[v] /\ saw'[v] = saw[v]
      BY <2>6 DEF FinishReplyLost, Commit, AfterDbError, Goto, Drop
    <3> QED BY <2>6, <3>1, CommitAnnounces DEF FinishReplyLost
  <2> QED BY <1>4, <2>1, <2>2, <2>3, <2>4, <2>5, <2>6 DEF Fail
<1>5. CASE UNCHANGED vars
  BY <1>5 DEF vars
<1> QED BY <1>1, <1>2, <1>3, <1>4, <1>5 DEF Next, Step

(* The inductive invariant of the queue, with its types.                   *)
THEOREM QueueInvariant == Spec => [](TypeOK /\ QueueInv)
<1>1. Init => TypeOK /\ QueueInv
  BY NullAssumption, FaultAssumption
     DEF Init, TypeOK, Status, Age, Outcome, NoVerdict, Pc, QueueInv, LockInv, HoldsRow,
         RecoverDecided, SnapshotStillTrue, ExactlyOnce, IssuedMatchesVerdict, GradedIsIssued
<1>2. TypeOK /\ QueueInv /\ [Next]_vars => (TypeOK /\ QueueInv)'
  BY TypeStep, LockStep, RowStep, AnnounceStep DEF QueueInv
<1> QED BY <1>1, <1>2, PTL DEF Spec

(* Type correctness: every variable of the queue stays in its type.        *)
THEOREM TypeCorrect == Spec => []TypeOK
BY QueueInvariant, PTL

(* No interleaving, crash, lost session or regrade makes the queue put a   *)
(* second verdict.issued event of a submission on the spine.               *)
THEOREM VerdictsIssuedOnce == Spec => []ExactlyOnce
<1>1. QueueInv => ExactlyOnce
  BY DEF QueueInv
<1> QED BY <1>1, QueueInvariant, PTL

(* What is announced is what is stored.                                    *)
THEOREM IssuedIsStored == Spec => []IssuedMatchesVerdict
<1>1. QueueInv => IssuedMatchesVerdict
  BY DEF QueueInv
<1> QED BY <1>1, QueueInvariant, PTL

(* A graded row has its verdict and its event.                             *)
THEOREM GradedRowsAreIssued == Spec => []GradedIsIssued
<1>1. QueueInv => GradedIsIssued
  BY DEF QueueInv
<1> QED BY <1>1, QueueInvariant, PTL

-----------------------------------------------------------------------------
(* Refinement.                                                             *)

(* A step of the queue decides an undecided row, announces a decided one   *)
(* that was not announced, or leaves the ledger alone.                     *)
LEMMA LedgerStep ==
  TypeOK /\ QueueInv /\ [Next]_vars => [Ledger!LedgerNext]_(Ledger!ledgerVars)
<1> SUFFICES ASSUME TypeOK, QueueInv, [Next]_vars
             PROVE  [Ledger!LedgerNext]_(Ledger!ledgerVars)
  OBVIOUS
<1>1. ASSUME NEW w \in Worker, WriteVerdict(w)
      PROVE  [Ledger!LedgerNext]_(Ledger!ledgerVars)
  <2> DEFINE s == cur[w]
  <2>1. s \in Submission /\ outcome[w] \in Outcome
    BY <1>1 DEF WriteVerdict, QueueInv, HoldsRow
  <2>2. UNCHANGED Announced
    BY <1>1 DEF WriteVerdict, Announced
  <2>3. CASE verdict[s] = NoVerdict
    <3>1. verdict' = [verdict EXCEPT ![s] = outcome[w]]
      BY <1>1, <2>3 DEF WriteVerdict
    <3>2. Ledger!Decide(s, outcome[w])
      BY <2>2, <2>3, <3>1 DEF Ledger!Decide, Ledger!NoVerdict, NoVerdict
    <3> QED BY <2>1, <3>2 DEF Ledger!LedgerNext, Ledger!Outcome, Outcome
  <2>4. CASE verdict[s] # NoVerdict
    <3>1. verdict' = verdict
      BY <1>1, <2>1, <2>4 DEF WriteVerdict, TypeOK
    <3> QED BY <2>2, <3>1 DEF Ledger!ledgerVars
  <2> QED BY <2>3, <2>4
<1>2. ASSUME NEW w \in Worker, FinishCommit(w) \/ FinishReplyLost(w)
      PROVE  [Ledger!LedgerNext]_(Ledger!ledgerVars)
  <2> DEFINE s == cur[w]
  <2>1. /\ s \in Submission /\ outcome[w] \in Outcome /\ verdict[s] = outcome[w]
        /\ saw[w] <=> issued[s] # << >>
        /\ verdict' = verdict
        /\ issued' = [issued EXCEPT ![s] = IF saw[w] THEN @ ELSE Append(@, outcome[w])]
    BY <1>2 DEF FinishCommit, FinishReplyLost, Commit, QueueInv, HoldsRow, SnapshotStillTrue
  <2>2. CASE saw[w]
    <3>1. issued' = issued
      BY <2>1, <2>2 DEF TypeOK
    <3> QED BY <2>1, <3>1 DEF Ledger!ledgerVars, Announced
  <2>3. CASE ~saw[w]
    <3>1. issued[s] = << >> /\ issued' = [issued EXCEPT ![s] = Append(issued[s], outcome[w])]
      BY <2>1, <2>3
    <3>2. s \notin Announced /\ Announced' = Announced \cup {s}
      BY <2>1, <3>1 DEF Announced, TypeOK
    <3>3. Ledger!Announce(s)
      BY <2>1, <3>2 DEF Ledger!Announce, Ledger!NoVerdict, Outcome
    <3> QED BY <2>1, <3>3 DEF Ledger!LedgerNext
  <2> QED BY <2>2, <2>3
<1>3. CASE verdict' = verdict /\ issued' = issued
  BY <1>3 DEF Ledger!ledgerVars, Announced
<1>4. CASE UNCHANGED vars
  BY <1>3, <1>4 DEF vars, rows
<1>5. ASSUME NEW s \in Submission, Push(s) \/ TurnOld(s) \/ Regrade(s)
      PROVE  verdict' = verdict /\ issued' = issued
  BY <1>5 DEF Push, TurnOld, Regrade
<1>6. ASSUME NEW w \in Worker, Step(w) \/ Fail(w), ~WriteVerdict(w),
             ~FinishCommit(w), ~FinishReplyLost(w)
      PROVE  verdict' = verdict /\ issued' = issued
  BY <1>6 DEF Step, Fail, Reap, Process, Restart, ReapSelect, RecoverNext, ReapScan, ReapRequeue,
              ClaimSubmission, ClaimNothing, GradeOk, FinishUpdate, FinishInsert, MarkError,
              BudgetBlock, GradeError, GradeBlocked, DbFail, Crash, rows
<1> QED BY <1>1, <1>2, <1>3, <1>4, <1>5, <1>6 DEF Next

(* The queue implements the verdict ledger: every behaviour of worker.py's *)
(* queue is one in which submissions are decided once and announced once.  *)
THEOREM QueueImplementsLedger == Spec => ImplementsLedger
<1>1. Init => Ledger!LedgerInit
  BY DEF Init, Ledger!LedgerInit, Ledger!NoVerdict, NoVerdict, Announced
<1>2. TypeOK /\ QueueInv /\ [Next]_vars => [Ledger!LedgerNext]_(Ledger!ledgerVars)
  BY LedgerStep
<1> QED BY <1>1, <1>2, QueueInvariant, PTL DEF Spec, ImplementsLedger, Ledger!LedgerSpec
=============================================================================

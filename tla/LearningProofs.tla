---------------------------- MODULE LearningProofs ----------------------------
(***************************************************************************)
(* Proofs about the parts that decide what a student learned and is told    *)
(* to learn, and about what students do beside the course: sandboxed        *)
(* checks, graders and their calibration, the placement test, simulations   *)
(* and defenses, re-checks, pods, digests, the gallery and the lesson       *)
(* excerpts of judges, and about the operators' numbers.  Each model has its *)
(* own variables, and where it reads rows that another part writes (units   *)
(* opened, progress) actions of its own that stand for the writer; so each   *)
(* has its own specification, invariant and theorems here, for any          *)
(* students, weeks, request threads, questions, keys, lessons and bounds.   *)
(***************************************************************************)
EXTENDS Sandbox, Assessment, Placement, Simulation, Recheck, Pods, Digests, Gallery, LessonExcerpt,
        Analytics, DataTheorems

-----------------------------------------------------------------------------
(* SANDBOX.  layer1: containers under their caps. *)

(* What is known of a check's container before the runner looks at it: one *)
(* that ended without a wall cap ended by itself, and the client returns   *)
(* only from one that does not run.                                        *)
SandboxInv ==
  /\ runner \in {"start", "wait", "kill", "inspect", "remove", "done"}
  /\ container \in {"none", "running", "exited"}
  /\ code \in Codes /\ oom \in BOOLEAN /\ byItself \in BOOLEAN /\ timedOut \in BOOLEAN
  /\ results \in Seq({"pass", "fail", "error"})
  /\ truth \in Seq([ended : BOOLEAN, capped : BOOLEAN, met : BOOLEAN])
  /\ Len(truth) = Len(results) /\ Len(results) <= Len(Checks)
  /\ runner \in {"start", "wait", "kill", "inspect"} => Len(results) < Len(Checks)
  /\ runner = "done" => Len(results) = Len(Checks)
  /\ runner \in {"start", "done"} => container = "none"
  /\ runner = "kill" => timedOut
  /\ runner = "inspect" /\ container = "running" => timedOut
  /\ container = "exited" => byItself \/ timedOut
  /\ \A i \in DOMAIN results :
       results[i] = "pass" => truth[i].ended /\ ~truth[i].capped /\ truth[i].met

(* A check is reported with what is known of its container: a pass only of  *)
(* a program that ended by itself within its caps and met its expectation. *)
LEMMA ReportStep ==
  ASSUME SandboxInv, runner \in {"wait", "kill", "inspect"}, runner' = "remove",
         UNCHANGED <<container, code, oom, byItself, timedOut>>,
         NEW status \in {"pass", "fail", "error"},
         NEW t \in [ended : BOOLEAN, capped : BOOLEAN, met : BOOLEAN],
         status = "pass" => t.ended /\ ~t.capped /\ t.met,
         results' = Append(results, status), truth' = Append(truth, t)
  PROVE  SandboxInv'
<1>1. /\ results \in Seq({"pass", "fail", "error"})
      /\ truth \in Seq([ended : BOOLEAN, capped : BOOLEAN, met : BOOLEAN])
      /\ Len(truth) = Len(results) /\ Len(results) < Len(Checks) /\ Len(results) \in Nat
  BY DEF SandboxInv
<1>2. /\ results' \in Seq({"pass", "fail", "error"}) /\ Len(results') = Len(results) + 1
      /\ truth' \in Seq([ended : BOOLEAN, capped : BOOLEAN, met : BOOLEAN])
      /\ Len(truth') = Len(results')
  BY <1>1
<1>3. Len(results') <= Len(Checks)
  BY <1>1, <1>2, ChecksAssumption
<1>4. ASSUME NEW i \in DOMAIN results', results'[i] = "pass"
      PROVE  truth'[i].ended /\ ~truth'[i].capped /\ truth'[i].met
  <2>1. CASE i = Len(results) + 1
    BY <1>1, <1>4, <2>1
  <2>2. CASE i # Len(results) + 1
    <3>1. i \in DOMAIN results /\ results'[i] = results[i] /\ truth'[i] = truth[i]
      BY <1>1, <1>2, <2>2
    <3> QED
      BY <1>4, <3>1 DEF SandboxInv
  <2> QED
    BY <2>1, <2>2
<1> QED
  BY <1>2, <1>3, <1>4 DEF SandboxInv

(* Inspecting the container tells how its check ended.                     *)
LEMMA InspectStep ==
  ASSUME SandboxInv, NEW works \in BOOLEAN, NEW said \in BOOLEAN, Inspect(works, said)
  PROVE  SandboxInv'
<1> DEFINE status == CheckStatus(Status(works), said)
           t == [ended |-> byItself /\ ~oom /\ code < 128, capped |-> timedOut,
                 met |-> EvaluateExpect(said)]
<1>1. /\ byItself \in BOOLEAN /\ oom \in BOOLEAN /\ timedOut \in BOOLEAN /\ runner = "inspect"
      /\ container \in {"none", "running", "exited"}
  BY DEF SandboxInv, Inspect
<1>2. EvaluateExpect(said) \in BOOLEAN
  <2>1. Len(results) \in Nat /\ Len(results) < Len(Checks)
    BY <1>1 DEF SandboxInv
  <2>2. Expectation \in {"exit_zero", "exit_nonzero", "output_contains"}
    BY <2>1, ChecksAssumption DEF Expectation
  <2> QED
    BY <2>2 DEF EvaluateExpect
<1>3. t \in [ended : BOOLEAN, capped : BOOLEAN, met : BOOLEAN]
  BY <1>1, <1>2
<1>4. status \in {"pass", "fail", "error"}
  BY DEF CheckStatus
<1>5. ASSUME status = "pass" PROVE t.ended /\ ~t.capped /\ t.met
  <2>1. Status(works) = "ok" /\ EvaluateExpect(said)
    BY <1>5 DEF CheckStatus
  <2>2. ~timedOut /\ works /\ ~oom /\ code < 128
    BY <2>1 DEF Status
  <2>3. container = "exited" /\ byItself
    BY <1>1, <2>2 DEF SandboxInv, Inspect
  <2> QED
    BY <2>1, <2>2, <2>3
<1> HIDE DEF status, t
<1>6. /\ results' = Append(results, status) /\ truth' = Append(truth, t) /\ runner' = "remove"
      /\ UNCHANGED <<container, code, oom, byItself, timedOut>>
  BY DEF Inspect, status, t
<1> QED
  BY <1>1, <1>3, <1>4, <1>5, <1>6, ReportStep

(* A check that passes was contained; the invariant is inductive.          *)
THEOREM SandboxInvariant == SandboxSpec => []SandboxInv
<1>1. SandboxInit => SandboxInv
  <2> SUFFICES ASSUME SandboxInit PROVE SandboxInv
    OBVIOUS
  <2>1. Len(Checks) \in Nat /\ Len(Checks) # 0
    BY ChecksAssumption
  <2>2. /\ results \in Seq({"pass", "fail", "error"})
        /\ truth \in Seq([ended : BOOLEAN, capped : BOOLEAN, met : BOOLEAN])
        /\ Len(results) = 0 /\ Len(truth) = 0 /\ DOMAIN results = {}
    BY DEF SandboxInit
  <2>3. runner = "start" /\ container = "none" /\ code \in Codes /\ oom \in BOOLEAN
        /\ byItself \in BOOLEAN /\ timedOut \in BOOLEAN
    BY DEF SandboxInit, Codes
  <2> QED
    BY <2>1, <2>2, <2>3 DEF SandboxInv
<1>2. ASSUME SandboxInv, [SandboxNext]_sandboxVars PROVE SandboxInv'
  <2> USE <1>2
  <2>1. CASE UNCHANGED sandboxVars
    BY <2>1 DEF sandboxVars, SandboxInv
  <2>2. CASE RunContainer
    <3>1. /\ runner = "start" /\ runner' = "wait" /\ container' \in {"none", "running"}
          /\ code' = 0 /\ oom' = FALSE /\ byItself' = FALSE /\ timedOut' = FALSE
          /\ results' = results /\ truth' = truth /\ code' \in Codes
      BY <2>2 DEF RunContainer, Codes
    <3> QED
      BY <3>1 DEF SandboxInv
  <2>7. CASE ClientReturns
    BY <2>7 DEF ClientReturns, SandboxInv
  <2>8. CASE WallCap
    BY <2>8 DEF WallCap, SandboxInv
  <2>3. ASSUME NEW stalls \in BOOLEAN, KillContainer(stalls) PROVE SandboxInv'
    BY <2>3 DEF KillContainer, SandboxInv, Codes
  <2>4. ASSUME NEW c \in Codes, NEW memory \in BOOLEAN, ContainerExits(c, memory) PROVE SandboxInv'
    BY <2>4 DEF ContainerExits, SandboxInv
  <2>5. CASE RunnerError
    <3>1. [ended |-> FALSE, capped |-> timedOut, met |-> FALSE]
            \in [ended : BOOLEAN, capped : BOOLEAN, met : BOOLEAN]
      BY DEF SandboxInv
    <3> QED
      BY <2>5, <3>1, ReportStep DEF RunnerError
  <2>6. CASE RemoveContainer
    <3>1. Len(results) \in Nat /\ Len(Checks) \in Nat /\ Len(results) <= Len(Checks)
      BY ChecksAssumption DEF SandboxInv
    <3> QED
      BY <2>6, <3>1 DEF RemoveContainer, SandboxInv
  <2> QED
    BY <2>1, <2>2, <2>3, <2>4, <2>5, <2>6, <2>7, <2>8, InspectStep DEF SandboxNext, RunnerStep
<1> QED
  BY <1>1, <1>2, PTL DEF SandboxSpec

(* Layer 1 counts no killed, capped or still running container as passed,  *)
(* and leaves none behind, for any list of checks.                         *)
THEOREM PassIsContained == SandboxSpec => []PassWasContained
<1>1. ASSUME SandboxInv PROVE PassWasContained
  <2> SUFFICES ASSUME runner = "done"
               PROVE  /\ container = "none"
                      /\ Layer1Overall = "pass" =>
                           \A i \in DOMAIN Checks : truth[i].ended /\ ~truth[i].capped /\ truth[i].met
    BY DEF PassWasContained
  <2>1. container = "none" /\ DOMAIN results = DOMAIN Checks
    BY <1>1, ChecksAssumption DEF SandboxInv
  <2> QED
    BY <1>1, <2>1 DEF SandboxInv, Layer1Overall
<1> QED
  BY <1>1, SandboxInvariant, PTL

-----------------------------------------------------------------------------
(* ASSESSMENT.  layer2 and calibration: graders and their gate. *)

ConceptualOutcome == {"open", "malformed", "budget_exceeded", "upstream_error"} \cup Grade
CliOutcome        == {"open", "error", "crash", "budget_exceeded"} \cup Grade

(* A grader's verdict is the recomputed one of the reply it accepted, which *)
(* kept its contract.                                                      *)
GraderInv ==
  /\ conceptual \in ConceptualOutcome
  /\ cli \in CliOutcome
  /\ conceptual \in Grade =>
       /\ accepted.conceptual \in Reply /\ ConceptualContract(accepted.conceptual)
       /\ conceptual = Recomputed(accepted.conceptual)
  /\ cli \in Grade =>
       /\ accepted.cli \in Reply /\ CliContract(accepted.cli)
       /\ cli = Recomputed(accepted.cli)

(* A report is the summary of some calibration, or there is none yet.      *)
ReportInv ==
  report.total = 0 \/
    \E total \in Nat \ {0}, errors \in 0 .. 1 : \E matches \in 0 .. total - errors, criteria, agreed \in Int :
      report = Summary(total, errors, matches, criteria, agreed)

(* A reply, malformed or not, leaves an answer the grader can settle.      *)
LEMMA AnswerStep ==
  ASSUME GraderInv, NEW r \in Reply \cup {Malformed}, Answer(r)
  PROVE  GraderInv'
<1>1. /\ conceptual' = ConceptualReads(r) /\ cli' = CliReads(r) /\ asked' = asked + 1
      /\ accepted' = [conceptual |-> IF conceptual = "open" /\ conceptual' \in Grade
                                       THEN r ELSE accepted.conceptual,
                      cli |-> IF cli = "open" /\ cli' \in Grade THEN r ELSE accepted.cli]
  BY DEF Answer
<1>2. /\ conceptual \in ConceptualOutcome
      /\ cli \in CliOutcome
  BY DEF GraderInv
<1>3. Recomputed(r) \in Grade
  BY DEF Recomputed, Grade
<1>4. conceptual' \in ConceptualOutcome
  BY <1>1, <1>2, <1>3 DEF ConceptualReads, ConceptualOutcome
<1>5. cli' \in CliOutcome
  BY <1>1, <1>2, <1>3 DEF CliReads, CliOutcome
<1>6. ASSUME conceptual' \in Grade
      PROVE  /\ accepted'.conceptual \in Reply /\ ConceptualContract(accepted'.conceptual)
             /\ conceptual' = Recomputed(accepted'.conceptual)
  <2>1. CASE conceptual = "open"
    <3>1. ConceptualContract(r) /\ conceptual' = Recomputed(r)
      BY <1>1, <1>6, <2>1 DEF ConceptualReads, Grade
    <3>2. r \in Reply
      BY <3>1 DEF ConceptualContract
    <3>3. accepted'.conceptual = r
      BY <1>1, <1>6, <2>1
    <3> QED
      BY <3>1, <3>2, <3>3
  <2>2. CASE conceptual # "open"
    <3>1. conceptual' = conceptual /\ accepted'.conceptual = accepted.conceptual
      BY <1>1, <2>2 DEF ConceptualReads
    <3> QED
      BY <1>6, <3>1 DEF GraderInv
  <2> QED
    BY <2>1, <2>2
<1>7. ASSUME cli' \in Grade
      PROVE  /\ accepted'.cli \in Reply /\ CliContract(accepted'.cli)
             /\ cli' = Recomputed(accepted'.cli)
  <2>1. CASE cli = "open"
    <3>1. r # Malformed /\ CliContract(r) /\ cli' = Recomputed(r)
      BY <1>1, <1>7, <2>1 DEF CliReads, Grade
    <3>2. r \in Reply
      BY <3>1
    <3>3. accepted'.cli = r
      BY <1>1, <1>7, <2>1
    <3> QED
      BY <3>1, <3>2, <3>3
  <2>2. CASE cli # "open"
    <3>1. cli' = cli /\ accepted'.cli = accepted.cli
      BY <1>1, <2>2 DEF CliReads
    <3> QED
      BY <1>7, <3>1 DEF GraderInv
  <2> QED
    BY <2>1, <2>2
<1> QED
  BY <1>1, <1>2, <1>4, <1>5, <1>6, <1>7 DEF GraderInv

(* Each grader's verdict comes from a reply that kept its contract, through *)
(* the nudge, a refused budget, a failing model and the other grader's     *)
(* reading of the same reply.                                              *)
THEOREM GraderInvariant == AssessmentSpec => [](GraderInv /\ ReportInv)
<1>1. AssessmentInit => GraderInv /\ ReportInv
  BY DEF AssessmentInit, GraderInv, ReportInv, Grade, ConceptualOutcome, CliOutcome
<1>2. ASSUME GraderInv, ReportInv, [AssessmentNext]_assessmentVars PROVE (GraderInv /\ ReportInv)'
  <2> USE <1>2
  <2>1. CASE UNCHANGED assessmentVars
    BY <2>1 DEF assessmentVars, GraderInv, ReportInv
  <2>2. ASSUME NEW r \in Reply \cup {Malformed}, Answer(r) PROVE (GraderInv /\ ReportInv)'
    BY <2>2, AnswerStep DEF Answer, ReportInv
  <2>3. ASSUME NEW c \in ConceptualOutcome \ ({"open"} \cup Grade), NEW e \in CliOutcome \ ({"open"} \cup Grade),
               Stop(c, e)
        PROVE  (GraderInv /\ ReportInv)'
    <3>1. /\ conceptual' = (IF conceptual = "open" THEN c ELSE conceptual)
          /\ cli' = (IF cli = "open" THEN e ELSE cli) /\ UNCHANGED <<accepted, report>>
      BY <2>3 DEF Stop
    <3> QED
      BY <3>1 DEF GraderInv, ReportInv
  <2>4. ASSUME NEW total \in 1 .. MaxGolden, NEW errors \in 0 .. 1, NEW matches \in 0 .. total - errors,
               NEW agreed \in Int, Calibrate(total, errors, matches, agreed)
        PROVE  (GraderInv /\ ReportInv)'
    <3>1. GraderInv'
      BY <2>4 DEF Calibrate, GraderInv
    <3>2. report' = Summary(total, errors, matches, 5 * (total - errors), agreed)
      BY <2>4 DEF Calibrate
    <3>3. total \in Nat \ {0} /\ 5 * (total - errors) \in Int
      BY AssessmentBounds
    <3>4. ReportInv'
      BY <3>2, <3>3 DEF ReportInv
    <3> QED
      BY <3>1, <3>4
  <2>5. ASSUME NEW total \in 1 .. MaxGolden, NEW errors \in 0 .. 1, NEW matches \in 0 .. total - errors,
               NEW missed \in 0 .. 4
        PROVE  5 * (total - errors) - missed \in Int
    BY AssessmentBounds
  <2>6. BudgetExceeded \/ UpstreamFails => (GraderInv /\ ReportInv)'
    BY <2>3 DEF BudgetExceeded, UpstreamFails, ConceptualOutcome, CliOutcome, Grade
  <2> QED
    BY <2>1, <2>2, <2>4, <2>5, <2>6 DEF AssessmentNext
<1> QED
  BY <1>1, <1>2, PTL DEF AssessmentSpec

(* What a recomputed pass says of each criterion.                          *)
LEMMA RecomputedPass ==
  ASSUME NEW r \in Reply, Ids(r) = Criterion, Recomputed(r) = "pass", NEW c \in Criterion
  PROVE  CriterionPasses(r, c)
<1>1. \A i \in DOMAIN r.entries : r.entries[i][2] = "pass"
  BY DEF Recomputed, AllPass
<1>2. PICK i \in DOMAIN r.entries : r.entries[i][1] = c
  BY DEF Ids
<1>3. r.entries[i] = <<c, "pass">>
  <2>1. r.entries[i] \in Entry
    BY <1>2 DEF Reply
  <2>2. \E x, g : r.entries[i] = <<x, g>>
    BY <2>1 DEF Entry
  <2>3. PICK x, g : r.entries[i] = <<x, g>>
    BY <2>2
  <2>4. x = c /\ g = "pass"
    BY <1>1, <1>2, <2>3
  <2> QED
    BY <2>3, <2>4
<1> QED
  BY <1>1, <1>2, <1>3 DEF CriterionPasses

(* No grader passes a submission by a reply that leaves a criterion out,    *)
(* fails one in any of its entries, or claims another overall than they     *)
(* give; and the worker takes only a pass for a pass.                      *)
THEOREM EveryCriterionPasses == AssessmentSpec => []PassNeedsEveryCriterion
<1>1. ASSUME GraderInv PROVE PassNeedsEveryCriterion
  <2> USE <1>1
  <2>1. ASSUME conceptual = "pass", NEW c \in Criterion PROVE CriterionPasses(accepted.conceptual, c)
    <3>1. conceptual \in Grade
      BY <2>1 DEF Grade
    <3> QED
      BY <2>1, <3>1, RecomputedPass DEF GraderInv, ConceptualContract
  <2>2. ASSUME cli = "pass", NEW c \in Criterion PROVE CriterionPasses(accepted.cli, c)
    <3>1. cli \in Grade
      BY <2>2 DEF Grade
    <3> QED
      BY <2>2, <3>1, RecomputedPass DEF GraderInv, CliContract
  <2>3. ASSUME accepted.conceptual = accepted.cli, {conceptual, cli} \subseteq Grade PROVE conceptual = cli
    BY <2>3 DEF GraderInv
  <2>4. ASSUME cli # "open", NEW outcome \in {"pass", "budget_exceeded"}
        PROVE  WorkerOutcome(ExitCode(cli)) = outcome <=> cli = outcome
    <3>1. cli \in {"pass", "fail", "error", "crash", "budget_exceeded"}
      BY <2>4 DEF GraderInv, CliOutcome, Grade
    <3> QED
      BY <3>1 DEF ExitCode, WorkerOutcome
  <2> QED
    BY <2>1, <2>2, <2>3, <2>4 DEF PassNeedsEveryCriterion
<1> QED
  BY <1>1, GraderInvariant, PTL

(* Fourteen of fifteen, rounded up, is more than ninety percent, rounded.  *)
LEMMA FourteenOfFifteen ==
  ASSUME NEW m \in Nat, NEW t \in Nat \ {0}, m >= Ceiling(14 * t, 15)
  PROVE  Percent(m, t) >= 9000
<1>1. 15 * m >= 14 * t
  <2> DEFINE k == (14 * t + 15 - 1) \div 15
  <2>1. k \in Nat /\ 15 * k <= 14 * t + 14 /\ 14 * t + 14 < 15 * k + 15
    OBVIOUS
  <2>2. m >= k
    BY DEF Ceiling
  <2> HIDE DEF k
  <2> QED
    BY <2>1, <2>2
<1>2. 20000 * m + t >= 9000 * (2 * t)
  BY <1>1
<1>3. Percent(m, t) = (20000 * m + t) \div (2 * t)
  BY DEF Percent
<1> DEFINE x == 20000 * m + t
           y == 2 * t
<1>4. x \in Nat /\ y \in Nat \ {0} /\ x >= 9000 * y
  BY <1>2
<1> HIDE DEF x, y
<1>5. x \div y >= 9000
  BY <1>4, QuotientAtLeast
<1> QED
  BY <1>3, <1>5 DEF x, y

(* A rubric that passes the regression gate passes its calibration, for     *)
(* golden sets of every size.                                              *)
THEOREM GateImpliesCalibration == AssessmentSpec => []GateStricterThanCalibration
<1>1. ASSUME ReportInv PROVE GateStricterThanCalibration
  <2> SUFFICES ASSUME report.total # 0, GatePasses(report) PROVE Calibrated(report)
    BY DEF GateStricterThanCalibration
  <2>0. PICK total \in Nat \ {0}, errors \in 0 .. 1 :
          \E matches \in 0 .. total - errors, criteria, agreed \in Int :
            report = Summary(total, errors, matches, criteria, agreed)
    BY <1>1 DEF ReportInv
  <2>1. PICK matches \in 0 .. total - errors, criteria \in Int, agreed \in Int :
          report = Summary(total, errors, matches, criteria, agreed)
    BY <2>0
  <2>2. /\ report.total = total /\ report.errors = errors /\ report.overall_matches = matches
        /\ report.overall_agreement_pct = Percent(matches, total - errors)
    BY <2>1 DEF Summary
  <2>3. errors = 0 /\ matches >= Ceiling(14 * total, 15)
    BY <2>2 DEF GatePasses
  <2>4. total - errors = total /\ matches \in Nat
    BY <2>3
  <2>5. Percent(matches, total) >= 9000
    BY <2>3, <2>4, FourteenOfFifteen
  <2> QED
    BY <2>2, <2>3, <2>4, <2>5 DEF Calibrated
<1> QED
  BY <1>1, GraderInvariant, PTL

-----------------------------------------------------------------------------
(* PLACEMENT.  diagnostic: the placement test. *)

Sheet   == [Question -> Option \cup {Blank}]
Attempt == [score : Nat, earned : Nat, possible : Nat, passed : BOOLEAN,
            route : {"1.3_skip", "baseline_0.1", "opt_out"},
            units : SUBSET (PassSkipUnits \cup FailBaselineUnits)]
OptedOut(a) == a.route = "opt_out" /\ ~a.passed /\ a.earned = 0
Placed  == [type : {"diagnostic.completed", "diagnostic.placed"}, attempt : Nat, passed : BOOLEAN]

(* Every attempt is an evaluation of some sheet or an opt-out; its units  *)
(* are open, its placement is announced, and no other unit is open.        *)
PlacementInv ==
  /\ attempts \in Seq(Attempt) /\ placements \in Seq(Placed)
  /\ \A i \in DOMAIN attempts :
       /\ \/ OptedOut(attempts[i])
          \/ \E sheet \in Sheet : attempts[i] = EvaluateDiagnostic(sheet)
       /\ attempts[i].units \subseteq unlocked
       /\ \E e \in DOMAIN placements :
            placements[e] = [type |-> "diagnostic.placed", attempt |-> i,
                             passed |-> attempts[i].passed]
  /\ \A u \in unlocked : \E i \in DOMAIN attempts : u \in attempts[i].units

(* What a percentage of the points is made of.                             *)
LEMMA PointsFacts ==
  ASSUME NEW sheet
  PROVE  /\ PointsOf(Question) \in Nat /\ PointsOf(Correct(sheet)) \in Nat
         /\ PointsOf(Correct(sheet)) <= PointsOf(Question)
         /\ Correct(sheet) = {} => PointsOf(Correct(sheet)) = 0
<1>1. Correct(sheet) \subseteq Question
  BY DEF Correct
<1>2. IsFiniteSet(Question) /\ IsFiniteSet(Correct(sheet))
  BY <1>1, PlacementAssumption, FS_Subset
<1>3. \A q \in Question : Points[q] \in Nat /\ Points[q] <= Points[q]
  BY PlacementAssumption
<1>4. PointsOf(Question) \in Nat /\ PointsOf(Correct(sheet)) \in Nat
  BY <1>1, <1>2, <1>3, SumType DEF PointsOf
<1>5. PointsOf(Correct(sheet)) <= PointsOf(Question)
  BY <1>1, <1>2, <1>3, SumMonotone DEF PointsOf
<1>6. ASSUME Correct(sheet) = {} PROVE PointsOf(Correct(sheet)) = 0
  BY <1>6, SumOfNone DEF PointsOf
<1> QED
  BY <1>4, <1>5, <1>6

(* A percentage of P points, rounded to hundredths.                        *)
Hundredths(e, P) == IF P = 0 THEN 0 ELSE (20000 * e + P) \div (2 * P)

(* The score is the share of the points that was earned, in hundredths of  *)
(* a percent.                                                              *)
LEMMA ScoreIsHundredths ==
  ASSUME NEW sheet
  PROVE  ScorePct(sheet) = Hundredths(PointsOf(Correct(sheet)), PointsOf(Question))
BY DEF ScorePct, Hundredths

(* More points are no smaller a share, and no share exceeds the whole.     *)
LEMMA HundredthsFacts ==
  ASSUME NEW P \in Nat, NEW d \in Nat, NEW e \in Nat, d <= e, e <= P
  PROVE  /\ Hundredths(e, P) \in Nat /\ Hundredths(e, P) <= 10000
         /\ Hundredths(d, P) \in Nat /\ Hundredths(d, P) <= Hundredths(e, P)
<1>1. CASE P = 0
  BY <1>1 DEF Hundredths
<1>2. CASE P # 0
  <2> DEFINE y == 2 * P
             x == 20000 * e + P
             w == 20000 * d + P
  <2>1. y \in Nat \ {0} /\ x \in Nat /\ w \in Nat /\ w <= x /\ x < 10001 * y
    BY <1>2
  <2>2. Hundredths(e, P) = x \div y /\ Hundredths(d, P) = w \div y
    BY <1>2 DEF Hundredths
  <2> HIDE DEF x, y, w
  <2>3. x \div y < 10001 /\ w \div y <= x \div y
    BY <2>1, QuotientBelow, QuotientMonotone
  <2>4. x \div y \in Nat /\ w \div y \in Nat
    BY <2>1, QuotientFacts
  <2> QED
    BY <2>2, <2>3, <2>4
<1> QED
  BY <1>1, <1>2

(* No points are no share.                                                 *)
LEMMA HundredthsOfNone ==
  ASSUME NEW P \in Nat, NEW e, e = 0 PROVE Hundredths(e, P) = 0
<1>1. CASE P = 0
  BY <1>1 DEF Hundredths
<1>2. CASE P # 0
  <2>1. P \in Nat /\ 2 * P \in Nat \ {0} /\ P < 1 * (2 * P) /\ 20000 * e + P = P
    BY <1>2
  <2>2. P \div (2 * P) \in Nat /\ P \div (2 * P) < 1
    BY <2>1, QuotientFacts, QuotientBelow
  <2>3. Hundredths(e, P) = P \div (2 * P)
    BY <1>2, <2>1 DEF Hundredths
  <2> QED
    BY <2>2, <2>3
<1> QED
  BY <1>1, <1>2

(* A score is between 0 and the whole, and 0 without a point.              *)
LEMMA ScoreFacts ==
  ASSUME NEW sheet
  PROVE  /\ ScorePct(sheet) \in Nat /\ ScorePct(sheet) <= 10000
         /\ PointsOf(Correct(sheet)) = 0 => ScorePct(sheet) = 0
<1> DEFINE P == PointsOf(Question)
           e == PointsOf(Correct(sheet))
<1>1. P \in Nat /\ e \in Nat /\ e <= P /\ ScorePct(sheet) = Hundredths(e, P)
  BY PointsFacts, ScoreIsHundredths
<1> HIDE DEF P, e
<1>2. Hundredths(e, P) \in Nat /\ Hundredths(e, P) <= 10000
  <2>1. e <= e
    BY <1>1
  <2> QED
    BY <1>1, <2>1, HundredthsFacts
<1>3. e = 0 => ScorePct(sheet) = 0
  BY <1>1, HundredthsOfNone
<1> QED
  BY <1>1, <1>2, <1>3 DEF e

(* What an evaluation records is an attempt.                               *)
LEMMA EvaluatedType == ASSUME NEW sheet PROVE EvaluateDiagnostic(sheet) \in Attempt
<1>1. /\ ScorePct(sheet) \in Nat /\ PointsOf(Correct(sheet)) \in Nat
      /\ PointsOf(Question) \in Nat
  BY PointsFacts, ScoreFacts
<1>2. CASE ScorePct(sheet) >= Threshold
  <2>1. EvaluateDiagnostic(sheet) =
          [score |-> ScorePct(sheet), earned |-> PointsOf(Correct(sheet)), possible |-> PointsOf(Question),
           passed |-> TRUE, route |-> "1.3_skip", units |-> PassSkipUnits]
    BY <1>2 DEF EvaluateDiagnostic
  <2> QED
    BY <1>1, <2>1 DEF Attempt
<1>3. CASE ~(ScorePct(sheet) >= Threshold)
  <2>1. EvaluateDiagnostic(sheet) =
          [score |-> ScorePct(sheet), earned |-> PointsOf(Correct(sheet)), possible |-> PointsOf(Question),
           passed |-> FALSE, route |-> "baseline_0.1", units |-> FailBaselineUnits]
    <3>1. (ScorePct(sheet) >= Threshold) = FALSE
      BY <1>3
    <3> QED
      BY <1>3, <3>1, Zenon DEF EvaluateDiagnostic
  <2> QED
    BY <1>1, <2>1 DEF Attempt
<1> QED
  BY <1>2, <1>3

(* One transaction: the attempt, its units and its events.                 *)
LEMMA RecordStep ==
  ASSUME PlacementInv, NEW a \in Attempt, NEW types, Record(a, types),
         \/ types = <<"diagnostic.placed">>
         \/ types = <<"diagnostic.completed", "diagnostic.placed">>,
         \/ OptedOut(a)
         \/ \E sheet \in Sheet : a = EvaluateDiagnostic(sheet)
  PROVE  PlacementInv'
<1> DEFINE news == [i \in DOMAIN types |->
                      [type |-> types[i], attempt |-> Len(attempts) + 1, passed |-> a.passed]]
           n == Len(attempts) + 1
<1>1. /\ attempts \in Seq(Attempt) /\ placements \in Seq(Placed) /\ n \in Nat
      /\ attempts' = Append(attempts, a) /\ unlocked' = unlocked \cup a.units
      /\ placements' = placements \o news
  BY DEF PlacementInv, Record
<1>2. /\ attempts' \in Seq(Attempt) /\ DOMAIN attempts' = 1 .. n /\ DOMAIN attempts = 1 .. n - 1
      /\ \A i \in DOMAIN attempts : attempts'[i] = attempts[i]
      /\ attempts'[n] = a
  BY <1>1, AppendFacts
<1>3. news \in Seq(Placed)
      /\ \E e \in DOMAIN news : news[e] = [type |-> "diagnostic.placed", attempt |-> n, passed |-> a.passed]
  <2>1. a.passed \in BOOLEAN
    BY DEF Attempt
  <2>4. ASSUME NEW t \in {"diagnostic.completed", "diagnostic.placed"}
        PROVE  [type |-> t, attempt |-> n, passed |-> a.passed] \in Placed
    BY <1>1, <2>1 DEF Placed
  <2> HIDE DEF n
  <2>2. CASE types = <<"diagnostic.placed">>
    <3>1. DOMAIN news = 1 .. 1 /\ news[1] = [type |-> "diagnostic.placed", attempt |-> n, passed |-> a.passed]
      BY <2>2 DEF n
    <3>2. news = [i \in 1 .. 1 |-> news[i]] /\ news[1] \in Placed
      BY <2>2, <2>4, <3>1
    <3> HIDE DEF news
    <3>3. news \in Seq(Placed)
      BY <3>2
    <3> QED
      BY <3>1, <3>3
  <2>3. CASE types = <<"diagnostic.completed", "diagnostic.placed">>
    <3>1. DOMAIN news = 1 .. 2
          /\ news[1] = [type |-> "diagnostic.completed", attempt |-> n, passed |-> a.passed]
          /\ news[2] = [type |-> "diagnostic.placed", attempt |-> n, passed |-> a.passed]
      BY <2>3 DEF n
    <3>2. news = [i \in 1 .. 2 |-> news[i]] /\ news[1] \in Placed /\ news[2] \in Placed
      BY <2>3, <2>4, <3>1
    <3> HIDE DEF news
    <3>3. \A i \in 1 .. 2 : news[i] \in Placed
      BY <3>2
    <3>4. news \in Seq(Placed)
      BY <3>2, <3>3
    <3> QED
      BY <3>1, <3>4
  <2> QED
    BY <2>2, <2>3
<1> HIDE DEF news
<1>4. /\ placements' \in Seq(Placed)
      /\ \A e \in DOMAIN placements : e \in DOMAIN placements' /\ placements'[e] = placements[e]
      /\ \A e \in DOMAIN news : Len(placements) + e \in DOMAIN placements'
                                /\ placements'[Len(placements) + e] = news[e]
  BY <1>1, <1>3
<1> HIDE DEF n
<1>5. ASSUME NEW i \in DOMAIN attempts'
      PROVE  /\ \/ OptedOut(attempts'[i])
                \/ \E sheet \in Sheet : attempts'[i] = EvaluateDiagnostic(sheet)
             /\ attempts'[i].units \subseteq unlocked'
             /\ \E e \in DOMAIN placements' :
                  placements'[e] = [type |-> "diagnostic.placed", attempt |-> i,
                                    passed |-> attempts'[i].passed]
  <2>1. CASE i = n
    <3>1. attempts'[i] = a
      BY <1>2, <2>1
    <3>2. PICK e \in DOMAIN news : news[e] = [type |-> "diagnostic.placed", attempt |-> n, passed |-> a.passed]
      BY <1>3
    <3> QED
      BY <1>1, <1>4, <2>1, <3>1, <3>2
  <2>2. CASE i # n
    <3>1. i \in DOMAIN attempts /\ attempts'[i] = attempts[i]
      BY <1>1, <1>2, <2>2
    <3>2. /\ \/ OptedOut(attempts[i])
             \/ \E sheet \in Sheet : attempts[i] = EvaluateDiagnostic(sheet)
          /\ attempts[i].units \subseteq unlocked
      BY <3>1 DEF PlacementInv
    <3>3. PICK e \in DOMAIN placements :
            placements[e] = [type |-> "diagnostic.placed", attempt |-> i, passed |-> attempts[i].passed]
      BY <3>1 DEF PlacementInv
    <3> QED
      BY <1>1, <1>4, <3>1, <3>2, <3>3
  <2> QED
    BY <2>1, <2>2
<1>6. ASSUME NEW u \in unlocked' PROVE \E i \in DOMAIN attempts' : u \in attempts'[i].units
  <2>1. CASE u \in a.units
    <3>1. n \in DOMAIN attempts'
      BY <1>1, <1>2 DEF n
    <3> QED
      BY <1>2, <2>1, <3>1
  <2>2. CASE u \in unlocked
    <3>1. PICK i \in DOMAIN attempts : u \in attempts[i].units
      BY <2>2 DEF PlacementInv
    <3>2. i \in DOMAIN attempts'
      BY <1>1, <1>2, <3>1 DEF n
    <3> QED
      BY <1>2, <3>1, <3>2
  <2> QED
    BY <1>1, <2>1, <2>2
<1> QED
  BY <1>2, <1>4, <1>5, <1>6 DEF PlacementInv

(* Attempts, opened units and events stay together.                        *)
THEOREM PlacementInvariant == PlacementSpec => []PlacementInv
<1>1. PlacementInit => PlacementInv
  <2> SUFFICES ASSUME PlacementInit PROVE PlacementInv
    OBVIOUS
  <2>1. attempts \in Seq(Attempt) /\ placements \in Seq(Placed) /\ DOMAIN attempts = {} /\ unlocked = {}
    BY DEF PlacementInit
  <2> QED
    BY <2>1 DEF PlacementInv
<1>2. ASSUME PlacementInv, [PlacementNext]_placementVars PROVE PlacementInv'
  <2>1. CASE UNCHANGED placementVars
    BY <1>2, <2>1 DEF placementVars, PlacementInv
  <2>2. ASSUME NEW sheet \in [Question -> Option \cup {Blank}], DiagnosticEvaluate(sheet)
        PROVE  PlacementInv'
    <3> DEFINE a == EvaluateDiagnostic(sheet)
    <3>1. a \in Attempt /\ sheet \in Sheet
      BY EvaluatedType DEF Sheet
    <3>2. Record(a, <<"diagnostic.completed", "diagnostic.placed">>)
      BY <2>2 DEF DiagnosticEvaluate
    <3>3. \E given \in Sheet : a = EvaluateDiagnostic(given)
      BY <3>1
    <3> HIDE DEF a
    <3> QED
      BY <1>2, <3>1, <3>2, <3>3, RecordStep
  <2>3. CASE DiagnosticOptOut
    <3> DEFINE a == [score |-> 0, earned |-> 0, possible |-> Cardinality(Question), passed |-> FALSE,
                     route |-> "opt_out", units |-> FailBaselineUnits]
    <3>1. Cardinality(Question) \in Nat
      BY PlacementAssumption, FS_CardinalityType
    <3>2. a \in Attempt /\ OptedOut(a)
      BY <3>1 DEF Attempt, OptedOut
    <3>3. Record(a, <<"diagnostic.placed">>)
      BY <2>3 DEF DiagnosticOptOut
    <3> HIDE DEF a
    <3> QED
      BY <1>2, <3>2, <3>3, RecordStep
  <2> QED
    BY <1>2, <2>1, <2>2, <2>3 DEF PlacementNext
<1> QED
  BY <1>1, <1>2, PTL DEF PlacementSpec

(* Placement is earned and kept, for any questions, points, keys (blank     *)
(* ones included), threshold and number of retakes and opt-outs.           *)
THEOREM PlacementIsSound == PlacementSpec => []PlacementSound
<1>1. ASSUME PlacementInv PROVE PlacementSound
  <2> USE <1>1
  <2>1. ASSUME NEW sheet
        PROVE  /\ EvaluateDiagnostic(sheet).passed <=> ScorePct(sheet) >= Threshold
               /\ EvaluateDiagnostic(sheet).earned = PointsOf(Correct(sheet))
               /\ EvaluateDiagnostic(sheet).route # "opt_out"
    BY DEF EvaluateDiagnostic
  <2>2. ASSUME NEW i \in DOMAIN attempts, attempts[i].passed
        PROVE  attempts[i].earned > 0 \/ Threshold = 0
    <3>1. PICK sheet \in Sheet : attempts[i] = EvaluateDiagnostic(sheet)
      BY <2>2 DEF PlacementInv, OptedOut
    <3>2. /\ ScorePct(sheet) >= Threshold
          /\ attempts[i].earned = PointsOf(Correct(sheet))
      BY <2>1, <2>2, <3>1
    <3>3. PointsOf(Correct(sheet)) \in Nat /\ ScorePct(sheet) \in Nat
          /\ (PointsOf(Correct(sheet)) = 0 => ScorePct(sheet) = 0)
      BY PointsFacts, ScoreFacts
    <3>4. ASSUME PointsOf(Correct(sheet)) = 0 PROVE Threshold = 0
      BY <3>2, <3>3, <3>4, PlacementAssumption
    <3>5. ASSUME PointsOf(Correct(sheet)) # 0 PROVE attempts[i].earned > 0
      BY <3>2, <3>3, <3>5
    <3> QED
      BY <3>4, <3>5
  <2>3. ASSUME NEW i \in DOMAIN attempts, NEW j \in DOMAIN attempts,
               attempts[i].earned <= attempts[j].earned, attempts[i].passed
        PROVE  attempts[j].passed \/ (attempts[j].route = "opt_out" /\ Threshold = 0)
    <3>1. PICK a \in Sheet : attempts[i] = EvaluateDiagnostic(a)
      BY <2>3 DEF PlacementInv, OptedOut
    <3>2. CASE OptedOut(attempts[j])
      <4>1. attempts[i] \in Attempt
        BY <2>3 DEF PlacementInv
      <4>2. attempts[i].earned \in Nat
        BY <4>1 DEF Attempt
      <4>3. attempts[i].earned > 0 \/ Threshold = 0
        BY <2>2, <2>3
      <4>4. attempts[j].earned = 0
        BY <3>2 DEF OptedOut
      <4>5. Threshold = 0
        BY <2>3, <4>2, <4>3, <4>4
      <4> QED
        BY <3>2, <4>5 DEF OptedOut
    <3>3. CASE \E b \in Sheet : attempts[j] = EvaluateDiagnostic(b)
      <4>1. PICK b \in Sheet : attempts[j] = EvaluateDiagnostic(b)
        BY <3>3
      <4>2. ScorePct(a) <= ScorePct(b) /\ ScorePct(a) \in Nat /\ ScorePct(b) \in Nat
        <5> DEFINE d == PointsOf(Correct(a))
                   e == PointsOf(Correct(b))
                   P == PointsOf(Question)
        <5>1. d <= e
          BY <2>1, <2>3, <3>1, <4>1
        <5>2. d \in Nat /\ e \in Nat /\ P \in Nat /\ e <= P
          BY PointsFacts
        <5>3. ScorePct(a) = Hundredths(d, P) /\ ScorePct(b) = Hundredths(e, P)
          BY ScoreIsHundredths
        <5> HIDE DEF d, e, P
        <5> QED
          BY <5>1, <5>2, <5>3, HundredthsFacts
      <4>3. ScorePct(a) >= Threshold
        BY <2>1, <2>3, <3>1
      <4>4. ScorePct(b) >= Threshold
        BY <4>2, <4>3, PlacementAssumption
      <4> QED
        BY <2>1, <4>1, <4>4
    <3> QED
      BY <3>2, <3>3 DEF PlacementInv
  <2>4. ASSUME NEW sheet \in [Question -> Option \cup {Blank}]
        PROVE  /\ ScorePct(sheet) \in 0 .. 10000
               /\ Correct(sheet) = {} => ~EvaluateDiagnostic(sheet).passed \/ Threshold = 0
               /\ (\A q \in Question : sheet[q] = Blank) => ScorePct(sheet) = 0
    <3>1. (\A q \in Question : sheet[q] = Blank) => Correct(sheet) = {}
      BY DEF Correct
    <3>2. Correct(sheet) = {} => ScorePct(sheet) = 0
      BY PointsFacts, ScoreFacts
    <3>3. ScorePct(sheet) \in Nat /\ ScorePct(sheet) <= 10000
      BY ScoreFacts
    <3>4. EvaluateDiagnostic(sheet).passed <=> ScorePct(sheet) >= Threshold
      BY <2>1
    <3>5. ScorePct(sheet) = 0 => ~EvaluateDiagnostic(sheet).passed \/ Threshold = 0
      BY <3>4, PlacementAssumption
    <3>6. ScorePct(sheet) \in 0 .. 10000
      <4> DEFINE percent == ScorePct(sheet)
      <4>1. percent \in Nat /\ percent <= 10000
        BY <3>3
      <4> HIDE DEF percent
      <4>2. percent \in 0 .. 10000
        BY <4>1
      <4> QED
        BY <4>2 DEF percent
    <3>7. Correct(sheet) = {} => ~EvaluateDiagnostic(sheet).passed \/ Threshold = 0
      BY <3>2, <3>5
    <3>8. (\A q \in Question : sheet[q] = Blank) => ScorePct(sheet) = 0
      BY <3>1, <3>2
    <3> QED
      BY <3>6, <3>7, <3>8
  <2> QED
    BY <2>2, <2>3, <2>4 DEF PlacementSound, PlacementInv
<1> QED
  BY <1>1, PlacementInvariant, PTL

-----------------------------------------------------------------------------
(* SIMULATION.  simulations and defenses. *)

Persona == {Technical, Business, Discovery}
Turn    == [said : Said, reply : {MockReply(p, said) : p \in Persona, said \in Said}]
Sim     == [student : Trainee, persona : Persona, status : {"in_progress", "graded"},
            turns : Seq(Turn), passed : BOOLEAN]
Score   == [student : Trainee, persona : Persona, passed : BOOLEAN, met : Int]
Cleared == [student : Trainee, scores : Nat]
Request ==
  {Standing}
  \cup [op : {"turn"}, sim : Nat, turns : Seq(Turn), said : Said]
  \cup [op : {"score"}, sim : Nat, turns : Seq(Turn)]
  \cup [op : {"check", "emit", "commit"}, student : Trainee]
Clearing(d) == simSeat[d].op \in {"check", "emit", "commit"}

SimTypes ==
  /\ sims \in Seq(Sim) /\ scored \in Seq(Score) /\ cleared \in Seq(Cleared)
  /\ simSeat \in [SimSeat -> Request] /\ simFaults \in Nat

PassedBoth(s, n) == \A persona \in Defense : PassedBy(s, persona, n)

(* A grade, a request to clear and a cleared gate each stand on scores; and  *)
(* whoever has passed both defenses is being cleared or is cleared.        *)
SimInv ==
  /\ SimTypes
  /\ \A d \in SimSeat : simSeat[d].op \in {"turn", "score"} => simSeat[d].sim \in DOMAIN sims
  /\ \A i \in DOMAIN sims : sims[i].passed => PassedBy(sims[i].student, sims[i].persona, Len(scored))
  /\ \A d \in SimSeat : simSeat[d].op \in {"emit", "commit"} => PassedBoth(simSeat[d].student, Len(scored))
  /\ \A i \in DOMAIN cleared : cleared[i].scores <= Len(scored)
                               /\ PassedBoth(cleared[i].student, cleared[i].scores)
  /\ \A i \in DOMAIN scored :
       scored[i].passed /\ scored[i].met # -1 /\ scored[i].persona \in Defense => scored[i].met >= 3
  /\ \A s \in Trainee : (\A persona \in Defense : DefensePassed(s, persona)) /\ simFaults = 0 =>
       \/ \E d \in SimSeat : Clearing(d) /\ simSeat[d].student = s
       \/ \E i \in DOMAIN cleared : cleared[i].student = s

-----------------------------------------------------------------------------
(* What the offline judge asks for.                                        *)
Distinct(a, b, c, d) == a # b /\ a # c /\ a # d /\ b # c /\ b # d /\ c # d

(* The sum over four elements.                                             *)
LEMMA FourSum ==
  ASSUME NEW f, NEW a, NEW b, NEW c, NEW d, Distinct(a, b, c, d),
         \A x \in {a, b, c, d} : f[x] \in Nat
  PROVE  SumFunctionOnSet(f, {a, b, c, d}) = f[a] + f[b] + f[c] + f[d]
<1>1. IsFiniteSet({}) /\ IsFiniteSet({a}) /\ IsFiniteSet({a, b}) /\ IsFiniteSet({a, b, c})
  <2>1. IsFiniteSet({})
    BY FS_EmptySet
  <2>2. IsFiniteSet({} \cup {a})
    BY <2>1, FS_AddElement
  <2>3. {} \cup {a} = {a} /\ {a} \cup {b} = {a, b} /\ {a, b} \cup {c} = {a, b, c}
    OBVIOUS
  <2>4. IsFiniteSet({a} \cup {b})
    BY <2>2, <2>3, FS_AddElement
  <2>5. IsFiniteSet({a, b} \cup {c})
    BY <2>3, <2>4, FS_AddElement
  <2> QED
    BY <2>1, <2>2, <2>3, <2>4, <2>5
<1>2. SumFunctionOnSet(f, {} \cup {a}) = f[a] + SumFunctionOnSet(f, {})
  BY <1>1, SumAdd
<1>3. SumFunctionOnSet(f, {a} \cup {b}) = f[b] + SumFunctionOnSet(f, {a})
  <2>1. b \notin {a} /\ \A x \in {a} \cup {b} : f[x] \in Nat
    BY DEF Distinct
  <2> QED
    BY <1>1, <2>1, SumAdd
<1>4. SumFunctionOnSet(f, {a, b} \cup {c}) = f[c] + SumFunctionOnSet(f, {a, b})
  <2>1. c \notin {a, b} /\ \A x \in {a, b} \cup {c} : f[x] \in Nat
    BY DEF Distinct
  <2> QED
    BY <1>1, <2>1, SumAdd
<1>5. SumFunctionOnSet(f, {a, b, c} \cup {d}) = f[d] + SumFunctionOnSet(f, {a, b, c})
  <2>1. d \notin {a, b, c} /\ \A x \in {a, b, c} \cup {d} : f[x] \in Nat
    BY DEF Distinct
  <2> QED
    BY <1>1, <2>1, SumAdd
<1>6. /\ {} \cup {a} = {a} /\ {a} \cup {b} = {a, b} /\ {a, b} \cup {c} = {a, b, c}
      /\ {a, b, c} \cup {d} = {a, b, c, d}
  OBVIOUS
<1>7. SumFunctionOnSet(f, {}) = 0
  BY SumOfNone
<1>8. SumFunctionOnSet(f, {a}) = f[a]
  BY <1>2, <1>6, <1>7
<1>9. SumFunctionOnSet(f, {a, b}) = f[b] + f[a]
  BY <1>3, <1>6, <1>8
<1>10. SumFunctionOnSet(f, {a, b, c}) = f[c] + (f[b] + f[a])
  BY <1>4, <1>6, <1>9
<1>11. SumFunctionOnSet(f, {a, b, c, d}) = f[d] + (f[c] + (f[b] + f[a]))
  BY <1>5, <1>6, <1>10
<1> QED
  BY <1>11

(* A set with three different elements has at least three.                 *)
LEMMA ThreeElements ==
  ASSUME NEW M, IsFiniteSet(M), NEW x \in M, NEW y \in M, NEW z \in M, x # y, x # z, y # z
  PROVE  Cardinality(M) >= 3
<1>1. Cardinality({x} \cup {y}) = 2 /\ IsFiniteSet({x} \cup {y})
  <2>1. IsFiniteSet({x}) /\ Cardinality({x}) = 1
    BY FS_Singleton
  <2>2. y \notin {x}
    OBVIOUS
  <2> DEFINE S == {x}
  <2>3. IsFiniteSet(S) /\ Cardinality(S) = 1 /\ y \notin S
    BY <2>1, <2>2
  <2> HIDE DEF S
  <2>4. IsFiniteSet(S \cup {y}) /\ Cardinality(S \cup {y}) = Cardinality(S) + 1
    BY <2>3, FS_AddElement
  <2>5. Cardinality(S \cup {y}) = 2
    BY <2>3, <2>4
  <2> QED
    BY <2>4, <2>5 DEF S
<1>2. Cardinality({x, y} \cup {z}) = 3 /\ IsFiniteSet({x, y} \cup {z})
  <2>1. z \notin {x, y} /\ {x} \cup {y} = {x, y}
    OBVIOUS
  <2> DEFINE S == {x, y}
  <2>2. Cardinality(S) = 2 /\ IsFiniteSet(S) /\ z \notin S
    BY <1>1, <2>1
  <2> HIDE DEF S
  <2>3. IsFiniteSet(S \cup {z}) /\ Cardinality(S \cup {z}) = Cardinality(S) + 1
    BY <2>2, FS_AddElement
  <2>4. Cardinality(S \cup {z}) = 3
    BY <2>2, <2>3
  <2> QED
    BY <2>3, <2>4 DEF S
<1>3. Cardinality({x, y} \cup {z}) <= Cardinality(M)
  BY {x, y} \cup {z} \subseteq M, FS_Subset
<1>4. Cardinality(M) \in Nat
  BY FS_CardinalityType
<1> DEFINE n == Cardinality(M)
<1>5. n \in Nat /\ 3 <= n
  BY <1>2, <1>3, <1>4
<1> HIDE DEF n
<1>6. n >= 3
  BY <1>5
<1> QED
  BY <1>6 DEF n

(* Of four criteria no two of which may fail together, three are met.      *)
LEMMA ThreeOfFour ==
  ASSUME NEW C,
         ~(~C[1].met /\ ~C[2].met), ~(~C[1].met /\ ~C[3].met), ~(~C[1].met /\ ~C[4].met),
         ~(~C[2].met /\ ~C[3].met), ~(~C[2].met /\ ~C[4].met), ~(~C[3].met /\ ~C[4].met)
  PROVE  Cardinality({i \in 1 .. 4 : C[i].met}) >= 3
<1> DEFINE M == {i \in 1 .. 4 : C[i].met}
<1>1. IsFiniteSet(M)
  <2>1. IsFiniteSet(1 .. 4) /\ M \subseteq 1 .. 4
    <3>1. IsFiniteSet(1 .. 4)
      <4>1. \A n \in Nat : IsFiniteSet(1 .. n)
        BY FS_Interval
      <4> QED
        BY <4>1
    <3>2. M \subseteq 1 .. 4
      OBVIOUS
    <3> QED
      BY <3>1, <3>2
  <2> QED
    BY <2>1, FS_Subset
<1>2. \/ 1 \in M /\ 2 \in M /\ 3 \in M
      \/ 1 \in M /\ 2 \in M /\ 4 \in M
      \/ 1 \in M /\ 3 \in M /\ 4 \in M
      \/ 2 \in M /\ 3 \in M /\ 4 \in M
  OBVIOUS
<1> HIDE DEF M
<1>3. Cardinality(M) >= 3
  BY <1>1, <1>2, ThreeElements
<1> QED
  BY <1>3 DEF M

(* A criterion is met or not.                                              *)
Either(weight, good, bad) == {Weighed(weight, good, bad, TRUE), Weighed(weight, good, bad, FALSE)}

(* A criterion is scored one way or the other.                             *)
LEMMA EitherWeighed ==
  ASSUME NEW weight, NEW good, NEW bad, NEW m \in BOOLEAN
  PROVE  Weighed(weight, good, bad, m) \in Either(weight, good, bad)
<1>1. m = TRUE \/ m = FALSE
  OBVIOUS
<1> QED
  BY <1>1, Zenon DEF Either

(* What a scored criterion may hold.                                       *)
LEMMA EitherFacts ==
  ASSUME NEW weight, NEW good, NEW bad, NEW c \in Either(weight, good, bad)
  PROVE  c.weight = weight /\ c.met \in BOOLEAN /\ c.score = (IF c.met THEN good ELSE bad)
<1>1. CASE c = Weighed(weight, good, bad, TRUE)
  BY <1>1 DEF Weighed
<1>2. CASE c = Weighed(weight, good, bad, FALSE)
  BY <1>2 DEF Weighed
<1> QED
  BY <1>1, <1>2 DEF Either

(* The values four weighed criteria add up to.                             *)
LEMMA FourWeighed ==
  ASSUME NEW a \in Either(30, 95, 30), NEW d \in Either(20, 90, 40), NEW b, NEW c,
         \/ b \in Either(25, 90, 35) /\ c \in Either(25, 95, 25)
         \/ b \in Either(25, 95, 20) /\ c \in Either(25, 90, 35),
         NEW C, C = <<a, b, c, d>>, WeightedScore(C) >= 7000
  PROVE  Cardinality({i \in 1 .. 4 : C[i].met}) >= 3
<1> DEFINE f == [i \in 1 .. 4 |-> C[i].weight * C[i].score]
<1>1. C[1] = a /\ C[2] = b /\ C[3] = c /\ C[4] = d
  OBVIOUS
<1>2. /\ a.weight = 30 /\ a.met \in BOOLEAN /\ a.score = (IF a.met THEN 95 ELSE 30)
      /\ d.weight = 20 /\ d.met \in BOOLEAN /\ d.score = (IF d.met THEN 90 ELSE 40)
  BY EitherFacts
<1>3. /\ b.weight = 25 /\ c.weight = 25 /\ b.met \in BOOLEAN /\ c.met \in BOOLEAN
      /\ \/ b.score = (IF b.met THEN 90 ELSE 35) /\ c.score = (IF c.met THEN 95 ELSE 25)
         \/ b.score = (IF b.met THEN 95 ELSE 20) /\ c.score = (IF c.met THEN 90 ELSE 35)
  <2>1. CASE b \in Either(25, 90, 35) /\ c \in Either(25, 95, 25)
    BY <2>1, EitherFacts
  <2>2. CASE b \in Either(25, 95, 20) /\ c \in Either(25, 90, 35)
    BY <2>2, EitherFacts
  <2> QED
    BY <2>1, <2>2
<1>4. f[1] = a.weight * a.score /\ f[2] = b.weight * b.score
      /\ f[3] = c.weight * c.score /\ f[4] = d.weight * d.score
  BY <1>1
<1>5. SumFunctionOnSet(f, 1 .. 4) >= 7000
  BY DEF WeightedScore
<1> HIDE DEF f
<1>6. /\ f[1] = (IF a.met THEN 2850 ELSE 900) /\ f[4] = (IF d.met THEN 1800 ELSE 800)
      /\ \/ f[2] = (IF b.met THEN 2250 ELSE 875) /\ f[3] = (IF c.met THEN 2375 ELSE 625)
         \/ f[2] = (IF b.met THEN 2375 ELSE 500) /\ f[3] = (IF c.met THEN 2250 ELSE 875)
  BY <1>2, <1>3, <1>4
<1>7. f[1] + f[2] + f[3] + f[4] >= 7000
  <2>1. 1 .. 4 = {1, 2, 3, 4} /\ Distinct(1, 2, 3, 4)
    BY DEF Distinct
  <2>2. \A i \in {1, 2, 3, 4} : f[i] \in Nat
    BY <1>6
  <2>3. SumFunctionOnSet(f, {1, 2, 3, 4}) = f[1] + f[2] + f[3] + f[4]
    BY <2>1, <2>2, FourSum
  <2> QED
    BY <1>5, <2>1, <2>3
<1>8. /\ ~(~a.met /\ ~b.met) /\ ~(~a.met /\ ~c.met) /\ ~(~a.met /\ ~d.met)
      /\ ~(~b.met /\ ~c.met) /\ ~(~b.met /\ ~d.met) /\ ~(~c.met /\ ~d.met)
  BY <1>6, <1>7
<1> HIDE DEF f
<1> QED
  BY <1>1, <1>8, ThreeOfFour

(* A defense the offline judge passes met three of its four criteria.      *)
LEMMA MockPassNeedsThree ==
  ASSUME NEW persona \in Defense, NEW turns, MockVerdict(persona, turns).passed
  PROVE  MockVerdict(persona, turns).met >= 3
<1> DEFINE all   == UNION {turns[i].said : i \in DOMAIN turns}
           first == turns[1].said
           C     == CriteriaOf(persona, turns)
<1>1. WeightedScore(C) >= 7000 /\ MockVerdict(persona, turns).met = Cardinality({i \in 1 .. 4 : C[i].met})
  <2> DEFINE enough == WeightedScore(C) >= 7000
             met    == Cardinality({i \in 1 .. 4 : C[i].met})
  <2>1. MockVerdict(persona, turns) = [passed |-> enough, met |-> met]
    BY DEF MockVerdict
  <2> HIDE DEF met
  <2>2. MockVerdict(persona, turns).met = met
    BY <2>1
  <2>3. ASSUME ~enough PROVE FALSE
    <3>1. enough = FALSE
      BY <2>3
    <3> HIDE DEF enough
    <3>2. MockVerdict(persona, turns) = [passed |-> FALSE, met |-> met]
      BY <2>1, <3>1, Zenon
    <3> QED
      BY <3>2
  <2> QED
    BY <2>2, <2>3 DEF met
<1>2. ASSUME NEW a \in Either(30, 95, 30), NEW d \in Either(20, 90, 40), NEW b, NEW c,
             \/ b \in Either(25, 90, 35) /\ c \in Either(25, 95, 25)
             \/ b \in Either(25, 95, 20) /\ c \in Either(25, 90, 35),
             C = <<a, b, c, d>>
      PROVE  MockVerdict(persona, turns).met >= 3
  <2>1. Cardinality({i \in 1 .. 4 : C[i].met}) >= 3
    BY <1>1, <1>2, FourWeighed
  <2> QED
    BY <1>1, <2>1
<1> HIDE DEF all, first
<1>3. CASE persona = Technical
  <2>1. CriteriaOf(persona, turns) = TechnicalCriteria(all, first)
    BY <1>3 DEF CriteriaOf, all, first, Technical, Business
  <2> DEFINE a == Weighed(30, 95, 30, /\ all \cap {"vague", "metrics"} # {}
                                      /\ ~("vague" \in first /\ all \cap {"metrics", "cost"} = {}))
             b == Weighed(25, 90, 35, "cost" \in all)
             c == Weighed(25, 95, 25, "security" \in all)
             d == Weighed(20, 90, 40, "architecture" \in all)
  <2>2. C = <<a, b, c, d>>
    BY <2>1 DEF TechnicalCriteria
  <2>3. /\ (/\ all \cap {"vague", "metrics"} # {}
            /\ ~("vague" \in first /\ all \cap {"metrics", "cost"} = {})) \in BOOLEAN
        /\ ("cost" \in all) \in BOOLEAN /\ ("security" \in all) \in BOOLEAN
        /\ ("architecture" \in all) \in BOOLEAN
    OBVIOUS
  <2>4. a \in Either(30, 95, 30)
    BY <2>3, EitherWeighed, Zenon
  <2>5. b \in Either(25, 90, 35)
    BY <2>3, EitherWeighed, Zenon
  <2>6. c \in Either(25, 95, 25)
    BY <2>3, EitherWeighed, Zenon
  <2>7. d \in Either(20, 90, 40)
    BY <2>3, EitherWeighed, Zenon
  <2> HIDE DEF a, b, c, d, C
  <2> QED
    BY <1>2, <2>2, <2>4, <2>5, <2>6, <2>7
<1>4. CASE persona = Business
  <2>1. CriteriaOf(persona, turns) = BusinessCriteria(all)
    BY <1>4 DEF CriteriaOf, all, Technical, Business
  <2> DEFINE a == Weighed(30, 95, 30, all \cap {"value", "payback"} # {})
             b == Weighed(25, 95, 20, "jargon" \in all => "plain" \in all)
             c == Weighed(25, 90, 35, "risk" \in all)
             d == Weighed(20, 90, 40, "rollout" \in all)
  <2>2. C = <<a, b, c, d>>
    BY <2>1 DEF BusinessCriteria
  <2>3. /\ (all \cap {"value", "payback"} # {}) \in BOOLEAN
        /\ ("jargon" \in all => "plain" \in all) \in BOOLEAN
        /\ ("risk" \in all) \in BOOLEAN /\ ("rollout" \in all) \in BOOLEAN
    OBVIOUS
  <2>4. a \in Either(30, 95, 30)
    BY <2>3, EitherWeighed, Zenon
  <2>5. b \in Either(25, 95, 20)
    BY <2>3, EitherWeighed, Zenon
  <2>6. c \in Either(25, 90, 35)
    BY <2>3, EitherWeighed, Zenon
  <2>7. d \in Either(20, 90, 40)
    BY <2>3, EitherWeighed, Zenon
  <2> HIDE DEF a, b, c, d, C
  <2> QED
    BY <1>2, <2>2, <2>4, <2>5, <2>6, <2>7
<1> QED
  BY <1>3, <1>4 DEF Defense

-----------------------------------------------------------------------------
(* The named personas are personas.                                        *)
LEMMA PersonaFacts ==
  /\ Technical \in Persona /\ Business \in Persona /\ Discovery \in Persona
  /\ Defense \subseteq Persona
BY DEF Persona, Defense

(* What a request in flight holds, by the operation it is at.              *)
LEMMA RequestFacts ==
  ASSUME NEW r \in Request
  PROVE  /\ r.op \in {"free", "turn", "score", "check", "emit", "commit"}
         /\ r.op = "turn" => r \in [op : {"turn"}, sim : Nat, turns : Seq(Turn), said : Said]
         /\ r.op = "score" => r \in [op : {"score"}, sim : Nat, turns : Seq(Turn)]
         /\ r.op \in {"check", "emit", "commit"} =>
              r \in [op : {"check", "emit", "commit"}, student : Trainee]
<1>1. CASE r = Standing
  BY <1>1 DEF Standing
<1>2. CASE r \in [op : {"turn"}, sim : Nat, turns : Seq(Turn), said : Said]
  BY <1>2
<1>3. CASE r \in [op : {"score"}, sim : Nat, turns : Seq(Turn)]
  BY <1>3
<1>4. CASE r \in [op : {"check", "emit", "commit"}, student : Trainee]
  BY <1>4
<1> QED
  BY <1>1, <1>2, <1>3, <1>4 DEF Request

(* A request moves on, nothing else changes, and whoever was to be cleared  *)
(* still is, or already has been, or has not passed both defenses.         *)
LEMMA SeatStep ==
  ASSUME SimInv, NEW d \in SimSeat, NEW r \in Request, SeatAt(d, r),
         UNCHANGED <<sims, scored, cleared, simFaults>>,
         r.op \in {"turn", "score"} => r.sim \in DOMAIN sims,
         r.op \in {"emit", "commit"} => PassedBoth(r.student, Len(scored)),
         Clearing(d) =>
           \/ r.op \in {"check", "emit", "commit"} /\ r.student = simSeat[d].student
           \/ \E persona \in Defense : ~DefensePassed(simSeat[d].student, persona)
           \/ \E i \in DOMAIN cleared : cleared[i].student = simSeat[d].student
  PROVE  SimInv'
<1>1. /\ simSeat \in [SimSeat -> Request] /\ simSeat' = [simSeat EXCEPT ![d] = r]
      /\ sims' = sims /\ scored' = scored /\ cleared' = cleared /\ simFaults' = simFaults
  BY DEF SimInv, SimTypes, SeatAt
<1>2. simSeat'[d] = r /\ \A e \in SimSeat : e # d => simSeat'[e] = simSeat[e]
  BY <1>1
<1>3. SimTypes'
  BY <1>1 DEF SimInv, SimTypes
<1>4. ASSUME NEW e \in SimSeat, simSeat'[e].op \in {"turn", "score"} PROVE simSeat'[e].sim \in DOMAIN sims'
  BY <1>1, <1>2, <1>4 DEF SimInv
<1>5. ASSUME NEW s, NEW n PROVE PassedBoth(s, n) => PassedBoth(s, n)'
  BY <1>1 DEF PassedBoth, PassedBy
<1>6. ASSUME NEW e \in SimSeat, simSeat'[e].op \in {"emit", "commit"}
      PROVE  PassedBoth(simSeat[e].student, Len(scored))'
  <2>1. PassedBoth(simSeat'[e].student, Len(scored))
    BY <1>2, <1>6 DEF SimInv
  <2> QED
    BY <1>1, <2>1 DEF PassedBoth, PassedBy
<1>7. ASSUME NEW i \in DOMAIN cleared'
      PROVE  cleared'[i].scores <= Len(scored') /\ PassedBoth(cleared[i].student, cleared[i].scores)'
  BY <1>1, <1>7 DEF SimInv, PassedBoth, PassedBy
<1>8. ASSUME NEW i \in DOMAIN sims', sims'[i].passed
      PROVE  PassedBy(sims[i].student, sims[i].persona, Len(scored))'
  BY <1>1, <1>8 DEF SimInv, PassedBy
<1>9. ASSUME NEW i \in DOMAIN scored', scored'[i].passed, scored'[i].met # -1, scored'[i].persona \in Defense
      PROVE  scored'[i].met >= 3
  BY <1>1, <1>9 DEF SimInv
<1>10. ASSUME NEW s \in Trainee, \A persona \in Defense : DefensePassed(s, persona)', simFaults' = 0
       PROVE  \/ \E e \in SimSeat : Clearing(e)' /\ simSeat'[e].student = s
              \/ \E i \in DOMAIN cleared' : cleared'[i].student = s
  <2>1. \A persona \in Defense : DefensePassed(s, persona)
    BY <1>1, <1>10 DEF DefensePassed
  <2>2. CASE \E i \in DOMAIN cleared : cleared[i].student = s
    BY <1>1, <2>2
  <2>3. CASE \E e \in SimSeat : Clearing(e) /\ simSeat[e].student = s
    <3>1. PICK e \in SimSeat : Clearing(e) /\ simSeat[e].student = s
      BY <2>3
    <3>2. CASE e = d
      BY <1>1, <1>2, <2>1, <3>1, <3>2 DEF Clearing
    <3>3. CASE e # d
      BY <1>2, <3>1, <3>3 DEF Clearing
    <3> QED
      BY <3>2, <3>3
  <2> QED
    BY <1>1, <1>10, <2>1, <2>2, <2>3 DEF SimInv
<1> QED
  BY <1>3, <1>4, <1>6, <1>7, <1>8, <1>9, <1>10 DEF SimInv

(* A turn and a conclusion read the simulation they are about.             *)
LEMMA LoadSteps ==
  ASSUME SimInv, NEW d \in SimSeat, NEW s \in Trainee, NEW i \in DOMAIN sims,
         LoadTurn(d, s, i) \/ LoadConclude(d, s, i)
  PROVE  SimInv'
<1>1. sims \in Seq(Sim) /\ i \in Nat /\ sims[i] \in Sim
  BY DEF SimInv, SimTypes
<1>2. sims[i].turns \in Seq(Turn)
  BY <1>1 DEF Sim
<1>3. simSeat[d] = Standing /\ ~Clearing(d) /\ UNCHANGED <<sims, scored, cleared, simFaults>>
  BY DEF LoadTurn, LoadConclude, Clearing, Standing
<1>4. PICK r : SeatAt(d, r) /\ r \in Request /\ r.op \in {"turn", "score"} /\ r.sim = i
  <2>1. CASE LoadTurn(d, s, i)
    <3>1. PICK said \in Said : SeatAt(d, [op |-> "turn", sim |-> i, turns |-> sims[i].turns, said |-> said])
      BY <2>1 DEF LoadTurn
    <3>2. [op |-> "turn", sim |-> i, turns |-> sims[i].turns, said |-> said] \in Request
      BY <1>1, <1>2 DEF Request
    <3> QED
      BY <3>1, <3>2
  <2>2. CASE LoadConclude(d, s, i)
    <3>1. SeatAt(d, [op |-> "score", sim |-> i, turns |-> sims[i].turns])
      BY <2>2 DEF LoadConclude
    <3>2. [op |-> "score", sim |-> i, turns |-> sims[i].turns] \in Request
      BY <1>1, <1>2 DEF Request
    <3> QED
      BY <3>1, <3>2
  <2> QED
    BY <2>1, <2>2
<1> QED
  BY <1>3, <1>4, SeatStep

(* The scores are looked through, and then whether the clearing was        *)
(* announced.                                                              *)
LEMMA CheckSteps ==
  ASSUME SimInv, NEW d \in SimSeat, CheckDefenses(d) \/ EmitSnapshot(d)
  PROVE  SimInv'
<1> DEFINE s == simSeat[d].student
<1>1. simSeat[d] \in Request /\ simSeat[d].op \in {"check", "emit"}
      /\ UNCHANGED <<sims, scored, cleared, simFaults>>
  BY DEF SimInv, SimTypes, CheckDefenses, EmitSnapshot
<1>2. s \in Trainee
  BY <1>1, RequestFacts
<1>3. Standing \in Request /\ Standing.op = "free"
      /\ \A o \in {"emit", "commit"} : [op |-> o, student |-> s] \in Request
  BY <1>2 DEF Request, Standing
<1>4. CASE CheckDefenses(d)
  <2>1. CASE \A persona \in Defense : DefensePassed(s, persona)
    <3>1. SeatAt(d, [op |-> "emit", student |-> s])
      BY <1>4, <2>1 DEF CheckDefenses
    <3>2. ASSUME NEW persona \in Defense PROVE PassedBy(s, persona, Len(scored))
      BY <2>1 DEF DefensePassed, SimInv
    <3>3. PassedBoth(s, Len(scored))
      BY <3>2 DEF PassedBoth
    <3> HIDE DEF s
    <3>4. [op |-> "emit", student |-> s] \in Request
      BY <1>3
    <3> QED
      BY <1>1, <3>1, <3>3, <3>4, SeatStep DEF s
  <2>2. CASE ~\A persona \in Defense : DefensePassed(s, persona)
    <3>1. SeatAt(d, Standing)
      BY <1>4, <2>2 DEF CheckDefenses
    <3> QED
      BY <1>1, <1>3, <2>2, <3>1, SeatStep
  <2> QED
    BY <2>1, <2>2
<1>5. CASE EmitSnapshot(d)
  <2>1. CASE \E i \in DOMAIN cleared : cleared[i].student = s
    <3>1. SeatAt(d, Standing)
      BY <1>5, <2>1 DEF EmitSnapshot
    <3> QED
      BY <1>1, <1>3, <2>1, <3>1, SeatStep
  <2>2. CASE ~\E i \in DOMAIN cleared : cleared[i].student = s
    <3>1. SeatAt(d, [op |-> "commit", student |-> s])
      BY <1>5, <2>2 DEF EmitSnapshot
    <3>2. PassedBoth(s, Len(scored))
      BY <1>5 DEF EmitSnapshot, SimInv
    <3>3. [op |-> "commit", student |-> s] \in Request
      BY <1>3
    <3> QED
      BY <1>1, <3>1, <3>2, <3>3, SeatStep
  <2> QED
    BY <2>1, <2>2
<1> QED
  BY <1>4, <1>5

(* Rows are added or rewritten without a grade; the requests that clear     *)
(* stay, and no request points at a row that is not there.                 *)
LEMMA RowsStep ==
  ASSUME SimInv, SimTypes', UNCHANGED <<scored, cleared, simFaults>>, DOMAIN sims \subseteq DOMAIN sims',
         \A e \in SimSeat : \/ simSeat'[e] = simSeat[e]
                            \/ ~Clearing(e) /\ simSeat'[e] = Standing,
         \A i \in DOMAIN sims' :
           \/ ~sims'[i].passed
           \/ /\ i \in DOMAIN sims /\ sims'[i].passed = sims[i].passed
              /\ sims'[i].student = sims[i].student /\ sims'[i].persona = sims[i].persona
              /\ sims'[i].status = sims[i].status
  PROVE  SimInv'
<1>1. scored' = scored /\ cleared' = cleared /\ simFaults' = simFaults
  OBVIOUS
<1>2. Standing.op = "free"
  BY DEF Standing
<1>4. ASSUME NEW e \in SimSeat, simSeat'[e].op \in {"turn", "score"} PROVE simSeat'[e].sim \in DOMAIN sims'
  BY <1>2, <1>4 DEF SimInv
<1>6. ASSUME NEW e \in SimSeat, simSeat'[e].op \in {"emit", "commit"}
      PROVE  PassedBoth(simSeat[e].student, Len(scored))'
  <2>1. PassedBoth(simSeat'[e].student, Len(scored))
    BY <1>2, <1>6 DEF SimInv
  <2> QED
    BY <1>1, <2>1 DEF PassedBoth, PassedBy
<1>7. ASSUME NEW i \in DOMAIN cleared'
      PROVE  cleared'[i].scores <= Len(scored') /\ PassedBoth(cleared[i].student, cleared[i].scores)'
  BY <1>1, <1>7 DEF SimInv, PassedBoth, PassedBy
<1>8. ASSUME NEW i \in DOMAIN sims', sims'[i].passed
      PROVE  PassedBy(sims[i].student, sims[i].persona, Len(scored))'
  <2>1. /\ i \in DOMAIN sims /\ sims[i].passed
        /\ sims'[i].student = sims[i].student /\ sims'[i].persona = sims[i].persona
    BY <1>8
  <2>2. PassedBy(sims[i].student, sims[i].persona, Len(scored))
    BY <2>1 DEF SimInv
  <2> QED
    BY <1>1, <2>1, <2>2 DEF PassedBy
<1>9. ASSUME NEW i \in DOMAIN scored', scored'[i].passed, scored'[i].met # -1, scored'[i].persona \in Defense
      PROVE  scored'[i].met >= 3
  BY <1>1, <1>9 DEF SimInv
<1>10. ASSUME NEW s \in Trainee, \A persona \in Defense : DefensePassed(s, persona)', simFaults' = 0
       PROVE  \/ \E e \in SimSeat : Clearing(e)' /\ simSeat'[e].student = s
              \/ \E i \in DOMAIN cleared' : cleared'[i].student = s
  <2>1. ASSUME NEW persona \in Defense PROVE DefensePassed(s, persona)
    <3>1. PICK i \in DOMAIN sims' : /\ sims'[i].student = s /\ sims'[i].persona = persona
                                    /\ sims'[i].status = "graded" /\ sims'[i].passed
      BY <1>10 DEF DefensePassed
    <3> QED
      BY <3>1 DEF DefensePassed
  <2>2. CASE \E i \in DOMAIN cleared : cleared[i].student = s
    BY <1>1, <2>2
  <2>3. CASE \E e \in SimSeat : Clearing(e) /\ simSeat[e].student = s
    BY <2>3 DEF Clearing
  <2> QED
    BY <1>1, <1>10, <2>1, <2>2, <2>3 DEF SimInv
<1> QED
  BY <1>4, <1>6, <1>7, <1>8, <1>9, <1>10 DEF SimInv

(* A simulation starts empty and open.                                     *)
LEMMA StartStep ==
  ASSUME SimInv, NEW s \in Trainee, NEW persona \in Persona, StartSimulation(s, persona)
  PROVE  SimInv'
<1> DEFINE row == [student |-> s, persona |-> persona, status |-> "in_progress",
                   turns |-> <<>>, passed |-> FALSE]
<1>1. row \in Sim /\ ~row.passed
  BY DEF Sim
<1>2. sims \in Seq(Sim) /\ sims' = Append(sims, row)
      /\ UNCHANGED <<scored, cleared, simSeat, simFaults>>
  BY DEF SimInv, SimTypes, StartSimulation
<1> HIDE DEF row
<1>3. /\ sims' \in Seq(Sim) /\ DOMAIN sims = 1 .. Len(sims) /\ DOMAIN sims' = 1 .. Len(sims) + 1
      /\ Len(sims) \in Nat /\ \A i \in DOMAIN sims : sims'[i] = sims[i]
      /\ sims'[Len(sims) + 1] = row
  BY <1>1, <1>2, AppendFacts
<1>4. SimTypes'
  BY <1>2, <1>3 DEF SimInv, SimTypes
<1>5. DOMAIN sims \subseteq DOMAIN sims'
  BY <1>3
<1>6. \A i \in DOMAIN sims' : sims'[i].passed => i \in DOMAIN sims /\ sims'[i] = sims[i]
  BY <1>1, <1>3
<1> QED
  BY <1>2, <1>4, <1>5, <1>6, RowsStep

(* A turn is stored unless another was stored since it was read.           *)
LEMMA TurnStep ==
  ASSUME SimInv, NEW d \in SimSeat, PersistTurn(d)
  PROVE  SimInv'
<1> DEFINE r == simSeat[d]
           turn == [said  |-> r.said, reply |-> MockReply(sims[r.sim].persona, r.said)]
<1>1. /\ r.op = "turn" /\ sims' = [sims EXCEPT ![r.sim].turns = Append(r.turns, turn)]
      /\ simSeat' = [simSeat EXCEPT ![d] = Standing] /\ UNCHANGED <<scored, cleared, simFaults>>
  BY DEF PersistTurn, SeatAt
<1>2. sims \in Seq(Sim) /\ simSeat \in [SimSeat -> Request] /\ r.sim \in DOMAIN sims
  BY <1>1 DEF SimInv, SimTypes
<1>3. r.turns \in Seq(Turn) /\ r.said \in Said
  BY <1>1, <1>2, RequestFacts
<1>4. turn \in Turn
  <2>1. sims[r.sim].persona \in Persona
    <3>1. sims[r.sim] \in Sim
      BY <1>2
    <3> QED
      BY <3>1 DEF Sim
  <2> QED
    BY <1>3, <2>1 DEF Turn
<1>5. Append(r.turns, turn) \in Seq(Turn)
  BY <1>3, <1>4, AppendFacts
<1>6. simSeat' \in [SimSeat -> Request] /\ ~Clearing(d)
      /\ \A e \in SimSeat : simSeat'[e] = (IF e = d THEN Standing ELSE simSeat[e])
  <2>1. Standing \in Request
    BY DEF Request
  <2> QED
    BY <1>1, <1>2, <2>1 DEF Clearing
<1> DEFINE turns == Append(r.turns, turn)
           i     == r.sim
<1> HIDE DEF turns, i, turn
<1>7. /\ sims' = [sims EXCEPT ![i].turns = turns] /\ turns \in Seq(Turn) /\ i \in DOMAIN sims
  BY <1>1, <1>2, <1>5 DEF turns, i
<1>8. [sims[i] EXCEPT !.turns = turns] \in Sim
  <2>1. sims[i] \in Sim
    BY <1>2, <1>7
  <2> QED
    BY <1>7, <2>1 DEF Sim
<1>9. sims' \in Seq(Sim) /\ DOMAIN sims' = DOMAIN sims
      /\ \A j \in DOMAIN sims : sims'[j] = (IF j = i THEN [sims[i] EXCEPT !.turns = turns] ELSE sims[j])
  BY <1>2, <1>7, <1>8
<1>10. ASSUME NEW j \in DOMAIN sims'
       PROVE  /\ j \in DOMAIN sims /\ sims'[j].passed = sims[j].passed
              /\ sims'[j].student = sims[j].student /\ sims'[j].persona = sims[j].persona
              /\ sims'[j].status = sims[j].status
  <2>1. sims[j] \in Sim /\ j \in DOMAIN sims
    BY <1>2, <1>9, <1>10
  <2> QED
    BY <1>9, <2>1 DEF Sim
<1>11. SimTypes'
  BY <1>1, <1>6, <1>9 DEF SimInv, SimTypes
<1> QED
  BY <1>1, <1>6, <1>9, <1>10, <1>11, RowsStep

(* A clearing that fails leaves the scores and announces nothing.          *)
LEMMA FailStep ==
  ASSUME SimInv, NEW d \in SimSeat, ClearingFails(d)
  PROVE  SimInv'
<1>1. /\ simSeat' = [simSeat EXCEPT ![d] = Standing] /\ simFaults' = simFaults + 1
      /\ UNCHANGED <<sims, scored, cleared>>
  BY DEF ClearingFails, SeatAt
<1>2. Standing \in Request /\ Standing.op = "free"
  BY DEF Request, Standing
<1>3. SimTypes' /\ simFaults' # 0
  BY <1>1, <1>2 DEF SimInv, SimTypes
<1>4. \A e \in SimSeat : simSeat'[e] = (IF e = d THEN Standing ELSE simSeat[e])
  BY <1>1 DEF SimInv, SimTypes
<1>5. ASSUME NEW e \in SimSeat, simSeat'[e].op \in {"emit", "commit"}
      PROVE  PassedBoth(simSeat[e].student, Len(scored))'
  <2>1. PassedBoth(simSeat'[e].student, Len(scored))
    BY <1>2, <1>4, <1>5 DEF SimInv
  <2> QED
    BY <1>1, <2>1 DEF PassedBoth, PassedBy
<1>6. ASSUME NEW i \in DOMAIN cleared'
      PROVE  cleared'[i].scores <= Len(scored') /\ PassedBoth(cleared[i].student, cleared[i].scores)'
  BY <1>1, <1>6 DEF SimInv, PassedBoth, PassedBy
<1>7. ASSUME NEW i \in DOMAIN sims', sims'[i].passed
      PROVE  PassedBy(sims[i].student, sims[i].persona, Len(scored))'
  BY <1>1, <1>7 DEF SimInv, PassedBy
<1>8. \A e \in SimSeat : simSeat'[e].op \in {"turn", "score"} => simSeat'[e].sim \in DOMAIN sims'
  BY <1>1, <1>2, <1>4 DEF SimInv
<1>9. \A i \in DOMAIN scored' : scored'[i].passed /\ scored'[i].met # -1 /\ scored'[i].persona \in Defense
                                => scored'[i].met >= 3
  BY <1>1 DEF SimInv
<1> QED
  BY <1>3, <1>5, <1>6, <1>7, <1>8, <1>9 DEF SimInv

(* A defense is announced as cleared for the student whose defenses        *)
(* passed.                                                                 *)
LEMMA CommitStep ==
  ASSUME SimInv, NEW d \in SimSeat, EmitCommit(d)
  PROVE  SimInv'
<1> DEFINE s == simSeat[d].student
           entry == [student |-> s, scores |-> Len(scored)]
<1>1. /\ simSeat[d].op = "commit" /\ simSeat' = [simSeat EXCEPT ![d] = Standing]
      /\ cleared' = Append(cleared, entry) /\ UNCHANGED <<sims, scored, simFaults>>
  BY DEF EmitCommit, SeatAt
<1>2. simSeat \in [SimSeat -> Request] /\ cleared \in Seq(Cleared) /\ scored \in Seq(Score)
  BY DEF SimInv, SimTypes
<1>3. s \in Trainee /\ PassedBoth(s, Len(scored))
  BY <1>1, <1>2, RequestFacts DEF SimInv
<1>4. entry \in Cleared /\ entry.student = s /\ entry.scores = Len(scored) /\ Len(scored) \in Nat
  BY <1>2, <1>3 DEF Cleared
<1> HIDE DEF entry
<1>5. /\ cleared' \in Seq(Cleared) /\ DOMAIN cleared = 1 .. Len(cleared) /\ Len(cleared) \in Nat
      /\ DOMAIN cleared' = 1 .. Len(cleared) + 1
      /\ \A i \in DOMAIN cleared : cleared'[i] = cleared[i]
      /\ cleared'[Len(cleared) + 1] = entry
  BY <1>1, <1>2, <1>4, AppendFacts
<1>6. Standing \in Request /\ Standing.op = "free"
  BY DEF Request, Standing
<1>7. SimTypes'
  BY <1>1, <1>2, <1>5, <1>6 DEF SimInv, SimTypes
<1>8. \A e \in SimSeat : simSeat'[e] = (IF e = d THEN Standing ELSE simSeat[e])
  BY <1>1, <1>2
<1>9. ASSUME NEW e \in SimSeat, simSeat'[e].op \in {"emit", "commit"}
      PROVE  PassedBoth(simSeat[e].student, Len(scored))'
  <2>1. PassedBoth(simSeat'[e].student, Len(scored))
    BY <1>6, <1>8, <1>9 DEF SimInv
  <2> QED
    BY <1>1, <2>1 DEF PassedBoth, PassedBy
<1>10. ASSUME NEW i \in DOMAIN cleared'
       PROVE  cleared'[i].scores <= Len(scored') /\ PassedBoth(cleared[i].student, cleared[i].scores)'
  <2>1. CASE i \in DOMAIN cleared
    <3>1. cleared[i].scores <= Len(scored) /\ PassedBoth(cleared[i].student, cleared[i].scores)
      BY <2>1 DEF SimInv
    <3> QED
      BY <1>1, <1>5, <2>1, <3>1 DEF PassedBoth, PassedBy
  <2>2. CASE i = Len(cleared) + 1
    <3>1. cleared'[i].scores = Len(scored) /\ cleared'[i].student = s
      BY <1>4, <1>5, <2>2
    <3> QED
      BY <1>1, <1>3, <1>4, <3>1 DEF PassedBoth, PassedBy
  <2> QED
    BY <1>5, <1>10, <2>1, <2>2
<1>11. ASSUME NEW i \in DOMAIN sims', sims'[i].passed
       PROVE  PassedBy(sims[i].student, sims[i].persona, Len(scored))'
  BY <1>1, <1>11 DEF SimInv, PassedBy
<1>12. \A e \in SimSeat : simSeat'[e].op \in {"turn", "score"} => simSeat'[e].sim \in DOMAIN sims'
  BY <1>1, <1>6, <1>8 DEF SimInv
<1>13. \A i \in DOMAIN scored' : scored'[i].passed /\ scored'[i].met # -1 /\ scored'[i].persona \in Defense
                                 => scored'[i].met >= 3
  BY <1>1 DEF SimInv
<1>14. ASSUME NEW t \in Trainee, \A persona \in Defense : DefensePassed(t, persona)', simFaults' = 0
       PROVE  \/ \E e \in SimSeat : Clearing(e)' /\ simSeat'[e].student = t
              \/ \E i \in DOMAIN cleared' : cleared'[i].student = t
  <2>1. \A persona \in Defense : DefensePassed(t, persona)
    BY <1>1, <1>14 DEF DefensePassed
  <2>2. CASE t = s
    <3>1. Len(cleared) + 1 \in DOMAIN cleared' /\ cleared'[Len(cleared) + 1].student = s
      BY <1>4, <1>5
    <3> QED
      BY <2>2, <3>1
  <2>3. CASE t # s /\ \E e \in SimSeat : Clearing(e) /\ simSeat[e].student = t
    <3>1. PICK e \in SimSeat : Clearing(e) /\ simSeat[e].student = t
      BY <2>3
    <3>2. e # d
      BY <2>3, <3>1
    <3> QED
      BY <1>8, <3>1, <3>2 DEF Clearing
  <2>4. CASE \E i \in DOMAIN cleared : cleared[i].student = t
    <3>1. PICK i \in DOMAIN cleared : cleared[i].student = t
      BY <2>4
    <3>2. i \in DOMAIN cleared' /\ cleared'[i] = cleared[i]
      BY <1>5, <3>1
    <3> QED
      BY <3>1, <3>2
  <2> QED
    BY <1>1, <1>14, <2>1, <2>2, <2>3, <2>4 DEF SimInv
<1> QED
  BY <1>7, <1>9, <1>10, <1>11, <1>12, <1>13, <1>14 DEF SimInv

(* A defense that passes met at least three of its criteria.               *)
LEMMA VerdictFacts ==
  ASSUME NEW persona \in Persona, NEW turns, NEW v \in Verdicts(persona, turns)
  PROVE  /\ v.met \in Int
         /\ v.passed \in BOOLEAN
         /\ v.passed /\ v.met # -1 /\ persona \in Defense => v.met >= 3
<1>1. CASE v \in [passed : BOOLEAN, met : {-1}]
  BY <1>1
<1>2. CASE v = MockVerdict(persona, turns)
  <2> DEFINE C   == CriteriaOf(persona, turns)
             met == {i \in 1 .. 4 : C[i].met}
             enough == WeightedScore(C) >= 7000
  <2>1. IsFiniteSet(1 .. 4) /\ met \subseteq 1 .. 4
    <3>1. IsFiniteSet(1 .. 4)
      <4>1. \A n \in Nat : IsFiniteSet(1 .. n)
        BY FS_Interval
      <4> QED
        BY <4>1
    <3>2. met \subseteq 1 .. 4
      OBVIOUS
    <3> QED
      BY <3>1, <3>2
  <2>2. Cardinality(met) \in Nat
    BY <2>1, FS_Subset, FS_CardinalityType
  <2>3. v = [passed |-> enough, met |-> Cardinality(met)]
    BY <1>2 DEF MockVerdict
  <2>4. enough \in BOOLEAN
    OBVIOUS
  <2> HIDE DEF met, enough
  <2>5. v.met = Cardinality(met) /\ v.passed \in BOOLEAN
    BY <2>3, <2>4
  <2> QED
    BY <1>2, <2>2, <2>5, MockPassNeedsThree
<1> QED
  BY <1>1, <1>2 DEF Verdicts

(* A verdict grades the simulation, is logged, and if it passes a defense    *)
(* the request goes on to clear.                                           *)
LEMMA ScoreStep ==
  ASSUME SimInv, NEW d \in SimSeat, PersistScore(d)
  PROVE  SimInv'
<1> DEFINE j       == simSeat[d].sim
           persona == sims[j].persona
           owner   == sims[j].student
<1>1. simSeat[d].op = "score" /\ simSeat[d] \in Request /\ ~Clearing(d)
  BY DEF PersistScore, SimInv, SimTypes, Clearing
<1>2. sims \in Seq(Sim) /\ scored \in Seq(Score) /\ j \in DOMAIN sims
      /\ simSeat \in [SimSeat -> Request]
  BY <1>1 DEF SimInv, SimTypes
<1>3. sims[j] \in Sim /\ persona \in Persona /\ owner \in Trainee
  <2>1. sims[j] \in Sim
    BY <1>2
  <2> QED
    BY <2>1 DEF Sim
<1>4. PICK v \in Verdicts(persona, simSeat[d].turns) :
        /\ sims' = [sims EXCEPT ![j].status = "graded", ![j].passed = v.passed]
        /\ scored' = Append(scored, [student |-> owner, persona |-> persona,
                                     passed |-> v.passed, met |-> v.met])
        /\ SeatAt(d, IF v.passed /\ persona \in Defense
                       THEN [op |-> "check", student |-> owner] ELSE Standing)
  BY DEF PersistScore
<1>5. UNCHANGED <<cleared, simFaults>>
  BY DEF PersistScore
<1>6. v.met \in Int /\ v.passed \in BOOLEAN
      /\ (v.passed /\ v.met # -1 /\ persona \in Defense => v.met >= 3)
  BY <1>3, VerdictFacts
<1> DEFINE entry == [student |-> owner, persona |-> persona, passed |-> v.passed, met |-> v.met]
           row   == [sims[j] EXCEPT !.status = "graded", !.passed = v.passed]
           next  == IF v.passed /\ persona \in Defense
                      THEN [op |-> "check", student |-> owner] ELSE Standing
<1>7. /\ entry \in Score /\ entry.student = owner /\ entry.persona = persona
      /\ entry.passed = v.passed /\ entry.met = v.met
  BY <1>3, <1>6 DEF Score
<1>8. /\ row \in Sim /\ row.student = owner /\ row.persona = persona /\ row.passed = v.passed
  BY <1>3, <1>6 DEF Sim
<1>9. next \in Request /\ next.op \in {"free", "check"}
      /\ (v.passed /\ persona \in Defense => next.op = "check" /\ next.student = owner)
  <2>1. [op |-> "check", student |-> owner] \in Request /\ Standing \in Request /\ Standing.op = "free"
    BY <1>3 DEF Request, Standing
  <2> QED
    BY <2>1
<1>10. sims' = [sims EXCEPT ![j] = row] /\ scored' = Append(scored, entry)
       /\ simSeat' = [simSeat EXCEPT ![d] = next]
  BY <1>2, <1>4 DEF SeatAt
<1> HIDE DEF entry, row, next, j, persona, owner
<1>11. /\ sims' \in Seq(Sim) /\ DOMAIN sims' = DOMAIN sims
       /\ \A i \in DOMAIN sims : sims'[i] = (IF i = j THEN row ELSE sims[i])
  BY <1>2, <1>8, <1>10
<1>12. /\ scored' \in Seq(Score) /\ DOMAIN scored = 1 .. Len(scored) /\ Len(scored) \in Nat
       /\ DOMAIN scored' = 1 .. Len(scored) + 1 /\ Len(scored') = Len(scored) + 1
       /\ \A i \in DOMAIN scored : scored'[i] = scored[i]
       /\ scored'[Len(scored) + 1] = entry
  BY <1>2, <1>7, <1>10, AppendFacts
<1>13. \A e \in SimSeat : simSeat'[e] = (IF e = d THEN next ELSE simSeat[e])
  BY <1>2, <1>10
<1>14. SimTypes'
  BY <1>2, <1>5, <1>9, <1>10, <1>11, <1>12 DEF SimInv, SimTypes
<1>15. ASSUME NEW s, NEW p, NEW n \in Nat, n <= Len(scored), PassedBy(s, p, n)
       PROVE  PassedBy(s, p, n)' /\ PassedBy(s, p, Len(scored))'
  <2>1. PICK i \in 1 .. n : scored[i].student = s /\ scored[i].persona = p /\ scored[i].passed
    BY <1>15 DEF PassedBy
  <2>2. i \in DOMAIN scored /\ scored'[i] = scored[i] /\ i \in 1 .. Len(scored')
    BY <1>12, <1>15
  <2> QED
    BY <2>1, <2>2 DEF PassedBy
<1>16. ASSUME NEW s, PassedBoth(s, Len(scored)) PROVE PassedBoth(s, Len(scored))'
  BY <1>12, <1>15, <1>16 DEF PassedBoth
<1>17. \A e \in SimSeat : simSeat'[e].op \in {"turn", "score"} => simSeat'[e].sim \in DOMAIN sims'
  BY <1>9, <1>11, <1>13 DEF SimInv
<1>18. ASSUME NEW i \in DOMAIN sims', sims'[i].passed
       PROVE  PassedBy(sims[i].student, sims[i].persona, Len(scored))'
  <2>1. CASE i = j
    <3>1. sims'[i].student = owner /\ sims'[i].persona = persona /\ v.passed
      BY <1>8, <1>11, <1>18, <2>1
    <3>2. /\ Len(scored) + 1 \in 1 .. Len(scored')
          /\ scored'[Len(scored) + 1].student = owner /\ scored'[Len(scored) + 1].persona = persona
          /\ scored'[Len(scored) + 1].passed
      <4>1. entry.passed = TRUE
        BY <1>6, <1>7, <3>1
      <4> QED
        BY <1>7, <1>12, <4>1
    <3> QED
      BY <3>1, <3>2 DEF PassedBy
  <2>2. CASE i # j
    <3>1. i \in DOMAIN sims /\ sims'[i] = sims[i]
      BY <1>11, <2>2
    <3>2. PassedBy(sims[i].student, sims[i].persona, Len(scored))
      BY <1>18, <3>1 DEF SimInv
    <3>3. PassedBy(sims'[i].student, sims'[i].persona, Len(scored))
      BY <3>1, <3>2
    <3> QED
      BY <1>12, <1>15, <3>3
  <2> QED
    BY <2>1, <2>2
<1>19. ASSUME NEW e \in SimSeat, simSeat'[e].op \in {"emit", "commit"}
       PROVE  PassedBoth(simSeat[e].student, Len(scored))'
  <2>1. simSeat'[e] = simSeat[e]
    BY <1>9, <1>13, <1>19
  <2>2. PassedBoth(simSeat'[e].student, Len(scored))
    BY <1>19, <2>1 DEF SimInv
  <2> QED
    BY <1>16, <2>2
<1>20. ASSUME NEW i \in DOMAIN cleared'
       PROVE  cleared'[i].scores <= Len(scored') /\ PassedBoth(cleared[i].student, cleared[i].scores)'
  <2>1. cleared' = cleared /\ cleared[i].scores \in Nat
    <3>1. cleared' = cleared /\ cleared \in Seq(Cleared)
      BY <1>5 DEF SimInv, SimTypes
    <3>2. cleared[i] \in Cleared
      BY <1>20, <3>1
    <3> QED
      BY <3>1, <3>2 DEF Cleared
  <2>2. cleared[i].scores <= Len(scored) /\ PassedBoth(cleared[i].student, cleared[i].scores)
    BY <1>5, <1>20 DEF SimInv
  <2>3. ASSUME NEW p \in Defense PROVE PassedBy(cleared[i].student, p, cleared[i].scores)'
    <3>1. PassedBy(cleared[i].student, p, cleared[i].scores)
      BY <2>2 DEF PassedBoth
    <3>2. PassedBy(cleared'[i].student, p, cleared'[i].scores)
      BY <2>1, <3>1
    <3> QED
      BY <1>15, <2>1, <2>2, <3>2
  <2> QED
    BY <1>12, <2>1, <2>2, <2>3 DEF PassedBoth
<1>21. ASSUME NEW i \in DOMAIN scored', scored'[i].passed, scored'[i].met # -1, scored'[i].persona \in Defense
       PROVE  scored'[i].met >= 3
  <2>1. CASE i = Len(scored) + 1
    BY <1>6, <1>7, <1>12, <1>21, <2>1
  <2>2. CASE i \in DOMAIN scored
    BY <1>12, <1>21, <2>2 DEF SimInv
  <2> QED
    BY <1>12, <2>1, <2>2
<1>22. ASSUME NEW s \in Trainee, \A p \in Defense : DefensePassed(s, p)', simFaults' = 0
       PROVE  \/ \E e \in SimSeat : Clearing(e)' /\ simSeat'[e].student = s
              \/ \E i \in DOMAIN cleared' : cleared'[i].student = s
  <2>1. CASE v.passed /\ persona \in Defense /\ owner = s
    BY <1>9, <1>13, <2>1 DEF Clearing
  <2>2. CASE ~(v.passed /\ persona \in Defense /\ owner = s)
    <3>1. ASSUME NEW p \in Defense PROVE DefensePassed(s, p)
      <4>1. PICK i \in DOMAIN sims' : /\ sims'[i].student = s /\ sims'[i].persona = p
                                      /\ sims'[i].status = "graded" /\ sims'[i].passed
        BY <1>22 DEF DefensePassed
      <4>2. i # j
        BY <1>8, <1>11, <2>2, <4>1
      <4> QED
        BY <1>11, <4>1, <4>2 DEF DefensePassed
    <3>2. \A e \in SimSeat : Clearing(e) => Clearing(e)' /\ simSeat'[e] = simSeat[e]
      BY <1>1, <1>13 DEF Clearing
    <3> QED
      BY <1>5, <1>22, <3>1, <3>2 DEF SimInv
  <2> QED
    BY <2>1, <2>2
<1> QED
  BY <1>14, <1>17, <1>18, <1>19, <1>20, <1>21, <1>22 DEF SimInv

(* What is graded, being cleared or cleared was passed before.             *)
THEOREM SimulationInvariant == SimulationSpec => []SimInv
<1>1. SimulationInit => SimInv
  <2> SUFFICES ASSUME SimulationInit PROVE SimInv
    OBVIOUS
  <2>1. Standing \in Request /\ Standing.op = "free"
    BY DEF Request, Standing
  <2>2. SimTypes
    BY <2>1 DEF SimulationInit, SimTypes
  <2>3. DOMAIN sims = {} /\ DOMAIN scored = {} /\ DOMAIN cleared = {}
        /\ \A d \in SimSeat : simSeat[d].op = "free"
    BY <2>1 DEF SimulationInit
  <2>4. ASSUME NEW s PROVE ~\A persona \in Defense : DefensePassed(s, persona)
    BY <2>3 DEF DefensePassed, Defense
  <2> QED
    BY <2>2, <2>3, <2>4 DEF SimInv
<1>2. ASSUME SimInv, [SimulationNext]_simulationVars PROVE SimInv'
  <2>1. CASE UNCHANGED simulationVars
    <3>1. SimTypes'
      BY <1>2, <2>1 DEF SimInv, SimTypes, simulationVars
    <3> QED
      BY <1>2, <2>1, <3>1, RowsStep DEF simulationVars
  <2>2. CASE \E s \in Trainee, persona \in {Technical, Business, Discovery} : StartSimulation(s, persona)
    BY <1>2, <2>2, StartStep DEF Persona
  <2>3. CASE \E d \in SimSeat, s \in Trainee, i \in DOMAIN sims : LoadTurn(d, s, i) \/ LoadConclude(d, s, i)
    BY <1>2, <2>3, LoadSteps
  <2>4. CASE \E d \in SimSeat : \/ PersistTurn(d) \/ PersistScore(d) \/ CheckDefenses(d)
                                \/ EmitSnapshot(d) \/ EmitCommit(d) \/ ClearingFails(d)
    BY <1>2, <2>4, TurnStep, ScoreStep, CheckSteps, CommitStep, FailStep
  <2> QED
    BY <1>2, <2>1, <2>2, <2>3, <2>4 DEF SimulationNext
<1> QED
  BY <1>1, <1>2, PTL DEF SimulationSpec

(* A cleared gate is earned and what is earned is cleared, for any students, *)
(* messages, request threads and re-grades.                                *)
THEOREM DefenseClearedIsEarned == SimulationSpec => []ClearedIsEarned
<1>1. ASSUME SimInv PROVE ClearedIsEarned
  <2>1. ASSUME NEW i \in DOMAIN cleared, NEW persona \in Defense
        PROVE  PassedBy(cleared[i].student, persona, cleared[i].scores)
    BY <1>1 DEF SimInv, PassedBoth
  <2>2. \A i \in DOMAIN scored :
          scored[i].passed /\ scored[i].met # -1 /\ scored[i].persona \in Defense => scored[i].met >= 3
    BY <1>1 DEF SimInv
  <2>3. ASSUME NEW s \in Trainee, \A persona \in Defense : DefensePassed(s, persona),
               \A d \in SimSeat : simSeat[d].op \notin {"check", "emit", "commit"}, simFaults = 0
        PROVE  \E i \in DOMAIN cleared : cleared[i].student = s
    BY <1>1, <2>3 DEF SimInv, Clearing
  <2> QED
    BY <2>1, <2>2, <2>3 DEF ClearedIsEarned
<1> QED
  BY <1>1, SimulationInvariant, PTL

-----------------------------------------------------------------------------
(* RECHECK.  re-checks. *)

(* Answers are from days that have been.                                   *)
RecheckInv ==
  /\ today \in 0 .. MaxDay
  /\ started \in SUBSET SeedAnswer /\ answers \subseteq started
  /\ \A a \in started : a.day <= today

(* Answers are from days that have been, and what is stored was started.   *)
THEOREM RecheckInvariant == RecheckSpec => []RecheckInv
<1>1. RecheckInit => RecheckInv
  BY IntervalAssumption DEF RecheckInit, RecheckInv
<1>2. ASSUME RecheckInv, [RecheckNext]_recheckVars PROVE RecheckInv'
  <2> USE <1>2 DEF RecheckInv
  <2>1. CASE UNCHANGED recheckVars
    BY <2>1 DEF recheckVars
  <2>2. CASE Midnight
    <3>1. \A a \in started : a.day \in Nat
      BY DEF SeedAnswer
    <3> QED
      BY <2>2, <3>1, IntervalAssumption DEF Midnight
  <2>3. ASSUME NEW k \in Key, NEW passed \in BOOLEAN, StartAnswer(k, passed) PROVE RecheckInv'
    <3>1. [key |-> k, passed |-> passed, day |-> today] \in SeedAnswer
      BY DEF SeedAnswer
    <3> QED
      BY <2>3, <3>1, IntervalAssumption DEF StartAnswer
  <2>4. CASE \E a \in started : CommitAnswer(a)
    BY <2>4 DEF CommitAnswer
  <2> QED
    BY <2>1, <2>2, <2>3, <2>4 DEF RecheckNext
<1> QED
  BY <1>1, <1>2, PTL DEF RecheckSpec

-----------------------------------------------------------------------------
(* The stage after each day, as an iteration.                              *)
Stages == [stage : 0 .. 3, anchor : 0 .. MaxDay]
Fresh  == [stage |-> 0, anchor |-> 0]
OnDay(days, s, d) == IF d \in days THEN Advance(s, d) ELSE s

(* A day advances a stage to a stage.                                      *)
LEMMA AdvanceType ==
  ASSUME NEW s \in Stages, NEW d \in 0 .. MaxDay, NEW days
  PROVE  OnDay(days, s, d) \in Stages
<1>1. s.stage \in 0 .. 3 /\ s.anchor \in 0 .. MaxDay
  BY DEF Stages
<1>2. \A n \in 0 .. 3 : [stage |-> n, anchor |-> d] \in Stages
  BY DEF Stages
<1>3. Advance(s, d) \in {s} \cup {[stage |-> n, anchor |-> d] : n \in 0 .. 3}
  BY <1>1 DEF Advance
<1> QED
  BY <1>2, <1>3 DEF OnDay

(* Folding the days is the last of the stages reached day by day.          *)
LEMMA FoldedIsIterated ==
  ASSUME NEW days
  PROVE  \E f \in [0 .. MaxDay -> Stages] :
           /\ Folded(days) = f[MaxDay]
           /\ f[0] = OnDay(days, Fresh, 0)
           /\ \A d \in 1 .. MaxDay : f[d] = OnDay(days, f[d - 1], d)
<1> DEFINE Fold(f) == f = [d \in 0 .. MaxDay |->
             LET before == IF d = 0 THEN [stage |-> 0, anchor |-> 0] ELSE f[d - 1]
             IN  IF d \in days THEN Advance(before, d) ELSE before]
<1>1. Folded(days) = (CHOOSE f : Fold(f))[MaxDay]
  BY DEF Folded
<1>2. MaxDay \in Nat
  BY IntervalAssumption
<1> DEFINE start == OnDay(days, Fresh, 0)
           step  == [d \in 1 .. MaxDay |-> [s \in Stages |-> OnDay(days, s, d)]]
<1>3. start \in Stages
  <2>1. Fresh \in Stages
    BY <1>2 DEF Fresh, Stages
  <2> QED
    BY <1>2, <2>1, AdvanceType
<1>4. step \in [1 .. MaxDay -> [Stages -> Stages]]
  BY AdvanceType
<1>5. \E f \in [0 .. MaxDay -> Stages] : Iterates(f, MaxDay, start, step)
  <2> HIDE DEF start, step
  <2> QED
    BY <1>2, <1>3, <1>4, IterationExists
<1>6. \E f : Fold(f)
  <2>1. PICK f \in [0 .. MaxDay -> Stages] : Iterates(f, MaxDay, start, step)
    BY <1>5
  <2>2. ASSUME NEW d \in 1 .. MaxDay PROVE f[d] = OnDay(days, f[d - 1], d)
    <3>1. f[d] = step[d][f[d - 1]]
      BY <2>1 DEF Iterates
    <3>2. f[d - 1] \in Stages
      BY <1>2
    <3> QED
      BY <3>1, <3>2
  <2>3. f[0] = start
    BY <2>1 DEF Iterates
  <2>4. ASSUME NEW d \in 0 .. MaxDay
        PROVE  f[d] = (LET before == IF d = 0 THEN [stage |-> 0, anchor |-> 0] ELSE f[d - 1]
                       IN  IF d \in days THEN Advance(before, d) ELSE before)
    <3>1. CASE d = 0
      BY <2>3, <3>1 DEF OnDay, Fresh
    <3>2. CASE d # 0
      BY <2>2, <3>2 DEF OnDay
    <3> QED
      BY <3>1, <3>2
  <2> QED
    BY <2>4
<1> DEFINE g == CHOOSE f : Fold(f)
<1>7. Fold(g)
  <2> HIDE DEF Fold
  <2> QED
    BY <1>6
<1> HIDE DEF g
<1>8. DOMAIN g = 0 .. MaxDay /\ g = [d \in 0 .. MaxDay |-> g[d]]
  BY <1>7
<1>9. g[0] = OnDay(days, Fresh, 0) /\ \A d \in 1 .. MaxDay : g[d] = OnDay(days, g[d - 1], d)
  BY <1>2, <1>7 DEF OnDay, Fresh
<1>10. \A d \in 0 .. MaxDay : g[d] \in Stages
  <2> DEFINE P == {d \in 0 .. MaxDay : g[d] \in Stages}
  <2>1. 0 \in P
    BY <1>2, <1>3, <1>9
  <2>2. \A d \in 0 .. MaxDay - 1 : d \in P => d + 1 \in P
    BY <1>2, <1>9, AdvanceType
  <2> HIDE DEF P
  <2>3. \A d \in 0 .. MaxDay : d \in P
    BY <1>2, <2>1, <2>2, Induction
  <2> QED
    BY <2>3 DEF P
<1>11. g \in [0 .. MaxDay -> Stages]
  BY <1>8, <1>10
<1> QED
  BY <1>1, <1>9, <1>11 DEF g

(* What stage and anchor say of the days so far: the anchor is the earliest *)
(* day on which the stage could be reached.                                *)
Greedy(s, D) ==
  /\ s.stage = 0 => D = {}
  /\ s.stage = 1 => /\ s.anchor \in D
                    /\ \A x \in D : s.anchor <= x /\ x < s.anchor + First
  /\ s.stage = 2 => /\ s.anchor \in D /\ \E c \in D : s.anchor >= c + First
                    /\ \A c, x \in D : x >= c + First => x >= s.anchor
                    /\ \A x \in D : x < s.anchor + Second
  /\ s.stage = 3 => Chain(D, 3)

(* Taking the first day that advances keeps the stage the longest chain    *)
(* that any choice of days gives.                                          *)
LEMMA GreedyStep ==
  ASSUME NEW s \in Stages, NEW d \in Nat, NEW D, D \subseteq 0 .. d - 1, Greedy(s, D)
  PROVE  Greedy(Advance(s, d), D \cup {d})
<1> DEFINE E == D \cup {d}
<1>1. /\ s.stage \in {0, 1, 2, 3} /\ s.anchor \in Nat
      /\ First \in Nat \ {0} /\ Second \in Nat \ {0}
      /\ \A x \in D : x \in Nat /\ x < d
  BY IntervalAssumption DEF Stages
<1>2. CASE s.stage = 0
  <2>1. Advance(s, d) = [stage |-> 1, anchor |-> d] /\ D = {}
    BY <1>2 DEF Advance, Greedy
  <2> QED
    BY <1>1, <2>1 DEF Greedy
<1>3. CASE s.stage = 1 /\ d >= s.anchor + First
  <2>1. Advance(s, d) = [stage |-> 2, anchor |-> d]
    BY <1>3 DEF Advance
  <2>2. s.anchor \in D /\ \A x \in D : s.anchor <= x /\ x < s.anchor + First
    BY <1>3 DEF Greedy
  <2>3. d \in E /\ \E c \in E : d >= c + First
    BY <1>3, <2>2
  <2>4. ASSUME NEW c \in E, NEW x \in E, x >= c + First PROVE x >= d
    BY <1>1, <2>2, <2>4
  <2>5. \A x \in E : x < d + Second
    BY <1>1
  <2> QED
    BY <2>1, <2>3, <2>4, <2>5 DEF Greedy
<1>4. CASE s.stage = 1 /\ ~(d >= s.anchor + First)
  <2>1. Advance(s, d) = s
    BY <1>4 DEF Advance
  <2> QED
    BY <1>1, <1>4, <2>1 DEF Greedy
<1>5. CASE s.stage = 2 /\ d >= s.anchor + Second
  <2>1. Advance(s, d) = [stage |-> 3, anchor |-> d]
    BY <1>5 DEF Advance
  <2>2. s.anchor \in D /\ \E c \in D : s.anchor >= c + First
    BY <1>5 DEF Greedy
  <2>3. Chain(E, 3)
    BY <1>5, <2>2 DEF Chain
  <2> QED
    BY <2>1, <2>3 DEF Greedy
<1>6. CASE s.stage = 2 /\ ~(d >= s.anchor + Second)
  <2>1. Advance(s, d) = s
    BY <1>6 DEF Advance
  <2>2. /\ s.anchor \in D /\ \E c \in D : s.anchor >= c + First
        /\ \A c, x \in D : x >= c + First => x >= s.anchor
        /\ \A x \in D : x < s.anchor + Second
    BY <1>6 DEF Greedy
  <2>3. ASSUME NEW c \in E, NEW x \in E, x >= c + First PROVE x >= s.anchor
    BY <1>1, <2>2, <2>3
  <2>4. \A x \in E : x < s.anchor + Second
    BY <1>1, <1>6, <2>2
  <2> QED
    BY <1>6, <2>1, <2>2, <2>3, <2>4 DEF Greedy
<1>7. CASE s.stage = 3
  <2>1. Advance(s, d) = s
    BY <1>7 DEF Advance
  <2>2. Chain(D, 3)
    BY <1>7 DEF Greedy
  <2>3. Chain(E, 3)
    BY <2>2 DEF Chain
  <2> QED
    BY <1>7, <2>1, <2>3 DEF Greedy
<1> QED
  BY <1>1, <1>2, <1>3, <1>4, <1>5, <1>6, <1>7

(* So after any set of days.                                               *)
LEMMA FoldedIsGreedy ==
  ASSUME NEW days, days \subseteq 0 .. MaxDay
  PROVE  Folded(days) \in Stages /\ Greedy(Folded(days), days)
<1>1. PICK f \in [0 .. MaxDay -> Stages] :
        /\ Folded(days) = f[MaxDay]
        /\ f[0] = OnDay(days, Fresh, 0)
        /\ \A d \in 1 .. MaxDay : f[d] = OnDay(days, f[d - 1], d)
  BY FoldedIsIterated
<1>2. MaxDay \in Nat /\ \A x \in days : x \in Nat /\ x <= MaxDay
  BY IntervalAssumption
<1> DEFINE Until(d) == {x \in days : x <= d}
           P == {d \in 0 .. MaxDay : Greedy(f[d], Until(d))}
<1>7. ASSUME NEW d \in Nat
      PROVE  /\ Until(0) \subseteq {0} /\ (0 \in Until(0) <=> 0 \in days)
             /\ Until(d) \subseteq 0 .. d
             /\ \A x \in Until(d + 1) : x \in Until(d) \/ x = d + 1
             /\ Until(d) \subseteq Until(d + 1)
             /\ (d + 1 \in Until(d + 1) <=> d + 1 \in days)
  <2>1. ASSUME NEW n, NEW x \in Until(n) PROVE x \in days /\ x <= n /\ x \in Nat
    BY <1>2
  <2>2. Until(0) \subseteq {0} /\ (0 \in Until(0) <=> 0 \in days)
    <3> HIDE DEF Until
    <3>1. ASSUME NEW x \in Until(0) PROVE x = 0
      BY <2>1
    <3>2. 0 \in Until(0) <=> 0 \in days
      BY <1>2 DEF Until
    <3> QED
      BY <3>1, <3>2
  <2>3. Until(d) \subseteq 0 .. d
    <3> HIDE DEF Until
    <3> QED
      BY <2>1
  <2>4. ASSUME NEW x \in Until(d + 1) PROVE x \in Until(d) \/ x = d + 1
    <3>1. x \in days /\ x <= d + 1 /\ x \in Nat
      BY <2>1
    <3>2. x <= d \/ x = d + 1
      BY <3>1
    <3> QED
      BY <3>1, <3>2
  <2>5. ASSUME NEW x \in Until(d) PROVE x \in Until(d + 1)
    <3>1. x \in days /\ x <= d /\ x \in Nat
      BY <2>1
    <3>2. x <= d + 1
      BY <3>1
    <3> QED
      BY <3>1, <3>2
  <2>6. d + 1 \in Until(d + 1) <=> d + 1 \in days
    BY <1>2
  <2> QED
    BY <2>2, <2>3, <2>4, <2>5, <2>6
<1> HIDE DEF Until
<1>3. 0 \in P
  <2>1. Fresh \in Stages /\ Greedy(Fresh, {})
    BY <1>2 DEF Fresh, Stages, Greedy
  <2>2. CASE 0 \in days
    <3>1. Greedy(Advance(Fresh, 0), {} \cup {0})
      BY <2>1, GreedyStep
    <3>2. Until(0) = {} \cup {0}
      BY <1>2, <1>7, <2>2
    <3> QED
      BY <1>1, <1>2, <2>2, <3>1, <3>2 DEF OnDay
  <2>3. CASE 0 \notin days
    <3>1. Until(0) = {}
      BY <1>2, <1>7, <2>3
    <3>2. f[0] = Fresh
      BY <1>1, <2>3 DEF OnDay
    <3>3. Greedy(f[0], Until(0))
      BY <2>1, <3>1, <3>2
    <3> QED
      BY <1>2, <3>3
  <2> QED
    BY <2>2, <2>3
<1>4. ASSUME NEW d \in 0 .. MaxDay - 1, d \in P PROVE d + 1 \in P
  <2>1. /\ f[d] \in Stages /\ Greedy(f[d], Until(d)) /\ d + 1 \in 1 .. MaxDay
        /\ f[d + 1] = OnDay(days, f[d], d + 1)
    BY <1>1, <1>2, <1>4
  <2>2. CASE d + 1 \in days
    <3>1. Until(d) \subseteq 0 .. (d + 1) - 1 /\ Until(d + 1) = Until(d) \cup {d + 1}
      <4>1. /\ Until(d) \subseteq 0 .. d
            /\ \A x \in Until(d + 1) : x \in Until(d) \/ x = d + 1
            /\ Until(d) \subseteq Until(d + 1) /\ d + 1 \in Until(d + 1)
        BY <1>7, <2>2
      <4> QED
        BY <4>1
    <3>2. Greedy(Advance(f[d], d + 1), Until(d) \cup {d + 1})
      BY <2>1, <3>1, GreedyStep
    <3> QED
      BY <2>1, <2>2, <3>1, <3>2 DEF OnDay
  <2>3. CASE d + 1 \notin days
    <3>1. Until(d + 1) = Until(d)
      <4>1. /\ \A x \in Until(d + 1) : x \in Until(d) \/ x = d + 1
            /\ Until(d) \subseteq Until(d + 1) /\ d + 1 \notin Until(d + 1)
        BY <1>7, <2>3
      <4> QED
        BY <4>1
    <3> QED
      BY <2>1, <2>3, <3>1 DEF OnDay
  <2> QED
    BY <2>2, <2>3
<1>5. MaxDay \in P
  <2> HIDE DEF P
  <2>1. \A d \in 0 .. MaxDay : d \in P
    BY <1>2, <1>3, <1>4, Induction
  <2> QED
    BY <1>2, <2>1
<1>6. Until(MaxDay) = days
  BY <1>2 DEF Until
<1> QED
  BY <1>1, <1>2, <1>5, <1>6

(* A stage is reached exactly if a chain of days that long exists.         *)
LEMMA GreedyIsLongest ==
  ASSUME NEW s \in Stages, NEW D, D \subseteq Nat, Greedy(s, D), NEW n \in 0 .. 3
  PROVE  Chain(D, n) <=> s.stage >= n
<1>1. s.stage \in {0, 1, 2, 3} /\ s.anchor \in Nat /\ First \in Nat \ {0} /\ Second \in Nat \ {0}
  BY IntervalAssumption DEF Stages
<1>2. /\ Chain(D, 0) /\ (Chain(D, 1) <=> D # {})
      /\ Chain(D, 2) <=> \E c, d \in D : d >= c + First
      /\ Chain(D, 3) <=> \E c, d, e \in D : d >= c + First /\ e >= d + Second
  BY DEF Chain
<1>3. CASE s.stage = 0
  <2>1. D = {}
    BY <1>3 DEF Greedy
  <2> QED
    BY <1>2, <1>3, <2>1
<1>4. CASE s.stage = 1
  <2>1. s.anchor \in D /\ \A x \in D : s.anchor <= x /\ x < s.anchor + First
    BY <1>4 DEF Greedy
  <2>2. ~Chain(D, 2)
    BY <1>1, <1>2, <2>1
  <2>3. ~Chain(D, 3)
    BY <1>1, <1>2, <2>1
  <2> QED
    BY <1>2, <1>4, <2>1, <2>2, <2>3
<1>5. CASE s.stage = 2
  <2>1. /\ s.anchor \in D /\ \E c \in D : s.anchor >= c + First
        /\ \A c, x \in D : x >= c + First => x >= s.anchor
        /\ \A x \in D : x < s.anchor + Second
    BY <1>5 DEF Greedy
  <2>2. ~Chain(D, 3)
    BY <1>1, <1>2, <2>1
  <2>3. Chain(D, 1) /\ Chain(D, 2)
    BY <1>2, <2>1
  <2>4. n \in {0, 1, 2, 3}
    OBVIOUS
  <2> HIDE DEF Chain
  <2> QED
    BY <1>2, <1>5, <2>2, <2>3, <2>4
<1>6. CASE s.stage = 3
  <2>1. Chain(D, 3)
    BY <1>6 DEF Greedy
  <2> QED
    BY <1>2, <1>6, <2>1
<1> QED
  BY <1>1, <1>3, <1>4, <1>5, <1>6

(* The schedule of a key is folded from the days it was passed on.         *)
LEMMA ScheduleFacts ==
  ASSUME RecheckInv, NEW k \in Key
  PROVE  /\ PassDays(k) \subseteq 0 .. MaxDay
         /\ Schedule(k).stage = Folded(PassDays(k)).stage
<1>1. PassDays(k) \subseteq 0 .. MaxDay
  BY DEF RecheckInv, PassDays, History, SeedAnswer
<1>2. Folded(PassDays(k)).stage \in {0, 1, 2, 3}
  BY <1>1, FoldedIsGreedy DEF Stages
<1>3. Schedule(k).stage = Folded(PassDays(k)).stage
  BY <1>2 DEF Schedule
<1> QED
  BY <1>1, <1>3

(* The stage of every seed is the length of the longest chain of passes     *)
(* spaced as the intervals ask, up to three, for any intervals, calendar   *)
(* and order in which the answers became visible.                          *)
THEOREM StageIsLongest == RecheckSpec => []StageIsLongestChain
<1>1. ASSUME RecheckInv PROVE StageIsLongestChain
  <2> SUFFICES ASSUME NEW k \in Key, NEW n \in 0 .. 3
               PROVE  Chain(PassDays(k), n) <=> Schedule(k).stage >= n
    BY DEF StageIsLongestChain
  <2>1. PassDays(k) \subseteq 0 .. MaxDay /\ PassDays(k) \subseteq Nat
        /\ Schedule(k).stage = Folded(PassDays(k)).stage
    BY <1>1, ScheduleFacts
  <2> QED
    BY <2>1, FoldedIsGreedy, GreedyIsLongest
<1> QED
  BY <1>1, RecheckInvariant, PTL

-----------------------------------------------------------------------------
(* The due seeds of a unit are in its list, each in one place.             *)
LEMMA DueSeedsFacts ==
  ASSUME NEW u \in 1 .. Units
  PROVE  /\ DueSeeds(u) \in Seq(Key) /\ Len(DueSeeds(u)) \in 0 .. Seeds
         /\ DOMAIN DueSeeds(u) = 1 .. Len(DueSeeds(u))
         /\ \A m \in 1 .. Len(DueSeeds(u)) :
              DueSeeds(u)[m] \in Key /\ DueSeeds(u)[m][1] = u /\ Schedule(DueSeeds(u)[m]).status = "due"
         /\ \A m, n \in 1 .. Len(DueSeeds(u)) : DueSeeds(u)[m] = DueSeeds(u)[n] => m = n
         /\ \A i \in 1 .. Seeds : Schedule(<<u, i>>).status = "due" =>
              \E m \in 1 .. Len(DueSeeds(u)) : DueSeeds(u)[m] = <<u, i>>
<1> DEFINE S == DueIn(u)
           K == Cardinality(S)
           below == [i \in S |-> {j \in S : j < i}]
           seed(n) == CHOOSE i \in S : Cardinality({j \in S : j < i}) = n - 1
           f == [n \in 1 .. K |-> seed(n)]
           s == DueSeeds(u)
<1>1. Seeds \in Nat /\ Units \in Nat
  BY IntervalAssumption
<1>2. S \in SUBSET (1 .. Seeds) /\ S \subseteq Int
  BY <1>1 DEF DueIn
<1>3. IsFiniteSet(1 .. Seeds) /\ Cardinality(1 .. Seeds) = Seeds
  BY <1>1, FS_Interval
<1>4. IsFiniteSet(S) /\ K \in Nat /\ K <= Seeds
  <2> HIDE DEF S
  <2> QED
    BY <1>2, <1>3, FS_Subset, FS_CardinalityType
<1>5. s = [n \in 1 .. K |-> <<u, seed(n)>>]
  BY Zenon DEF DueSeeds
<1>6. \A i \in S : below[i] = {j \in S : j < i}
  OBVIOUS
<1>7. \A i \in 1 .. Seeds : i \in S <=> Schedule(<<u, i>>).status = "due"
  BY DEF DueIn
<1> HIDE DEF S, s
<1>8. Ranks(below, S)
  BY <1>2, AscendingRanks
<1> HIDE DEF below
<1>9. \A n \in 0 .. K - 1 : \E i \in S : Cardinality(below[i]) = n
  BY <1>4, <1>8, RankFacts
<1>10. ASSUME NEW n \in 1 .. K PROVE seed(n) \in S /\ Cardinality(below[seed(n)]) = n - 1
  <2>1. n - 1 \in 0 .. K - 1
    BY <1>4
  <2>2. \E i \in S : Cardinality({j \in S : j < i}) = n - 1
    BY <1>6, <1>9, <2>1
  <2>3. seed(n) \in S /\ Cardinality({j \in S : j < seed(n)}) = n - 1
    BY <2>2
  <2> HIDE DEF seed
  <2> QED
    BY <1>6, <2>3
<1> HIDE DEF seed, K
<1>11. Places(f, below, S)
  BY <1>10 DEF Places, K
<1>12. /\ \A m, n \in 1 .. K : f[m] \in below[f[n]] <=> m < n
       /\ \A i \in S : \E m \in 1 .. K : \A n \in 1 .. K : f[n] = i <=> n = m
  <2> HIDE DEF f
  <2>1. /\ \A m, n \in 1 .. Cardinality(S) : f[m] \in below[f[n]] <=> m < n
        /\ \A i \in S : \E m \in 1 .. Cardinality(S) : \A n \in 1 .. Cardinality(S) : f[n] = i <=> n = m
    BY <1>4, <1>8, <1>11, PlaceFacts
  <2> QED
    BY <2>1 DEF K
<1>13. ASSUME NEW n \in 1 .. K
       PROVE  f[n] \in S /\ s[n] = <<u, f[n]>> /\ s[n] \in Key
  <2>1. f[n] = seed(n) /\ seed(n) \in 1 .. Seeds
    BY <1>2, <1>10
  <2> QED
    BY <1>5, <1>10, <2>1 DEF Key
<1> HIDE DEF f
<1>14. s \in [1 .. K -> Key]
  BY <1>5, <1>13
<1>15. s \in Seq(Key) /\ Len(s) = K /\ DOMAIN s = 1 .. K
  <2> DEFINE T == Key
  <2> HIDE DEF T
  <2>1. s \in [1 .. K -> T]
    BY <1>14 DEF T
  <2>2. s \in Seq(T) /\ Len(s) = K /\ DOMAIN s = 1 .. K
    BY <1>4, <2>1
  <2> QED
    BY <2>2 DEF T
<1>16. ASSUME NEW m \in 1 .. K, NEW n \in 1 .. K, s[m] = s[n] PROVE m = n
  <2>1. f[m] = f[n] /\ f[n] \in S
    BY <1>13, <1>16
  <2> QED
    BY <1>12, <2>1
<1>17. ASSUME NEW i \in 1 .. Seeds, i \in S PROVE \E m \in 1 .. K : s[m] = <<u, i>>
  <2>1. PICK m \in 1 .. K : f[m] = i
    BY <1>12, <1>17
  <2> QED
    BY <1>13, <2>1
<1>18. ASSUME NEW m \in 1 .. K PROVE s[m] \in Key /\ s[m][1] = u /\ Schedule(s[m]).status = "due"
  <2>1. PICK i \in S : i = f[m]
    BY <1>13
  <2>2. s[m] = <<u, i>> /\ s[m] \in Key
    BY <1>13, <2>1
  <2>3. Schedule(<<u, i>>).status = "due"
    BY <1>2, <1>7
  <2> QED
    BY <2>2, <2>3
<1>19. \A i \in 1 .. Seeds : Schedule(<<u, i>>).status = "due" => \E m \in 1 .. Len(s) : s[m] = <<u, i>>
  BY <1>7, <1>15, <1>17
<1>20. /\ \A m \in 1 .. Len(s) : s[m] \in Key /\ s[m][1] = u /\ Schedule(s[m]).status = "due"
       /\ \A m, n \in 1 .. Len(s) : s[m] = s[n] => m = n
  BY <1>15, <1>16, <1>18
<1>21. Len(s) \in 0 .. Seeds
  BY <1>1, <1>4, <1>15
<1>22. /\ s \in Seq(Key) /\ Len(s) \in 0 .. Seeds
       /\ DOMAIN s = 1 .. Len(s)
       /\ \A m \in 1 .. Len(s) : s[m] \in Key /\ s[m][1] = u /\ Schedule(s[m]).status = "due"
       /\ \A m, n \in 1 .. Len(s) : s[m] = s[n] => m = n
       /\ \A i \in 1 .. Seeds : Schedule(<<u, i>>).status = "due" => \E m \in 1 .. Len(s) : s[m] = <<u, i>>
  BY <1>15, <1>19, <1>20, <1>21
<1> QED
  BY <1>22 DEF s

-----------------------------------------------------------------------------
(* A turn of the review queue.  D units have due seeds; q rounds are over   *)
(* and the first r units had their turn in the next one.                   *)
DueUnits == {u \in 1 .. Units : DueSeeds(u) # <<>>}
Rank(u) == Cardinality({v \in DueUnits : v < u})
Due(u) == Len(DueSeeds(u))
Quota(u, q, r) == LET rounds == IF Rank(u) < r THEN q + 1 ELSE q
                  IN  IF rounds <= Due(u) THEN rounds ELSE Due(u)
AskedIn(out, u, n) == Cardinality({i \in 1 .. n : out[i][1] = u})

Taken(s, u) == Due(u) - Len(s.left[u])

(* What is left of a unit are its last seeds.                              *)
Rest(s) ==
  \A u \in 1 .. Units :
    /\ Taken(s, u) \in 0 .. Due(u)
    /\ \A i \in 1 .. Len(s.left[u]) : s.left[u][i] = DueSeeds(u)[Taken(s, u) + i]

(* Each unit was asked as often as there were rounds, while it had seeds.  *)
InRounds(s) ==
  DueUnits # {} =>
    \E q \in Nat, r \in 0 .. Cardinality(DueUnits) - 1 :
      /\ s.turn = q * Cardinality(DueUnits) + r
      /\ \A u \in DueUnits : Taken(s, u) = Quota(u, q, r)

(* The seeds in the list are those taken, each once.                       *)
ListedOnce(s) ==
  /\ \A u \in 1 .. Units : \A m \in 1 .. Taken(s, u) :
       \E i \in 1 .. Len(s.out) : s.out[i] = DueSeeds(u)[m]
  /\ \A i \in 1 .. Len(s.out) : \E u \in 1 .. Units : \E m \in 1 .. Taken(s, u) :
       s.out[i] = DueSeeds(u)[m]
  /\ \A i, j \in 1 .. Len(s.out) : s.out[i] = s.out[j] => i = j
  /\ \A u \in 1 .. Units : AskedIn(s.out, u, Len(s.out)) = Taken(s, u)

(* No unit was ahead of another that had seeds left by more than one.      *)
Fair(out) ==
  \A n \in 1 .. Len(out) : \A u \in 1 .. Units :
    AskedIn(out, u, n) < Due(u) => AskedIn(out, out[n][1], n) <= AskedIn(out, u, n) + 1

QueueTurns == [turn : Nat, left : [1 .. Units -> Seq(Key)], out : Seq(Key)]
TurnInv(s) == s \in QueueTurns /\ Rest(s) /\ InRounds(s) /\ ListedOnce(s) /\ Fair(s.out)

(* The units with due seeds, in their order.                               *)
LEMMA DueUnitsFacts ==
  /\ IsFiniteSet(DueUnits) /\ Cardinality(DueUnits) \in 0 .. Units
  /\ (DueUnits = {} <=> Cardinality(DueUnits) = 0)
  /\ \A u \in DueUnits : u \in 1 .. Units /\ Rank(u) \in 0 .. Cardinality(DueUnits) - 1
  /\ \A u, v \in DueUnits : Rank(u) = Rank(v) => u = v
  /\ \A n \in 0 .. Cardinality(DueUnits) - 1 : \E u \in DueUnits : Rank(u) = n
<1> DEFINE S == DueUnits
           below == [u \in S |-> {v \in S : v < u}]
<1>1. Units \in Nat /\ S \subseteq 1 .. Units /\ S \subseteq Int
  BY IntervalAssumption DEF DueUnits
<1>2. IsFiniteSet(1 .. Units) /\ Cardinality(1 .. Units) = Units
  BY <1>1, FS_Interval
<1>3. IsFiniteSet(S) /\ Cardinality(S) \in 0 .. Units /\ (S = {} <=> Cardinality(S) = 0)
  <2> HIDE DEF S
  <2>1. IsFiniteSet(S) /\ Cardinality(S) <= Units
    BY <1>1, <1>2, FS_Subset
  <2>2. Cardinality(S) \in Nat /\ (Cardinality(S) = 0 <=> S = {})
    BY <2>1, FS_CardinalityType, FS_EmptySet
  <2> QED
    BY <1>1, <2>1, <2>2
<1>4. \A u \in S : Cardinality(below[u]) = Rank(u)
  BY DEF Rank
<1> HIDE DEF S
<1>5. Ranks(below, S)
  BY <1>1, AscendingRanks
<1> HIDE DEF below
<1>6. /\ \A u \in S : Rank(u) \in 0 .. Cardinality(S) - 1
      /\ \A u, v \in S : Rank(u) = Rank(v) => u = v
      /\ \A n \in 0 .. Cardinality(S) - 1 : \E u \in S : Rank(u) = n
  <2>1. /\ \A u \in S : Cardinality(below[u]) \in 0 .. Cardinality(S) - 1
        /\ \A u, v \in S : Cardinality(below[u]) = Cardinality(below[v]) => u = v
        /\ \A n \in 0 .. Cardinality(S) - 1 : \E u \in S : Cardinality(below[u]) = n
    BY <1>3, <1>5, RankFacts
  <2> QED
    BY <1>4, <2>1
<1> QED
  BY <1>1, <1>3, <1>6 DEF S

(* The remainder of the turn is the unit's place in the round.             *)
LEMMA TurnInRound ==
  ASSUME NEW D \in Nat \ {0}, NEW q \in Nat, NEW r \in 0 .. D - 1
  PROVE  (q * D + r) % D = r
OBVIOUS

(* A turn raises the quota of the unit whose turn it is, and of no other.  *)
LEMMA QuotaStep ==
  ASSUME NEW q \in Nat, NEW r \in 0 .. Cardinality(DueUnits) - 1,
         NEW u \in DueUnits, Rank(u) = r
  PROVE  \E p \in Nat, t \in 0 .. Cardinality(DueUnits) - 1 :
           /\ q * Cardinality(DueUnits) + r + 1 = p * Cardinality(DueUnits) + t
           /\ \A v \in DueUnits \ {u} : Quota(v, p, t) = Quota(v, q, r)
           /\ Quota(u, p, t) = IF q + 1 <= Due(u) THEN q + 1 ELSE Due(u)
<1> DEFINE D == Cardinality(DueUnits)
<1>1. D \in Nat \ {0} /\ r \in Nat /\ r < D
  BY DueUnitsFacts, IntervalAssumption
<1>2. \A v \in DueUnits : Rank(v) \in Nat /\ Rank(v) < D /\ (v # u => Rank(v) # r)
  BY <1>1, DueUnitsFacts
<1> HIDE DEF D
<1>3. CASE r + 1 < D
  <2>1. q * D + r + 1 = q * D + (r + 1) /\ r + 1 \in 0 .. D - 1
    BY <1>1, <1>3
  <2>2. ASSUME NEW v \in DueUnits \ {u} PROVE Quota(v, q, r + 1) = Quota(v, q, r)
    <3>1. Rank(v) < r + 1 <=> Rank(v) < r
      BY <1>1, <1>2
    <3> QED
      BY <3>1 DEF Quota
  <2>3. Quota(u, q, r + 1) = IF q + 1 <= Due(u) THEN q + 1 ELSE Due(u)
    <3>1. Rank(u) < r + 1
      BY <1>1
    <3> QED
      BY <3>1 DEF Quota
  <2> QED
    BY <2>1, <2>2, <2>3 DEF D
<1>4. CASE r + 1 = D
  <2>1. q * D + r + 1 = (q + 1) * D + 0 /\ 0 \in 0 .. D - 1 /\ q + 1 \in Nat
    BY <1>1, <1>4
  <2>2. ASSUME NEW v \in DueUnits \ {u} PROVE Quota(v, q + 1, 0) = Quota(v, q, r)
    <3>1. ~ (Rank(v) < 0) /\ Rank(v) < r
      BY <1>1, <1>2, <1>4
    <3> QED
      BY <3>1 DEF Quota
  <2>3. Quota(u, q + 1, 0) = IF q + 1 <= Due(u) THEN q + 1 ELSE Due(u)
    <3>1. ~ (Rank(u) < 0)
      BY <1>1
    <3> QED
      BY <3>1 DEF Quota
  <2> QED
    BY <2>1, <2>2, <2>3 DEF D
<1> QED
  BY <1>1, <1>3, <1>4

(* Appending to the list counts for the unit of what is appended.          *)
LEMMA AskedAppend ==
  ASSUME NEW out \in Seq(Key), NEW k \in Key, NEW u
  PROVE  /\ \A n \in 0 .. Len(out) : AskedIn(Append(out, k), u, n) = AskedIn(out, u, n)
         /\ AskedIn(Append(out, k), u, Len(out) + 1) =
              IF k[1] = u THEN AskedIn(out, u, Len(out)) + 1 ELSE AskedIn(out, u, Len(out))
<1> DEFINE new == Append(out, k)
           N == Len(out)
           A(n) == {i \in 1 .. n : out[i][1] = u}
           B(n) == {i \in 1 .. n : new[i][1] = u}
<1>1. /\ N \in Nat /\ \A i \in 1 .. N : new[i] = out[i]
      /\ new[N + 1] = k
  <2> DEFINE T == Key
  <2> HIDE DEF T
  <2>1. out \in Seq(T) /\ k \in T
    BY DEF T
  <2> QED
    BY <2>1, AppendFacts
<1> HIDE DEF new, N
<1>2. ASSUME NEW n \in 0 .. N PROVE B(n) = A(n)
  <2>1. \A i \in 1 .. n : i \in 1 .. N
    BY <1>1
  <2> QED
    BY <1>1, <2>1
<1>3. IsFiniteSet(A(N)) /\ N + 1 \notin A(N)
  <2>1. IsFiniteSet(1 .. N) /\ A(N) \subseteq 1 .. N /\ N + 1 \notin 1 .. N
    BY <1>1, FS_Interval
  <2> QED
    BY <2>1, FS_Subset
<1>4. B(N + 1) = IF k[1] = u THEN A(N) \cup {N + 1} ELSE A(N)
  <2>1. 1 .. N + 1 = (1 .. N) \cup {N + 1}
    BY <1>1
  <2>2. \A i \in 1 .. N : new[i][1] = u <=> out[i][1] = u
    BY <1>1
  <2> QED
    BY <1>1, <2>1, <2>2
<1>5. Cardinality(B(N + 1)) = IF k[1] = u THEN Cardinality(A(N)) + 1 ELSE Cardinality(A(N))
  <2> HIDE DEF A, B
  <2> QED
    BY <1>3, <1>4, FS_AddElement
<1> QED
  BY <1>2, <1>5 DEF AskedIn, new, N

(* One turn of the queue: the unit whose turn it is loses its first seed,   *)
(* if it has one left.                                                     *)
LEMMA TakeTurnFacts ==
  ASSUME NEW s \in QueueTurns, Rest(s), NEW u \in 1 .. Units
  PROVE  LET t == TakeTurn(s, u)
         IN  /\ t \in QueueTurns /\ Rest(t) /\ t.turn = s.turn + 1
             /\ \A v \in 1 .. Units \ {u} : Taken(t, v) = Taken(s, v)
             /\ s.left[u] = <<>> => t.out = s.out /\ Taken(t, u) = Taken(s, u) /\ Taken(s, u) = Due(u)
             /\ s.left[u] # <<>> =>
                  /\ Taken(s, u) < Due(u) /\ Taken(t, u) = Taken(s, u) + 1
                  /\ t.out = Append(s.out, DueSeeds(u)[Taken(s, u) + 1])
<1> DEFINE t == TakeTurn(s, u)
           w == s.left[u]
<1>1. /\ s.turn \in Nat /\ s.left \in [1 .. Units -> Seq(Key)] /\ s.out \in Seq(Key)
      /\ s = [turn |-> s.turn, left |-> s.left, out |-> s.out]
  BY DEF QueueTurns
<1>2. /\ \A v \in 1 .. Units : Due(v) \in Nat /\ s.left[v] \in Seq(Key)
      /\ w \in Seq(Key) /\ Taken(s, u) \in 0 .. Due(u)
      /\ \A i \in 1 .. Len(w) : w[i] = DueSeeds(u)[Taken(s, u) + i]
  BY <1>1, DueSeedsFacts, IntervalAssumption DEF Rest, Due
<1>3. Len(w) \in Nat /\ (w = <<>> <=> Len(w) = 0)
  <2> DEFINE T == Key
  <2> HIDE DEF T, w
  <2>1. w \in Seq(T)
    BY <1>2 DEF T
  <2> QED
    BY <2>1
<1>4. Taken(s, u) = Due(u) - Len(w)
  BY DEF Taken
<1>5. CASE w = <<>>
  <2>1. t = [turn |-> s.turn + 1, left |-> s.left, out |-> s.out]
    BY <1>1, <1>5 DEF TakeTurn
  <2> HIDE DEF t
  <2>2. t \in QueueTurns /\ t.turn = s.turn + 1 /\ t.out = s.out /\ t.left = s.left
    BY <1>1, <2>1 DEF QueueTurns
  <2>3. Rest(t) /\ \A v \in 1 .. Units : Taken(t, v) = Taken(s, v)
    BY <2>2 DEF Rest, Taken
  <2>4. Taken(s, u) = Due(u)
    BY <1>2, <1>3, <1>4, <1>5
  <2> QED
    BY <1>5, <2>2, <2>3, <2>4 DEF t
<1>6. CASE w # <<>>
  <2> DEFINE k == DueSeeds(u)[Taken(s, u) + 1]
  <2>1. Len(w) > 0 /\ Taken(s, u) < Due(u) /\ Taken(s, u) + 1 \in 1 .. Due(u)
    <3>1. Due(u) \in Nat /\ Taken(s, u) \in 0 .. Due(u)
      BY <1>2
    <3>2. Len(w) \in Nat /\ Len(w) # 0
      BY <1>3, <1>6
    <3> HIDE DEF w
    <3> QED
      BY <1>4, <3>1, <3>2
  <2>2. Head(w) = k /\ k \in Key
    <3>1. Head(w) = w[1]
      <4> DEFINE T == Key
      <4> HIDE DEF T, w
      <4>1. w \in Seq(T) /\ w # <<>>
        BY <1>2, <1>6 DEF T
      <4> QED
        BY <4>1
    <3>2. 1 \in 1 .. Len(w)
      BY <1>3, <2>1
    <3>3. w[1] = k
      BY <1>2, <3>2
    <3>4. k \in Key
      BY <2>1, DueSeedsFacts DEF Due
    <3> QED
      BY <3>1, <3>3, <3>4
  <2>3. /\ Tail(w) \in Seq(Key) /\ Len(Tail(w)) = Len(w) - 1
        /\ \A i \in 1 .. Len(w) - 1 : Tail(w)[i] = w[i + 1]
    <3> DEFINE T == Key
    <3> HIDE DEF T, w
    <3>1. w \in Seq(T) /\ w # <<>>
      BY <1>2, <1>6 DEF T
    <3>2. /\ Tail(w) \in Seq(T) /\ Len(Tail(w)) = Len(w) - 1
          /\ \A i \in 1 .. Len(w) - 1 : Tail(w)[i] = w[i + 1]
      BY <3>1
    <3> QED
      BY <3>2 DEF T
  <2>4. t = [turn |-> s.turn + 1, left |-> [s.left EXCEPT ![u] = Tail(w)], out |-> Append(s.out, k)]
    BY <1>6, <2>2 DEF TakeTurn
  <2>5. Append(s.out, k) \in Seq(Key)
    <3> HIDE DEF k
    <3> QED
      BY <1>1, <2>2, AppendFacts
  <2> HIDE DEF t, k
  <2>6. /\ t.turn = s.turn + 1 /\ t.out = Append(s.out, k)
        /\ t.left = [s.left EXCEPT ![u] = Tail(w)]
    BY <2>4
  <2>7. t \in QueueTurns
    <3>1. t.left \in [1 .. Units -> Seq(Key)] /\ s.turn + 1 \in Nat
      BY <1>1, <2>3, <2>6
    <3> QED
      BY <2>4, <2>5, <2>6, <3>1 DEF QueueTurns
  <2>8. t.left[u] = Tail(w) /\ \A v \in 1 .. Units \ {u} : t.left[v] = s.left[v]
    BY <1>1, <2>6
  <2>9. \A v \in 1 .. Units \ {u} : Taken(t, v) = Taken(s, v)
    BY <2>8 DEF Taken
  <2>10. Taken(t, u) = Taken(s, u) + 1 /\ Taken(t, u) \in 0 .. Due(u)
    <3>1. Taken(t, u) = Due(u) - (Len(w) - 1)
      BY <2>3, <2>8 DEF Taken
    <3> QED
      BY <1>2, <1>3, <1>4, <2>1, <3>1
  <2>11. ASSUME NEW i \in 1 .. Len(t.left[u])
         PROVE  t.left[u][i] = DueSeeds(u)[Taken(t, u) + i]
    <3>1. i \in 1 .. Len(w) - 1 /\ i + 1 \in 1 .. Len(w)
      BY <1>3, <2>3, <2>8
    <3>2. t.left[u][i] = w[i + 1] /\ w[i + 1] = DueSeeds(u)[Taken(s, u) + (i + 1)]
      BY <1>2, <2>3, <2>8, <3>1
    <3>3. Taken(s, u) + (i + 1) = Taken(t, u) + i
      BY <1>2, <2>10
    <3> QED
      BY <3>2, <3>3
  <2>12. Rest(t)
    <3> SUFFICES ASSUME NEW v \in 1 .. Units
                 PROVE  /\ Taken(t, v) \in 0 .. Due(v)
                        /\ \A i \in 1 .. Len(t.left[v]) : t.left[v][i] = DueSeeds(v)[Taken(t, v) + i]
      BY DEF Rest
    <3>1. CASE v = u
      BY <2>10, <2>11, <3>1
    <3>2. CASE v # u
      BY <2>8, <2>9, <3>2 DEF Rest
    <3> QED
      BY <3>1, <3>2
  <2> QED
    BY <1>6, <2>1, <2>6, <2>7, <2>9, <2>10, <2>12 DEF t, k
<1> QED
  BY <1>5, <1>6

(* A turn keeps to the rounds, if the unit has its turn; and no unit with   *)
(* seeds left was asked less often before it than the unit.                *)
LEMMA TurnInRounds ==
  ASSUME NEW s \in QueueTurns, Rest(s), InRounds(s), NEW u \in DueUnits,
         Rank(u) = s.turn % Cardinality(DueUnits)
  PROVE  /\ InRounds(TakeTurn(s, u))
         /\ s.left[u] # <<>> => \A v \in DueUnits : Taken(s, v) < Due(v) => Taken(s, u) <= Taken(s, v)
<1> DEFINE D == Cardinality(DueUnits)
           t == TakeTurn(s, u)
<1>1. D \in Nat \ {0} /\ u \in 1 .. Units /\ \A v \in DueUnits : v \in 1 .. Units /\ Due(v) \in Nat
  BY DueUnitsFacts, DueSeedsFacts, IntervalAssumption DEF Due
<1>2. PICK q \in Nat, r \in 0 .. D - 1 :
        /\ s.turn = q * D + r
        /\ \A v \in DueUnits : Taken(s, v) = Quota(v, q, r)
  BY DEF InRounds
<1>3. Rank(u) = r
  <2> HIDE DEF D
  <2>1. s.turn % D = r
    BY <1>1, <1>2, TurnInRound
  <2> QED
    BY <2>1 DEF D
<1>4. PICK p \in Nat, n \in 0 .. D - 1 :
        /\ q * D + r + 1 = p * D + n
        /\ \A v \in DueUnits \ {u} : Quota(v, p, n) = Quota(v, q, r)
        /\ Quota(u, p, n) = IF q + 1 <= Due(u) THEN q + 1 ELSE Due(u)
  BY <1>3, QuotaStep
<1>5. /\ t.turn = s.turn + 1
      /\ \A v \in 1 .. Units \ {u} : Taken(t, v) = Taken(s, v)
      /\ s.left[u] = <<>> => Taken(t, u) = Taken(s, u) /\ Taken(s, u) = Due(u)
      /\ s.left[u] # <<>> => Taken(s, u) < Due(u) /\ Taken(t, u) = Taken(s, u) + 1
  BY <1>1, TakeTurnFacts
<1> HIDE DEF D, t
<1>6. Taken(s, u) = IF q <= Due(u) THEN q ELSE Due(u)
  <2>1. ~ (Rank(u) < r)
    BY <1>1, <1>3
  <2> QED
    BY <1>2, <2>1 DEF Quota
<1>7. Taken(t, u) = Quota(u, p, n)
  BY <1>1, <1>4, <1>5, <1>6
<1>8. t.turn = p * D + n /\ \A v \in DueUnits : Taken(t, v) = Quota(v, p, n)
  <2>1. t.turn = q * D + r + 1
    BY <1>2, <1>5
  <2>2. \A v \in DueUnits \ {u} : Taken(t, v) = Quota(v, p, n)
    BY <1>1, <1>2, <1>4, <1>5
  <2> QED
    BY <1>4, <1>7, <2>1, <2>2
<1>9. InRounds(t)
  BY <1>8 DEF InRounds, D
<1>10. ASSUME s.left[u] # <<>>, NEW v \in DueUnits, Taken(s, v) < Due(v)
       PROVE  Taken(s, u) <= Taken(s, v)
  <2>1. Taken(s, v) = q \/ Taken(s, v) = q + 1
    <3>1. Taken(s, v) = Quota(v, q, r) /\ Quota(v, q, r) < Due(v) /\ Due(v) \in Nat
      BY <1>1, <1>2, <1>10
    <3> QED
      BY <3>1 DEF Quota
  <2>2. Taken(s, u) <= q
    BY <1>1, <1>6
  <2> QED
    BY <2>1, <2>2, <1>1, <1>6
<1> QED
  BY <1>9, <1>10 DEF t

(* A turn lists what it takes, behind what is listed.                      *)
LEMMA TurnLists ==
  ASSUME NEW s \in QueueTurns, Rest(s), ListedOnce(s), NEW u \in 1 .. Units, s.left[u] # <<>>
  PROVE  ListedOnce(TakeTurn(s, u))
<1> DEFINE t == TakeTurn(s, u)
           k == DueSeeds(u)[Taken(s, u) + 1]
           N == Len(s.out)
<1>1. /\ t \in QueueTurns /\ Taken(s, u) < Due(u) /\ Taken(t, u) = Taken(s, u) + 1
      /\ \A v \in 1 .. Units \ {u} : Taken(t, v) = Taken(s, v)
      /\ t.out = Append(s.out, k)
  BY TakeTurnFacts
<1>2. /\ \A v \in 1 .. Units : Taken(s, v) \in 0 .. Due(v) /\ Due(v) \in Nat
      /\ s.out \in Seq(Key)
  BY DueSeedsFacts, IntervalAssumption DEF Rest, Due, QueueTurns
<1>3. /\ k \in Key /\ k[1] = u
      /\ \A v \in 1 .. Units : \A m \in 1 .. Due(v) : DueSeeds(v)[m] \in Key /\ DueSeeds(v)[m][1] = v
      /\ \A v \in 1 .. Units : \A m, n \in 1 .. Due(v) : DueSeeds(v)[m] = DueSeeds(v)[n] => m = n
  <2>1. Taken(s, u) + 1 \in 1 .. Due(u)
    BY <1>1, <1>2
  <2> QED
    BY <2>1, DueSeedsFacts DEF Due
<1> HIDE DEF t
<1>4. /\ N \in Nat /\ Len(t.out) = N + 1 /\ t.out[N + 1] = k
      /\ \A i \in 1 .. N : t.out[i] = s.out[i]
  <2> DEFINE T == Key
  <2> HIDE DEF T, k
  <2>1. s.out \in Seq(T) /\ k \in T
    BY <1>2, <1>3 DEF T
  <2>2. /\ Len(s.out) \in Nat /\ Len(Append(s.out, k)) = Len(s.out) + 1
        /\ \A i \in 1 .. Len(s.out) : Append(s.out, k)[i] = s.out[i]
        /\ Append(s.out, k)[Len(s.out) + 1] = k
    BY <2>1, AppendFacts
  <2> QED
    BY <1>1, <2>2
<1> HIDE DEF k, N
<1>5. /\ \A v \in 1 .. Units : \A m \in 1 .. Taken(s, v) : \E i \in 1 .. N : s.out[i] = DueSeeds(v)[m]
      /\ \A i \in 1 .. N : \E v \in 1 .. Units : \E m \in 1 .. Taken(s, v) : s.out[i] = DueSeeds(v)[m]
      /\ \A i, j \in 1 .. N : s.out[i] = s.out[j] => i = j
      /\ \A v \in 1 .. Units : AskedIn(s.out, v, N) = Taken(s, v)
  BY DEF ListedOnce, N
<1>6. \A i \in 1 .. N + 1 : i \in 1 .. N \/ i = N + 1
  BY <1>4
<1>7. ASSUME NEW v \in 1 .. Units, NEW m \in 1 .. Taken(t, v)
      PROVE  \E i \in 1 .. N + 1 : t.out[i] = DueSeeds(v)[m]
  <2>1. m \in 1 .. Taken(s, v) \/ (v = u /\ m = Taken(s, u) + 1)
    BY <1>1, <1>2
  <2>2. CASE m \in 1 .. Taken(s, v)
    <3>1. PICK i \in 1 .. N : s.out[i] = DueSeeds(v)[m]
      BY <1>5, <2>2
    <3> QED
      BY <1>4, <3>1
  <2>3. CASE v = u /\ m = Taken(s, u) + 1
    BY <1>4, <2>3 DEF k
  <2> QED
    BY <2>1, <2>2, <2>3
<1>8. ASSUME NEW i \in 1 .. N + 1
      PROVE  \E v \in 1 .. Units : \E m \in 1 .. Taken(t, v) : t.out[i] = DueSeeds(v)[m]
  <2>1. CASE i \in 1 .. N
    <3>1. PICK v \in 1 .. Units : \E m \in 1 .. Taken(s, v) : s.out[i] = DueSeeds(v)[m]
      BY <1>5, <2>1
    <3>2. PICK m \in 1 .. Taken(s, v) : s.out[i] = DueSeeds(v)[m]
      BY <3>1
    <3>3. m \in 1 .. Taken(t, v)
      BY <1>1, <1>2
    <3> QED
      BY <1>4, <2>1, <3>2, <3>3
  <2>2. CASE i = N + 1
    <3>1. Taken(s, u) + 1 \in 1 .. Taken(t, u)
      BY <1>1, <1>2
    <3> QED
      BY <1>4, <2>2, <3>1 DEF k
  <2> QED
    BY <1>6, <2>1, <2>2
<1>9. \A i \in 1 .. N : s.out[i] # k
  <2> SUFFICES ASSUME NEW i \in 1 .. N, s.out[i] = k PROVE FALSE
    OBVIOUS
  <2>1. PICK v \in 1 .. Units : \E m \in 1 .. Taken(s, v) : s.out[i] = DueSeeds(v)[m]
    BY <1>5
  <2>2. PICK m \in 1 .. Taken(s, v) : s.out[i] = DueSeeds(v)[m]
    BY <2>1
  <2>3. m \in 1 .. Due(v)
    BY <1>2
  <2>4. v = u
    BY <1>3, <2>2, <2>3
  <2>5. Taken(s, u) + 1 \in 1 .. Due(u) /\ m # Taken(s, u) + 1
    BY <1>1, <1>2, <2>4
  <2> QED
    BY <1>3, <2>2, <2>3, <2>4, <2>5 DEF k
<1>10. \A i, j \in 1 .. N + 1 : t.out[i] = t.out[j] => i = j
  BY <1>4, <1>5, <1>6, <1>9
<1>11. ASSUME NEW v \in 1 .. Units PROVE AskedIn(t.out, v, N + 1) = Taken(t, v)
  <2>1. AskedIn(t.out, v, N + 1) = IF k[1] = v THEN AskedIn(s.out, v, N) + 1 ELSE AskedIn(s.out, v, N)
    BY <1>1, <1>2, <1>3, AskedAppend DEF N, k
  <2> QED
    BY <1>1, <1>3, <1>5, <2>1
<1> QED
  BY <1>4, <1>7, <1>8, <1>10, <1>11 DEF ListedOnce, t

(* A turn of the unit whose turn it is keeps the queue fair.               *)
LEMMA TurnIsFair ==
  ASSUME NEW s, TurnInv(s), NEW u \in DueUnits,
         Rank(u) = s.turn % Cardinality(DueUnits), s.left[u] # <<>>
  PROVE  Fair(TakeTurn(s, u).out)
<1> DEFINE t == TakeTurn(s, u)
           k == DueSeeds(u)[Taken(s, u) + 1]
           N == Len(s.out)
<1>1. /\ s \in QueueTurns /\ Rest(s) /\ InRounds(s) /\ ListedOnce(s) /\ Fair(s.out)
      /\ u \in 1 .. Units
      /\ \A v \in 1 .. Units : Due(v) \in Nat /\ Taken(s, v) \in 0 .. Due(v)
  <2>1. s \in QueueTurns /\ Rest(s) /\ InRounds(s) /\ ListedOnce(s) /\ Fair(s.out)
    BY DEF TurnInv
  <2>2. u \in 1 .. Units
    BY DueUnitsFacts
  <2>3. \A v \in 1 .. Units : Due(v) \in Nat
    BY DueSeedsFacts, IntervalAssumption DEF Due
  <2> QED
    BY <2>1, <2>2, <2>3 DEF Rest
<1>2. /\ Taken(s, u) < Due(u) /\ Taken(t, u) = Taken(s, u) + 1
      /\ \A v \in 1 .. Units \ {u} : Taken(t, v) = Taken(s, v)
      /\ t.out = Append(s.out, k)
  BY <1>1, TakeTurnFacts
<1>3. k \in Key /\ k[1] = u /\ s.out \in Seq(Key)
  <2>1. Taken(s, u) + 1 \in 1 .. Due(u)
    BY <1>1, <1>2
  <2> QED
    BY <1>1, <2>1, DueSeedsFacts DEF Due, QueueTurns
<1>4. \A v \in DueUnits : Taken(s, v) < Due(v) => Taken(s, u) <= Taken(s, v)
  BY <1>1, TurnInRounds
<1>5. \A v \in 1 .. Units : v \notin DueUnits => Due(v) = 0
  BY DEF DueUnits, Due
<1> HIDE DEF t, k
<1>6. /\ N \in Nat /\ Len(t.out) = N + 1 /\ t.out[N + 1] = k
      /\ \A i \in 1 .. N : t.out[i] = s.out[i]
  <2> DEFINE T == Key
  <2> HIDE DEF T
  <2>1. s.out \in Seq(T) /\ k \in T
    BY <1>3 DEF T
  <2>2. /\ Len(s.out) \in Nat /\ Len(Append(s.out, k)) = Len(s.out) + 1
        /\ \A i \in 1 .. Len(s.out) : Append(s.out, k)[i] = s.out[i]
        /\ Append(s.out, k)[Len(s.out) + 1] = k
    BY <2>1, AppendFacts
  <2> QED
    BY <1>2, <2>2
<1>7. /\ \A n \in 0 .. N : \A v \in 1 .. Units : AskedIn(t.out, v, n) = AskedIn(s.out, v, n)
      /\ \A v \in 1 .. Units : AskedIn(t.out, v, N + 1) = Taken(t, v)
  <2>1. ListedOnce(t)
    BY <1>1, TurnLists DEF t
  <2>2. \A v \in 1 .. Units : AskedIn(t.out, v, N + 1) = Taken(t, v)
    BY <1>6, <2>1 DEF ListedOnce
  <2>3. ASSUME NEW v \in 1 .. Units
        PROVE  \A n \in 0 .. N : AskedIn(t.out, v, n) = AskedIn(s.out, v, n)
    <3>1. s.out \in Seq(Key) /\ k \in Key
      BY <1>3
    <3>2. \A n \in 0 .. N : AskedIn(Append(s.out, k), v, n) = AskedIn(s.out, v, n)
      BY <3>1, AskedAppend
    <3> QED
      BY <1>2, <3>2
  <2> QED
    BY <2>2, <2>3
<1>8. \A i \in 1 .. N : s.out[i][1] \in 1 .. Units
  <2> SUFFICES ASSUME NEW i \in 1 .. N PROVE s.out[i][1] \in 1 .. Units
    OBVIOUS
  <2>1. PICK v \in 1 .. Units : \E m \in 1 .. Taken(s, v) : s.out[i] = DueSeeds(v)[m]
    BY <1>1 DEF ListedOnce
  <2>2. PICK m \in 1 .. Taken(s, v) : s.out[i] = DueSeeds(v)[m]
    BY <2>1
  <2>3. m \in 1 .. Due(v)
    BY <1>1
  <2>4. DueSeeds(v)[m][1] = v
    BY <2>3, DueSeedsFacts DEF Due
  <2> QED
    BY <2>2, <2>4
<1> HIDE DEF N
<1>9. ASSUME NEW n \in 1 .. N + 1, NEW v \in 1 .. Units, AskedIn(t.out, v, n) < Due(v)
      PROVE  AskedIn(t.out, t.out[n][1], n) <= AskedIn(t.out, v, n) + 1
  <2>1. CASE n \in 1 .. N
    <3>1. n \in 0 .. N /\ t.out[n] = s.out[n] /\ s.out[n][1] \in 1 .. Units
      BY <1>6, <1>8, <2>1
    <3>2. AskedIn(s.out, v, n) < Due(v)
      BY <1>7, <1>9, <3>1
    <3>3. AskedIn(s.out, s.out[n][1], n) <= AskedIn(s.out, v, n) + 1
      BY <1>1, <2>1, <3>2 DEF Fair, N
    <3> QED
      BY <1>7, <3>1, <3>3
  <2>2. CASE n = N + 1
    <3>1. t.out[n][1] = u /\ AskedIn(t.out, u, n) = Taken(s, u) + 1
      BY <1>1, <1>2, <1>3, <1>6, <1>7, <2>2
    <3>2. AskedIn(t.out, v, n) = Taken(t, v) /\ Taken(t, v) < Due(v)
      BY <1>7, <1>9, <2>2
    <3>3. CASE v = u
      BY <1>1, <1>2, <3>1, <3>2, <3>3
    <3>4. CASE v # u
      <4>1. Taken(t, v) = Taken(s, v) /\ v \in DueUnits
        BY <1>1, <1>2, <1>5, <3>2, <3>4
      <4>2. Taken(s, u) <= Taken(s, v)
        BY <1>4, <3>2, <4>1
      <4> QED
        BY <1>1, <3>1, <3>2, <4>1, <4>2
    <3> QED
      BY <3>3, <3>4
  <2> QED
    BY <1>6, <2>1, <2>2
<1> QED
  BY <1>6, <1>9 DEF Fair, t

(* So a turn keeps all that is said of the queue.                          *)
LEMMA TurnKeeps ==
  ASSUME NEW s, TurnInv(s), NEW u \in DueUnits, Rank(u) = s.turn % Cardinality(DueUnits)
  PROVE  TurnInv(TakeTurn(s, u)) /\ TakeTurn(s, u).turn = s.turn + 1
<1> DEFINE t == TakeTurn(s, u)
<1>1. s \in QueueTurns /\ Rest(s) /\ InRounds(s) /\ ListedOnce(s) /\ Fair(s.out) /\ u \in 1 .. Units
  BY DueUnitsFacts DEF TurnInv
<1>2. t \in QueueTurns /\ Rest(t) /\ t.turn = s.turn + 1 /\ InRounds(t)
  BY <1>1, TakeTurnFacts, TurnInRounds
<1>3. CASE s.left[u] # <<>>
  <2>1. ListedOnce(t) /\ Fair(t.out)
    BY <1>1, <1>3, TurnLists, TurnIsFair
  <2> QED
    BY <1>2, <2>1 DEF TurnInv
<1>4. CASE s.left[u] = <<>>
  <2>1. t.out = s.out /\ \A v \in 1 .. Units : Taken(t, v) = Taken(s, v)
    BY <1>1, <1>4, TakeTurnFacts
  <2> HIDE DEF t
  <2>2. ListedOnce(t) /\ Fair(t.out)
    BY <1>1, <2>1 DEF ListedOnce
  <2> QED
    BY <1>2, <2>2 DEF TurnInv, t
<1> QED
  BY <1>3, <1>4

(* The queue as an iteration of turns.                                     *)
AllTaken(s) == \A u \in 1 .. Units : s.left[u] = <<>>
Untaken == [turn |-> 0, left |-> [u \in 1 .. Units |-> DueSeeds(u)], out |-> <<>>]
NextTurn(s) ==
  IF AllTaken(s) THEN s
  ELSE TakeTurn(s, CHOOSE u \in DueUnits : Rank(u) = s.turn % Cardinality(DueUnits))

(* Before the first turn nothing is taken.                                 *)
LEMMA UntakenInv == TurnInv(Untaken)
<1> DEFINE s == Untaken
<1>1. /\ s.turn = 0 /\ s.out = <<>> /\ \A u \in 1 .. Units : s.left[u] = DueSeeds(u)
      /\ s.left = [u \in 1 .. Units |-> DueSeeds(u)]
  BY DEF Untaken
<1>2. \A u \in 1 .. Units : DueSeeds(u) \in Seq(Key) /\ Due(u) \in Nat
  BY DueSeedsFacts, IntervalAssumption DEF Due
<1>3. s \in QueueTurns
  <2>1. s.left \in [1 .. Units -> Seq(Key)] /\ <<>> \in Seq(Key)
    BY <1>1, <1>2
  <2> QED
    BY <2>1 DEF QueueTurns, Untaken
<1> HIDE DEF s
<1>4. \A u \in 1 .. Units : Taken(s, u) = 0
  <2> SUFFICES ASSUME NEW u \in 1 .. Units PROVE Taken(s, u) = 0
    OBVIOUS
  <2>1. Taken(s, u) = Due(u) - Due(u) /\ Due(u) \in Nat
    BY <1>1, <1>2 DEF Taken, Due
  <2> QED
    BY <2>1
<1>5. Rest(s)
  <2> SUFFICES ASSUME NEW u \in 1 .. Units
               PROVE  /\ Taken(s, u) \in 0 .. Due(u)
                      /\ \A i \in 1 .. Len(s.left[u]) : s.left[u][i] = DueSeeds(u)[Taken(s, u) + i]
    BY DEF Rest
  <2>1. Taken(s, u) = 0 /\ Taken(s, u) \in 0 .. Due(u)
    BY <1>2, <1>4
  <2>2. \A i \in 1 .. Due(u) : 0 + i = i
    BY <1>2
  <2> QED
    BY <1>1, <2>1, <2>2 DEF Due
<1>6. InRounds(s)
  <2> SUFFICES ASSUME DueUnits # {}
               PROVE  \E q \in Nat, r \in 0 .. Cardinality(DueUnits) - 1 :
                        /\ s.turn = q * Cardinality(DueUnits) + r
                        /\ \A u \in DueUnits : Taken(s, u) = Quota(u, q, r)
    BY DEF InRounds
  <2>1. ASSUME NEW u \in DueUnits PROVE Taken(s, u) = Quota(u, 0, 0)
    <3>1. Rank(u) \in Nat /\ u \in 1 .. Units
      BY DueUnitsFacts
    <3>2. ~ (Rank(u) < 0) /\ 0 <= Due(u)
      BY <1>2, <3>1
    <3> QED
      BY <1>4, <3>1, <3>2 DEF Quota
  <2>2. 0 \in 0 .. Cardinality(DueUnits) - 1 /\ 0 = 0 * Cardinality(DueUnits) + 0
    BY DueUnitsFacts, IntervalAssumption
  <2> QED
    BY <1>1, <2>1, <2>2
<1>7. Len(s.out) = 0 /\ 1 .. Len(s.out) = {}
  BY <1>1
<1>8. ListedOnce(s)
  <2>1. \A u : AskedIn(s.out, u, Len(s.out)) = 0
    BY <1>7, FS_EmptySet DEF AskedIn
  <2>2. \A u \in 1 .. Units : 1 .. Taken(s, u) = {}
    BY <1>4
  <2> QED
    BY <1>4, <1>7, <2>1, <2>2 DEF ListedOnce
<1>9. Fair(s.out)
  BY <1>7 DEF Fair
<1> QED
  BY <1>3, <1>5, <1>6, <1>8, <1>9 DEF TurnInv, s

(* While seeds are left, some unit has the next turn.                      *)
LEMMA NextTurnKeeps ==
  ASSUME NEW s, TurnInv(s)
  PROVE  TurnInv(NextTurn(s)) /\ (AllTaken(s) \/ NextTurn(s).turn = s.turn + 1)
<1>1. CASE AllTaken(s)
  BY <1>1 DEF NextTurn
<1>2. CASE ~ AllTaken(s)
  <2> DEFINE D == Cardinality(DueUnits)
             u == CHOOSE v \in DueUnits : Rank(v) = s.turn % D
  <2>1. DueUnits # {}
    <3>1. PICK v \in 1 .. Units : s.left[v] # <<>>
      BY <1>2 DEF AllTaken
    <3>2. /\ s.left[v] \in Seq(Key) /\ Taken(s, v) \in 0 .. Due(v)
          /\ Taken(s, v) = Due(v) - Len(s.left[v]) /\ Due(v) \in Nat
      BY DueSeedsFacts, IntervalAssumption DEF TurnInv, QueueTurns, Rest, Taken, Due
    <3>3. Len(s.left[v]) \in Nat \ {0}
      <4> DEFINE T == Key
                 w == s.left[v]
      <4> HIDE DEF T, w
      <4>1. w \in Seq(T) /\ w # <<>>
        BY <3>1, <3>2 DEF T, w
      <4>2. Len(w) \in Nat \ {0}
        BY <4>1
      <4> QED
        BY <4>2 DEF w
    <3>4. Due(v) # 0
      BY <3>2, <3>3
    <3>5. DueSeeds(v) # <<>>
      BY <3>4 DEF Due
    <3> QED
      BY <3>5 DEF DueUnits
  <2>2. s.turn % D \in 0 .. D - 1
    <3>1. D \in Nat \ {0} /\ s.turn \in Nat
      BY <2>1, DueUnitsFacts, IntervalAssumption DEF TurnInv, QueueTurns
    <3> HIDE DEF D
    <3> QED
      BY <3>1
  <2>3. \E v \in DueUnits : Rank(v) = s.turn % D
    BY <2>2, DueUnitsFacts
  <2>4. u \in DueUnits /\ Rank(u) = s.turn % D
    BY <2>3
  <2>5. NextTurn(s) = TakeTurn(s, u)
    BY <1>2 DEF NextTurn
  <2> HIDE DEF u
  <2>6. TurnInv(TakeTurn(s, u)) /\ TakeTurn(s, u).turn = s.turn + 1
    BY <2>4, TurnKeeps
  <2> QED
    BY <2>5, <2>6
<1> QED
  BY <1>1, <1>2

(* After as many turns as there are seeds all are taken.                   *)
LEMMA TurnsSuffice ==
  ASSUME NEW s, TurnInv(s), s.turn = Units * Seeds
  PROVE  AllTaken(s)
<1> SUFFICES ASSUME NEW u \in 1 .. Units, s.left[u] # <<>> PROVE FALSE
  BY DEF AllTaken
<1> DEFINE D == Cardinality(DueUnits)
           w == s.left[u]
<1>1. /\ s \in QueueTurns /\ Rest(s) /\ InRounds(s) /\ Due(u) \in 0 .. Seeds
      /\ Units \in Nat \ {0} /\ Seeds \in Nat \ {0}
  BY DueSeedsFacts, IntervalAssumption DEF TurnInv, Due
<1>2. Taken(s, u) < Due(u)
  BY <1>1, TakeTurnFacts
<1>3. u \in DueUnits
  <2>1. Due(u) # 0
    BY <1>1, <1>2 DEF Rest
  <2>2. DueSeeds(u) # <<>>
    BY <2>1 DEF Due
  <2> QED
    BY <2>2 DEF DueUnits
<1>4. D \in 1 .. Units
  BY <1>3, DueUnitsFacts
<1>5. PICK q \in Nat, r \in 0 .. D - 1 : s.turn = q * D + r /\ Taken(s, u) = Quota(u, q, r)
  BY <1>1, <1>3 DEF InRounds
<1> HIDE DEF D
<1>6. q < Seeds
  <2>1. Quota(u, q, r) < Due(u)
    BY <1>2, <1>5
  <2>2. q < Due(u)
    BY <1>1, <2>1 DEF Quota
  <2> QED
    BY <1>1, <2>2
<1>7. q * D + r < Units * Seeds
  <2>1. Seeds - 1 - q \in Nat /\ Units - D \in Nat
    BY <1>1, <1>4, <1>6
  <2>2. (Seeds - 1 - q) * D \in Nat /\ (Units - D) * Seeds \in Nat
    BY <1>1, <1>4, <2>1
  <2>3. (Seeds - 1 - q) * D = Seeds * D - D - q * D
    BY <1>1, <1>4
  <2>4. (Units - D) * Seeds = Units * Seeds - Seeds * D
    BY <1>1, <1>4
  <2>5. /\ q * D \in Nat /\ Seeds * D \in Nat /\ Units * Seeds \in Nat
        /\ r < D /\ r \in Nat /\ D \in Nat
    BY <1>1, <1>4
  <2> QED
    BY <2>2, <2>3, <2>4, <2>5
<1>8. Units * Seeds \in Nat
  BY <1>1
<1> QED
  BY <1>5, <1>7, <1>8

(* The review queue is the list after the turn that took the last seed.     *)
LEMMA QueueIsTaken == \E s : TurnInv(s) /\ AllTaken(s) /\ ReviewQueue = s.out
<1> DEFINE K == Units * Seeds
           S == {s \in QueueTurns : TurnInv(s)}
           step == [n \in 1 .. K |-> [s \in S |-> NextTurn(s)]]
           seeds == [u \in 1 .. Units |-> DueSeeds(u)]
           due == {u \in 1 .. Units : seeds[u] # <<>>}
           After(f) == f = [n \in 0 .. K |->
             IF n = 0 THEN [turn |-> 0, left |-> seeds, out |-> <<>>]
             ELSE LET s == f[n - 1]
                  IN IF \A u \in 1 .. Units : s.left[u] = <<>> THEN s
                     ELSE TakeTurn(s, CHOOSE u \in due :
                            Cardinality({v \in due : v < u}) = s.turn % Cardinality(due))]
           Repeat(f) == f = [n \in 0 .. K |-> IF n = 0 THEN Untaken ELSE NextTurn(f[n - 1])]
<1>1. K \in Nat
  BY IntervalAssumption
<1>2. ReviewQueue = (CHOOSE f : After(f))[K].out
  BY DEF ReviewQueue
<1>3. due = DueUnits
  BY DEF DueUnits
<1>4. ASSUME NEW f PROVE After(f) <=> Repeat(f)
  <2>1. \A n \in 0 .. K :
          (IF n = 0 THEN [turn |-> 0, left |-> seeds, out |-> <<>>]
           ELSE LET s == f[n - 1]
                IN IF \A u \in 1 .. Units : s.left[u] = <<>> THEN s
                   ELSE TakeTurn(s, CHOOSE u \in due :
                          Cardinality({v \in due : v < u}) = s.turn % Cardinality(due)))
          = IF n = 0 THEN Untaken ELSE NextTurn(f[n - 1])
    <3> HIDE DEF due
    <3> QED
      BY <1>3 DEF Untaken, NextTurn, AllTaken, Rank
  <2> QED
    BY <2>1
<1> HIDE DEF K, After, seeds, due
<1>5. Untaken \in S /\ \A s \in S : NextTurn(s) \in S
  <2>1. \A s : TurnInv(s) => s \in QueueTurns
    BY DEF TurnInv
  <2> QED
    BY <2>1, UntakenInv, NextTurnKeeps
<1>6. step \in [1 .. K -> [S -> S]]
  BY <1>5
<1> HIDE DEF S
<1>7. \E f : Repeat(f)
  <2>1. PICK f \in [0 .. K -> S] : Iterates(f, K, Untaken, step)
    <3> HIDE DEF step
    <3> QED
      BY <1>1, <1>5, <1>6, IterationExists
  <2>2. ASSUME NEW n \in 1 .. K PROVE f[n] = NextTurn(f[n - 1])
    <3>1. n - 1 \in 0 .. K
      BY <1>1
    <3>2. f[n - 1] \in S
      BY <2>1, <3>1
    <3>3. f[n] = step[n][f[n - 1]]
      <4> HIDE DEF step
      <4> QED
        BY <2>1 DEF Iterates
    <3> QED
      BY <3>2, <3>3
  <2>3. f[0] = Untaken /\ f = [n \in 0 .. K |-> f[n]]
    BY <2>1 DEF Iterates
  <2>4. ASSUME NEW n \in 0 .. K PROVE f[n] = IF n = 0 THEN Untaken ELSE NextTurn(f[n - 1])
    <3>1. n = 0 \/ (n # 0 /\ n \in 1 .. K)
      BY <1>1
    <3> QED
      BY <2>2, <2>3, <3>1
  <2> QED
    BY <2>3, <2>4
<1> DEFINE g == CHOOSE f : After(f)
<1>8. Repeat(g)
  <2>1. \E f : After(f)
    BY <1>4, <1>7
  <2>2. After(g)
    BY <2>1
  <2> HIDE DEF g
  <2> QED
    BY <1>4, <2>2
<1> HIDE DEF g
<1>9. g[0] = Untaken /\ \A n \in 1 .. K : g[n] = NextTurn(g[n - 1])
  BY <1>1, <1>8
<1> DEFINE P == {n \in 0 .. K : TurnInv(g[n]) /\ (AllTaken(g[n]) \/ g[n].turn = n)}
<1>10. 0 \in P
  <2>1. Untaken.turn = 0
    BY DEF Untaken
  <2> QED
    BY <1>1, <1>9, <2>1, UntakenInv
<1>11. ASSUME NEW n \in 0 .. K - 1, n \in P PROVE n + 1 \in P
  <2>1. n + 1 \in 1 .. K /\ (n + 1) - 1 = n
    BY <1>1
  <2>2. g[n + 1] = NextTurn(g[n])
    BY <1>9, <2>1
  <2>3. TurnInv(g[n + 1]) /\ (AllTaken(g[n]) \/ g[n + 1].turn = g[n].turn + 1)
    BY <1>11, <2>2, NextTurnKeeps
  <2>4. AllTaken(g[n]) => AllTaken(g[n + 1])
    BY <2>2 DEF NextTurn
  <2> QED
    BY <1>11, <2>1, <2>3, <2>4
<1> HIDE DEF P
<1>12. K \in P
  <2>1. \A n \in 0 .. K : n \in P
    BY <1>1, <1>10, <1>11, Induction
  <2> QED
    BY <1>1, <2>1
<1>13. TurnInv(g[K]) /\ AllTaken(g[K])
  BY <1>12, TurnsSuffice DEF P, K
<1> QED
  BY <1>2, <1>13 DEF g

(* The queue has every due seed once and nothing else.                     *)
LEMMA QueueIsDue ==
  /\ ReviewQueue \in Seq(Key) /\ DOMAIN ReviewQueue = 1 .. Len(ReviewQueue) /\ Len(ReviewQueue) \in Nat
  /\ \A i \in 1 .. Len(ReviewQueue) : Schedule(ReviewQueue[i]).status = "due"
  /\ \A k \in Key : Schedule(k).status = "due" =>
       \E i \in 1 .. Len(ReviewQueue) : ReviewQueue[i] = k
  /\ \A i, j \in 1 .. Len(ReviewQueue) : ReviewQueue[i] = ReviewQueue[j] => i = j
  /\ Fair(ReviewQueue)
<1>1. PICK s : TurnInv(s) /\ AllTaken(s) /\ ReviewQueue = s.out
  BY QueueIsTaken
<1> DEFINE Q == s.out
           N == Len(Q)
<1>2. s \in QueueTurns /\ Rest(s) /\ ListedOnce(s) /\ Fair(Q)
  BY <1>1 DEF TurnInv
<1>3. Q \in Seq(Key)
  BY <1>2 DEF QueueTurns
<1>4. DOMAIN Q = 1 .. N /\ N \in Nat
  <2> DEFINE T == Key
  <2> HIDE DEF T, Q
  <2>1. Q \in Seq(T)
    BY <1>3 DEF T
  <2> QED
    BY <2>1
<1>5. \A u \in 1 .. Units : Taken(s, u) = Due(u)
  <2> SUFFICES ASSUME NEW u \in 1 .. Units PROVE Taken(s, u) = Due(u)
    OBVIOUS
  <2>1. s.left[u] = <<>> /\ Due(u) \in Nat
    BY <1>1, DueSeedsFacts, IntervalAssumption DEF AllTaken, Due
  <2>2. Len(s.left[u]) = 0
    BY <2>1
  <2> QED
    BY <2>1, <2>2 DEF Taken
<1>6. ASSUME NEW i \in 1 .. N PROVE Schedule(Q[i]).status = "due"
  <2>1. PICK u \in 1 .. Units : \E m \in 1 .. Taken(s, u) : Q[i] = DueSeeds(u)[m]
    BY <1>2 DEF ListedOnce
  <2>2. PICK m \in 1 .. Len(DueSeeds(u)) : Q[i] = DueSeeds(u)[m]
    BY <1>5, <2>1 DEF Due
  <2>3. Schedule(DueSeeds(u)[m]).status = "due"
    BY DueSeedsFacts
  <2> QED
    BY <2>2, <2>3
<1>7. ASSUME NEW k \in Key, Schedule(k).status = "due" PROVE \E i \in 1 .. N : Q[i] = k
  <2>1. PICK u \in 1 .. Units, j \in 1 .. Seeds : k = <<u, j>>
    BY DEF Key
  <2>2. PICK m \in 1 .. Len(DueSeeds(u)) : DueSeeds(u)[m] = k
    <3>1. \A n \in 1 .. Seeds : Schedule(<<u, n>>).status = "due" =>
            \E m \in 1 .. Len(DueSeeds(u)) : DueSeeds(u)[m] = <<u, n>>
      BY DueSeedsFacts
    <3>2. Schedule(<<u, j>>).status = "due"
      BY <1>7, <2>1
    <3> QED
      BY <2>1, <3>1, <3>2
  <2>3. m \in 1 .. Taken(s, u)
    BY <1>5, <2>2 DEF Due
  <2> QED
    BY <1>2, <2>2, <2>3 DEF ListedOnce
<1>8. \A i, j \in 1 .. N : Q[i] = Q[j] => i = j
  BY <1>2 DEF ListedOnce
<1> QED
  BY <1>1, <1>2, <1>3, <1>4, <1>6, <1>7, <1>8

(* Every seed that decayed is in the review queue.                         *)
THEOREM DecayReviewed == RecheckSpec => []DecayedIsReviewed
<1>1. ASSUME RecheckInv PROVE DecayedIsReviewed
  <2> SUFFICES ASSUME NEW k \in Key, Mastery(k) # 0, Mastery(k) <= Schedule(k).stage
               PROVE  \E i \in DOMAIN ReviewQueue : ReviewQueue[i] = k
    BY DEF DecayedIsReviewed
  <2> DEFINE s == Schedule(k)
             f == Folded(PassDays(k))
             dueDay == f.anchor + (IF f.stage = 1 THEN First ELSE Second)
  <2>1. f \in Stages /\ s.stage = f.stage /\ f.stage \in 0 .. 3
    BY <1>1, ScheduleFacts, FoldedIsGreedy DEF Stages
  <2>2. FailedRecheck(k) \/ Lapsed(k)
    <3> SUFFICES ASSUME ~ FailedRecheck(k), ~ Lapsed(k) PROVE FALSE
      OBVIOUS
    <3>1. Mastery(k) = s.stage + 1
      BY DEF Mastery
    <3> HIDE DEF s
    <3> QED
      BY <2>1, <3>1 DEF s
  <2>3. "due" \in DOMAIN s
    BY <2>2 DEF FailedRecheck, Lapsed
  <2>4. f.stage # 0 /\ f.stage # 3
    <3>1. f.stage = 0 => DOMAIN s = {"stage", "status"}
      BY DEF Schedule
    <3>2. f.stage = 3 => DOMAIN s = {"stage", "status"}
      BY DEF Schedule
    <3> HIDE DEF s, f
    <3> QED
      BY <2>3, <3>1, <3>2
  <2>5. s = [stage |-> f.stage, status |-> IF today >= dueDay THEN "due" ELSE "upcoming", due |-> dueDay]
    BY <2>4 DEF Schedule
  <2>6. s.due = dueDay /\ (today >= dueDay => s.status = "due")
    <3> HIDE DEF s, f, dueDay
    <3> QED
      BY <2>5
  <2>7. dueDay \in Nat /\ Lapse \in Nat /\ today \in Nat
    <3>1. f.anchor \in Nat
      BY <2>1 DEF Stages
    <3> HIDE DEF f
    <3> QED
      BY <1>1, <3>1, IntervalAssumption DEF RecheckInv
  <2> HIDE DEF s, f, dueDay
  <2>8. today >= dueDay
    <3>1. CASE Lapsed(k)
      <4>1. today >= s.due + Lapse
        BY <3>1 DEF Lapsed, s
      <4> QED
        BY <2>6, <2>7, <4>1
    <3>2. CASE FailedRecheck(k)
      <4>1. PICK a \in History(k) : a.day >= s.due
        BY <3>2 DEF FailedRecheck, s
      <4>2. a.day <= today /\ a.day \in Nat
        BY <1>1, <4>1 DEF RecheckInv, History, SeedAnswer
      <4> QED
        BY <2>6, <2>7, <4>1, <4>2
    <3> QED
      BY <2>2, <3>1, <3>2
  <2>9. Schedule(k).status = "due"
    BY <2>6, <2>8 DEF s
  <2> QED
    BY <2>9, QueueIsDue
<1> QED
  BY <1>1, RecheckInvariant, PTL

(* The queue has every due seed once, and no unit is asked again while       *)
(* another with seeds left was asked less often.                           *)
THEOREM QueueInterleaved == RecheckSpec => []ReviewInterleaved
<1>1. ReviewInterleaved
  <2> DEFINE Q == ReviewQueue
             N == Len(Q)
             all == {k \in Key : Schedule(k).status = "due"}
             listed == {Q[i] : i \in DOMAIN Q}
  <2>1. /\ Q \in Seq(Key) /\ DOMAIN Q = 1 .. N /\ N \in Nat
        /\ \A i \in 1 .. N : Schedule(Q[i]).status = "due"
        /\ \A k \in Key : Schedule(k).status = "due" => \E i \in 1 .. N : Q[i] = k
        /\ \A i, j \in 1 .. N : Q[i] = Q[j] => i = j
        /\ Fair(Q)
    BY QueueIsDue
  <2>2. \A i \in 1 .. N : Q[i] \in Key
    <3> DEFINE T == Key
    <3> HIDE DEF T, Q
    <3>1. Q \in Seq(T)
      BY <2>1 DEF T
    <3>2. \A i \in 1 .. Len(Q) : Q[i] \in T
      BY <3>1
    <3> QED
      BY <3>2 DEF T
  <2> HIDE DEF Q, N
  <2>3. listed = all
    BY <2>1, <2>2
  <2>4. Cardinality(all) = N
    <3> DEFINE f == [i \in 1 .. N |-> Q[i]]
    <3>1. f \in [1 .. N -> all] /\ \A k \in all : \E i \in 1 .. N : f[i] = k
      BY <2>1, <2>2
    <3>2. \A i, j \in 1 .. N : f[i] = f[j] => i = j
      BY <2>1
    <3> HIDE DEF f, all
    <3>3. f \in Bijection(1 .. N, all)
      BY <3>1, <3>2 DEF Bijection, Injection, IsInjective, Surjection
    <3>4. ExistsBijection(1 .. N, all)
      BY <3>3 DEF ExistsBijection
    <3> QED
      BY <2>1, <3>4, FS_CountingElements
  <2>5. N = DueCount /\ Cardinality(listed) = DueCount
    BY <2>3, <2>4 DEF DueCount
  <2>6. ASSUME NEW n \in DOMAIN Q, NEW u \in 1 .. Units,
               Cardinality({i \in 1 .. n : Q[i][1] = u}) < [v \in 1 .. Units |-> Len(DueSeeds(v))][u]
        PROVE  Cardinality({i \in 1 .. n : Q[i][1] = Q[n][1]}) <= Cardinality({i \in 1 .. n : Q[i][1] = u}) + 1
    <3>1. n \in 1 .. Len(Q) /\ AskedIn(Q, u, n) < Due(u)
      BY <2>1, <2>6 DEF AskedIn, Due, N
    <3> QED
      BY <2>1, <3>1 DEF Fair, AskedIn
  <2> QED
    BY <2>5, <2>6 DEF ReviewInterleaved, Q, N
<1> QED
  BY <1>1, PTL

-----------------------------------------------------------------------------
(* PODS.  pods. *)

Pod     == [cohort : Cohort, letter : 0 .. Letters - 1]
PostKey == [pod : Nat, student : Peer, week : Week]

(* Who is on the way into a pod, and who is on the way into any.           *)
Joining(p) == {d \in PodSeat : podSeat[d].op = "join" /\ podSeat[d].pod = p}
Asking(s)  == {d \in PodSeat : podSeat[d].op \in {"find", "count", "create", "join"}
                               /\ podSeat[d].student = s}

(* A request that is found room counts before it is a member.              *)
Crowd(p) == Cardinality(MembersOf(p)) + Cardinality(Joining(p)) <= Capacity + Cardinality(PodSeat) - 1
Claim(s) == Cardinality(PodsOf(s)) + Cardinality(Asking(s)) <= Cardinality(PodSeat)

SeatOK(d) ==
  LET r == podSeat[d]
  IN /\ r.op \in {"find", "count", "create", "join"} => r.student \in Peer
     /\ r.op \in {"find", "count", "create"} => r.cohort \in Cohort
     /\ r.op = "create" => r.letter \in 0 .. Letters - 1
     /\ r.op = "join" => r.pod \in DOMAIN pods
     /\ r.op \in {"unseen", "relay", "post"} =>
          r.key \in PostKey /\ [pod |-> r.key.pod, student |-> r.key.student] \in members
     /\ r.op = "post" /\ r.answer => r.key \in relayed

RowsOK ==
  /\ pods \in Seq(Pod)
  /\ members \subseteq [pod : DOMAIN pods, student : Peer] /\ IsFiniteSet(members)
  /\ assigned = members
  /\ relayed \subseteq PostKey
  /\ podSeat = [d \in PodSeat |-> podSeat[d]]
  /\ \A d \in PodSeat : SeatOK(d)

(* Each post has its event, and each event its post.                       *)
PostsOK ==
  /\ posted \in Seq(PostKey)
  /\ \A x \in posts :
       /\ x.key \in PostKey /\ [pod |-> x.key.pod, student |-> x.key.student] \in members
       /\ \E i \in DOMAIN posted : posted[i] = x.key
       /\ x.answer => x.key \in relayed
  /\ \A x, y \in posts : x.key = y.key => x = y
  /\ \A i \in DOMAIN posted : Stored(posted[i])
  /\ \A i, j \in DOMAIN posted : posted[i] = posted[j] => i = j

PodsInv ==
  RowsOK /\ PostsOK /\ (\A p \in DOMAIN pods : Crowd(p)) /\ (\A s \in Peer : Claim(s))

-----------------------------------------------------------------------------
LEMMA Counts ==
  ASSUME RowsOK
  PROVE  /\ IsFiniteSet(PodSeat) /\ Cardinality(PodSeat) \in Nat
         /\ \A p : /\ IsFiniteSet(MembersOf(p)) /\ Cardinality(MembersOf(p)) \in Nat
                   /\ IsFiniteSet(Joining(p)) /\ Cardinality(Joining(p)) \in Nat
                   /\ Cardinality(Joining(p)) <= Cardinality(PodSeat)
         /\ \A s : /\ IsFiniteSet(PodsOf(s)) /\ Cardinality(PodsOf(s)) \in Nat
                   /\ IsFiniteSet(Asking(s)) /\ Cardinality(Asking(s)) \in Nat
                   /\ Cardinality(Asking(s)) <= Cardinality(PodSeat)
<1>1. IsFiniteSet(PodSeat) /\ Cardinality(PodSeat) \in Nat
  BY PodsAssumption, FS_CardinalityType
<1>2. ASSUME NEW p
      PROVE  /\ IsFiniteSet(MembersOf(p)) /\ Cardinality(MembersOf(p)) \in Nat
             /\ IsFiniteSet(Joining(p)) /\ Cardinality(Joining(p)) \in Nat
             /\ Cardinality(Joining(p)) <= Cardinality(PodSeat)
  <2>1. MembersOf(p) \in SUBSET members /\ Joining(p) \in SUBSET PodSeat /\ IsFiniteSet(members)
    BY DEF MembersOf, Joining, RowsOK
  <2> QED
    BY <1>1, <2>1, FS_Subset, FS_CardinalityType
<1>3. ASSUME NEW s
      PROVE  /\ IsFiniteSet(PodsOf(s)) /\ Cardinality(PodsOf(s)) \in Nat
             /\ IsFiniteSet(Asking(s)) /\ Cardinality(Asking(s)) \in Nat
             /\ Cardinality(Asking(s)) <= Cardinality(PodSeat)
  <2>1. PodsOf(s) \in SUBSET (1 .. Len(pods)) /\ Len(pods) \in Nat
    <3>1. PodsOf(s) \subseteq DOMAIN pods
      BY DEF RowsOK, PodsOf
    <3>2. DOMAIN pods = 1 .. Len(pods) /\ Len(pods) \in Nat
      BY DEF RowsOK
    <3> QED
      BY <3>1, <3>2
  <2>2. IsFiniteSet(1 .. Len(pods))
    BY <2>1, FS_Interval
  <2>3. Asking(s) \in SUBSET PodSeat
    BY DEF Asking
  <2> QED
    BY <1>1, <2>1, <2>2, <2>3, FS_Subset, FS_CardinalityType
<1> QED
  BY <1>1, <1>2, <1>3

(* A seat that goes on, and the others that stay.                          *)
LEMMA SeatFacts ==
  ASSUME RowsOK, NEW d \in PodSeat, NEW request, AtSeat(d, request)
  PROVE  /\ podSeat' = [e \in PodSeat |-> podSeat'[e]] /\ podSeat'[d] = request
         /\ \A e \in PodSeat : e # d => podSeat'[e] = podSeat[e]
         /\ \A p : request.op # "join" \/ request.pod # p => Joining(p)' \subseteq Joining(p)
         /\ \A s : \/ request.op \notin {"find", "count", "create", "join"}
                   \/ request.student # s
                   \/ d \in Asking(s)
                   => Asking(s)' \subseteq Asking(s)
<1>1. /\ podSeat' = [e \in PodSeat |-> podSeat'[e]] /\ podSeat'[d] = request
      /\ \A e \in PodSeat : e # d => podSeat'[e] = podSeat[e]
  BY DEF RowsOK, AtSeat
<1>2. \A p : request.op # "join" \/ request.pod # p => Joining(p)' \subseteq Joining(p)
  BY <1>1 DEF Joining
<1>3. \A s : \/ request.op \notin {"find", "count", "create", "join"}
             \/ request.student # s
             \/ d \in Asking(s)
             => Asking(s)' \subseteq Asking(s)
  BY <1>1 DEF Asking
<1> QED
  BY <1>1, <1>2, <1>3

(* While nobody joins, fewer on the way keep both bounds.                  *)
LEMMA CrowdStays ==
  ASSUME PodsInv, UNCHANGED members, NEW p \in DOMAIN pods, Joining(p)' \subseteq Joining(p)
  PROVE  Crowd(p)'
<1>1. IsFiniteSet(Joining(p)) /\ Cardinality(Joining(p)) \in Nat /\ Cardinality(MembersOf(p)) \in Nat
      /\ Cardinality(PodSeat) \in Nat
  BY Counts DEF PodsInv
<1>2. Cardinality(Joining(p)') <= Cardinality(Joining(p)) /\ Cardinality(Joining(p)') \in Nat
  BY <1>1, FS_Subset, FS_CardinalityType
<1>3. MembersOf(p)' = MembersOf(p)
  BY DEF MembersOf
<1>4. Crowd(p)
  BY DEF PodsInv
<1> QED
  BY <1>1, <1>2, <1>3, <1>4, PodsAssumption DEF Crowd

(* A claim outlives a step that moves no member and adds no request.       *)
LEMMA ClaimStays ==
  ASSUME PodsInv, UNCHANGED members, NEW s \in Peer, Asking(s)' \subseteq Asking(s)
  PROVE  Claim(s)'
<1>1. IsFiniteSet(Asking(s)) /\ Cardinality(Asking(s)) \in Nat /\ Cardinality(PodsOf(s)) \in Nat
      /\ Cardinality(PodSeat) \in Nat
  BY Counts DEF PodsInv
<1>2. Cardinality(Asking(s)') <= Cardinality(Asking(s)) /\ Cardinality(Asking(s)') \in Nat
  BY <1>1, FS_Subset, FS_CardinalityType
<1>3. PodsOf(s)' = PodsOf(s)
  BY DEF PodsOf
<1>4. Claim(s)
  BY DEF PodsInv
<1> QED
  BY <1>1, <1>2, <1>3, <1>4 DEF Claim

(* What a step without new rows owes.                                      *)
LEMMA RowsKept ==
  ASSUME PodsInv, UNCHANGED <<pods, members, assigned, posts, posted>>,
         relayed \subseteq relayed', relayed' \subseteq PostKey,
         NEW d \in PodSeat, NEW request, AtSeat(d, request), SeatOK(d)'
  PROVE  RowsOK' /\ PostsOK'
<1>1. /\ podSeat' = [e \in PodSeat |-> podSeat'[e]] /\ podSeat'[d] = request
      /\ \A e \in PodSeat : e # d => podSeat'[e] = podSeat[e]
  BY SeatFacts DEF PodsInv
<1>2. ASSUME NEW e \in PodSeat, e # d PROVE SeatOK(e)'
  <2>1. SeatOK(e) /\ podSeat'[e] = podSeat[e]
    BY <1>1, <1>2 DEF PodsInv, RowsOK
  <2> QED
    BY <2>1 DEF SeatOK
<1>3. RowsOK'
  BY <1>1, <1>2 DEF PodsInv, RowsOK
<1>4. PostsOK'
  BY DEF PodsInv, PostsOK, Stored
<1> QED
  BY <1>3, <1>4

(* A step that brings nobody nearer to a pod keeps everything else.        *)
LEMMA NobodyNearer ==
  ASSUME PodsInv, UNCHANGED <<pods, members>>, NEW d \in PodSeat, NEW request, AtSeat(d, request),
         RowsOK', PostsOK',
         request.op # "join",
         request.op \in {"find", "count", "create"} => d \in Asking(request.student)
  PROVE  PodsInv'
<1>1. \A p \in DOMAIN pods : Joining(p)' \subseteq Joining(p)
  BY SeatFacts DEF PodsInv
<1>2. \A s \in Peer : Asking(s)' \subseteq Asking(s)
  BY SeatFacts DEF PodsInv
<1> QED
  BY <1>1, <1>2, CrowdStays, ClaimStays DEF PodsInv

(* No pod has a member at first.                                           *)
LEMMA InitPods == ASSUME PodsInit PROVE PodsInv
<1> USE DEF PodsInit
<1>1. RowsOK
  BY FS_EmptySet DEF RowsOK, SeatOK, Vacant
<1>2. PostsOK
  BY DEF PostsOK, Stored
<1>3. \A s \in Peer : Claim(s)
  <2>1. ASSUME NEW s \in Peer PROVE Cardinality(PodsOf(s)) = 0 /\ Cardinality(Asking(s)) = 0
    <3>1. PodsOf(s) = {} /\ Asking(s) = {}
      BY DEF PodsOf, Asking, Vacant
    <3> QED
      BY <3>1, FS_EmptySet
  <2> QED
    BY <1>1, <2>1, Counts DEF Claim
<1>4. DOMAIN pods = {}
  OBVIOUS
<1> QED
  BY <1>1, <1>2, <1>3, <1>4 DEF PodsInv

(* Asking for a pod: whoever has one asks for none.                        *)
LEMMA AskStep ==
  ASSUME PodsInv, NEW d \in PodSeat, NEW s \in Peer, NEW c \in Cohort, AskForPod(d, s, c)
  PROVE  PodsInv'
<1> DEFINE request == [op |-> "find", student |-> s, cohort |-> c]
<1>1. PodsOf(s) = {} /\ AtSeat(d, request) /\ UNCHANGED <<pods, members, assigned, posts, posted, relayed>>
  BY DEF AskForPod
<1>2. SeatOK(d)' /\ podSeat'[d] = request
  <2>1. podSeat'[d] = request
    BY <1>1, SeatFacts DEF PodsInv
  <2> QED
    BY <2>1 DEF SeatOK
<1>3. RowsOK' /\ PostsOK'
  BY <1>1, <1>2, RowsKept DEF PodsInv, RowsOK
<1>4. \A p \in DOMAIN pods : Crowd(p)'
  BY <1>1, SeatFacts, CrowdStays DEF PodsInv
<1>5. ASSUME NEW x \in Peer PROVE Claim(x)'
  <2>1. CASE x # s
    BY <1>1, <2>1, SeatFacts, ClaimStays DEF PodsInv
  <2>2. CASE x = s
    <3>1. PodsOf(s)' = {}
      BY <1>1 DEF PodsOf
    <3>2. Asking(s)' \in SUBSET PodSeat
      BY DEF Asking
    <3>3. IsFiniteSet(PodSeat) /\ Cardinality(PodSeat) \in Nat
      BY Counts DEF PodsInv
    <3>4. Cardinality(Asking(s)') <= Cardinality(PodSeat) /\ Cardinality(Asking(s)') \in Nat
      BY <3>2, <3>3, FS_Subset, FS_CardinalityType
    <3> QED
      BY <2>2, <3>1, <3>3, <3>4, FS_EmptySet DEF Claim
  <2> QED
    BY <2>1, <2>2
<1> QED
  BY <1>1, <1>3, <1>4, <1>5 DEF PodsInv

(* Who is found room counts from now on: with every request the same pod   *)
(* had room for, it is overfilled by no more than the requests.            *)
LEMMA FindStep ==
  ASSUME PodsInv, NEW d \in PodSeat, FindPod(d)
  PROVE  PodsInv'
<1> DEFINE r    == podSeat[d]
           room == WithRoom(r.cohort)
           old  == CHOOSE p \in room : \A q \in room : p <= q
           join == [op |-> "join", student |-> r.student, pod |-> old]
           on   == [op |-> "count", student |-> r.student, cohort |-> r.cohort]
<1>1. /\ r.op = "find" /\ r.student \in Peer /\ r.cohort \in Cohort /\ d \in Asking(r.student)
      /\ UNCHANGED <<pods, members, assigned, posts, posted, relayed>>
  BY DEF FindPod, PodsInv, RowsOK, SeatOK, Asking
<1>2. CASE room = {}
  <2>1. AtSeat(d, on)
    BY <1>2 DEF FindPod
  <2>2. podSeat'[d] = on
    BY <2>1, SeatFacts DEF PodsInv
  <2>3. SeatOK(d)'
    BY <1>1, <2>2 DEF SeatOK
  <2>4. RowsOK' /\ PostsOK'
    BY <1>1, <2>1, <2>3, RowsKept DEF PodsInv, RowsOK
  <2> QED
    BY <1>1, <2>1, <2>4, NobodyNearer
<1>3. CASE room # {}
  <2>1. AtSeat(d, join)
    BY <1>3 DEF FindPod
  <2>2. room \subseteq DOMAIN pods /\ DOMAIN pods \subseteq Nat
    BY DEF WithRoom, PodsInv, RowsOK
  <2>3. old \in room
    <3>1. room \subseteq Nat
      BY <2>2
    <3> HIDE DEF room
    <3>2. \E q \in room : \A s \in room : q <= s
      BY <1>3, <3>1, LeastNatural
    <3> QED
      BY <3>2
  <2>4. old \in DOMAIN pods /\ Cardinality(MembersOf(old)) < Capacity
    BY <2>3 DEF WithRoom
  <2> HIDE DEF old
  <2>5. podSeat'[d] = join
    BY <2>1, SeatFacts DEF PodsInv
  <2>6. SeatOK(d)'
    BY <1>1, <2>4, <2>5 DEF SeatOK
  <2>7. RowsOK' /\ PostsOK'
    BY <1>1, <2>1, <2>6, RowsKept DEF PodsInv, RowsOK
  <2>8. \A s \in Peer : Claim(s)'
    BY <1>1, <2>1, SeatFacts, ClaimStays DEF PodsInv
  <2>9. ASSUME NEW p \in DOMAIN pods PROVE Crowd(p)'
    <3>1. CASE p # old
      BY <1>1, <2>1, <3>1, SeatFacts, CrowdStays DEF PodsInv
    <3>2. CASE p = old
      <4>1. MembersOf(p)' = MembersOf(p) /\ Joining(p)' \in SUBSET PodSeat
        BY <1>1 DEF MembersOf, Joining
      <4>2. IsFiniteSet(PodSeat) /\ Cardinality(PodSeat) \in Nat /\ Cardinality(MembersOf(p)) \in Nat
        BY Counts DEF PodsInv
      <4>3. Cardinality(Joining(p)') <= Cardinality(PodSeat) /\ Cardinality(Joining(p)') \in Nat
        BY <4>1, <4>2, FS_Subset, FS_CardinalityType
      <4> QED
        BY <2>4, <3>2, <4>1, <4>2, <4>3, PodsAssumption DEF Crowd
    <3> QED
      BY <3>1, <3>2
  <2> QED
    BY <1>1, <2>7, <2>8, <2>9 DEF PodsInv
<1> QED
  BY <1>2, <1>3

(* Counting the pods reads how many members each has.                      *)
LEMMA CountStep ==
  ASSUME PodsInv, NEW d \in PodSeat, CountPods(d)
  PROVE  PodsInv'
<1> DEFINE r == podSeat[d]
           n == Cardinality({p \in DOMAIN pods : pods[p].cohort = r.cohort})
           on == [op |-> "create", student |-> r.student, cohort |-> r.cohort, letter |-> n % Letters]
<1>1. /\ r.op = "count" /\ r.student \in Peer /\ r.cohort \in Cohort /\ d \in Asking(r.student)
      /\ AtSeat(d, on) /\ UNCHANGED <<pods, members, assigned, posts, posted, relayed>>
  BY DEF CountPods, PodsInv, RowsOK, SeatOK, Asking
<1>2. n \in Nat
  <2>1. DOMAIN pods = 1 .. Len(pods) /\ Len(pods) \in Nat
    BY DEF PodsInv, RowsOK
  <2>2. IsFiniteSet(1 .. Len(pods))
    BY <2>1, FS_Interval
  <2>3. {p \in DOMAIN pods : pods[p].cohort = r.cohort} \in SUBSET (1 .. Len(pods))
    BY <2>1
  <2> QED
    BY <2>2, <2>3, FS_Subset, FS_CardinalityType
<1>3. n % Letters \in 0 .. Letters - 1
  <2> HIDE DEF n
  <2> QED
    BY <1>2, PodsAssumption
<1> HIDE DEF n
<1>4. podSeat'[d] = on
  BY <1>1, SeatFacts DEF PodsInv
<1>5. SeatOK(d)'
  BY <1>1, <1>3, <1>4 DEF SeatOK
<1>6. RowsOK' /\ PostsOK'
  BY <1>1, <1>5, RowsKept DEF PodsInv, RowsOK
<1> QED
  BY <1>1, <1>6, NobodyNearer

(* A new pod has nobody but its creator on the way into it.                *)
LEMMA CreateStep ==
  ASSUME PodsInv, NEW d \in PodSeat, CreatePod(d)
  PROVE  PodsInv'
<1> DEFINE r    == podSeat[d]
           new  == [cohort |-> r.cohort, letter |-> r.letter]
           id   == Len(pods) + 1
           join == [op |-> "join", student |-> r.student, pod |-> id]
<1>1. /\ r.op = "create" /\ r.student \in Peer /\ d \in Asking(r.student)
      /\ pods \in Seq(Pod) /\ new \in Pod /\ pods' = Append(pods, new)
      /\ AtSeat(d, join) /\ UNCHANGED <<members, assigned, posts, posted, relayed>>
  BY DEF CreatePod, PodsInv, RowsOK, SeatOK, Asking, Pod
<1>2. /\ pods' \in Seq(Pod) /\ DOMAIN pods = 1 .. Len(pods) /\ Len(pods) \in Nat
      /\ DOMAIN pods' = 1 .. Len(pods) + 1
  <2> HIDE DEF new
  <2> QED
    BY <1>1, AppendFacts
<1>3. DOMAIN pods \subseteq DOMAIN pods' /\ id \in DOMAIN pods' /\ id \notin DOMAIN pods
      /\ \A p \in DOMAIN pods' : p \in DOMAIN pods \/ p = id
  BY <1>2
<1> HIDE DEF id
<1>4. /\ podSeat' = [e \in PodSeat |-> podSeat'[e]] /\ podSeat'[d] = join
      /\ \A e \in PodSeat : e # d => podSeat'[e] = podSeat[e]
  BY <1>1, SeatFacts DEF PodsInv
<1>5. RowsOK'
  <2>1. ASSUME NEW e \in PodSeat PROVE SeatOK(e)'
    <3>1. CASE e = d
      BY <1>1, <1>3, <1>4, <3>1 DEF SeatOK
    <3>2. CASE e # d
      <4>1. SeatOK(e) /\ podSeat'[e] = podSeat[e]
        BY <1>4, <3>2 DEF PodsInv, RowsOK
      <4> QED
        BY <1>1, <1>3, <4>1 DEF SeatOK
    <3> QED
      BY <3>1, <3>2
  <2>2. members \subseteq [pod : DOMAIN pods', student : Peer]
    BY <1>3 DEF PodsInv, RowsOK
  <2> QED
    BY <1>1, <1>2, <1>4, <2>1, <2>2 DEF PodsInv, RowsOK
<1>6. PostsOK'
  BY <1>1 DEF PodsInv, PostsOK, Stored
<1>7. \A s \in Peer : Claim(s)'
  BY <1>1, SeatFacts, ClaimStays DEF PodsInv
<1>8. ASSUME NEW p \in DOMAIN pods' PROVE Crowd(p)'
  <2>1. CASE p \in DOMAIN pods
    BY <1>1, <1>3, <2>1, SeatFacts, CrowdStays DEF PodsInv
  <2>2. CASE p = id
    <3>1. MembersOf(p)' = {}
      BY <1>1, <1>3, <2>2 DEF MembersOf, PodsInv, RowsOK
    <3>2. Joining(p)' \in SUBSET PodSeat
      BY DEF Joining
    <3>3. IsFiniteSet(PodSeat) /\ Cardinality(PodSeat) \in Nat
      BY Counts DEF PodsInv
    <3>4. Joining(p)' \in SUBSET {d}
      <4>1. \A e \in PodSeat : podSeat[e].op = "join" => podSeat[e].pod # p
        BY <1>3, <2>2 DEF PodsInv, RowsOK, SeatOK
      <4> QED
        BY <1>4, <4>1 DEF Joining
    <3>5. Cardinality(Joining(p)') <= 1 /\ Cardinality(Joining(p)') \in Nat
      <4>1. IsFiniteSet({d}) /\ Cardinality({d}) = 1
        BY FS_Singleton
      <4>2. IsFiniteSet(Joining(p)') /\ Cardinality(Joining(p)') <= 1
        BY <3>4, <4>1, FS_Subset
      <4> QED
        BY <4>2, FS_CardinalityType
    <3>6. Cardinality(PodSeat) # 0
      BY <3>3, FS_EmptySet
    <3> QED
      BY <3>1, <3>3, <3>5, <3>6, FS_EmptySet, PodsAssumption DEF Crowd
  <2> QED
    BY <1>3, <2>1, <2>2
<1> QED
  BY <1>5, <1>6, <1>7, <1>8 DEF PodsInv

(* Who joins is a member and no longer on the way.                         *)
LEMMA JoinStep ==
  ASSUME PodsInv, NEW d \in PodSeat, JoinPod(d)
  PROVE  PodsInv'
<1> DEFINE r  == podSeat[d]
           at == r.pod
           s  == r.student
           m  == [pod |-> at, student |-> s]
<1>1. /\ r.op = "join" /\ at \in DOMAIN pods /\ s \in Peer /\ d \in Joining(at) /\ d \in Asking(s)
      /\ members' = members \cup {m} /\ assigned' = assigned \cup {m}
      /\ AtSeat(d, Vacant) /\ Vacant.op = "free" /\ UNCHANGED <<pods, posts, posted, relayed>>
  BY DEF JoinPod, PodsInv, RowsOK, SeatOK, Joining, Asking, Vacant
<1>2. /\ podSeat' = [e \in PodSeat |-> podSeat'[e]] /\ podSeat'[d] = Vacant
      /\ \A e \in PodSeat : e # d => podSeat'[e] = podSeat[e]
      /\ \A p : Joining(p)' \subseteq Joining(p)
      /\ \A x : Asking(x)' \subseteq Asking(x)
  BY <1>1, SeatFacts DEF PodsInv
<1>3. RowsOK'
  <2>1. ASSUME NEW e \in PodSeat PROVE SeatOK(e)'
    <3>1. CASE e = d
      BY <1>1, <1>2, <3>1 DEF SeatOK
    <3>2. CASE e # d
      <4>1. SeatOK(e) /\ podSeat'[e] = podSeat[e]
        BY <1>2, <3>2 DEF PodsInv, RowsOK
      <4> QED
        BY <1>1, <4>1 DEF SeatOK
    <3> QED
      BY <3>1, <3>2
  <2>2. IsFiniteSet(members')
    BY <1>1, FS_AddElement DEF PodsInv, RowsOK
  <2>3. members' \subseteq [pod : DOMAIN pods, student : Peer]
    BY <1>1 DEF PodsInv, RowsOK
  <2> QED
    BY <1>1, <1>2, <2>1, <2>2, <2>3 DEF PodsInv, RowsOK
<1>4. PostsOK'
  BY <1>1 DEF PodsInv, PostsOK, Stored
<1>5. ASSUME NEW p \in DOMAIN pods PROVE Crowd(p)'
  <2>1. /\ IsFiniteSet(MembersOf(p)) /\ Cardinality(MembersOf(p)) \in Nat
        /\ IsFiniteSet(Joining(p)) /\ Cardinality(Joining(p)) \in Nat /\ Cardinality(PodSeat) \in Nat
        /\ Crowd(p)
    BY Counts DEF PodsInv
  <2>2. Cardinality(Joining(p)') <= Cardinality(Joining(p)) /\ Cardinality(Joining(p)') \in Nat
    BY <1>2, <2>1, FS_Subset, FS_CardinalityType
  <2>3. CASE p # at
    <3>1. MembersOf(p)' = MembersOf(p)
      BY <1>1, <2>3 DEF MembersOf
    <3> QED
      BY <2>1, <2>2, <3>1, PodsAssumption DEF Crowd
  <2>4. CASE p = at
    <3>1. MembersOf(p)' = MembersOf(p) \cup {m}
      BY <1>1, <2>4 DEF MembersOf
    <3>2. Cardinality(MembersOf(p)') <= Cardinality(MembersOf(p)) + 1 /\ Cardinality(MembersOf(p)') \in Nat
      <4>1. /\ IsFiniteSet(MembersOf(p) \cup {m})
            /\ Cardinality(MembersOf(p) \cup {m}) \in {Cardinality(MembersOf(p)), Cardinality(MembersOf(p)) + 1}
        <5> HIDE DEF m
        <5> QED
          BY <2>1, FS_AddElement
      <4> QED
        BY <2>1, <3>1, <4>1
    <3>3. Joining(p)' \in SUBSET (Joining(p) \ {d}) /\ d \in Joining(p)
      BY <1>1, <1>2, <2>4 DEF Joining
    <3>4. IsFiniteSet(Joining(p) \ {d}) /\ Cardinality(Joining(p) \ {d}) = Cardinality(Joining(p)) - 1
      BY <2>1, <3>3, FS_RemoveElement
    <3>5. Cardinality(Joining(p)') <= Cardinality(Joining(p)) - 1
      BY <3>3, <3>4, FS_Subset
    <3> QED
      BY <2>1, <2>2, <3>2, <3>5, PodsAssumption DEF Crowd
  <2> QED
    BY <2>3, <2>4
<1>6. ASSUME NEW x \in Peer PROVE Claim(x)'
  <2>1. /\ IsFiniteSet(PodsOf(x)) /\ Cardinality(PodsOf(x)) \in Nat
        /\ IsFiniteSet(Asking(x)) /\ Cardinality(Asking(x)) \in Nat /\ Cardinality(PodSeat) \in Nat
        /\ Claim(x)
    BY Counts DEF PodsInv
  <2>2. Cardinality(Asking(x)') <= Cardinality(Asking(x)) /\ Cardinality(Asking(x)') \in Nat
    BY <1>2, <2>1, FS_Subset, FS_CardinalityType
  <2>3. CASE x # s
    <3>1. PodsOf(x)' = PodsOf(x)
      BY <1>1, <2>3 DEF PodsOf
    <3> QED
      BY <2>1, <2>2, <3>1 DEF Claim
  <2>4. CASE x = s
    <3>1. PodsOf(x)' = PodsOf(x) \cup {at}
      <4>1. m.pod = at /\ m.student = s /\ members' = members \cup {m}
        BY <1>1
      <4> HIDE DEF m
      <4> QED
        BY <2>4, <4>1 DEF PodsOf
    <3>2. Cardinality(PodsOf(x)') <= Cardinality(PodsOf(x)) + 1 /\ Cardinality(PodsOf(x)') \in Nat
      <4>1. /\ IsFiniteSet(PodsOf(x) \cup {at})
            /\ Cardinality(PodsOf(x) \cup {at}) \in {Cardinality(PodsOf(x)), Cardinality(PodsOf(x)) + 1}
        <5> HIDE DEF at
        <5> QED
          BY <2>1, FS_AddElement
      <4> QED
        BY <2>1, <3>1, <4>1
    <3>3. Asking(x)' \in SUBSET (Asking(x) \ {d}) /\ d \in Asking(x)
      BY <1>1, <1>2, <2>4 DEF Asking
    <3>4. IsFiniteSet(Asking(x) \ {d}) /\ Cardinality(Asking(x) \ {d}) = Cardinality(Asking(x)) - 1
      BY <2>1, <3>3, FS_RemoveElement
    <3>5. Cardinality(Asking(x)') <= Cardinality(Asking(x)) - 1
      BY <3>3, <3>4, FS_Subset
    <3> QED
      BY <2>1, <2>2, <3>2, <3>5 DEF Claim
  <2> QED
    BY <2>3, <2>4
<1> QED
  BY <1>1, <1>3, <1>4, <1>5, <1>6 DEF PodsInv

-----------------------------------------------------------------------------
(* A post on its way leaves the pods as they are; the second of a week ends *)
(* where the first one is found.                                           *)
LEMMA PostStep ==
  ASSUME PodsInv, NEW d \in PodSeat,
         \/ \E s \in Peer, p \in DOMAIN pods, w \in Week : SubmitPost(d, s, p, w)
         \/ CheckDuplicate(d) \/ RelayPost(d) \/ PodRequestDies(d)
  PROVE  PodsInv'
<1>1. ASSUME NEW request, AtSeat(d, request), UNCHANGED <<pods, members, assigned, posts, posted>>,
             relayed \subseteq relayed', relayed' \subseteq PostKey,
             request.op \in {"free", "unseen", "relay", "post"},
             request.op # "free" =>
               request.key \in PostKey /\ [pod |-> request.key.pod, student |-> request.key.student] \in members,
             request.op = "post" /\ request.answer => request.key \in relayed'
      PROVE  PodsInv'
  <2>1. podSeat'[d] = request
    BY <1>1, SeatFacts DEF PodsInv
  <2>2. SeatOK(d)'
    BY <1>1, <2>1 DEF SeatOK
  <2>3. RowsOK' /\ PostsOK'
    BY <1>1, <2>2, RowsKept
  <2> QED
    BY <1>1, <2>3, NobodyNearer
<1>2. relayed \subseteq PostKey
  BY DEF PodsInv, RowsOK
<1>3. ASSUME NEW s \in Peer, NEW p \in DOMAIN pods, NEW w \in Week, SubmitPost(d, s, p, w) PROVE PodsInv'
  <2> DEFINE key == PostOf(s, p, w)
  <2>1. AtSeat(d, [op |-> "unseen", key |-> key])
        /\ UNCHANGED <<pods, members, assigned, posts, posted, relayed>>
    BY <1>3 DEF SubmitPost
  <2>2. key \in PostKey /\ [pod |-> key.pod, student |-> key.student] \in members
    <3>1. p \in Nat
      BY DEF PodsInv, RowsOK
    <3>2. PICK n \in members : n.student = s /\ n.pod = p
      BY <1>3 DEF SubmitPost, PodsOf
    <3>3. n = [pod |-> p, student |-> s]
      BY <3>2 DEF PodsInv, RowsOK
    <3> QED
      BY <3>1, <3>2, <3>3 DEF PostOf, PostKey
  <2> HIDE DEF key
  <2> QED
    BY <1>1, <1>2, <2>1, <2>2
<1> DEFINE r == podSeat[d]
<1>4. r.op \in {"unseen", "relay", "post"} =>
        r.key \in PostKey /\ [pod |-> r.key.pod, student |-> r.key.student] \in members
  BY DEF PodsInv, RowsOK, SeatOK
<1>5. Vacant.op = "free"
  BY DEF Vacant
<1>6. CASE CheckDuplicate(d)
  <2>1. UNCHANGED <<pods, members, assigned, posts, posted, relayed>> /\ r.op = "unseen"
        /\ (AtSeat(d, Vacant) \/ AtSeat(d, [op |-> "relay", key |-> r.key]))
    BY <1>6 DEF CheckDuplicate
  <2>2. CASE AtSeat(d, Vacant)
    BY <1>1, <1>2, <1>5, <2>1, <2>2
  <2>3. CASE AtSeat(d, [op |-> "relay", key |-> r.key])
    BY <1>1, <1>2, <1>4, <2>1, <2>3
  <2> QED
    BY <2>1, <2>2, <2>3
<1>7. CASE RelayPost(d)
  <2>1. PICK answer \in BOOLEAN :
          /\ AtSeat(d, [op |-> "post", key |-> r.key, answer |-> answer])
          /\ relayed' = relayed \cup {r.key} \/ (~answer /\ relayed' = relayed)
          /\ r.op = "relay" /\ UNCHANGED <<pods, members, assigned, posts, posted>>
    BY <1>7 DEF RelayPost
  <2> QED
    BY <1>1, <1>2, <1>4, <2>1
<1>8. CASE PodRequestDies(d)
  <2>1. UNCHANGED <<pods, members, assigned, posts, posted, relayed>> /\ AtSeat(d, Vacant)
    BY <1>8 DEF PodRequestDies
  <2> QED
    BY <1>1, <1>2, <1>5, <2>1
<1> QED
  BY <1>3, <1>6, <1>7, <1>8

(* The unique key of the posts decides which one of a week is stored.      *)
LEMMA StorePostStep ==
  ASSUME PodsInv, NEW d \in PodSeat, StorePost(d)
  PROVE  PodsInv'
<1> DEFINE r == podSeat[d]
           x == [key |-> r.key, answer |-> r.answer]
<1>1. /\ r.op = "post" /\ AtSeat(d, Vacant) /\ Vacant.op = "free"
      /\ UNCHANGED <<pods, members, assigned, relayed>>
  BY DEF StorePost, Vacant
<1>2. /\ r.key \in PostKey /\ [pod |-> r.key.pod, student |-> r.key.student] \in members
      /\ r.answer => r.key \in relayed
  BY <1>1 DEF PodsInv, RowsOK, SeatOK
<1>3. podSeat'[d] = Vacant /\ podSeat' = [e \in PodSeat |-> podSeat'[e]]
      /\ \A e \in PodSeat : e # d => podSeat'[e] = podSeat[e]
  BY <1>1, SeatFacts DEF PodsInv
<1>4. RowsOK'
  <2>1. ASSUME NEW e \in PodSeat PROVE SeatOK(e)'
    <3>1. CASE e = d
      BY <1>1, <1>3, <3>1 DEF SeatOK
    <3>2. CASE e # d
      <4>1. SeatOK(e) /\ podSeat'[e] = podSeat[e]
        BY <1>3, <3>2 DEF PodsInv, RowsOK
      <4> QED
        BY <1>1, <4>1 DEF SeatOK
    <3> QED
      BY <3>1, <3>2
  <2> QED
    BY <1>1, <1>3, <2>1 DEF PodsInv, RowsOK
<1>5. PostsOK'
  <2>1. CASE Stored(r.key)
    <3>1. UNCHANGED <<posts, posted>>
      BY <2>1 DEF StorePost
    <3> QED
      BY <1>1, <3>1 DEF PodsInv, PostsOK, Stored
  <2>2. CASE ~Stored(r.key)
    <3>1. posts' = posts \cup {x} /\ posted' = Append(posted, r.key) /\ posted \in Seq(PostKey)
      BY <2>2 DEF StorePost, PodsInv, PostsOK
    <3>2. /\ posted' \in Seq(PostKey) /\ DOMAIN posted = 1 .. Len(posted) /\ Len(posted) \in Nat
          /\ DOMAIN posted' = 1 .. Len(posted) + 1 /\ posted'[Len(posted) + 1] = r.key
          /\ \A i \in 1 .. Len(posted) : posted'[i] = posted[i]
      BY <1>2, <3>1, AppendFacts
    <3>3. /\ DOMAIN posted \subseteq DOMAIN posted' /\ \A i \in DOMAIN posted : posted'[i] = posted[i]
          /\ \A i \in DOMAIN posted' : i \in DOMAIN posted \/ i = Len(posted) + 1
          /\ Len(posted) + 1 \in DOMAIN posted'
      BY <3>2
    <3> DEFINE Fine(y) == /\ y.key \in PostKey /\ [pod |-> y.key.pod, student |-> y.key.student] \in members
                          /\ \E i \in DOMAIN posted' : posted'[i] = y.key
                          /\ y.answer => y.key \in relayed
    <3>4. \A y \in posts' : Fine(y)
      <4>1. ASSUME NEW y \in posts PROVE Fine(y)
        BY <3>3 DEF PodsInv, PostsOK
      <4>2. Fine(x)
        <5>1. x.key = r.key /\ x.answer = r.answer
          OBVIOUS
        <5> HIDE DEF x
        <5>2. x.key \in PostKey /\ [pod |-> x.key.pod, student |-> x.key.student] \in members
          BY <1>2, <5>1
        <5> QED
          BY <1>2, <3>2, <3>3, <5>1, <5>2
      <4> HIDE DEF Fine
      <4>3. ASSUME NEW y \in posts' PROVE Fine(y)
        <5>1. CASE y \in posts
          BY <4>1, <5>1
        <5>2. CASE y = x
          BY <4>2, <5>2
        <5> QED
          BY <3>1, <5>1, <5>2
      <4> QED
        BY <4>3
    <3>5. \A y, z \in posts' : y.key = z.key => y = z
      BY <2>2, <3>1 DEF PodsInv, PostsOK, Stored
    <3>6. \A i \in DOMAIN posted' : \E y \in posts' : y.key = posted'[i]
      <4>1. x \in posts' /\ x.key = r.key
        BY <3>1
      <4>2. \A i \in DOMAIN posted : \E y \in posts : y.key = posted[i]
        BY DEF PodsInv, PostsOK, Stored
      <4> QED
        BY <3>1, <3>2, <3>3, <4>1, <4>2
    <3>7. \A i \in DOMAIN posted : posted[i] # r.key
      BY <2>2 DEF PodsInv, PostsOK, Stored
    <3>8. \A i, j \in DOMAIN posted' : posted'[i] = posted'[j] => i = j
      BY <3>2, <3>3, <3>7 DEF PodsInv, PostsOK
    <3> QED
      BY <1>1, <3>2, <3>4, <3>5, <3>6, <3>8 DEF PostsOK, Stored
  <2> QED
    BY <2>1, <2>2
<1> QED
  BY <1>1, <1>4, <1>5, NobodyNearer

-----------------------------------------------------------------------------
(* Both bounds with those on the way counted in, in every reachable state. *)
THEOREM PodsInvariant == PodsSpec => []PodsInv
<1>1. ASSUME PodsInv, UNCHANGED podsVars PROVE PodsInv'
  BY <1>1 DEF PodsInv, podsVars, RowsOK, SeatOK, PostsOK, Stored, Crowd, Claim, MembersOf, Joining, PodsOf, Asking
<1>2. ASSUME PodsInv, PodsNext PROVE PodsInv'
  BY <1>2, AskStep, FindStep, CountStep, CreateStep, JoinStep, PostStep, StorePostStep DEF PodsNext
<1> QED
  BY InitPods, <1>1, <1>2, PTL DEF PodsSpec

(* PodsTypeOK, of the rows of community/pods.py: memberships, announcements *)
(* and relayed posts name pods and students that exist.                    *)
THEOREM PodsTypeCorrect == PodsSpec => []PodsTypeOK
<1>1. PodsInv => PodsTypeOK
  BY DEF PodsInv, RowsOK, PodsTypeOK, Pod, PostKey
<1> QED
  BY <1>1, PodsInvariant, PTL

(* A pod has at most one member more, and a student at most one pod more,   *)
(* for every request that overlaps; posts and their events are one to one.  *)
THEOREM PodsAreBounded == PodsSpec => []PodsBounded
<1>1. ASSUME PodsInv PROVE PodsBounded
  <2> USE <1>1
  <2> DEFINE overlap == Cardinality(PodSeat) - 1
  <2>1. ASSUME NEW p \in DOMAIN pods PROVE Cardinality(MembersOf(p)) <= Capacity + overlap
    <3>1. Crowd(p) /\ Cardinality(MembersOf(p)) \in Nat /\ Cardinality(Joining(p)) \in Nat
          /\ Cardinality(PodSeat) \in Nat
      BY Counts DEF PodsInv
    <3> QED
      BY <3>1, PodsAssumption DEF Crowd
  <2>2. ASSUME NEW s \in Peer PROVE Cardinality(PodsOf(s)) <= 1 + overlap
    <3>1. Claim(s) /\ Cardinality(PodsOf(s)) \in Nat /\ Cardinality(Asking(s)) \in Nat
          /\ Cardinality(PodSeat) \in Nat
      BY Counts DEF PodsInv
    <3> QED
      BY <3>1 DEF Claim
  <2>3. ASSUME NEW x \in posts
        PROVE  /\ \E s \in Peer : x.key.student \in Peers(s)
               /\ Cardinality({i \in DOMAIN posted : posted[i] = x.key}) = 1
               /\ x.answer => x.key \in relayed
    <3> DEFINE s == x.key.student
               m == [pod |-> x.key.pod, student |-> s]
    <3>1. m \in members /\ s \in Peer /\ (x.answer => x.key \in relayed)
      BY DEF PodsInv, PostsOK, PostKey
    <3>2. PodsOf(s) # {}
      BY <3>1 DEF PodsOf
    <3>3. (CHOOSE p \in PodsOf(s) : TRUE) \in PodsOf(s)
      BY <3>2
    <3>4. s \in Peers(s)
      BY <3>2, <3>3 DEF Peers, MembersOf, PodsOf
    <3>5. PICK i \in DOMAIN posted : posted[i] = x.key
      BY DEF PodsInv, PostsOK
    <3>6. {j \in DOMAIN posted : posted[j] = x.key} = {i}
      BY <3>5 DEF PodsInv, PostsOK
    <3> QED
      BY <3>1, <3>4, <3>6, FS_Singleton
  <2>4. members \subseteq assigned /\ \A x, y \in posts : x.key = y.key => x = y
    BY DEF PodsInv, RowsOK, PostsOK
  <2> QED
    BY <2>1, <2>2, <2>3, <2>4 DEF PodsBounded
<1> QED
  BY <1>1, PodsInvariant, PTL

-----------------------------------------------------------------------------
(* DIGESTS.  the weekly digests. *)

Issue     == Reader \X CohortWeek
Route     == SUBSET (1 .. RouteLength)
Pledges   == Seq([status : {"pledged", "earned"}, cents : Nat])
Locations == {l \in [unit : 0 .. RouteLength, completed : Route, done : BOOLEAN, idle : BOOLEAN] :
                l.done \/ l.unit \in (1 .. RouteLength) \ l.completed}
Balances  == {b \in [earned : Nat, pledged : Nat] : b.earned <= b.pledged}
Content   == [location : Locations, next : SUBSET (Nat \cup {"alumni"}), rebate : Balances]
Digest    == [state : {"stored", "delivered"}, content : Content]
Mail      == [key : Issue, content : Content, how : {"sent", "simulated", "unconfirmed"}]
Work ==
  {Resting} \cup [op : {"units"}, key : Issue]
  \cup [op : {"activity"}, key : Issue, open : Route, passed : Route]
  \cup [op : {"rebates"}, key : Issue, location : Locations]
  \cup [op : {"store", "mail", "mark"}, key : Issue, content : Content]
Sending(r) == dispatch[r].op \in {"mail", "mark"}
Mailed(k)  == \E i \in DOMAIN mails : mails[i].key = k
Confirmed(k) == \E i \in DOMAIN mails : mails[i].key = k /\ mails[i].how # "unconfirmed"
Single(log) == \A i, j \in DOMAIN log : log[i] = log[j] => i = j
Listed(log, k) == \E i \in DOMAIN log : log[i] = k

DigestTypes ==
  /\ passedUnits \in [Reader -> Route] /\ openUnits \in [Reader -> Route]
  /\ rebateCents \in [Reader -> Pledges]
  /\ digests \in [Issue -> Digest \cup {NoDigest}]
  /\ generated \in Seq(Issue) /\ marked \in Seq(Issue) /\ mails \in Seq(Mail)
  /\ dispatch \in [Dispatch -> Work]

(* At most one run sends a digest, and only before it is mailed; what it    *)
(* sends is what is stored.                                                *)
SendingInv ==
  /\ \A r \in Dispatch : Sending(r) =>
       /\ digests[dispatch[r].key] # NoDigest
       /\ digests[dispatch[r].key].content = dispatch[r].content
       /\ dispatch[r].op = "mail" <=> ~Mailed(dispatch[r].key)
       /\ dispatch[r].op = "mark" => Confirmed(dispatch[r].key)
  /\ \A r, q \in Dispatch : Sending(r) /\ Sending(q) /\ dispatch[r].key = dispatch[q].key => r = q

(* The logs have each digest once, as its state says.                      *)
LogInv ==
  /\ Single(generated) /\ Single(marked)
  /\ \A i, j \in DOMAIN mails : mails[i].key = mails[j].key => i = j
  /\ \A k \in Issue : /\ Listed(generated, k) <=> digests[k] # NoDigest
                      /\ Listed(marked, k) <=> digests[k].state = "delivered"
                      /\ digests[k].state = "delivered" => Confirmed(k)
  /\ \A i \in DOMAIN mails : /\ digests[mails[i].key] # NoDigest
                             /\ mails[i].content = digests[mails[i].key].content

DigestInv == DigestTypes /\ SendingInv /\ LogInv

-----------------------------------------------------------------------------
(* A student who is not done is sent to a unit that is not passed.         *)
LEMMA LocationType ==
  ASSUME NEW open \in Route, NEW passed \in Route, NEW idle \in BOOLEAN
  PROVE  CurrentLocation(open, passed, idle) \in Locations
<1> DEFINE todo  == (1 .. RouteLength) \ passed
           first == IF todo \cap open # {} THEN todo \cap open ELSE todo
           unit  == ActiveUnit(open, passed)
           done  == RouteCompleted(open, passed)
<1>1. RouteLength \in Nat \ {0}
  BY DigestsAssumption
<1>2. unit = IF first = {} THEN 0 ELSE CHOOSE u \in first : \A v \in first : u <= v
  BY DEF ActiveUnit
<1>3. first \subseteq todo /\ todo \subseteq 1 .. RouteLength /\ (todo = {} <=> first = {})
  OBVIOUS
<1>4. done \in BOOLEAN
  BY DEF RouteCompleted
<1>5. todo = {} => done
  <2>1. todo = {} => Capstone \in passed
    BY <1>1 DEF Capstone
  <2> QED
    BY <2>1 DEF RouteCompleted
<1> HIDE DEF todo, first, unit, done
<1>6. first # {} => unit \in todo
  <2> SUFFICES ASSUME first # {} PROVE unit \in todo
    OBVIOUS
  <2>1. first \subseteq Nat
    BY <1>1, <1>3
  <2>2. \E u \in first : \A v \in first : u <= v
    BY <2>1, LeastNatural
  <2>3. unit \in first
    BY <1>2, <2>2
  <2> QED
    BY <1>3, <2>3
<1>7. unit \in 0 .. RouteLength
  <2>1. CASE first = {}
    BY <1>1, <1>2, <2>1
  <2>2. CASE first # {}
    <3>1. unit \in 1 .. RouteLength
      BY <1>3, <1>6, <2>2
    <3> QED
      BY <1>1, <3>1
  <2> QED
    BY <2>1, <2>2
<1> DEFINE there == IF done /\ unit \in {0, Capstone} THEN Capstone ELSE unit
<1>8. there \in 0 .. RouteLength /\ (~done => there \in todo)
  BY <1>1, <1>3, <1>5, <1>6, <1>7 DEF Capstone
<1>9. CurrentLocation(open, passed, idle) =
        [unit |-> there, completed |-> passed, done |-> done, idle |-> idle]
  BY DEF CurrentLocation, unit, done
<1> HIDE DEF there
<1> DEFINE l == [unit |-> there, completed |-> passed, done |-> done, idle |-> idle]
<1>10. l \in [unit : 0 .. RouteLength, completed : Route, done : BOOLEAN, idle : BOOLEAN]
  BY <1>4, <1>8
<1>11. l.done = done /\ l.unit = there /\ l.completed = passed
  OBVIOUS
<1> HIDE DEF l
<1>12. l.done \/ l.unit \in (1 .. RouteLength) \ l.completed
  BY <1>8, <1>11 DEF todo
<1> QED
  BY <1>9, <1>10, <1>12 DEF Locations, l

(* Nobody has earned more than was pledged.                                *)
LEMMA BalanceType ==
  ASSUME NEW rebates \in Pledges
  PROVE  RebateStatus(rebates) \in Balances
<1> DEFINE f == [i \in DOMAIN rebates |-> rebates[i].cents]
           R == {i \in DOMAIN rebates : rebates[i].status \in {"earned", "paid"}}
           D == DOMAIN rebates
<1>1. IsFiniteSet(D) /\ R \subseteq D
  <2> DEFINE T == [status : {"pledged", "earned"}, cents : Nat]
  <2> HIDE DEF T
  <2>1. rebates \in Seq(T)
    BY DEF Pledges, T
  <2>2. D = 1 .. Len(rebates) /\ Len(rebates) \in Nat
    BY <2>1
  <2>3. R \subseteq D
    OBVIOUS
  <2> HIDE DEF D, R
  <2>4. IsFiniteSet(D)
    BY <2>2, FS_Interval
  <2> QED
    BY <2>3, <2>4
<1>2. ASSUME NEW i \in D PROVE f[i] \in Nat
  <2>1. rebates[i] \in [status : {"pledged", "earned"}, cents : Nat]
    <3>1. rebates \in Seq([status : {"pledged", "earned"}, cents : Nat])
      BY DEF Pledges
    <3>2. DOMAIN rebates = 1 .. Len(rebates)
      BY <3>1
    <3> DEFINE T == [status : {"pledged", "earned"}, cents : Nat]
    <3> HIDE DEF T
    <3>3. rebates \in Seq(T) /\ i \in DOMAIN rebates
      BY <3>1 DEF T
    <3>4. rebates[i] \in T
      BY <3>3
    <3> QED
      BY <3>4 DEF T
  <2> QED
    BY <2>1
<1>3. RebateStatus(rebates) =
        [earned |-> SumFunctionOnSet(f, R),
         pledged |-> IF rebates = <<>> THEN 60000 ELSE SumFunctionOnSet(f, D)]
  BY DEF RebateStatus
<1>4. rebates = <<>> => R = {}
  BY <1>1
<1> HIDE DEF f, R, D
<1>5. SumFunctionOnSet(f, R) \in Nat /\ SumFunctionOnSet(f, D) \in Nat
  <2>1. IsFiniteSet(R) /\ \A i \in R : f[i] \in Nat
    BY <1>1, <1>2, FS_Subset
  <2> QED
    BY <1>1, <1>2, <2>1, SumType
<1>6. SumFunctionOnSet(f, R) <= SumFunctionOnSet(f, D)
  <2>1. (\A i \in D : f[i] \in Nat /\ f[i] \in Nat) /\ (\A i \in R : f[i] <= f[i])
    BY <1>1, <1>2
  <2> QED
    BY <1>1, <2>1, SumMonotone
<1>7. CASE rebates = <<>>
  <2>1. SumFunctionOnSet(f, R) = 0
    BY <1>4, <1>7, SumOfNone
  <2> QED
    BY <1>3, <1>7, <2>1 DEF Balances
<1>8. CASE rebates # <<>>
  BY <1>3, <1>5, <1>6, <1>8 DEF Balances
<1> QED
  BY <1>7, <1>8

(* What a student may unlock next is a set of units, or the alumni page.   *)
LEMMA UnlocksType ==
  ASSUME NEW l \in Locations PROVE NextUnlocks(l) \in SUBSET (Nat \cup {"alumni"})
<1>1. l.unit \in Nat
  BY DigestsAssumption DEF Locations
<1>2. {u \in l.unit + 1 .. l.unit + 3 : u <= RouteLength} \subseteq Nat
  BY <1>1
<1> QED
  BY <1>2 DEF NextUnlocks

(* What a thread at work holds, by the step it is at.                      *)
LEMMA WorkFacts ==
  ASSUME NEW w \in Work
  PROVE  /\ w.op \in {"rest", "units", "activity", "rebates", "store", "mail", "mark"}
         /\ w.op = "units" => w \in [op : {"units"}, key : Issue]
         /\ w.op = "activity" => w \in [op : {"activity"}, key : Issue, open : Route, passed : Route]
         /\ w.op = "rebates" => w \in [op : {"rebates"}, key : Issue, location : Locations]
         /\ w.op \in {"store", "mail", "mark"} =>
              w \in [op : {"store", "mail", "mark"}, key : Issue, content : Content]
<1>1. CASE w = Resting
  BY <1>1 DEF Resting
<1>2. CASE w \in [op : {"units"}, key : Issue]
  BY <1>2
<1>3. CASE w \in [op : {"activity"}, key : Issue, open : Route, passed : Route]
  BY <1>3
<1>4. CASE w \in [op : {"rebates"}, key : Issue, location : Locations]
  BY <1>4
<1>5. CASE w \in [op : {"store", "mail", "mark"}, key : Issue, content : Content]
  BY <1>5
<1> QED
  BY <1>1, <1>2, <1>3, <1>4, <1>5 DEF Work

(* A stored digest has a state and a content.                              *)
LEMMA DigestRow ==
  ASSUME NEW d \in Digest
  PROVE  d # NoDigest /\ d.state \in {"stored", "delivered"} /\ d.content \in Content
<1>1. d.state \in {"stored", "delivered"} /\ d.content \in Content
  BY DEF Digest
<1>2. NoDigest.state = "none"
  BY DEF NoDigest
<1> QED
  BY <1>1, <1>2

(* A log that has each entry once, and one more.                           *)
LEMMA LoggedOnce ==
  ASSUME NEW S, NEW log \in Seq(S), NEW k \in S, Single(log), ~Listed(log, k)
  PROVE  /\ Single(Append(log, k))
         /\ \A x : Listed(Append(log, k), x) <=> (Listed(log, x) \/ x = k)
<1>1. /\ DOMAIN log = 1 .. Len(log) /\ Len(log) \in Nat
      /\ DOMAIN Append(log, k) = 1 .. Len(log) + 1
      /\ \A i \in 1 .. Len(log) : Append(log, k)[i] = log[i]
      /\ Append(log, k)[Len(log) + 1] = k
  BY AppendFacts
<1> DEFINE longer == Append(log, k)
<1> HIDE DEF longer
<1>2. Single(longer)
  BY <1>1 DEF Single, Listed, longer
<1>3. ASSUME NEW x PROVE Listed(longer, x) <=> (Listed(log, x) \/ x = k)
  BY <1>1 DEF Listed, longer
<1> QED
  BY <1>2, <1>3 DEF longer

-----------------------------------------------------------------------------
(* Progress, pledges and practice leave the digests alone.                 *)
LEMMA ProgressStep ==
  ASSUME DigestInv, NEW s \in Reader,
         Rebate(s) \/ Practise(s) \/ \E u \in 1 .. RouteLength : OpenUnit(s, u) \/ PassUnit(s, u)
  PROVE  DigestInv'
<1>1. UNCHANGED <<digests, generated, mails, marked, dispatch>>
  BY DEF Rebate, Practise, OpenUnit, PassUnit
<1>2. DigestTypes'
  <2> USE DEF DigestInv, DigestTypes
  <2>1. CASE Practise(s)
    BY <1>1, <2>1 DEF Practise
  <2>2. ASSUME NEW u \in 1 .. RouteLength, OpenUnit(s, u) PROVE DigestTypes'
    <3>1. openUnits[s] \cup {u} \in Route
      BY DEF Route
    <3> QED
      BY <1>1, <2>2, <3>1 DEF OpenUnit
  <2>3. ASSUME NEW u \in 1 .. RouteLength, PassUnit(s, u) PROVE DigestTypes'
    <3>1. passedUnits[s] \cup {u} \in Route
      BY DEF Route
    <3> QED
      BY <1>1, <2>3, <3>1 DEF PassUnit
  <2>4. CASE Rebate(s)
    <3> DEFINE T == [status : {"pledged", "earned"}, cents : Nat]
    <3>1. CASE rebateCents' = [rebateCents EXCEPT ![s] = <<[status |-> "pledged", cents |-> 30000]>>]
      <4>1. [status |-> "pledged", cents |-> 30000] \in T
        OBVIOUS
      <4> HIDE DEF T
      <4>2. <<[status |-> "pledged", cents |-> 30000]>> \in Seq(T)
        BY <4>1
      <4>3. <<[status |-> "pledged", cents |-> 30000]>> \in Pledges
        BY <4>2 DEF Pledges, T
      <4> QED
        BY <1>1, <2>4, <3>1, <4>3 DEF Rebate
    <3>2. CASE rebateCents[s] # <<>> /\ rebateCents' = [rebateCents EXCEPT ![s][1].status = "earned"]
      <4> DEFINE p == rebateCents[s]
      <4>1. p \in Seq(T) /\ p # <<>>
        BY <3>2 DEF Pledges
      <4> HIDE DEF p, T
      <4>2. 1 \in DOMAIN p /\ p[1] \in T
        BY <4>1
      <4>3. [p[1] EXCEPT !.status = "earned"] \in T
        BY <4>2 DEF T
      <4>4. [p EXCEPT ![1] = [p[1] EXCEPT !.status = "earned"]] \in Seq(T)
        BY <4>1, <4>2, <4>3
      <4>5. rebateCents' = [rebateCents EXCEPT ![s] = [p EXCEPT ![1] = [p[1] EXCEPT !.status = "earned"]]]
        BY <3>2 DEF p
      <4>6. [p EXCEPT ![1] = [p[1] EXCEPT !.status = "earned"]] \in Pledges
        BY <4>4 DEF Pledges, T
      <4> QED
        BY <1>1, <2>4, <4>5, <4>6 DEF Rebate
    <3> QED
      BY <2>4, <3>1, <3>2 DEF Rebate
  <2> QED
    BY <2>1, <2>2, <2>3, <2>4
<1>3. SendingInv'
  BY <1>1 DEF DigestInv, SendingInv, Sending, Mailed, Confirmed
<1>4. LogInv'
  BY <1>1 DEF DigestInv, LogInv, Mailed, Confirmed, Single, Listed
<1> QED
  BY <1>2, <1>3, <1>4 DEF DigestInv

(* A run turns to work that sends nothing.                                 *)
LEMMA QuietStep ==
  ASSUME DigestInv, NEW r \in Dispatch, NEW w \in Work, w.op \notin {"mail", "mark"},
         At(r, w), UNCHANGED <<standing, digests, generated, mails, marked>>
  PROVE  DigestInv'
<1>1. dispatch' = [dispatch EXCEPT ![r] = w] /\ dispatch \in [Dispatch -> Work]
      /\ UNCHANGED <<passedUnits, openUnits, rebateCents, digests, generated, mails, marked>>
  BY DEF DigestInv, DigestTypes, At, standing
<1>2. \A q \in Dispatch : dispatch'[q] = IF q = r THEN w ELSE dispatch[q]
  BY <1>1
<1>3. DigestTypes'
  BY <1>1 DEF DigestInv, DigestTypes
<1>4. ASSUME NEW q \in Dispatch, Sending(q)' PROVE Sending(q) /\ dispatch'[q] = dispatch[q]
  BY <1>2, <1>4 DEF Sending
<1>5. SendingInv'
  <2>1. ASSUME NEW q \in Dispatch, Sending(q)'
        PROVE  /\ digests'[dispatch'[q].key] # NoDigest
               /\ digests'[dispatch'[q].key].content = dispatch'[q].content
               /\ dispatch'[q].op = "mail" <=> ~Mailed(dispatch[q].key)'
               /\ dispatch'[q].op = "mark" => Confirmed(dispatch[q].key)'
    <3>1. Sending(q) /\ dispatch'[q] = dispatch[q]
      BY <1>4, <2>1
    <3> QED
      BY <1>1, <3>1 DEF DigestInv, SendingInv, Mailed, Confirmed
  <2>2. ASSUME NEW q \in Dispatch, NEW p \in Dispatch, Sending(q)', Sending(p)',
               dispatch'[q].key = dispatch'[p].key
        PROVE  q = p
    BY <1>4, <2>2 DEF DigestInv, SendingInv
  <2> QED
    BY <2>1, <2>2 DEF SendingInv
<1>6. LogInv'
  BY <1>1 DEF DigestInv, LogInv, Mailed, Confirmed, Single, Listed
<1> QED
  BY <1>3, <1>5, <1>6 DEF DigestInv

(* Reading for a digest, and giving one up.                                *)
LEMMA PrepareStep ==
  ASSUME DigestInv, NEW r \in Dispatch,
         \/ \E k \in Reader \X CohortWeek : CheckDigest(r, k)
         \/ ReadUnits(r) \/ ReadActivity(r) \/ ReadRebates(r) \/ RunDies(r)
  PROVE  DigestInv'
<1>1. /\ dispatch[r] \in Work /\ passedUnits \in [Reader -> Route] /\ openUnits \in [Reader -> Route]
      /\ rebateCents \in [Reader -> Pledges]
  BY DEF DigestInv, DigestTypes
<1>2. ASSUME NEW k \in Reader \X CohortWeek, CheckDigest(r, k) PROVE DigestInv'
  <2> DEFINE w == [op |-> "units", key |-> k]
  <2>1. w \in Work /\ w.op = "units" /\ At(r, w) /\ UNCHANGED <<standing, digests, generated, mails, marked>>
    BY <1>2 DEF CheckDigest, Work, Issue
  <2> HIDE DEF w
  <2> QED
    BY <2>1, QuietStep
<1>3. CASE ReadUnits(r)
  <2> DEFINE s == dispatch[r].key[1]
             w == [op |-> "activity", key |-> dispatch[r].key, open |-> openUnits[s], passed |-> passedUnits[s]]
  <2>1. dispatch[r].key \in Issue
    BY <1>1, <1>3, WorkFacts DEF ReadUnits
  <2>2. openUnits[s] \in Route /\ passedUnits[s] \in Route
    BY <1>1, <2>1 DEF Issue
  <2>3. w \in Work /\ w.op = "activity" /\ At(r, w) /\ UNCHANGED <<standing, digests, generated, mails, marked>>
    BY <1>3, <2>1, <2>2 DEF ReadUnits, Work
  <2> HIDE DEF w
  <2> QED
    BY <2>3, QuietStep
<1>4. CASE ReadActivity(r)
  <2> DEFINE v == dispatch[r]
             l == CurrentLocation(v.open, v.passed, v.key[1] \notin active)
             w == [op |-> "rebates", key |-> v.key, location |-> l]
  <2>1. v.key \in Issue /\ v.open \in Route /\ v.passed \in Route
    BY <1>1, <1>4, WorkFacts DEF ReadActivity
  <2>2. l \in Locations
    <3>1. (v.key[1] \notin active) \in BOOLEAN
      OBVIOUS
    <3> HIDE DEF v
    <3> QED
      BY <2>1, <3>1, LocationType, Zenon
  <2>3. At(r, w) /\ UNCHANGED <<standing, digests, generated, mails, marked>>
    BY <1>4 DEF ReadActivity
  <2> HIDE DEF l, v
  <2>4. w \in Work /\ w.op = "rebates"
    BY <2>1, <2>2 DEF Work
  <2> HIDE DEF w
  <2> QED
    BY <2>3, <2>4, QuietStep
<1>5. CASE ReadRebates(r)
  <2> DEFINE v == dispatch[r]
             c == [location |-> v.location, next |-> NextUnlocks(v.location),
                   rebate |-> RebateStatus(rebateCents[v.key[1]])]
             w == [op |-> "store", key |-> v.key, content |-> c]
  <2>1. v.key \in Issue /\ v.location \in Locations
    BY <1>1, <1>5, WorkFacts DEF ReadRebates
  <2>2. rebateCents[v.key[1]] \in Pledges
    BY <1>1, <2>1 DEF Issue
  <2>3. c \in Content
    BY <2>1, <2>2, BalanceType, UnlocksType DEF Content
  <2>4. At(r, w) /\ UNCHANGED <<standing, digests, generated, mails, marked>>
    BY <1>5 DEF ReadRebates
  <2> HIDE DEF c, v
  <2>5. w \in Work /\ w.op = "store"
    BY <2>1, <2>3 DEF Work
  <2> HIDE DEF w
  <2> QED
    BY <2>4, <2>5, QuietStep
<1>6. CASE RunDies(r)
  <2>1. Resting \in Work /\ Resting.op = "rest"
    BY DEF Work, Resting
  <2> QED
    BY <1>6, <2>1, QuietStep DEF RunDies
<1> QED
  BY <1>2, <1>3, <1>4, <1>5, <1>6

(* What is stored is what the run has, and no other run sends it.          *)
LEMMA StoreStep ==
  ASSUME DigestInv, NEW r \in Dispatch, StoreDigest(r)
  PROVE  DigestInv'
<1> DEFINE w == dispatch[r]
           k == w.key
           row == [state |-> "stored", content |-> w.content]
           turned == [w EXCEPT !.op = "mail"]
<1>1. w \in Work /\ w.op = "store"
  BY DEF DigestInv, DigestTypes, StoreDigest
<1>2. w \in [op : {"store", "mail", "mark"}, key : Issue, content : Content]
  BY <1>1, WorkFacts
<1>3. k \in Issue /\ w.content \in Content
  BY <1>2
<1>4. CASE digests[k] # NoDigest
  <2>1. At(r, Resting) /\ UNCHANGED <<standing, digests, generated, mails, marked>>
    BY <1>4 DEF StoreDigest
  <2>2. Resting \in Work /\ Resting.op = "rest"
    BY DEF Work, Resting
  <2> QED
    BY <2>1, <2>2, QuietStep
<1>5. CASE digests[k] = NoDigest
  <2>1. /\ digests' = [digests EXCEPT ![k] = row]
        /\ generated' = Append(generated, k)
        /\ dispatch' = [dispatch EXCEPT ![r] = turned]
        /\ UNCHANGED <<passedUnits, openUnits, rebateCents, mails, marked>>
    BY <1>5 DEF StoreDigest, At, standing
  <2>2. /\ turned \in [op : {"store", "mail", "mark"}, key : Issue, content : Content]
        /\ turned.op = "mail" /\ turned.key = k /\ turned.content = w.content
    BY <1>2
  <2>3. row \in Digest /\ row # NoDigest /\ row.content = w.content /\ row.state = "stored"
    BY <1>3 DEF Digest, NoDigest
  <2>4. /\ digests \in [Issue -> Digest \cup {NoDigest}] /\ dispatch \in [Dispatch -> Work]
        /\ generated \in Seq(Issue) /\ mails \in Seq(Mail)
    BY DEF DigestInv, DigestTypes
  <2> HIDE DEF row, turned, w, k
  <2>5. \A x \in Issue : digests'[x] = IF x = k THEN row ELSE digests[x]
    BY <2>1, <2>4
  <2>6. \A q \in Dispatch : dispatch'[q] = IF q = r THEN turned ELSE dispatch[q]
    BY <2>1, <2>4
  <2>7. turned \in Work
    BY <2>2 DEF Work
  <2>8. DigestTypes'
    BY <1>3, <2>1, <2>3, <2>4, <2>7 DEF DigestInv, DigestTypes
  <2>9. ~Mailed(k)
    BY <1>5 DEF DigestInv, LogInv, Mailed, Confirmed
  <2>10. ASSUME NEW q \in Dispatch, Sending(q)
         PROVE  dispatch[q].key \in Issue /\ dispatch[q].key # k
    <3>1. dispatch[q] \in Work
      BY <2>4
    <3>2. dispatch[q] \in [op : {"store", "mail", "mark"}, key : Issue, content : Content]
      BY <2>10, <3>1, WorkFacts DEF Sending
    <3>3. digests[dispatch[q].key] # NoDigest
      BY <2>10 DEF DigestInv, SendingInv
    <3> QED
      BY <1>5, <3>2, <3>3
  <2>11. ASSUME NEW q \in Dispatch, Sending(q)', q # r
         PROVE  Sending(q) /\ dispatch'[q] = dispatch[q]
    BY <2>6, <2>11 DEF Sending
  <2>12. SendingInv'
    <3>1. ASSUME NEW q \in Dispatch, Sending(q)'
          PROVE  /\ digests'[dispatch'[q].key] # NoDigest
                 /\ digests'[dispatch'[q].key].content = dispatch'[q].content
                 /\ dispatch'[q].op = "mail" <=> ~Mailed(dispatch[q].key)'
                 /\ dispatch'[q].op = "mark" => Confirmed(dispatch[q].key)'
      <4>1. CASE q = r
        BY <1>3, <2>1, <2>2, <2>3, <2>5, <2>6, <2>9, <4>1 DEF Mailed, Confirmed
      <4>2. CASE q # r
        <5>1. Sending(q) /\ dispatch'[q] = dispatch[q]
          BY <2>11, <3>1, <4>2
        <5>2. dispatch[q].key \in Issue /\ dispatch[q].key # k
          BY <2>10, <5>1
        <5>3. digests'[dispatch'[q].key] = digests[dispatch[q].key]
          BY <2>5, <5>1, <5>2
        <5> QED
          BY <2>1, <5>1, <5>3 DEF DigestInv, SendingInv, Mailed, Confirmed
      <4> QED
        BY <4>1, <4>2
    <3>2. ASSUME NEW q \in Dispatch, NEW p \in Dispatch, Sending(q)', Sending(p)',
                 dispatch'[q].key = dispatch'[p].key
          PROVE  q = p
      <4>1. CASE q = r /\ p # r
        BY <2>2, <2>6, <2>10, <2>11, <3>2, <4>1
      <4>2. CASE q # r /\ p = r
        BY <2>2, <2>6, <2>10, <2>11, <3>2, <4>2
      <4>3. CASE q # r /\ p # r
        BY <2>11, <3>2, <4>3 DEF DigestInv, SendingInv
      <4> QED
        BY <4>1, <4>2, <4>3
    <3> QED
      BY <3>1, <3>2 DEF SendingInv
  <2>13. LogInv'
    <3>1. ~Listed(generated, k)
      BY <1>3, <1>5 DEF DigestInv, LogInv
    <3>2. Single(generated') /\ (\A x \in Issue : Listed(generated', x) <=> (Listed(generated, x) \/ x = k))
      BY <1>3, <2>1, <2>4, <3>1, LoggedOnce DEF DigestInv, LogInv
    <3>3. \A i \in DOMAIN mails : mails[i].key \in Issue /\ mails[i].key # k
      <4>1. ASSUME NEW i \in DOMAIN mails PROVE mails[i] \in Mail
        BY <2>4, <4>1
      <4> QED
        BY <2>9, <4>1 DEF Mailed, Confirmed, Mail
    <3>4. ASSUME NEW x \in Issue
          PROVE  /\ Listed(generated', x) <=> digests'[x] # NoDigest
                 /\ Listed(marked, x) <=> digests'[x].state = "delivered"
                 /\ digests'[x].state = "delivered" => Confirmed(x)
      <4>1. CASE x = k
        <5>1. digests[k].state # "delivered"
          BY <1>5 DEF NoDigest
        <5>2. ~Listed(marked, k)
          BY <1>3, <5>1 DEF DigestInv, LogInv
        <5> QED
          BY <2>3, <2>5, <3>2, <4>1, <5>2
      <4>2. CASE x # k
        BY <2>5, <3>2, <4>2 DEF DigestInv, LogInv
      <4> QED
        BY <4>1, <4>2
    <3>5. Single(marked) /\ (\A i, j \in DOMAIN mails : mails[i].key = mails[j].key => i = j)
      BY DEF DigestInv, LogInv
    <3>6. \A i \in DOMAIN mails : /\ digests'[mails[i].key] # NoDigest
                                  /\ mails[i].content = digests'[mails[i].key].content
      BY <2>5, <3>3 DEF DigestInv, LogInv
    <3> QED
      BY <2>1, <3>2, <3>4, <3>5, <3>6 DEF LogInv, Mailed, Confirmed, Single, Listed
  <2> QED
    BY <2>8, <2>12, <2>13 DEF DigestInv
<1> QED
  BY <1>4, <1>5

(* A mail goes out for a digest that has none yet; whether it does or not,   *)
(* the run will not send it again.                                         *)
LEMMA MailStep ==
  ASSUME DigestInv, NEW r \in Dispatch, MailDigest(r)
  PROVE  DigestInv'
<1> DEFINE w == dispatch[r]
           k == w.key
           mail(how) == [key |-> k, content |-> w.content, how |-> how]
           turned == [w EXCEPT !.op = "mark"]
<1>1. w \in Work /\ w.op = "mail" /\ Sending(r)
  BY DEF DigestInv, DigestTypes, MailDigest, Sending
<1>2. w \in [op : {"store", "mail", "mark"}, key : Issue, content : Content]
  BY <1>1, WorkFacts
<1>3. k \in Issue /\ w.content \in Content /\ (\A how \in {"sent", "simulated", "unconfirmed"} :
           mail(how) \in Mail /\ mail(how).key = k /\ mail(how).content = w.content /\ mail(how).how = how)
  BY <1>2 DEF Mail
<1>4. Resting \in Work /\ Resting.op = "rest"
  BY DEF Work, Resting
<1>5. /\ turned \in [op : {"store", "mail", "mark"}, key : Issue, content : Content]
      /\ turned.op = "mark" /\ turned.key = k /\ turned.content = w.content
  BY <1>2
<1>6. turned \in Work
  BY <1>5 DEF Work
<1>7. UNCHANGED <<standing, digests, generated, marked>>
  BY DEF MailDigest
<1>8. CASE mails' = mails /\ At(r, Resting)
  BY <1>4, <1>7, <1>8, QuietStep
<1>9. ASSUME NEW next \in {Resting, turned}, NEW how \in {"sent", "simulated", "unconfirmed"},
             mails' = Append(mails, mail(how)), At(r, next), next = turned => how # "unconfirmed"
      PROVE  DigestInv'
  <2> DEFINE m == mail(how)
  <2>19. m \in Mail /\ m.key = k /\ m.content = w.content /\ m.how = how /\ mails' = Append(mails, m)
    BY <1>3, <1>9
  <2>1. /\ digests \in [Issue -> Digest \cup {NoDigest}] /\ dispatch \in [Dispatch -> Work]
        /\ mails \in Seq(Mail)
    BY DEF DigestInv, DigestTypes
  <2>2. UNCHANGED <<passedUnits, openUnits, rebateCents, digests, generated, marked>>
    BY <1>7 DEF standing
  <2>20. next = turned => how # "unconfirmed"
    BY <1>9
  <2> HIDE DEF mail, m, turned, w
  <2>3. next \in Work
    BY <1>4, <1>6, <1>9
  <2>4. \A q \in Dispatch : dispatch'[q] = IF q = r THEN next ELSE dispatch[q]
    BY <1>9, <2>1 DEF At
  <2>5. /\ DOMAIN mails = 1 .. Len(mails) /\ Len(mails) \in Nat
        /\ mails' \in Seq(Mail) /\ DOMAIN mails' = 1 .. Len(mails) + 1
        /\ \A i \in 1 .. Len(mails) : mails'[i] = mails[i]
        /\ mails'[Len(mails) + 1] = m
    BY <2>19, <2>1, AppendFacts
  <2>6. DigestTypes'
    BY <1>9, <2>1, <2>2, <2>3, <2>5 DEF DigestInv, DigestTypes, At
  <2>7. ~Mailed(k) /\ digests[k] # NoDigest /\ digests[k].content = w.content
    BY <1>1 DEF DigestInv, SendingInv, w
  <2>8. /\ \A x : Mailed(x)' <=> (Mailed(x) \/ x = k)
        /\ \A x : Confirmed(x) => Confirmed(x)'
        /\ \A x : x = k /\ how # "unconfirmed" => Confirmed(x)'
    BY <2>19, <2>5 DEF Mailed, Confirmed
  <2>9. ASSUME NEW q \in Dispatch, Sending(q)', q # r
        PROVE  Sending(q) /\ dispatch'[q] = dispatch[q] /\ dispatch[q].key # k
    <3>1. Sending(q) /\ dispatch'[q] = dispatch[q]
      BY <2>4, <2>9 DEF Sending
    <3>2. dispatch[q].key # k
      BY <1>1, <2>9, <3>1 DEF DigestInv, SendingInv, w
    <3> QED
      BY <3>1, <3>2
  <2>10. Sending(r)' => next = turned /\ dispatch'[r] = turned
    BY <1>4, <1>9, <2>4 DEF Sending
  <2>11. SendingInv'
    <3>1. ASSUME NEW q \in Dispatch, Sending(q)'
          PROVE  /\ digests'[dispatch'[q].key] # NoDigest
                 /\ digests'[dispatch'[q].key].content = dispatch'[q].content
                 /\ dispatch'[q].op = "mail" <=> ~Mailed(dispatch[q].key)'
                 /\ dispatch'[q].op = "mark" => Confirmed(dispatch[q].key)'
      <4>1. CASE q = r
        <5>1. dispatch'[q] = turned
          BY <2>10, <3>1, <4>1
        <5>2. Mailed(dispatch[q].key)' /\ Confirmed(dispatch[q].key)'
          <6>1. how # "unconfirmed"
            BY <2>20, <2>10, <3>1, <4>1
          <6>2. dispatch'[q].key = k
            BY <1>5, <5>1
          <6> QED
            BY <2>8, <6>1, <6>2
        <5> QED
          BY <1>5, <2>2, <2>7, <5>1, <5>2
      <4>2. CASE q # r
        <5>1. Sending(q) /\ dispatch'[q] = dispatch[q] /\ dispatch[q].key # k
          BY <2>9, <3>1, <4>2
        <5>2. /\ digests[dispatch[q].key] # NoDigest
              /\ digests[dispatch[q].key].content = dispatch[q].content
              /\ dispatch[q].op = "mail" <=> ~Mailed(dispatch[q].key)
              /\ dispatch[q].op = "mark" => Confirmed(dispatch[q].key)
          BY <5>1 DEF DigestInv, SendingInv
        <5>3. /\ Mailed(dispatch[q].key)' <=> Mailed(dispatch[q].key)
              /\ Confirmed(dispatch[q].key) => Confirmed(dispatch[q].key)'
          BY <2>8, <5>1
        <5> QED
          BY <2>2, <5>1, <5>2, <5>3
      <4> QED
        BY <4>1, <4>2
    <3>2. ASSUME NEW q \in Dispatch, NEW p \in Dispatch, Sending(q)', Sending(p)',
                 dispatch'[q].key = dispatch'[p].key
          PROVE  q = p
      <4>1. CASE q = r /\ p # r
        BY <1>5, <2>9, <2>10, <3>2, <4>1
      <4>2. CASE q # r /\ p = r
        BY <1>5, <2>9, <2>10, <3>2, <4>2
      <4>3. CASE q # r /\ p # r
        BY <2>9, <3>2, <4>3 DEF DigestInv, SendingInv
      <4> QED
        BY <4>1, <4>2, <4>3
    <3> QED
      BY <3>1, <3>2 DEF SendingInv
  <2>12. LogInv'
    <3>1. Single(generated) /\ Single(marked)
      BY DEF DigestInv, LogInv
    <3>2. \A i, j \in 1 .. Len(mails) : mails[i].key = mails[j].key => i = j
      BY <2>5 DEF DigestInv, LogInv
    <3>3. \A i \in 1 .. Len(mails) : mails[i].key # k
      BY <2>5, <2>7 DEF Mailed, Confirmed
    <3>4. \A i, j \in DOMAIN mails' : mails'[i].key = mails'[j].key => i = j
      BY <2>19, <2>5, <3>2, <3>3
    <3>5. \A x \in Issue : /\ Listed(generated, x) <=> digests[x] # NoDigest
                           /\ Listed(marked, x) <=> digests[x].state = "delivered"
                           /\ digests[x].state = "delivered" => Confirmed(x)'
      BY <2>8 DEF DigestInv, LogInv
    <3>6. \A i \in DOMAIN mails' : /\ digests[mails'[i].key] # NoDigest
                                   /\ mails'[i].content = digests[mails'[i].key].content
      <4>1. \A i \in 1 .. Len(mails) : /\ digests[mails[i].key] # NoDigest
                                       /\ mails[i].content = digests[mails[i].key].content
        BY <2>5 DEF DigestInv, LogInv
      <4> QED
        BY <2>19, <2>5, <2>7, <4>1
    <3> QED
      BY <2>2, <3>1, <3>4, <3>5, <3>6 DEF LogInv, Single, Listed
  <2> QED
    BY <2>6, <2>11, <2>12 DEF DigestInv
<1>10. ASSUME NEW how \in {"sent", "simulated"}, mails' = Append(mails, mail(how)), At(r, turned)
       PROVE  DigestInv'
  BY <1>9, <1>10
<1>11. CASE mails' = Append(mails, mail("unconfirmed")) /\ At(r, Resting)
  <2>1. Resting # turned
    BY <1>4, <1>5
  <2> HIDE DEF mail, turned
  <2> QED
    BY <1>9, <1>11, <2>1
<1> QED
  BY <1>8, <1>10, <1>11 DEF MailDigest

(* A digest that was mailed is marked, once.                               *)
LEMMA MarkStep ==
  ASSUME DigestInv, NEW r \in Dispatch, MarkDelivered(r)
  PROVE  DigestInv'
<1> DEFINE w == dispatch[r]
           k == w.key
<1>1. w \in Work /\ w.op = "mark" /\ Sending(r)
  BY DEF DigestInv, DigestTypes, MarkDelivered, Sending
<1>2. k \in Issue
  BY <1>1, WorkFacts
<1>3. Resting \in Work /\ Resting.op = "rest"
  BY DEF Work, Resting
<1>4. UNCHANGED <<standing, generated, mails>> /\ At(r, Resting)
  BY DEF MarkDelivered
<1>5. CASE digests[k].state # "stored"
  <2>1. UNCHANGED <<digests, marked>>
    BY <1>5 DEF MarkDelivered
  <2> QED
    BY <1>3, <1>4, <2>1, QuietStep
<1>6. CASE digests[k].state = "stored"
  <2> DEFINE row == [digests[k] EXCEPT !.state = "delivered"]
  <2>1. digests' = [digests EXCEPT ![k].state = "delivered"] /\ marked' = Append(marked, k)
    BY <1>6 DEF MarkDelivered
  <2>2. /\ digests \in [Issue -> Digest \cup {NoDigest}] /\ dispatch \in [Dispatch -> Work]
        /\ marked \in Seq(Issue) /\ mails \in Seq(Mail)
    BY DEF DigestInv, DigestTypes
  <2>3. digests[k] # NoDigest /\ Confirmed(k)
    BY <1>1 DEF DigestInv, SendingInv
  <2>4. digests[k] \in Digest
    BY <1>2, <2>2, <2>3
  <2>5. row \in Digest /\ row.state = "delivered" /\ row.content = digests[k].content
    BY <2>4 DEF Digest
  <2>6. row # NoDigest
    BY <2>5, DigestRow
  <2>7. digests' = [digests EXCEPT ![k] = row]
    BY <2>1
  <2> HIDE DEF row, w, k
  <2>8. \A x \in Issue : digests'[x] = IF x = k THEN row ELSE digests[x]
    BY <2>2, <2>7
  <2>9. \A q \in Dispatch : dispatch'[q] = IF q = r THEN Resting ELSE dispatch[q]
    BY <1>4, <2>2 DEF At
  <2>10. UNCHANGED <<passedUnits, openUnits, rebateCents, generated, mails>>
    BY <1>4 DEF standing
  <2>11. marked' \in Seq(Issue)
    BY <1>2, <2>1, <2>2
  <2>12. DigestTypes'
    BY <1>2, <1>3, <1>4, <2>2, <2>5, <2>7, <2>10, <2>11 DEF DigestInv, DigestTypes, At
  <2>13. \A x \in Issue : digests[x] # NoDigest <=> digests'[x] # NoDigest
    BY <2>3, <2>6, <2>8
  <2>14. \A x \in Issue : digests'[x].content = digests[x].content
    BY <2>5, <2>8
  <2>15. ASSUME NEW q \in Dispatch, Sending(q)'
         PROVE  Sending(q) /\ dispatch'[q] = dispatch[q] /\ dispatch[q].key \in Issue
    <3>1. Sending(q) /\ dispatch'[q] = dispatch[q]
      BY <1>3, <2>9, <2>15 DEF Sending
    <3>2. dispatch[q] \in Work
      BY <2>2
    <3> QED
      BY <3>1, <3>2, WorkFacts DEF Sending
  <2>16. SendingInv'
    <3>1. ASSUME NEW q \in Dispatch, Sending(q)'
          PROVE  /\ digests'[dispatch'[q].key] # NoDigest
                 /\ digests'[dispatch'[q].key].content = dispatch'[q].content
                 /\ dispatch'[q].op = "mail" <=> ~Mailed(dispatch[q].key)'
                 /\ dispatch'[q].op = "mark" => Confirmed(dispatch[q].key)'
      <4>1. Sending(q) /\ dispatch'[q] = dispatch[q] /\ dispatch[q].key \in Issue
        BY <2>15, <3>1
      <4>2. /\ digests[dispatch[q].key] # NoDigest
            /\ digests[dispatch[q].key].content = dispatch[q].content
            /\ dispatch[q].op = "mail" <=> ~Mailed(dispatch[q].key)
            /\ dispatch[q].op = "mark" => Confirmed(dispatch[q].key)
        BY <4>1 DEF DigestInv, SendingInv
      <4> QED
        BY <2>10, <2>13, <2>14, <4>1, <4>2 DEF Mailed, Confirmed
    <3>2. ASSUME NEW q \in Dispatch, NEW p \in Dispatch, Sending(q)', Sending(p)',
                 dispatch'[q].key = dispatch'[p].key
          PROVE  q = p
      BY <2>15, <3>2 DEF DigestInv, SendingInv
    <3> QED
      BY <3>1, <3>2 DEF SendingInv
  <2>17. LogInv'
    <3>1. ~Listed(marked, k)
      BY <1>2, <1>6 DEF DigestInv, LogInv, k, w
    <3>2. Single(marked') /\ (\A x : Listed(marked', x) <=> (Listed(marked, x) \/ x = k))
      BY <1>2, <2>1, <2>2, <3>1, LoggedOnce DEF DigestInv, LogInv
    <3>3. Single(generated) /\ (\A i, j \in DOMAIN mails : mails[i].key = mails[j].key => i = j)
      BY DEF DigestInv, LogInv
    <3>4. ASSUME NEW x \in Issue
          PROVE  /\ Listed(generated, x) <=> digests'[x] # NoDigest
                 /\ Listed(marked', x) <=> digests'[x].state = "delivered"
                 /\ digests'[x].state = "delivered" => Confirmed(x)
      <4>1. CASE x = k
        <5>1. Listed(generated, k)
          BY <1>2, <2>3 DEF DigestInv, LogInv
        <5> QED
          BY <1>2, <2>3, <2>5, <2>6, <2>8, <3>2, <4>1, <5>1
      <4>2. CASE x # k
        BY <2>8, <3>2, <4>2 DEF DigestInv, LogInv
      <4> QED
        BY <4>1, <4>2
    <3>5. ASSUME NEW i \in DOMAIN mails
          PROVE  /\ digests'[mails[i].key] # NoDigest
                 /\ mails[i].content = digests'[mails[i].key].content
      <4>1. mails[i].key \in Issue
        <5>1. mails[i] \in Mail
          BY <2>2
        <5> QED
          BY <5>1 DEF Mail
      <4>2. digests[mails[i].key] # NoDigest /\ mails[i].content = digests[mails[i].key].content
        BY DEF DigestInv, LogInv
      <4> QED
        BY <2>13, <2>14, <4>1, <4>2
    <3> QED
      BY <2>10, <3>2, <3>3, <3>4, <3>5 DEF LogInv, Mailed, Confirmed, Single, Listed
  <2> QED
    BY <2>12, <2>16, <2>17 DEF DigestInv
<1> QED
  BY <1>5, <1>6

-----------------------------------------------------------------------------
(* However the runs overlap and wherever they die, one of them sends a       *)
(* digest, before it is mailed, sends what is stored, and marks it only     *)
(* when deliver_email reported it sent or simulated.                       *)
THEOREM DigestInvariant == DigestsSpec => []DigestInv
<1>1. DigestsInit => DigestInv
  <2> SUFFICES ASSUME DigestsInit PROVE DigestInv
    OBVIOUS
  <2> USE DEF DigestsInit
  <2>1. <<>> \in Pledges
    BY DEF Pledges
  <2>2. Resting \in Work
    BY DEF Work
  <2>3. DigestTypes
    BY <2>1, <2>2 DEF DigestTypes, Issue, Route
  <2>4. SendingInv
    BY DEF SendingInv, Sending, Resting
  <2>5. LogInv
    BY DEF LogInv, Single, Listed, Mailed, Confirmed, Issue, NoDigest
  <2> QED
    BY <2>3, <2>4, <2>5 DEF DigestInv
<1>2. DigestInv /\ [DigestsNext]_digestsVars => DigestInv'
  <2> SUFFICES ASSUME DigestInv, [DigestsNext]_digestsVars PROVE DigestInv'
    OBVIOUS
  <2>1. CASE UNCHANGED digestsVars
    BY <2>1 DEF digestsVars, DigestInv, DigestTypes, SendingInv, LogInv, Sending, Mailed, Confirmed, Single, Listed
  <2>2. ASSUME NEW s \in Reader,
               Rebate(s) \/ Practise(s) \/ \E u \in 1 .. RouteLength : OpenUnit(s, u) \/ PassUnit(s, u)
        PROVE  DigestInv'
    BY <2>2, ProgressStep
  <2>3. ASSUME NEW r \in Dispatch,
               \/ \E k \in Reader \X CohortWeek : CheckDigest(r, k)
               \/ ReadUnits(r) \/ ReadActivity(r) \/ ReadRebates(r) \/ RunDies(r)
        PROVE  DigestInv'
    BY <2>3, PrepareStep
  <2> QED
    BY <2>1, <2>2, <2>3, StoreStep, MailStep, MarkStep DEF DigestsNext
<1> QED
  BY <1>1, <1>2, PTL DEF DigestsSpec

(* How often a log that has each entry once has this one.                  *)
LEMMA OnceInLog ==
  ASSUME NEW log, NEW k, Single(log)
  PROVE  Times(log, k) = IF Listed(log, k) THEN 1 ELSE 0
<1> DEFINE at == {i \in DOMAIN log : log[i] = k}
<1>1. CASE Listed(log, k)
  <2>1. PICK i \in DOMAIN log : log[i] = k
    BY <1>1 DEF Listed
  <2>2. at = {i}
    BY <2>1 DEF Single
  <2> QED
    BY <1>1, <2>2, FS_Singleton DEF Times
<1>2. CASE ~Listed(log, k)
  <2>1. at = {}
    BY <1>2 DEF Listed
  <2> QED
    BY <1>2, <2>1, FS_EmptySet DEF Times
<1> QED
  BY <1>1, <1>2

(* However the runs overlap and wherever they die, deliver_email is handed   *)
(* at most one mail per student and week, with what is stored; a digest is   *)
(* marked only when it reported success; what it says hangs together.       *)
THEOREM DigestGoesOutOnce == DigestsSpec => []DigestOnce
<1>1. DigestInv => DigestOnce
  <2> SUFFICES ASSUME DigestInv, NEW k \in Reader \X CohortWeek
               PROVE  LET d == digests[k]
                          handed == {i \in DOMAIN mails : mails[i].key = k}
                      IN /\ Cardinality(handed) <= 1
                         /\ \A i \in handed : d # NoDigest /\ mails[i].content = d.content
                         /\ Times(generated, k) = (IF d = NoDigest THEN 0 ELSE 1)
                         /\ Times(marked, k) = (IF d.state = "delivered" THEN 1 ELSE 0)
                         /\ d.state = "delivered" => \E i \in handed : mails[i].how # "unconfirmed"
                         /\ d # NoDigest =>
                              /\ d.content.location.done \/ d.content.location.unit \in (1..RouteLength) \ d.content.location.completed
                              /\ d.content.rebate.earned <= d.content.rebate.pledged
    BY Zenon DEF DigestOnce
  <2> DEFINE d == digests[k]
             handed == {i \in DOMAIN mails : mails[i].key = k}
  <2>1. k \in Issue /\ d \in Digest \cup {NoDigest}
    BY DEF DigestInv, DigestTypes, Issue
  <2>2. Cardinality(handed) <= 1
    <3>1. CASE handed = {}
      BY <3>1, FS_EmptySet
    <3>2. CASE handed # {}
      <4>1. PICK i \in handed : TRUE
        BY <3>2
      <4>2. handed = {i}
        BY <4>1 DEF DigestInv, LogInv
      <4>3. Cardinality({i}) = 1
        BY FS_Singleton, Zenon
      <4> HIDE DEF handed
      <4> QED
        BY <4>2, <4>3
    <3> QED
      BY <3>1, <3>2
  <2>3. \A i \in handed : d # NoDigest /\ mails[i].content = d.content
    BY DEF DigestInv, LogInv
  <2>4. Times(generated, k) = (IF d = NoDigest THEN 0 ELSE 1)
    <3>1. Single(generated) /\ (Listed(generated, k) <=> d # NoDigest)
      BY <2>1 DEF DigestInv, LogInv
    <3> HIDE DEF d
    <3> QED
      BY <3>1, OnceInLog
  <2>5. Times(marked, k) = (IF d.state = "delivered" THEN 1 ELSE 0)
    <3>1. Single(marked) /\ (Listed(marked, k) <=> d.state = "delivered")
      BY <2>1 DEF DigestInv, LogInv
    <3> HIDE DEF d
    <3> QED
      BY <3>1, OnceInLog
  <2>6. d.state = "delivered" => \E i \in handed : mails[i].how # "unconfirmed"
    BY <2>1 DEF DigestInv, LogInv, Mailed, Confirmed
  <2>7. ASSUME d # NoDigest
        PROVE  /\ d.content.location.done \/ d.content.location.unit \in (1..RouteLength) \ d.content.location.completed
               /\ d.content.rebate.earned <= d.content.rebate.pledged
    <3>1. d.content \in Content
      BY <2>1, <2>7, DigestRow
    <3>2. d.content.location \in Locations /\ d.content.rebate \in Balances
      BY <3>1 DEF Content
    <3> QED
      BY <3>2 DEF Locations, Balances
  <2> QED
    BY <2>2, <2>3, <2>4, <2>5, <2>6, <2>7
<1> QED
  BY <1>1, DigestInvariant, PTL

-----------------------------------------------------------------------------
(* GALLERY.  the gallery of verified projects. *)

Build   == [student : Builder, unit : Unit, verdict : {"none", "pass", "fail"}]
Project == [student : Builder, unit : Unit, build : Nat, published : BOOLEAN]
Shown   == [project : Nat, build : Nat, published : BOOLEAN]
Visit   ==
  {Open} \cup [op : {"publish"}, student : Builder, build : Nat]
  \cup [op : {"unpublish"}, project : Nat]

GalleryTypes ==
  /\ builds \in Seq(Build) /\ projects \in Seq(Project) /\ shown \in Seq(Shown)
  /\ gallerySeat \in [GallerySeat -> Visit]

(* A submission of that student for that unit, passed.                     *)
Earned(i, s, u) ==
  /\ i \in DOMAIN builds
  /\ builds[i].student = s /\ builds[i].unit = u /\ builds[i].verdict = "pass"

Warranted(r) ==
  /\ r.op = "publish" => \E u \in Unit : Earned(r.build, r.student, u)
  /\ r.op = "unpublish" => r.project \in DOMAIN projects

(* A project is as its last event says.                                    *)
LastEvent(p, i) ==
  /\ i \in DOMAIN shown /\ shown[i].project = p
  /\ \A j \in DOMAIN shown : shown[j].project = p => j <= i
Current(p) ==
  \E i \in DOMAIN shown : /\ LastEvent(p, i)
                          /\ shown[i].published = projects[p].published
                          /\ shown[i].build = projects[p].build

(* What was checked stays true until it is stored, because no verdict       *)
(* changes and no project goes away.                                       *)
GalleryInv ==
  /\ GalleryTypes
  /\ \A d \in GallerySeat : Warranted(gallerySeat[d])
  /\ \A p \in DOMAIN projects :
       Earned(projects[p].build, projects[p].student, projects[p].unit) /\ Current(p)
  /\ \A p, q \in DOMAIN projects :
       projects[p].student = projects[q].student /\ projects[p].unit = projects[q].unit => p = q

(* What a request in flight holds, by the operation it is at.              *)
LEMMA VisitFacts ==
  ASSUME NEW r \in Visit
  PROVE  /\ r.op \in {"free", "publish", "unpublish"}
         /\ r.op = "publish" => r.student \in Builder /\ r.build \in Nat
         /\ r.op = "unpublish" => r.project \in Nat
BY DEF Visit, Open

(* Submissions are added and decided; what is earned stays earned.         *)
LEMMA BuildsStep ==
  ASSUME GalleryInv, builds' \in Seq(Build),
         \A i, s, u : Earned(i, s, u) => Earned(i, s, u)',
         UNCHANGED <<projects, shown, gallerySeat>>
  PROVE  GalleryInv'
<1>1. GalleryTypes'
  BY DEF GalleryInv, GalleryTypes
<1>2. \A p \in DOMAIN projects : Current(p)'
  BY DEF GalleryInv, Current, LastEvent
<1>3. \A d \in GallerySeat : Warranted(gallerySeat[d])'
  BY DEF GalleryInv, Warranted
<1>4. \A p \in DOMAIN projects : Earned(projects[p].build, projects[p].student, projects[p].unit)'
  BY DEF GalleryInv
<1> QED
  BY <1>1, <1>2, <1>3, <1>4 DEF GalleryInv

(* A new build or verdict takes nothing away that was earned.              *)
LEMMA SubmissionStep ==
  ASSUME GalleryInv,
         \/ \E s \in Builder, u \in Unit : Submit(s, u)
         \/ \E i \in DOMAIN builds, verdict \in {"pass", "fail"} : IssueVerdict(i, verdict)
  PROVE  GalleryInv'
<1>1. builds \in Seq(Build)
  BY DEF GalleryInv, GalleryTypes
<1>2. DOMAIN builds = 1 .. Len(builds) /\ Len(builds) \in Nat /\ \A i \in DOMAIN builds : builds[i] \in Build
  <2> HIDE DEF Build
  <2> QED
    BY <1>1
<1>3. ASSUME NEW s \in Builder, NEW u \in Unit, Submit(s, u) PROVE GalleryInv'
  <2> DEFINE b == [student |-> s, unit |-> u, verdict |-> "none"]
  <2>1. b \in Build
    BY DEF Build
  <2>2. builds' = Append(builds, b) /\ UNCHANGED <<projects, shown, gallerySeat>>
    BY <1>3 DEF Submit
  <2> HIDE DEF b
  <2>3. /\ builds' \in Seq(Build) /\ DOMAIN builds' = 1 .. Len(builds) + 1
        /\ \A i \in 1 .. Len(builds) : builds'[i] = builds[i]
    BY <1>1, <2>1, <2>2, AppendFacts
  <2>4. \A i, t, v : Earned(i, t, v) => Earned(i, t, v)'
    BY <1>2, <2>3 DEF Earned
  <2> QED
    BY <2>2, <2>3, <2>4, BuildsStep
<1>4. ASSUME NEW i \in DOMAIN builds, NEW verdict \in {"pass", "fail"}, IssueVerdict(i, verdict)
      PROVE  GalleryInv'
  <2> DEFINE b == [builds[i] EXCEPT !.verdict = verdict]
  <2>1. b \in Build
    BY <1>2 DEF Build
  <2>2. builds' = [builds EXCEPT ![i] = b] /\ UNCHANGED <<projects, shown, gallerySeat>> /\ builds[i].verdict = "none"
    BY <1>4 DEF IssueVerdict
  <2> HIDE DEF b
  <2>3. builds' \in Seq(Build) /\ DOMAIN builds' = DOMAIN builds /\ \A j \in DOMAIN builds : j # i => builds'[j] = builds[j]
    <3> HIDE DEF Build
    <3> QED
      BY <1>1, <1>2, <2>1, <2>2
  <2>4. \A j, t, v : Earned(j, t, v) => Earned(j, t, v)'
    BY <2>2, <2>3 DEF Earned
  <2> QED
    BY <2>2, <2>3, <2>4, BuildsStep
<1> QED
  BY <1>3, <1>4

(* A request looks at what it is about to change.                          *)
LEMMA LookStep ==
  ASSUME GalleryInv, NEW d \in GallerySeat,
         \/ \E s \in Builder, i \in DOMAIN builds : CheckEligible(d, s, i)
         \/ \E s \in Builder, p \in DOMAIN projects : FindProject(d, s, p)
  PROVE  GalleryInv'
<1>1. UNCHANGED <<builds, projects, shown>> /\ gallerySeat \in [GallerySeat -> Visit]
  BY DEF CheckEligible, FindProject, GalleryInv, GalleryTypes
<1>2. builds \in Seq(Build) /\ projects \in Seq(Project)
  BY DEF GalleryInv, GalleryTypes
<1>3. DOMAIN builds \subseteq Nat /\ DOMAIN projects \subseteq Nat /\ \A i \in DOMAIN builds : builds[i] \in Build
  <2> HIDE DEF Build, Project
  <2> QED
    BY <1>2
<1>4. \E request \in Visit : Take(d, request) /\ Warranted(request)
  <2>1. ASSUME NEW s \in Builder, NEW i \in DOMAIN builds, CheckEligible(d, s, i)
        PROVE  \E request \in Visit : Take(d, request) /\ Warranted(request)
    <3> DEFINE request == [op |-> "publish", student |-> s, build |-> i]
    <3>1. request \in Visit /\ Take(d, request)
      BY <1>3, <2>1 DEF Visit, CheckEligible
    <3>2. builds[i].unit \in Unit
      BY <1>3 DEF Build
    <3>3. Earned(i, s, builds[i].unit)
      BY <2>1 DEF CheckEligible, Earned
    <3>4. Warranted(request)
      BY <3>2, <3>3 DEF Warranted
    <3> HIDE DEF request
    <3> QED
      BY <3>1, <3>4
  <2>2. ASSUME NEW s \in Builder, NEW p \in DOMAIN projects, FindProject(d, s, p)
        PROVE  \E request \in Visit : Take(d, request) /\ Warranted(request)
    <3> DEFINE request == [op |-> "unpublish", project |-> p]
    <3>1. request \in Visit /\ Take(d, request)
      BY <1>3, <2>2 DEF Visit, FindProject
    <3>2. Warranted(request)
      BY DEF Warranted
    <3> HIDE DEF request
    <3> QED
      BY <3>1, <3>2
  <2> QED
    BY <2>1, <2>2
<1>5. PICK request \in Visit : Take(d, request) /\ Warranted(request)
  BY <1>4
<1>6. \A c \in GallerySeat : gallerySeat'[c] = IF c = d THEN request ELSE gallerySeat[c]
  BY <1>1, <1>5 DEF Take
<1>7. GalleryTypes'
  BY <1>1, <1>5 DEF GalleryInv, GalleryTypes, Take
<1>8. \A p \in DOMAIN projects : Current(p)'
  BY <1>1 DEF GalleryInv, Current, LastEvent
<1>9. \A i, s, u : Earned(i, s, u)' <=> Earned(i, s, u)
  BY <1>1 DEF Earned
<1>10. ASSUME NEW c \in GallerySeat PROVE Warranted(gallerySeat[c])'
  BY <1>1, <1>5, <1>6, <1>9 DEF GalleryInv, Warranted
<1> QED
  BY <1>1, <1>7, <1>8, <1>9, <1>10 DEF GalleryInv

(* One project gets a new row and its event, and a thread comes free.      *)
LEMMA RowStep ==
  ASSUME GalleryInv, NEW d \in GallerySeat, NEW p \in Nat, NEW row \in Project,
         UNCHANGED builds, Take(d, Open),
         shown' = Append(shown, [project |-> p, build |-> row.build, published |-> row.published]),
         projects' \in Seq(Project), p \in DOMAIN projects', DOMAIN projects \subseteq DOMAIN projects',
         projects'[p] = row,
         \A q \in DOMAIN projects' : q # p => q \in DOMAIN projects /\ projects'[q] = projects[q],
         Earned(row.build, row.student, row.unit),
         \A q \in DOMAIN projects : projects[q].student = row.student /\ projects[q].unit = row.unit => q = p
  PROVE  GalleryInv'
<1> DEFINE e == [project |-> p, build |-> row.build, published |-> row.published]
<1>1. e \in Shown /\ e.project = p /\ e.build = row.build /\ e.published = row.published
  BY DEF Shown, Project
<1>2. shown' = Append(shown, e) /\ shown \in Seq(Shown) /\ gallerySeat \in [GallerySeat -> Visit]
  BY DEF GalleryInv, GalleryTypes
<1> HIDE DEF e
<1>3. /\ shown' \in Seq(Shown) /\ DOMAIN shown = 1 .. Len(shown) /\ Len(shown) \in Nat
      /\ DOMAIN shown' = 1 .. Len(shown) + 1
      /\ \A i \in 1 .. Len(shown) : shown'[i] = shown[i]
      /\ shown'[Len(shown) + 1] = e
  BY <1>1, <1>2, AppendFacts
<1>4. Open \in Visit /\ Open.op = "free"
  BY DEF Visit, Open
<1>5. \A c \in GallerySeat : gallerySeat'[c] = IF c = d THEN Open ELSE gallerySeat[c]
  BY <1>2 DEF Take
<1>6. GalleryTypes'
  BY <1>2, <1>3, <1>4 DEF GalleryInv, GalleryTypes, Take
<1>7. \A i, s, u : Earned(i, s, u)' <=> Earned(i, s, u)
  BY DEF Earned
<1>8. ASSUME NEW q \in DOMAIN projects' PROVE Current(q)'
  <2>1. CASE q = p
    <3>1. PICK i \in DOMAIN shown' : i = Len(shown) + 1
      BY <1>3
    <3>2. LastEvent(q, i)'
      BY <1>1, <1>3, <2>1, <3>1 DEF LastEvent
    <3> QED
      BY <1>1, <1>3, <2>1, <3>1, <3>2 DEF Current
  <2>2. CASE q # p
    <3>1. q \in DOMAIN projects /\ projects'[q] = projects[q]
      BY <2>2
    <3>2. PICK i \in DOMAIN shown : /\ LastEvent(q, i)
                                    /\ shown[i].published = projects[q].published
                                    /\ shown[i].build = projects[q].build
      BY <3>1 DEF GalleryInv, Current
    <3>3. LastEvent(q, i)'
      BY <1>1, <1>3, <2>2, <3>2 DEF LastEvent
    <3>4. shown'[i] = shown[i]
      BY <1>3, <3>2
    <3>5. /\ i \in DOMAIN shown' /\ shown'[i].published = projects'[q].published
          /\ shown'[i].build = projects'[q].build
      BY <1>3, <3>1, <3>2, <3>4
    <3> QED
      BY <3>3, <3>5 DEF Current
  <2> QED
    BY <2>1, <2>2
<1>9. ASSUME NEW q \in DOMAIN projects' PROVE Earned(projects'[q].build, projects'[q].student, projects'[q].unit)
  <2>1. CASE q = p
    BY <2>1
  <2>2. CASE q # p
    BY <2>2 DEF GalleryInv
  <2> QED
    BY <2>1, <2>2
<1>10. ASSUME NEW q \in DOMAIN projects', NEW o \in DOMAIN projects',
              projects'[q].student = projects'[o].student, projects'[q].unit = projects'[o].unit
       PROVE  q = o
  <2>1. CASE q = p /\ o # p
    BY <1>10, <2>1
  <2>2. CASE q # p /\ o = p
    BY <1>10, <2>2
  <2>3. CASE q # p /\ o # p
    BY <1>10, <2>3 DEF GalleryInv
  <2> QED
    BY <2>1, <2>2, <2>3
<1>11. ASSUME NEW c \in GallerySeat
       PROVE  Warranted(gallerySeat[c])'
  BY <1>4, <1>5, <1>7 DEF GalleryInv, Warranted
<1> QED
  BY <1>6, <1>7, <1>8, <1>9, <1>10, <1>11 DEF GalleryInv

(* A verified submission becomes the project of its unit.                  *)
LEMMA PublishStep ==
  ASSUME GalleryInv, NEW d \in GallerySeat, StoreProject(d)
  PROVE  GalleryInv'
<1> DEFINE r   == gallerySeat[d]
           u   == builds[r.build].unit
           row == [student |-> r.student, unit |-> u, build |-> r.build, published |-> TRUE]
           old == ProjectOf(r.student, u)
<1>1. r \in Visit /\ r.op = "publish" /\ Warranted(r)
  BY DEF StoreProject, GalleryInv, GalleryTypes
<1>2. r.student \in Builder /\ r.build \in Nat /\ u \in Unit /\ Earned(r.build, r.student, u)
  BY <1>1, VisitFacts DEF Warranted, Earned
<1>3. row \in Project
  BY <1>2 DEF Project
<1>4. /\ row.student = r.student /\ row.unit = u /\ row.build = r.build /\ row.published = TRUE
  OBVIOUS
<1>5. /\ projects' = IF old = {} THEN Append(projects, row)
                     ELSE [p \in DOMAIN projects |-> IF p \in old THEN row ELSE projects[p]]
      /\ shown' = Append(shown, [project |-> IF old = {} THEN Len(projects) + 1 ELSE CHOOSE p \in old : TRUE,
                                 build |-> r.build, published |-> TRUE])
      /\ Take(d, Open) /\ UNCHANGED builds
  BY DEF StoreProject
<1>6. projects \in Seq(Project)
  BY DEF GalleryInv, GalleryTypes
<1>7. \A p \in DOMAIN projects : p \in old <=> projects[p].student = row.student /\ projects[p].unit = row.unit
  BY <1>4 DEF ProjectOf
<1>8. old \subseteq DOMAIN projects
  BY DEF ProjectOf
<1> HIDE DEF row, old, r, u
<1>9. CASE old = {}
  <2> DEFINE p == Len(projects) + 1
  <2>1. /\ projects' \in Seq(Project) /\ DOMAIN projects = 1 .. Len(projects) /\ Len(projects) \in Nat
        /\ DOMAIN projects' = 1 .. Len(projects) + 1
        /\ \A q \in 1 .. Len(projects) : projects'[q] = projects[q]
        /\ projects'[Len(projects) + 1] = row
    BY <1>3, <1>5, <1>6, <1>9, AppendFacts
  <2>2. /\ p \in Nat /\ p \in DOMAIN projects' /\ DOMAIN projects \subseteq DOMAIN projects'
        /\ projects'[p] = row
        /\ \A q \in DOMAIN projects' : q # p => q \in DOMAIN projects /\ projects'[q] = projects[q]
    BY <2>1
  <2>3. shown' = Append(shown, [project |-> p, build |-> row.build, published |-> row.published])
    BY <1>4, <1>5, <1>9
  <2>4. \A q \in DOMAIN projects : projects[q].student = row.student /\ projects[q].unit = row.unit => q = p
    BY <1>7, <1>9
  <2> HIDE DEF p
  <2> QED
    BY <1>2, <1>3, <1>4, <1>5, <2>1, <2>2, <2>3, <2>4, RowStep
<1>10. CASE old # {}
  <2> DEFINE p == CHOOSE p \in old : TRUE
  <2>1. p \in old /\ p \in DOMAIN projects
    BY <1>8, <1>10
  <2>2. \A q \in old : q = p
    BY <1>7, <1>8, <2>1 DEF GalleryInv
  <2>3. shown' = Append(shown, [project |-> p, build |-> row.build, published |-> row.published])
    BY <1>4, <1>5, <1>10
  <2>4. projects' = [q \in DOMAIN projects |-> IF q \in old THEN row ELSE projects[q]]
    BY <1>5, <1>10
  <2> HIDE DEF p
  <2>5. DOMAIN projects = 1 .. Len(projects) /\ Len(projects) \in Nat
        /\ \A q \in DOMAIN projects : projects[q] \in Project
    <3> HIDE DEF Project
    <3> QED
      BY <1>6
  <2>6. projects' \in [1 .. Len(projects) -> Project]
    BY <1>3, <2>4, <2>5
  <2>7. projects' \in Seq(Project)
    <3> HIDE DEF Project
    <3> QED
      BY <2>5, <2>6
  <2>8. /\ p \in Nat /\ p \in DOMAIN projects' /\ DOMAIN projects \subseteq DOMAIN projects'
        /\ projects'[p] = row
        /\ \A q \in DOMAIN projects' : q # p => q \in DOMAIN projects /\ projects'[q] = projects[q]
    BY <2>1, <2>2, <2>4, <2>5
  <2>9. \A q \in DOMAIN projects : projects[q].student = row.student /\ projects[q].unit = row.unit => q = p
    BY <1>7, <2>2
  <2> QED
    BY <1>2, <1>3, <1>4, <1>5, <2>3, <2>7, <2>8, <2>9, RowStep
<1> QED
  BY <1>9, <1>10

(* A project is hidden, and stays whose it was.                            *)
LEMMA HideStep ==
  ASSUME GalleryInv, NEW d \in GallerySeat, HideProject(d)
  PROVE  GalleryInv'
<1> DEFINE p   == gallerySeat[d].project
           row == [projects[p] EXCEPT !.published = FALSE]
<1>1. p \in DOMAIN projects
  BY DEF HideProject, GalleryInv, Warranted
<1>2. /\ projects' = [projects EXCEPT ![p].published = FALSE]
      /\ shown' = Append(shown, [project |-> p, build |-> projects[p].build, published |-> FALSE])
      /\ Take(d, Open) /\ UNCHANGED builds
  BY DEF HideProject
<1>3. projects \in Seq(Project)
  BY DEF GalleryInv, GalleryTypes
<1> HIDE DEF p
<1>4. DOMAIN projects = 1 .. Len(projects) /\ Len(projects) \in Nat
      /\ \A q \in DOMAIN projects : projects[q] \in Project
  <2> HIDE DEF Project
  <2> QED
    BY <1>3
<1>5. /\ row \in Project /\ row.published = FALSE /\ row.build = projects[p].build
      /\ row.student = projects[p].student /\ row.unit = projects[p].unit
  BY <1>1, <1>4 DEF Project
<1>6. projects' = [projects EXCEPT ![p] = row]
  BY <1>2
<1>7. shown' = Append(shown, [project |-> p, build |-> row.build, published |-> row.published])
  BY <1>2, <1>5
<1> HIDE DEF row
<1>8. projects' \in [1 .. Len(projects) -> Project]
  BY <1>4, <1>5, <1>6
<1>9. projects' \in Seq(Project)
  <2> HIDE DEF Project
  <2> QED
    BY <1>4, <1>8
<1>10. /\ p \in Nat /\ p \in DOMAIN projects' /\ DOMAIN projects \subseteq DOMAIN projects'
       /\ projects'[p] = row
       /\ \A q \in DOMAIN projects' : q # p => q \in DOMAIN projects /\ projects'[q] = projects[q]
  BY <1>1, <1>4, <1>6
<1>11. Earned(row.build, row.student, row.unit)
  BY <1>1, <1>5 DEF GalleryInv
<1>12. \A q \in DOMAIN projects : projects[q].student = row.student /\ projects[q].unit = row.unit => q = p
  BY <1>1, <1>5 DEF GalleryInv
<1> QED
  BY <1>2, <1>5, <1>7, <1>9, <1>10, <1>11, <1>12, RowStep

(* What was checked stays true until it is stored, for any students, units   *)
(* and overlapping requests.                                               *)
THEOREM GalleryInvariant == GallerySpec => []GalleryInv
<1>1. GalleryInit => GalleryInv
  BY DEF GalleryInit, GalleryInv, GalleryTypes, Warranted, Visit, Open, Build, Project, Shown
<1>2. GalleryInv /\ [GalleryNext]_galleryVars => GalleryInv'
  <2> SUFFICES ASSUME GalleryInv, [GalleryNext]_galleryVars PROVE GalleryInv'
    OBVIOUS
  <2>1. CASE UNCHANGED galleryVars
    BY <2>1 DEF galleryVars, GalleryInv, GalleryTypes, Warranted, Earned, Current, LastEvent
  <2> QED
    BY <2>1, SubmissionStep, LookStep, PublishStep, HideStep DEF GalleryNext
<1> QED
  BY <1>1, <1>2, PTL DEF GallerySpec

-----------------------------------------------------------------------------
(* The published projects, newest first: each has its one place.           *)
LEMMA NewestFacts ==
  ASSUME projects \in Seq(Project)
  PROVE  /\ Cardinality(Published) \in 0 .. Len(projects)
         /\ Len(NewestFirst) = Cardinality(Published)
         /\ \A n \in 1 .. Cardinality(Published) : NewestFirst[n] \in Published
         /\ \A p \in Published : \E m \in 1 .. Cardinality(Published) :
              \A n \in 1 .. Cardinality(Published) : NewestFirst[n] = p <=> n = m
<1> DEFINE P     == Published
           K     == Cardinality(P)
           below == [p \in P |-> {q \in P : p < q}]
<1>1. DOMAIN projects = 1 .. Len(projects) /\ Len(projects) \in Nat
  <2> HIDE DEF Project
  <2> QED
    OBVIOUS
<1>2. P \in SUBSET (1 .. Len(projects)) /\ P \subseteq Int
  BY <1>1 DEF Published
<1>3. IsFiniteSet(1 .. Len(projects)) /\ Cardinality(1 .. Len(projects)) = Len(projects)
  BY <1>1, FS_Interval
<1>4. IsFiniteSet(P) /\ K \in 0 .. Len(projects)
  <2> HIDE DEF P
  <2>1. IsFiniteSet(P) /\ K <= Len(projects)
    BY <1>2, <1>3, FS_Subset
  <2> QED
    BY <1>1, <2>1, FS_CardinalityType
<1>5. Ranks(below, P)
  BY <1>2, DescendingRanks
<1>6. \A p \in P : below[p] = {q \in P : p < q}
  OBVIOUS
<1>7. NewestFirst = [n \in 1 .. K |-> CHOOSE p \in P : Cardinality({q \in P : p < q}) = n - 1]
  BY DEF NewestFirst
<1> HIDE DEF P, K, below
<1>8. /\ \A p \in P : Cardinality(below[p]) \in 0 .. K - 1
      /\ \A p, q \in P : Cardinality(below[p]) = Cardinality(below[q]) => p = q
      /\ \A n \in 0 .. K - 1 : \E p \in P : Cardinality(below[p]) = n
  BY <1>4, <1>5, RankFacts DEF K
<1>9. ASSUME NEW n \in 1 .. K PROVE NewestFirst[n] \in P /\ Cardinality(below[NewestFirst[n]]) = n - 1
  <2>1. n - 1 \in 0 .. K - 1
    BY <1>1, <1>4
  <2>2. \E p \in P : Cardinality({q \in P : p < q}) = n - 1
    BY <1>6, <1>8, <2>1
  <2>3. NewestFirst[n] = CHOOSE p \in P : Cardinality({q \in P : p < q}) = n - 1
    BY <1>7
  <2>4. NewestFirst[n] \in P /\ Cardinality({q \in P : NewestFirst[n] < q}) = n - 1
    BY <2>2, <2>3
  <2> QED
    BY <1>6, <2>4
<1>10. \A p \in P : \E m \in 1 .. K : \A n \in 1 .. K : NewestFirst[n] = p <=> n = m
  <2>1. Places(NewestFirst, below, P)
    BY <1>9 DEF K, Places
  <2>2. \A p \in P : \E m \in 1 .. Cardinality(P) :
          \A n \in 1 .. Cardinality(P) : NewestFirst[n] = p <=> n = m
    BY <1>4, <1>5, <2>1, PlaceFacts
  <2> QED
    BY <2>2 DEF K
<1>11. NewestFirst \in [1 .. K -> P] /\ K \in Nat
  <2>1. NewestFirst = [n \in 1 .. K |-> NewestFirst[n]]
    <3> DEFINE chosen(n) == CHOOSE p \in P : Cardinality({q \in P : p < q}) = n - 1
    <3>1. NewestFirst = [n \in 1 .. K |-> chosen(n)]
      BY <1>7
    <3> HIDE DEF chosen
    <3> QED
      BY <3>1
  <2>2. \A n \in 1 .. K : NewestFirst[n] \in P
    BY <1>9
  <2> QED
    BY <1>1, <1>4, <2>1, <2>2
<1>12. Len(NewestFirst) = K
  <2> HIDE DEF Project
  <2>1. DOMAIN NewestFirst = 1 .. K /\ NewestFirst \in Seq(P)
    BY <1>11
  <2> QED
    BY <1>11, <2>1
<1> QED
  BY <1>4, <1>9, <1>10, <1>12 DEF P, K

(* Pages of the same size, one after the other, have each place once.      *)
LEMMA OnePage ==
  ASSUME NEW step \in Nat \ {0}, NEW K \in Nat, NEW m \in 1 .. K
  PROVE  \E n \in 0 .. K : \A k \in Nat : k * step < m /\ m <= k * step + step <=> k = n
<1> DEFINE n == (m - 1) \div step
<1>1. m - 1 \in Nat
  OBVIOUS
<1>2. n \in Nat /\ step * n <= m - 1 /\ m - 1 < step * n + step
  BY <1>1, QuotientFacts
<1> HIDE DEF n
<1>3. n <= step * n
  <2>1. step - 1 \in Nat /\ step * n = n + (step - 1) * n /\ (step - 1) * n \in Nat
    BY <1>2
  <2> QED
    BY <1>2, <2>1
<1>4. n \in 0 .. K
  BY <1>2, <1>3
<1>5. ASSUME NEW k \in Nat, k * step < m, m <= k * step + step PROVE k = n
  <2>1. CASE k < n
    <3>1. n - (k + 1) \in Nat /\ step * n = k * step + step + step * (n - (k + 1)) /\ step * (n - (k + 1)) \in Nat
      BY <1>2, <2>1
    <3> QED
      BY <1>2, <1>5, <3>1
  <2>2. CASE n < k
    <3>1. k - (n + 1) \in Nat /\ k * step = step * n + step + step * (k - (n + 1)) /\ step * (k - (n + 1)) \in Nat
      BY <1>2, <2>2
    <3> QED
      BY <1>2, <1>5, <3>1
  <2> QED
    BY <1>2, <2>1, <2>2
<1>6. n * step < m /\ m <= n * step + step
  <2>1. n * step = step * n /\ step * n \in Nat
    BY <1>2
  <2> QED
    BY <1>2, <2>1
<1> QED
  BY <1>4, <1>5, <1>6

(* Who turns the pages sees each published project once.                   *)
LEMMA PagesShowAll ==
  ASSUME projects \in Seq(Project), NEW limit \in 0 .. Most + 1, NEW p \in DOMAIN projects
  PROVE  LET step == Bounded(1, limit, Most)
             seen == [n \in 0..Len(projects) |-> GalleryPage(limit, n * step).projects]
         IN Cardinality({n \in DOMAIN seen : \E i \in DOMAIN seen[n] : seen[n][i] = p})
              = (IF projects[p].published THEN 1 ELSE 0)
<1> DEFINE step == Bounded(1, limit, Most)
           seen == [n \in 0..Len(projects) |-> GalleryPage(limit, n * step).projects]
           on   == {n \in DOMAIN seen : \E i \in DOMAIN seen[n] : seen[n][i] = p}
           K    == Cardinality(Published)
           upto(n) == IF n * step + step > K THEN K ELSE n * step + step
<1>1. Most \in Nat \ {0}
  BY GalleryAssumption
<1>2. step \in Nat \ {0}
  BY <1>1 DEF Bounded
<1>3. Len(projects) \in Nat
  <2> HIDE DEF Project
  <2> QED
    OBVIOUS
<1>4. K \in 0 .. Len(projects)
  BY NewestFacts
<1>5. ASSUME NEW n \in 0 .. Len(projects)
      PROVE  seen[n] = [i \in 1 .. upto(n) - n * step |-> NewestFirst[n * step + i]]
  <2> DEFINE at == n * step
  <2>1. at \in Nat
    BY <1>2, <1>3
  <2> HIDE DEF step, at, K
  <2>2. Len(NewestFirst) = K
    BY NewestFacts DEF K
  <2>3. Bounded(0, at + step, K) = IF at + step > K THEN K ELSE at + step
    BY <1>2, <2>1 DEF Bounded
  <2>4. GalleryPage(limit, at).projects =
          [i \in 1 .. Bounded(0, at + step, K) - at |-> NewestFirst[at + i]]
    BY <2>1, <2>2 DEF GalleryPage, step
  <2>5. seen[n] = GalleryPage(limit, at).projects
    BY DEF at
  <2> QED
    BY <2>3, <2>4, <2>5 DEF at
<1> HIDE DEF step, seen, K
<1>6. DOMAIN seen = 0 .. Len(projects)
  BY DEF seen
<1>7. ASSUME NEW n \in 0 .. Len(projects)
      PROVE  /\ n * step \in Nat
             /\ \A i \in DOMAIN seen[n] : n * step + i \in 1 .. K /\ seen[n][i] = NewestFirst[n * step + i]
             /\ \A m \in 1 .. K : n * step < m /\ m <= n * step + step <=>
                                    m - n * step \in DOMAIN seen[n]
  <2>1. n * step \in Nat
    BY <1>2, <1>3
  <2> DEFINE at == n * step
             last == upto(n) - at
  <2>8. seen[n] = [i \in 1 .. last |-> NewestFirst[at + i]]
    BY <1>5
  <2> HIDE DEF at, last
  <2>2. DOMAIN seen[n] = 1 .. last /\ \A i \in DOMAIN seen[n] : seen[n][i] = NewestFirst[at + i]
    BY <2>8
  <2>3. upto(n) = IF at + step > K THEN K ELSE at + step
    BY DEF at
  <2>4. \A i \in DOMAIN seen[n] : at + i \in 1 .. K
    BY <1>2, <1>3, <1>4, <2>1, <2>2, <2>3 DEF at, last
  <2>5. \A m \in 1 .. K : at < m /\ m <= at + step <=> m - at \in DOMAIN seen[n]
    BY <1>2, <1>3, <1>4, <2>1, <2>2, <2>3 DEF at, last
  <2> QED
    BY <2>1, <2>2, <2>4, <2>5 DEF at
<1>8. CASE projects[p].published
  <2>1. p \in Published
    BY <1>8 DEF Published
  <2>2. PICK m \in 1 .. K : \A n \in 1 .. K : NewestFirst[n] = p <=> n = m
    BY <2>1, NewestFacts DEF K
  <2>3. PICK n \in 0 .. K : \A k \in Nat : k * step < m /\ m <= k * step + step <=> k = n
    <3>1. K \in Nat
      BY <1>3, <1>4
    <3> QED
      BY <1>2, <3>1, OnePage
  <2>4. ASSUME NEW k \in 0 .. Len(projects)
        PROVE  (\E i \in DOMAIN seen[k] : seen[k][i] = p) <=> k = n
    <3>1. k * step \in Nat /\ \A i \in DOMAIN seen[k] : k * step + i \in 1 .. K /\ seen[k][i] = NewestFirst[k * step + i]
      BY <1>7
    <3>2. k * step < m /\ m <= k * step + step <=> m - k * step \in DOMAIN seen[k]
      BY <1>7
    <3>3. k * step < m /\ m <= k * step + step <=> k = n
      BY <1>3, <2>3
    <3>4. ASSUME NEW i \in DOMAIN seen[k], seen[k][i] = p PROVE k = n
      <4>1. k * step + i = m
        BY <2>2, <3>1, <3>4
      <4>2. DOMAIN seen[k] = 1 .. upto(k) - k * step
        BY <1>5
      <4>3. m - k * step = i
        BY <1>3, <1>4, <3>1, <4>1, <4>2
      <4> QED
        BY <3>2, <3>3, <4>3
    <3>5. ASSUME k = n PROVE \E i \in DOMAIN seen[k] : seen[k][i] = p
      <4> DEFINE i == m - k * step
      <4>1. i \in DOMAIN seen[k]
        BY <3>2, <3>3, <3>5
      <4>2. k * step + i = m
        BY <1>3, <1>4, <3>1
      <4> QED
        BY <2>2, <3>1, <4>1, <4>2
    <3> QED
      BY <3>4, <3>5
  <2>5. n \in 0 .. Len(projects)
    BY <1>3, <1>4
  <2>6. on = {n}
    BY <1>6, <2>4, <2>5
  <2> HIDE DEF on
  <2>7. Cardinality({n}) = 1
    BY FS_Singleton, Zenon
  <2>8. Cardinality(on) = 1
    BY <2>6, <2>7
  <2> QED
    BY <1>8, <2>8 DEF on, seen, step
<1>9. CASE ~ projects[p].published
  <2>1. p \notin Published
    BY <1>9 DEF Published
  <2>2. on = {}
    <3>1. \A n \in 0 .. Len(projects) : \A i \in DOMAIN seen[n] : seen[n][i] \in Published
      BY <1>7, NewestFacts DEF K
    <3> QED
      BY <1>6, <2>1, <3>1
  <2> HIDE DEF on
  <2>3. Cardinality(on) = 0
    BY <2>2, FS_EmptySet
  <2> QED
    BY <1>9, <2>3 DEF on, seen, step
<1> QED
  BY <1>8, <1>9

(* What any page shows is real: a submission of that very student for that   *)
(* unit, passed; a student has one project per unit, shown or hidden as its *)
(* last event says; and who turns the pages, however small, sees each       *)
(* published project once.                                                 *)
THEOREM GalleryIsVerified == GallerySpec => []GalleryVerified
<1>1. GalleryInv => GalleryVerified
  <2> SUFFICES ASSUME GalleryInv PROVE GalleryVerified
    OBVIOUS
  <2>1. ASSUME NEW p \in DOMAIN projects
        PROVE  LET b    == builds[projects[p].build]
                   past == {i \in DOMAIN shown : shown[i].project = p}
                   last == CHOOSE i \in past : \A j \in past : j <= i
               IN /\ b.student = projects[p].student /\ b.unit = projects[p].unit
                  /\ ProjectDetail(p).overall = "pass" /\ b.verdict = "pass"
                  /\ ProjectOf(projects[p].student, projects[p].unit) = {p}
                  /\ past # {} /\ shown[last].published = projects[p].published
                  /\ shown[last].build = projects[p].build
    <3> DEFINE b    == builds[projects[p].build]
               past == {i \in DOMAIN shown : shown[i].project = p}
               last == CHOOSE i \in past : \A j \in past : j <= i
    <3>1. Earned(projects[p].build, projects[p].student, projects[p].unit) /\ Current(p)
      BY DEF GalleryInv
    <3>2. b.student = projects[p].student /\ b.unit = projects[p].unit /\ b.verdict = "pass"
      BY <3>1 DEF Earned
    <3>3. ProjectDetail(p).overall = "pass"
      BY <3>2 DEF ProjectDetail
    <3>4. ProjectOf(projects[p].student, projects[p].unit) = {p}
      BY DEF GalleryInv, ProjectOf
    <3>5. PICK i \in DOMAIN shown : /\ LastEvent(p, i)
                                    /\ shown[i].published = projects[p].published
                                    /\ shown[i].build = projects[p].build
      BY <3>1 DEF Current
    <3>6. i \in past /\ \A j \in past : j <= i
      BY <3>5 DEF LastEvent
    <3>7. past \subseteq Nat
      <4>1. shown \in Seq(Shown)
        BY DEF GalleryInv, GalleryTypes
      <4> HIDE DEF Shown
      <4> QED
        BY <4>1
    <3> HIDE DEF past
    <3>8. last = i
      <4>1. last \in past /\ \A j \in past : j <= last
        BY <3>6
      <4>2. last <= i /\ i <= last
        BY <3>6, <4>1
      <4> QED
        BY <3>6, <3>7, <4>1, <4>2
    <3> HIDE DEF last
    <3>9. past # {} /\ shown[last].published = projects[p].published /\ shown[last].build = projects[p].build
      BY <3>5, <3>6, <3>8
    <3> HIDE DEF b
    <3> QED
      BY <3>2, <3>3, <3>4, <3>9 DEF past, last, b
  <2>2. projects \in Seq(Project)
    BY DEF GalleryInv, GalleryTypes
  <2>3. \A limit \in 0 .. Most + 1 :
          LET step == Bounded(1, limit, Most)
              seen == [n \in 0..Len(projects) |-> GalleryPage(limit, n * step).projects]
          IN \A p \in DOMAIN projects :
               Cardinality({n \in DOMAIN seen : \E i \in DOMAIN seen[n] : seen[n][i] = p})
                 = (IF projects[p].published THEN 1 ELSE 0)
    BY <2>2, PagesShowAll
  <2> QED
    BY <2>1, <2>3, Zenon DEF GalleryVerified
<1> QED
  BY <1>1, GalleryInvariant, PTL

-----------------------------------------------------------------------------
(* EXCERPT.  the part of a lesson a judge sees. *)

(* A question is asked about a lesson that does not fit, and every section  *)
(* of it has a score.                                                      *)
ExcerptInv ==
  lesson # <<>> =>
    /\ lesson \in Lesson /\ budget \in Budgets
    /\ Width * Len(StripScriptMarkers(lesson)) > budget
    /\ score \in [DOMAIN SplitLessonSections(StripScriptMarkers(lesson)) -> Nat]

(* A lesson's excerpt is taken from a lesson that is longer than the budget. *)
THEOREM ExcerptInvariant == ExcerptSpec => []ExcerptInv
<1>1. ExcerptInit => ExcerptInv
  BY DEF ExcerptInit, ExcerptInv
<1>2. ExcerptInv /\ [ExcerptNext]_excerptVars => ExcerptInv'
  <2> SUFFICES ASSUME ExcerptInv, [ExcerptNext]_excerptVars PROVE ExcerptInv'
    OBVIOUS
  <2>1. CASE UNCHANGED excerptVars
    <3>1. lesson' = lesson /\ budget' = budget /\ score' = score
      BY <2>1 DEF excerptVars
    <3> QED
      BY <3>1 DEF ExcerptInv
  <2>2. ASSUME NEW lines \in Lesson, NEW chars \in Budgets,
               NEW scores \in [DOMAIN SplitLessonSections(StripScriptMarkers(lines)) -> 0 .. MaxScore],
               AskAbout(lines, scores, chars)
        PROVE  ExcerptInv'
    <3>1. lesson' = lines /\ budget' = chars /\ Width * Len(StripScriptMarkers(lines)) > chars
          /\ score' = scores
      BY <2>2 DEF AskAbout
    <3>2. scores \in [DOMAIN SplitLessonSections(StripScriptMarkers(lines)) -> Nat]
      BY <2>2, LessonAssumption
    <3>3. DOMAIN SplitLessonSections(StripScriptMarkers(lesson')) =
            DOMAIN SplitLessonSections(StripScriptMarkers(lines))
      BY <3>1
    <3> QED
      BY <3>1, <3>2, <3>3 DEF ExcerptInv
  <2> QED
    BY <2>1, <2>2 DEF ExcerptNext
<1> QED
  BY <1>1, <1>2, PTL DEF ExcerptSpec

-----------------------------------------------------------------------------
(* What is left of a lesson without its markers is a sequence of lines.    *)
Kept(lines, s, i) == IF lines[i] = "marker" /\ ~InFence(lines, i) THEN s ELSE Append(s, lines[i])

(* Stripping the markers leaves a sequence of lines.                       *)
LEMMA StrippedIsSequence ==
  ASSUME NEW lines \in Lesson
  PROVE  StripScriptMarkers(lines) \in Seq(LineKind)
<1> DEFINE N == Len(lines)
           S == Seq(LineKind)
           Keep(f) == f = [i \in 0 .. N |->
             IF i = 0 THEN <<>> ELSE Kept(lines, f[i - 1], i)]
           step == [i \in 1 .. N |-> [s \in S |-> Kept(lines, s, i)]]
<1>1. StripScriptMarkers(lines) = (CHOOSE f : Keep(f))[N]
  BY Zenon DEF StripScriptMarkers, Kept
<1>2. N \in Nat /\ lines \in [1 .. N -> LineKind]
  BY LessonAssumption DEF Lesson
<1>3. ASSUME NEW s \in S, NEW i \in 1 .. N PROVE Kept(lines, s, i) \in S
  <2>1. lines[i] \in LineKind
    BY <1>2
  <2> HIDE DEF N
  <2> QED
    BY <2>1 DEF Kept
<1>4. <<>> \in S
  OBVIOUS
<1>5. step \in [1 .. N -> [S -> S]]
  BY <1>3
<1>6. \E f \in [0 .. N -> S] : Iterates(f, N, <<>>, step)
  <2> HIDE DEF step, S, N
  <2> QED
    BY <1>2, <1>4, <1>5, IterationExists
<1> HIDE DEF S, N
<1>7. \E f : Keep(f)
  <2>1. PICK f \in [0 .. N -> S] : Iterates(f, N, <<>>, step)
    BY <1>6
  <2>2. ASSUME NEW i \in 1 .. N PROVE f[i] = Kept(lines, f[i - 1], i)
    <3>1. f[i] = step[i][f[i - 1]]
      BY <2>1 DEF Iterates
    <3>2. f[i - 1] \in S
      BY <1>2
    <3> QED
      BY <3>1, <3>2
  <2>3. f[0] = <<>>
    BY <2>1 DEF Iterates
  <2>4. ASSUME NEW i \in 0 .. N
        PROVE  f[i] = IF i = 0 THEN <<>> ELSE Kept(lines, f[i - 1], i)
    <3>1. CASE i = 0
      BY <2>3, <3>1
    <3>2. CASE i # 0
      BY <1>2, <2>2, <3>2
    <3> QED
      BY <3>1, <3>2
  <2> QED
    BY <2>4
<1> DEFINE g == CHOOSE f : Keep(f)
<1>8. Keep(g)
  <2> HIDE DEF Keep
  <2> QED
    BY <1>7
<1> HIDE DEF g
<1>9. g[0] = <<>> /\ \A i \in 1 .. N : g[i] = Kept(lines, g[i - 1], i)
  BY <1>2, <1>8
<1>10. \A i \in 0 .. N : g[i] \in S
  <2> DEFINE P == {i \in 0 .. N : g[i] \in S}
  <2>1. 0 \in P
    BY <1>2, <1>4, <1>9
  <2>2. ASSUME NEW i \in 0 .. N - 1, i \in P PROVE i + 1 \in P
    <3>1. i + 1 \in 1 .. N /\ i + 1 - 1 = i /\ g[i] \in S
      BY <1>2, <2>2
    <3>2. g[i + 1] = Kept(lines, g[i], i + 1)
      BY <1>9, <3>1
    <3> QED
      BY <1>2, <1>3, <3>1, <3>2
  <2> HIDE DEF P
  <2>3. \A i \in 0 .. N : i \in P
    BY <1>2, <2>1, <2>2, Induction
  <2> QED
    BY <2>3 DEF P
<1>11. N \in 0 .. N
  BY <1>2
<1> QED
  BY <1>1, <1>10, <1>11 DEF g, S

-----------------------------------------------------------------------------
(* The sections of a lesson with N lines: where each begins and ends.      *)
Starts(lines) == {i \in DOMAIN lines : i = 1 \/ OpensSection(lines, i)}

Splits(sections, lines) ==
  /\ DOMAIN sections = 1 .. Cardinality(Starts(lines)) /\ Len(sections) = Cardinality(Starts(lines))
  /\ \A n \in DOMAIN sections :
       /\ sections[n][1] \in Starts(lines)
       /\ sections[n][2] \in sections[n][1] .. Len(lines)
       /\ \A j \in Starts(lines) : j > sections[n][1] => sections[n][2] < j
       /\ sections[n][2] = Len(lines) \/ sections[n][2] + 1 \in Starts(lines)
  /\ \A i \in Starts(lines) : \E n \in DOMAIN sections : \A m \in DOMAIN sections :
       sections[m][1] = i <=> m = n

(* The sections of a lesson begin where its sections start, end before     *)
(* the next start, and each start has one.                                 *)
LEMMA SectionsSplit ==
  ASSUME NEW lines \in Seq(LineKind)
  PROVE  Splits(SplitLessonSections(lines), lines) /\ IsFiniteSet(Starts(lines))
<1> DEFINE starts == Starts(lines)
           K      == Cardinality(starts)
           last(i) == IF \E j \in starts : j > i
                        THEN (CHOOSE j \in starts : j > i /\ \A k \in starts : k > i => j <= k) - 1
                        ELSE Len(lines)
           first(n) == CHOOSE i \in starts : Cardinality({j \in starts : j < i}) = n - 1
           below  == [i \in starts |-> {j \in starts : j < i}]
           sections == SplitLessonSections(lines)
           f == [n \in 1 .. K |-> sections[n][1]]
<1>1. DOMAIN lines = 1 .. Len(lines) /\ Len(lines) \in Nat
  <2> HIDE DEF LineKind
  <2> QED
    OBVIOUS
<1>2. starts \in SUBSET (1 .. Len(lines)) /\ starts \subseteq Int
  BY <1>1 DEF Starts
<1>3. IsFiniteSet(starts) /\ K \in Nat
  <2>1. IsFiniteSet(1 .. Len(lines))
    BY <1>1, FS_Interval
  <2> HIDE DEF starts
  <2> QED
    BY <1>2, <2>1, FS_Subset, FS_CardinalityType
<1>4. sections = [n \in 1 .. K |-> <<first(n), last(first(n))>>]
  BY Zenon DEF SplitLessonSections, Starts
<1>5. Ranks(below, starts)
  BY <1>2, AscendingRanks
<1>6. \A p \in starts : below[p] = {q \in starts : q < p}
  OBVIOUS
<1> HIDE DEF sections, starts, K, below
<1>7. \A n \in 0 .. K - 1 : \E p \in starts : Cardinality(below[p]) = n
  BY <1>3, <1>5, RankFacts DEF K
<1>8. ASSUME NEW n \in 1 .. K PROVE first(n) \in starts /\ Cardinality(below[first(n)]) = n - 1
  <2>1. n - 1 \in 0 .. K - 1
    BY <1>3
  <2>2. \E p \in starts : Cardinality({q \in starts : q < p}) = n - 1
    BY <1>6, <1>7, <2>1
  <2>3. first(n) \in starts /\ Cardinality({q \in starts : q < first(n)}) = n - 1
    BY <2>2
  <2> HIDE DEF first
  <2> QED
    BY <1>6, <2>3
<1>9. ASSUME NEW i \in starts
      PROVE  /\ last(i) \in i .. Len(lines) /\ \A j \in starts : j > i => last(i) < j
             /\ last(i) = Len(lines) \/ last(i) + 1 \in starts
  <2>1. CASE \E j \in starts : j > i
    <3> DEFINE later == {j \in starts : j > i}
               next  == CHOOSE j \in starts : j > i /\ \A k \in starts : k > i => j <= k
    <3>0. \A j \in starts : j \in Nat
      BY <1>1, <1>2
    <3>1. later \subseteq Nat /\ later # {}
      BY <2>1, <3>0
    <3>2. \E j \in later : \A k \in later : j <= k
      <4> HIDE DEF later
      <4> QED
        BY <3>1, LeastNatural
    <3>3. \E j \in starts : j > i /\ \A k \in starts : k > i => j <= k
      BY <3>2
    <3>4. next \in starts /\ next > i /\ \A k \in starts : k > i => next <= k
      BY <3>3
    <3>5. last(i) = next - 1
      BY <2>1
    <3> HIDE DEF next, last, later
    <3>6. next \in 1 .. Len(lines) /\ i \in 1 .. Len(lines)
      BY <1>2, <3>4
    <3>7. last(i) \in i .. Len(lines) /\ last(i) + 1 = next
      BY <1>1, <3>4, <3>5, <3>6
    <3>8. ASSUME NEW j \in starts, j > i PROVE last(i) < j
      <4>1. j \in 1 .. Len(lines) /\ next <= j
        BY <1>2, <3>4, <3>8
      <4> QED
        BY <1>1, <3>5, <3>6, <4>1
    <3> QED
      BY <3>4, <3>7, <3>8
  <2>2. CASE ~ \E j \in starts : j > i
    <3>1. last(i) = Len(lines)
      BY <2>2
    <3> HIDE DEF last
    <3> QED
      BY <1>1, <1>2, <2>2, <3>1
  <2> QED
    BY <2>1, <2>2
<1> HIDE DEF first, last
<1>10. /\ DOMAIN sections = 1 .. K
       /\ \A n \in 1 .. K : sections[n][1] = first(n) /\ sections[n][2] = last(first(n))
  BY <1>4
<1>11. Len(sections) = K
  <2> DEFINE T == Int \X Int
  <2>1. ASSUME NEW n \in 1 .. K PROVE <<first(n), last(first(n))>> \in T
    <3>1. PICK i \in starts : i = first(n)
      BY <1>8
    <3>2. i \in Int /\ last(i) \in i .. Len(lines)
      BY <1>2, <1>9
    <3>3. last(i) \in Int
      BY <1>1, <3>2
    <3> HIDE DEF first, last
    <3>4. first(n) \in Int /\ last(first(n)) \in Int
      BY <3>1, <3>2, <3>3
    <3> QED
      BY <3>4
  <2> HIDE DEF T
  <2>2. sections \in [1 .. K -> T]
    BY <1>4, <2>1
  <2> QED
    BY <1>3, <2>2
<1>12. Places(f, below, starts)
  BY <1>8, <1>10 DEF Places, K
<1>13. \A i \in starts : \E n \in 1 .. K : \A m \in 1 .. K : f[m] = i <=> m = n
  <2>1. \A i \in starts : \E n \in 1 .. Cardinality(starts) :
          \A m \in 1 .. Cardinality(starts) : f[m] = i <=> m = n
    <3> HIDE DEF f
    <3> QED
      BY <1>3, <1>5, <1>12, PlaceFacts
  <2> QED
    BY <2>1 DEF K
<1>14. \A i \in starts : \E n \in 1 .. K : \A m \in 1 .. K : sections[m][1] = i <=> m = n
  BY <1>13
<1>15. ASSUME NEW n \in 1 .. K
       PROVE  /\ sections[n][1] \in starts
              /\ sections[n][2] \in sections[n][1] .. Len(lines)
              /\ \A j \in starts : j > sections[n][1] => sections[n][2] < j
              /\ sections[n][2] = Len(lines) \/ sections[n][2] + 1 \in starts
  BY <1>8, <1>9, <1>10
<1> HIDE DEF f
<1>16. DOMAIN sections = 1 .. Cardinality(Starts(lines)) /\ Len(sections) = Cardinality(Starts(lines))
  BY <1>10, <1>11 DEF starts, K
<1>17. \A n \in DOMAIN sections :
        /\ sections[n][1] \in Starts(lines)
        /\ sections[n][2] \in sections[n][1] .. Len(lines)
        /\ \A j \in Starts(lines) : j > sections[n][1] => sections[n][2] < j
        /\ sections[n][2] = Len(lines) \/ sections[n][2] + 1 \in Starts(lines)
  BY <1>10, <1>15 DEF starts
<1>18. \A i \in Starts(lines) : \E n \in DOMAIN sections : \A m \in DOMAIN sections :
        sections[m][1] = i <=> m = n
  BY <1>10, <1>14 DEF starts
<1>19. Splits(sections, lines)
  BY <1>16, <1>17, <1>18 DEF Splits
<1> QED
  BY <1>3, <1>19 DEF starts, sections

(* A section begins where no code block is open, and a line is in exactly   *)
(* one of them: the one that begins last of those that begin before it.    *)
LEMMA SectionsPartition ==
  ASSUME NEW lines \in Seq(LineKind), NEW sections, Splits(sections, lines)
  PROVE  /\ \A n \in DOMAIN sections : ~InFence(lines, sections[n][1])
         /\ \A i \in DOMAIN lines : \E n \in DOMAIN sections :
              /\ sections[n][1] <= i /\ i <= sections[n][2]
              /\ \A m \in DOMAIN sections \ {n} : i < sections[m][1] \/ sections[m][2] < i
<1> DEFINE starts == Starts(lines)
<1>1. DOMAIN lines = 1 .. Len(lines) /\ Len(lines) \in Nat
  <2> HIDE DEF LineKind
  <2> QED
    OBVIOUS
<1>2. ASSUME NEW j \in starts PROVE j \in 1 .. Len(lines) /\ ~InFence(lines, j)
  <2>1. j \in 1 .. Len(lines) /\ (j = 1 \/ OpensSection(lines, j))
    BY <1>1 DEF Starts
  <2>2. CASE j = 1
    <3>1. {k \in 1 .. j - 1 : lines[k] = "fence"} = {}
      BY <2>2
    <3>2. Cardinality({k \in 1 .. j - 1 : lines[k] = "fence"}) = 0
      BY <3>1, FS_EmptySet
    <3>3. 0 % 2 # 1
      OBVIOUS
    <3> HIDE DEF starts
    <3>4. ~InFence(lines, j)
      BY <3>2, <3>3, Zenon DEF InFence
    <3> QED
      BY <2>1, <3>4
  <2>3. CASE OpensSection(lines, j)
    BY <2>1, <2>3 DEF OpensSection
  <2> QED
    BY <2>1, <2>2, <2>3
<1>3. ASSUME NEW n \in DOMAIN sections
      PROVE  /\ sections[n][1] \in starts
             /\ sections[n][2] \in sections[n][1] .. Len(lines)
             /\ \A j \in starts : j > sections[n][1] => sections[n][2] < j
             /\ sections[n][2] = Len(lines) \/ sections[n][2] + 1 \in starts
  BY DEF Splits
<1>4. \A i \in starts : \E n \in DOMAIN sections : \A m \in DOMAIN sections :
        sections[m][1] = i <=> m = n
  BY DEF Splits
<1>5. \A i \in DOMAIN lines : 1 \in starts
  BY <1>1 DEF Starts
<1> HIDE DEF starts
<1>6. ASSUME NEW i \in DOMAIN lines
      PROVE  \E n \in DOMAIN sections :
               /\ sections[n][1] <= i /\ i <= sections[n][2]
               /\ \A m \in DOMAIN sections \ {n} : i < sections[m][1] \/ sections[m][2] < i
  <2> DEFINE T == {j \in starts : j <= i}
  <2>1. T \subseteq 0 .. Len(lines) /\ T # {}
    BY <1>1, <1>2, <1>5
  <2>2. PICK a \in T : \A j \in T : j <= a
    <3> HIDE DEF T
    <3> QED
      BY <1>1, <2>1, GreatestNatural
  <2>3. a \in starts /\ a \in 1 .. Len(lines) /\ i \in 1 .. Len(lines) /\ a <= i
    BY <1>1, <1>2
  <2>4. \A j \in starts : j <= i => j <= a
    BY <2>2
  <2> HIDE DEF T
  <2>5. PICK n \in DOMAIN sections : \A m \in DOMAIN sections : sections[m][1] = a <=> m = n
    BY <1>4, <2>3
  <2>6. /\ sections[n][1] = a /\ sections[n][2] \in a .. Len(lines)
        /\ sections[n][2] = Len(lines) \/ sections[n][2] + 1 \in starts
    BY <1>3, <2>5
  <2>7. i <= sections[n][2]
    <3>1. CASE sections[n][2] + 1 \in starts
      <4>1. sections[n][2] + 1 <= i => sections[n][2] + 1 <= a
        BY <2>4, <3>1
      <4> QED
        BY <1>1, <2>3, <2>6, <4>1
    <3>2. CASE sections[n][2] = Len(lines)
      BY <1>1, <2>3, <3>2
    <3> QED
      BY <2>6, <3>1, <3>2
  <2>8. ASSUME NEW m \in DOMAIN sections \ {n} PROVE i < sections[m][1] \/ sections[m][2] < i
    <3> DEFINE b == sections[m][1]
               e == sections[m][2]
    <3>1. b # a
      BY <2>5
    <3>2. b \in starts /\ e \in b .. Len(lines) /\ (a > b => e < a)
      BY <1>3, <2>3
    <3>3. b \in 1 .. Len(lines) /\ (b <= i => b <= a)
      BY <1>2, <2>4, <3>2
    <3> HIDE DEF b, e
    <3>4. i < b \/ e < i
      BY <1>1, <2>3, <3>1, <3>2, <3>3
    <3> QED
      BY <3>4 DEF b, e
  <2> QED
    BY <2>3, <2>6, <2>7, <2>8
<1> QED
  BY <1>2, <1>3, <1>6

-----------------------------------------------------------------------------
(* The sections in the order they are considered: each of them has a place, *)
(* and none comes before the first.                                        *)
LEMMA RankedIsOnto ==
  ASSUME NEW sections, NEW K \in Nat, DOMAIN sections = 1 .. K, score \in [1 .. K -> Nat]
  PROVE  /\ \A n \in 1 .. K : Ranked(sections)[n] \in 1 .. K
         /\ \A i \in 1 .. K : \E n \in 1 .. K : Ranked(sections)[n] = i
         /\ K # 0 => \A j \in 1 .. K : ~Before(j, Ranked(sections)[1])
<1> DEFINE D == DOMAIN sections
           below == [i \in D |-> {j \in D : Before(j, i) /\ j # i}]
           place(n) == CHOOSE i \in D : Cardinality({j \in D : Before(j, i) /\ j # i}) = n - 1
           f == [n \in D |-> place(n)]
<1>1. IsFiniteSet(D) /\ Cardinality(D) = K
  <2>1. IsFiniteSet(1 .. K) /\ Cardinality(1 .. K) = K
    BY FS_Interval
  <2> QED
    BY <2>1
<1>2. Ranked(sections) = f
  BY Zenon DEF Ranked
<1>0. D = 1 .. K
  OBVIOUS
<1> HIDE DEF D
<1>3. ASSUME NEW i \in D, NEW j \in D, i # j
      PROVE  \/ Before(i, j) /\ ~Before(j, i)
             \/ Before(j, i) /\ ~Before(i, j)
  <2>1. i \in Int /\ j \in Int /\ (i < j \/ j < i) /\ score[i] \in Nat /\ score[j] \in Nat
    BY <1>0, <1>3
  <2> QED
    BY <2>1 DEF Before
<1>4. ASSUME NEW i \in D, NEW j \in D, NEW k \in D, Before(i, j), Before(j, k)
      PROVE  Before(i, k)
  <2>1. /\ i \in Int /\ j \in Int /\ k \in Int
        /\ score[i] \in Nat /\ score[j] \in Nat /\ score[k] \in Nat
    BY <1>0
  <2> QED
    BY <1>4, <2>1 DEF Before
<1>5. \A i \in D : below[i] = {j \in D : Before(j, i) /\ j # i}
  OBVIOUS
<1> HIDE DEF below
<1>6. Ranks(below, D)
  <2>1. ASSUME NEW x \in D PROVE below[x] \subseteq D \ {x}
    BY <1>5
  <2>2. ASSUME NEW x \in D, NEW y \in D, Before(x, y), ~Before(y, x)
        PROVE  x \in below[y] /\ below[x] \subseteq below[y]
    <3>1. x # y
      BY <2>2
    <3>2. ASSUME NEW z \in below[x] PROVE z \in below[y]
      <4>1. z \in D /\ Before(z, x)
        BY <1>5, <3>2
      <4>2. Before(z, y)
        BY <1>4, <2>2, <4>1
      <4>3. z # y
        BY <2>2, <4>1
      <4> QED
        BY <1>5, <4>1, <4>2, <4>3
    <3> QED
      BY <1>5, <2>2, <3>1, <3>2
  <2> QED
    BY <1>3, <2>1, <2>2 DEF Ranks
<1>7. \A n \in 0 .. K - 1 : \E x \in D : Cardinality(below[x]) = n
  BY <1>1, <1>6, RankFacts
<1>8. ASSUME NEW n \in D PROVE f[n] \in D /\ Cardinality(below[f[n]]) = n - 1
  <2>1. n - 1 \in 0 .. K - 1
    BY <1>0
  <2>2. \E i \in D : Cardinality({j \in D : Before(j, i) /\ j # i}) = n - 1
    BY <1>5, <1>7, <2>1
  <2>3. place(n) \in D /\ Cardinality({j \in D : Before(j, place(n)) /\ j # place(n)}) = n - 1
    BY <2>2
  <2> HIDE DEF place
  <2>4. f[n] = place(n)
    OBVIOUS
  <2> QED
    BY <1>5, <2>3, <2>4
<1> HIDE DEF f
<1>9. Places(f, below, D)
  BY <1>0, <1>1, <1>8 DEF Places
<1>10. \A p \in D : \E m \in 1 .. K : \A n \in 1 .. K : f[n] = p <=> n = m
  <2>1. \A p \in D : \E m \in 1 .. Cardinality(D) : \A n \in 1 .. Cardinality(D) : f[n] = p <=> n = m
    <3>1. IsFiniteSet(D)
      BY <1>1
    <3> QED
      BY <1>6, <1>9, <3>1, PlaceFacts
  <2> QED
    BY <1>1, <2>1
<1>11. ASSUME K # 0, NEW j \in D PROVE ~Before(j, f[1])
  <2>1. 1 \in D /\ f[1] \in D /\ Cardinality(below[f[1]]) = 0
    BY <1>0, <1>8, <1>11
  <2>2. IsFiniteSet(below[f[1]])
    BY <1>1, <1>5, <2>1, FS_Subset
  <2>3. below[f[1]] = {}
    BY <2>1, <2>2, FS_EmptySet
  <2>4. score[f[1]] \in Nat /\ f[1] \in Int
    BY <1>0, <2>1
  <2>5. ~Before(f[1], f[1])
    BY <2>4 DEF Before
  <2> QED
    BY <1>5, <2>1, <2>3, <2>5
<1> QED
  BY <1>0, <1>2, <1>8, <1>10, <1>11

-----------------------------------------------------------------------------
(* What is chosen of K sections, and how long it is.                       *)
Excerpts(K) == [chosen : SUBSET (1 .. K), used : Nat]

(* Considering a section drops none, and passes it over only if it does    *)
(* not fit beside what was chosen.                                         *)
Considered(s, i, length, t, K) ==
  /\ t \in Excerpts(K) /\ t.chosen # {} /\ s.chosen \subseteq t.chosen
  /\ s.chosen = {} => i \in t.chosen
  /\ s.chosen # {} => s.used <= t.used
  /\ (s.chosen = {} \/ s.used <= budget \/ s.used = Cut) => (t.used <= budget \/ t.used = Cut)
  /\ i \in t.chosen \/ t.used + length + 2 > budget

(* Considering a section does that to any choice of the others.            *)
LEMMA TakeSectionFacts ==
  ASSUME NEW K \in Nat, NEW s \in Excerpts(K), NEW i \in 1 .. K, NEW length \in Nat,
         budget \in Nat
  PROVE  Considered(s, i, length, TakeSection(s, i, length), K)
<1> DEFINE t == TakeSection(s, i, length)
<1> SUFFICES Considered(s, i, length, t, K)
  OBVIOUS
<1> USE DEF Excerpts, Considered
<1>1. s.chosen \in SUBSET (1 .. K) /\ s.used \in Nat /\ Cut = 6
  BY DEF Cut
<1> DEFINE first == IF length > budget THEN (IF budget > Cut THEN budget ELSE Cut) ELSE length
<1>2. CASE s.chosen = {}
  <2>1. t = [chosen |-> {i}, used |-> first]
    BY <1>2 DEF TakeSection
  <2>2. first \in Nat /\ (first <= budget \/ first = Cut)
    BY <1>1
  <2> HIDE DEF first
  <2> QED
    BY <1>2, <2>1, <2>2
<1>3. CASE s.chosen # {} /\ s.used + length + 2 <= budget
  <2>1. t = [chosen |-> s.chosen \cup {i}, used |-> s.used + length + 2]
    BY <1>3 DEF TakeSection
  <2> QED
    BY <1>1, <1>3, <2>1
<1>4. CASE s.chosen # {} /\ ~ (s.used + length + 2 <= budget)
  <2>1. t = s
    BY <1>4 DEF TakeSection
  <2> QED
    BY <1>1, <1>4, <2>1
<1> HIDE DEF t
<1> QED
  BY <1>2, <1>3, <1>4

(* The excerpt of at least one section shows the best one, keeps the budget *)
(* but for the mark of a cut, and leaves nothing out that would have       *)
(* fitted.                                                                 *)
LEMMA ExcerptIsFull ==
  ASSUME NEW lines \in Seq(LineKind), NEW sections, Splits(sections, lines),
         NEW K \in Nat \ {0}, K = Cardinality(Starts(lines)), budget \in Nat,
         score \in [DOMAIN sections -> Nat]
  PROVE  LET excerpt == SelectLessonExcerpt(sections)
         IN  /\ \E n \in excerpt.chosen : \A m \in DOMAIN sections : ~Before(m, n)
             /\ excerpt.used <= budget \/ excerpt.used = Cut
             /\ \A n \in DOMAIN sections \ excerpt.chosen :
                  excerpt.used + Rendered(sections[n]) + 2 > budget
<1> DEFINE S == Excerpts(K)
           place == Ranked(sections)
           none == [chosen |-> {}, used |-> 0]
           take(s, n) == TakeSection(s, place[n], Rendered(sections[place[n]]))
           step == [n \in 1 .. K |-> [s \in S |-> take(s, n)]]
           After(f) == f = [n \in 0 .. K |-> IF n = 0 THEN none ELSE take(f[n - 1], n)]
<1>1. DOMAIN sections = 1 .. K /\ Len(sections) = K
  BY DEF Splits
<1>2. \A n \in 1 .. K : Rendered(sections[n]) \in Nat
  <2>1. Len(lines) \in Nat /\ DOMAIN lines = 1 .. Len(lines)
    <3> HIDE DEF LineKind
    <3> QED
      OBVIOUS
  <2>2. ASSUME NEW n \in 1 .. K PROVE Rendered(sections[n]) \in Nat
    <3> DEFINE a == sections[n][1]
               b == sections[n][2]
    <3>1. a \in Starts(lines) /\ b \in a .. Len(lines)
      BY <1>1 DEF Splits
    <3>2. a \in 1 .. Len(lines)
      BY <2>1, <3>1 DEF Starts
    <3> HIDE DEF a, b
    <3>3. b - a + 1 \in Nat /\ Width \in Nat
      BY <2>1, <3>1, <3>2, LessonAssumption
    <3>4. Width * (b - a + 1) \in Nat
      BY <3>3
    <3> QED
      BY <3>4 DEF Rendered, a, b
  <2> QED
    BY <2>2
<1>3. /\ \A n \in 1 .. K : place[n] \in 1 .. K
      /\ \A i \in 1 .. K : \E n \in 1 .. K : place[n] = i
      /\ \A m \in 1 .. K : ~Before(m, place[1])
  BY <1>1, RankedIsOnto
<1>4. SelectLessonExcerpt(sections) = (CHOOSE f : After(f))[K]
  <2>1. Len(sections) = K
    BY <1>1
  <2> QED
    BY <2>1 DEF SelectLessonExcerpt
<1> HIDE DEF place
<1>5. ASSUME NEW s \in S, NEW n \in 1 .. K
      PROVE  Considered(s, place[n], Rendered(sections[place[n]]), take(s, n), K)
  <2> DEFINE i == place[n]
             length == Rendered(sections[place[n]])
  <2>1. i \in 1 .. K /\ length \in Nat /\ K \in Nat
    BY <1>2, <1>3
  <2> HIDE DEF i, length
  <2>2. Considered(s, i, length, TakeSection(s, i, length), K)
    BY <2>1, TakeSectionFacts
  <2> QED
    BY <2>2 DEF i, length
<1>6. none \in S
  BY DEF Excerpts
<1>7. step \in [1 .. K -> [S -> S]]
  BY <1>5 DEF Considered
<1> HIDE DEF S, none
<1>8. \E f : After(f)
  <2>1. PICK f \in [0 .. K -> S] : Iterates(f, K, none, step)
    <3> HIDE DEF step
    <3> QED
      BY <1>6, <1>7, IterationExists
  <2>2. ASSUME NEW n \in 1 .. K PROVE f[n] = take(f[n - 1], n)
    <3>1. f[n] = step[n][f[n - 1]] /\ f[n - 1] \in S
      <4> HIDE DEF step, take, After
      <4>1. n - 1 \in 0 .. K
        OBVIOUS
      <4> QED
        BY <2>1, <4>1 DEF Iterates
    <3> HIDE DEF take
    <3> QED
      BY <3>1
  <2>3. f[0] = none
    BY <2>1 DEF Iterates
  <2> HIDE DEF take
  <2>4. ASSUME NEW n \in 0 .. K PROVE f[n] = IF n = 0 THEN none ELSE take(f[n - 1], n)
    BY <2>2, <2>3
  <2> QED
    BY <2>4
<1> DEFINE g == CHOOSE f : After(f)
<1>9. After(g)
  <2> HIDE DEF After
  <2> QED
    BY <1>8
<1> HIDE DEF g, take
<1>10. g[0] = none /\ \A n \in 1 .. K : g[n] = take(g[n - 1], n)
  BY <1>9
<1> HIDE DEF After
(* What holds after n of the sections.                                     *)
<1> DEFINE Fits(n) ==
             /\ g[n] \in S /\ (n # 0 => place[1] \in g[n].chosen) /\ (n = 0 => g[n].chosen = {})
             /\ g[n].chosen = {} \/ g[n].used <= budget \/ g[n].used = Cut
             /\ \A k \in 1 .. n : place[k] \in g[n].chosen
                  \/ g[n].used + Rendered(sections[place[k]]) + 2 > budget
           P == {n \in 0 .. K : Fits(n)}
<1>11. 0 \in P
  BY <1>6, <1>10 DEF none
<1>12. ASSUME NEW n \in 0 .. K - 1, n \in P PROVE n + 1 \in P
  <2>1. Fits(n) /\ n + 1 \in 1 .. K /\ n + 1 - 1 = n
    BY <1>12
  <2> DEFINE s == g[n]
             t == g[n + 1]
  <2>2. t = take(s, n + 1)
    BY <1>10, <2>1
  <2>3. /\ t \in S /\ (s.chosen = {} => place[n + 1] \in t.chosen) /\ s.chosen \subseteq t.chosen
        /\ s.chosen # {} => s.used <= t.used
        /\ (s.chosen = {} \/ s.used <= budget \/ s.used = Cut) => (t.used <= budget \/ t.used = Cut)
        /\ place[n + 1] \in t.chosen \/ t.used + Rendered(sections[place[n + 1]]) + 2 > budget
    <3>1. Considered(s, place[n + 1], Rendered(sections[place[n + 1]]), t, K)
      BY <1>5, <2>1, <2>2
    <3> QED
      BY <3>1 DEF Considered, S
  <2>4. s.used \in Nat /\ t.used \in Nat
    BY <2>1, <2>3 DEF S, Excerpts
  <2>5. ASSUME NEW k \in 1 .. n + 1
        PROVE  place[k] \in t.chosen \/ t.used + Rendered(sections[place[k]]) + 2 > budget
    <3>1. CASE k = n + 1
      BY <2>3, <3>1
    <3>2. CASE k # n + 1
      <4>1. k \in 1 .. n /\ n # 0 /\ k \in 1 .. K
        BY <3>2
      <4>2. s.chosen # {} /\ s.used <= t.used
        BY <2>1, <2>3, <4>1
      <4>3. place[k] \in s.chosen \/ s.used + Rendered(sections[place[k]]) + 2 > budget
        BY <2>1, <4>1
      <4>4. Rendered(sections[place[k]]) \in Nat
        BY <1>2, <1>3, <4>1
      <4> HIDE DEF s, t
      <4>5. CASE place[k] \in s.chosen
        BY <2>3, <4>5
      <4>6. CASE s.used + Rendered(sections[place[k]]) + 2 > budget
        BY <2>4, <4>2, <4>4, <4>6
      <4> QED
        BY <4>3, <4>5, <4>6
    <3> QED
      BY <3>1, <3>2
  <2>6. t.used <= budget \/ t.used = Cut
    BY <2>1, <2>3
  <2>7. place[1] \in t.chosen
    BY <2>1, <2>3
  <2>8. n + 1 \in 0 .. K /\ n + 1 # 0
    BY <2>1
  <2> QED
    BY <2>3, <2>5, <2>6, <2>7, <2>8
<1> HIDE DEF P
<1>13. \A n \in 0 .. K : n \in P
  BY <1>11, <1>12, Induction
<1>14. Fits(K)
  BY <1>13 DEF P
<1>15. ASSUME NEW n \in 1 .. K \ g[K].chosen PROVE g[K].used + Rendered(sections[n]) + 2 > budget
  <2>1. PICK m \in 1 .. K : place[m] = n
    BY <1>3
  <2>2. place[m] \in g[K].chosen \/ g[K].used + Rendered(sections[place[m]]) + 2 > budget
    BY <1>14
  <2> QED
    BY <2>1, <2>2
<1>16. SelectLessonExcerpt(sections) = g[K]
  BY <1>4 DEF g, After, take, place, none
<1> QED
  BY <1>1, <1>3, <1>14, <1>15, <1>16

-----------------------------------------------------------------------------
(* A question's excerpt: no section begins inside a code block, each line is *)
(* in one section, the best section is shown, the budget is kept, and       *)
(* nothing is left out that would have fitted beside what was chosen.      *)
THEOREM ExcerptKeepsItsBudget == ExcerptSpec => []ExcerptFits
<1>1. ExcerptInv => ExcerptFits
  <2> SUFFICES ASSUME ExcerptInv, lesson # <<>> PROVE ExcerptFits
    BY Zenon DEF ExcerptFits
  <2> DEFINE lines == StripScriptMarkers(lesson)
             sections == SplitLessonSections(lines)
             K == Cardinality(Starts(lines))
  <2>1. lesson \in Lesson /\ budget \in Budgets /\ Width * Len(lines) > budget
        /\ score \in [DOMAIN sections -> Nat]
    BY DEF ExcerptInv
  <2>2. lines \in Seq(LineKind)
    BY <2>1, StrippedIsSequence
  <2>3. budget \in Nat \ {0} /\ Width \in Nat
    BY <2>1, LessonAssumption
  <2> HIDE DEF lines
  <2>4. Splits(sections, lines) /\ IsFiniteSet(Starts(lines))
    BY <2>2, SectionsSplit
  <2> HIDE DEF sections
  <2>5. K \in Nat \ {0}
    <3>1. Len(lines) \in Nat /\ DOMAIN lines = 1 .. Len(lines)
      <4> HIDE DEF LineKind
      <4> QED
        BY <2>2
    <3>2. Len(lines) # 0
      BY <2>1, <2>3
    <3>3. 1 \in Starts(lines)
      BY <3>1, <3>2 DEF Starts
    <3> QED
      BY <2>4, <3>3, FS_EmptySet, FS_CardinalityType
  <2>6. /\ \A n \in DOMAIN sections : ~InFence(lines, sections[n][1])
        /\ \A i \in DOMAIN lines : \E n \in DOMAIN sections :
             /\ sections[n][1] <= i /\ i <= sections[n][2]
             /\ \A m \in DOMAIN sections \ {n} : i < sections[m][1] \/ sections[m][2] < i
    BY <2>2, <2>4, SectionsPartition
  <2>7. LET excerpt == SelectLessonExcerpt(sections)
        IN  /\ \E n \in excerpt.chosen : \A m \in DOMAIN sections : ~Before(m, n)
            /\ excerpt.used <= budget \/ excerpt.used = Cut
            /\ \A n \in DOMAIN sections \ excerpt.chosen :
                 excerpt.used + Rendered(sections[n]) + 2 > budget
    BY <2>1, <2>2, <2>3, <2>4, <2>5, ExcerptIsFull
  <2> QED
    BY <2>6, <2>7, Zenon DEF ExcerptFits, lines, sections
<1> QED
  BY <1>1, ExcerptInvariant, PTL

-----------------------------------------------------------------------------
(* ANALYTICS.  the numbers the operators see. *)

(* An order of some elements extends to one of all of them: first by the    *)
(* number of those ahead, then by any numbering.                           *)
LEMMA OrderExtends ==
  ASSUME NEW S, IsFiniteSet(S), NEW ahead,
         \A x \in S : ahead[x] \subseteq S \ {x},
         \A x, y \in S : x \in ahead[y] => ahead[x] \subseteq ahead[y]
  PROVE  \E below : Ranks(below, S) /\ \A x \in S : ahead[x] \subseteq below[x]
<1>1. PICK number \in [S -> Nat] : \A x, y \in S : number[x] = number[y] => x = y
  <2>1. PICK n \in Nat : ExistsBijection(1 .. n, S)
    BY FS_NatBijection
  <2>2. PICK f \in Bijection(1 .. n, S) : TRUE
    BY <2>1 DEF ExistsBijection
  <2>3. f \in [1 .. n -> S] /\ \A x \in S : \E i \in 1 .. n : f[i] = x
    BY <2>2 DEF Bijection, Surjection
  <2> DEFINE number == [x \in S |-> CHOOSE i \in 1 .. n : f[i] = x]
  <2>4. \A x \in S : number[x] \in 1 .. n /\ f[number[x]] = x
    BY <2>3
  <2>5. number \in [S -> Nat]
    BY <2>4
  <2> HIDE DEF number
  <2>6. \A x, y \in S : number[x] = number[y] => x = y
    BY <2>4
  <2> QED
    BY <2>5, <2>6
<1> DEFINE c == [x \in S |-> Cardinality(ahead[x])]
           below == [x \in S |-> {y \in S : c[y] < c[x] \/ (c[y] = c[x] /\ number[y] < number[x])}]
<1>2. ASSUME NEW x \in S PROVE IsFiniteSet(ahead[x]) /\ c[x] \in Nat
  <2>1. IsFiniteSet(ahead[x])
    BY FS_Subset
  <2> QED
    BY <2>1, FS_CardinalityType
<1>3. ASSUME NEW x \in S, NEW y \in S, x \in ahead[y] PROVE c[x] < c[y]
  <2>1. ahead[x] \subseteq ahead[y] /\ ahead[x] # ahead[y]
    BY <1>3
  <2>2. Cardinality(ahead[x]) <= Cardinality(ahead[y])
        /\ Cardinality(ahead[x]) # Cardinality(ahead[y])
    BY <1>2, <2>1, FS_Subset
  <2>3. c[x] <= c[y] /\ c[x] # c[y]
    BY <2>2
  <2> HIDE DEF c
  <2> QED
    BY <1>2, <2>3
<1> HIDE DEF c
<1>4. \A x \in S : c[x] \in Nat /\ number[x] \in Nat
  BY <1>1, <1>2
<1>5. \A x, y \in S : y \in below[x] <=> c[y] < c[x] \/ (c[y] = c[x] /\ number[y] < number[x])
  OBVIOUS
<1>6. \A x \in S : below[x] \subseteq S
  OBVIOUS
<1> HIDE DEF below
<1>7. \A x \in S : below[x] \subseteq S \ {x}
  BY <1>4, <1>5, <1>6
<1>8. ASSUME NEW x \in S, NEW y \in S, x # y
      PROVE  \/ x \in below[y] /\ below[x] \subseteq below[y]
             \/ y \in below[x] /\ below[y] \subseteq below[x]
  <2>1. x \in below[y] \/ y \in below[x]
    <3>1. number[x] # number[y]
      BY <1>1, <1>8
    <3> QED
      BY <1>4, <1>5, <3>1
  <2>2. \A v, w, z \in S : v \in below[w] /\ z \in below[v] => z \in below[w]
    BY <1>4, <1>5
  <2>3. \A v, w \in S : v \in below[w] => below[v] \subseteq below[w]
    BY <1>6, <2>2
  <2> QED
    BY <2>1, <2>3
<1>9. Ranks(below, S)
  BY <1>7, <1>8 DEF Ranks
<1>10. \A x \in S : ahead[x] \subseteq below[x]
  BY <1>3, <1>5
<1> QED
  BY <1>9, <1>10

(* A list sorted by an order has every element, none behind one it is ahead *)
(* of.                                                                     *)
LEMMA SortedListFacts ==
  ASSUME NEW S, IsFiniteSet(S), NEW ahead,
         \A x \in S : ahead[x] \subseteq S \ {x},
         \A x, y \in S : x \in ahead[y] => ahead[x] \subseteq ahead[y]
  PROVE  LET list == SortedList(S, ahead)
         IN  /\ list \in [1 .. Cardinality(S) -> S]
             /\ \A x \in S : \E i \in DOMAIN list : list[i] = x
             /\ \A i, j \in DOMAIN list : list[i] \in ahead[list[j]] => i < j
<1> DEFINE N == Cardinality(S)
           Sorts(list) == /\ \A x \in S : \E i \in DOMAIN list : list[i] = x
                          /\ \A i, j \in DOMAIN list : list[i] \in ahead[list[j]] => i < j
<1>1. N \in Nat
  BY FS_CardinalityType
<1>2. PICK below : Ranks(below, S) /\ \A x \in S : ahead[x] \subseteq below[x]
  BY OrderExtends
<1> DEFINE list == [n \in 1 .. N |-> CHOOSE x \in S : Cardinality(below[x]) = n - 1]
<1>3. \A n \in 0 .. N - 1 : \E x \in S : Cardinality(below[x]) = n
  BY <1>2, RankFacts
<1>4. ASSUME NEW n \in 1 .. N PROVE list[n] \in S /\ Cardinality(below[list[n]]) = n - 1
  <2>1. n - 1 \in 0 .. N - 1
    BY <1>1
  <2>2. \E x \in S : Cardinality(below[x]) = n - 1
    BY <1>3, <2>1
  <2> QED
    BY <2>2
<1>5. list \in [1 .. N -> S]
  BY <1>4
<1> HIDE DEF list
<1>6. Places(list, below, S)
  BY <1>4 DEF Places
<1>7. /\ \A m, n \in 1 .. N : list[m] \in below[list[n]] <=> m < n
      /\ \A x \in S : \E m \in 1 .. N : \A n \in 1 .. N : list[n] = x <=> n = m
  BY <1>2, <1>6, PlaceFacts
<1>8. \A x \in S : \E i \in 1 .. N : list[i] = x
  BY <1>7
<1>9. \A i, j \in 1 .. N : list[i] \in ahead[list[j]] => i < j
  BY <1>2, <1>5, <1>7
<1>10. Sorts(list)
  BY <1>5, <1>8, <1>9
<1>11. \E l \in [1 .. N -> S] : Sorts(l)
  BY <1>5, <1>10
<1>12. SortedList(S, ahead) = CHOOSE l \in [1 .. N -> S] : Sorts(l)
  BY DEF SortedList
<1> HIDE DEF Sorts
<1>13. SortedList(S, ahead) \in [1 .. N -> S] /\ Sorts(SortedList(S, ahead))
  BY <1>11, <1>12
<1> QED
  BY <1>13 DEF Sorts

-----------------------------------------------------------------------------
(* The rows are rows.                                                      *)
AnalyticsInv == rows \in Seq(Row)

(* The operators read rows of the kinds the services write.                *)
THEOREM AnalyticsInvariant == AnalyticsSpec => []AnalyticsInv
<1>1. AnalyticsInit => AnalyticsInv
  BY DEF AnalyticsInit, AnalyticsInv
<1>2. ASSUME AnalyticsInv, [AnalyticsNext]_analyticsVars PROVE AnalyticsInv'
  <2>1. CASE UNCHANGED analyticsVars
    BY <1>2, <2>1 DEF AnalyticsInv, analyticsVars
  <2>2. ASSUME NEW r \in Row, Insert(r) PROVE AnalyticsInv'
    <3> DEFINE T == Row
    <3> HIDE DEF T
    <3>1. rows \in Seq(T) /\ r \in T
      BY <1>2 DEF AnalyticsInv, T
    <3>2. Append(rows, r) \in Seq(T)
      BY <3>1, AppendFacts
    <3> QED
      BY <2>2, <3>2 DEF Insert, AnalyticsInv, T
  <2> QED
    BY <1>2, <2>1, <2>2 DEF AnalyticsNext
<1> QED
  BY <1>1, <1>2, PTL DEF AnalyticsSpec

(* Rows are finitely many, and each is about a student.                    *)
LEMMA RowFacts ==
  ASSUME AnalyticsInv
  PROVE  /\ DOMAIN rows = 1 .. Len(rows) /\ Len(rows) \in Nat /\ IsFiniteSet(DOMAIN rows)
         /\ \A i \in DOMAIN rows : rows[i].who \in Learner
         /\ IsFiniteSet(Learner) /\ Cardinality(Learner) \in Nat \ {0}
<1>1. DOMAIN rows = 1 .. Len(rows) /\ Len(rows) \in Nat /\ \A i \in DOMAIN rows : rows[i] \in Row
  <2> DEFINE T == Row
  <2> HIDE DEF T
  <2>1. rows \in Seq(T)
    BY DEF AnalyticsInv, T
  <2>2. DOMAIN rows = 1 .. Len(rows) /\ Len(rows) \in Nat /\ \A i \in DOMAIN rows : rows[i] \in T
    BY <2>1
  <2> QED
    BY <2>2 DEF T
<1>2. \A r \in Row : r.who \in Learner
  BY DEF Row
<1>3. IsFiniteSet(1 .. Len(rows))
  BY <1>1, FS_Interval
<1>4. IsFiniteSet(Learner) /\ Cardinality(Learner) \in Nat /\ Cardinality(Learner) # 0
  BY AnalyticsAssumption, FS_CardinalityType, FS_EmptySet
<1> QED
  BY <1>1, <1>2, <1>3, <1>4

(* Rows count as many, their students as at most as many as there are;     *)
(* more rows have the same students or more.                               *)
LEMMA StudentsFacts ==
  ASSUME AnalyticsInv, NEW T, T \subseteq DOMAIN rows, NEW S, S \subseteq T
  PROVE  /\ IsFiniteSet(S) /\ IsFiniteSet(T) /\ Cardinality(S) \in Nat /\ Cardinality(T) \in Nat
         /\ Cardinality(S) <= Cardinality(T)
         /\ Students(S) \subseteq Students(T)
         /\ IsFiniteSet(Students(S)) /\ IsFiniteSet(Students(T))
         /\ Cardinality(Students(S)) \in Nat /\ Cardinality(Students(T)) \in Nat
         /\ Cardinality(Students(S)) <= Cardinality(Students(T))
         /\ Cardinality(Students(T)) <= Cardinality(Learner)
<1>1. IsFiniteSet(DOMAIN rows) /\ IsFiniteSet(Learner)
  BY RowFacts
<1>2. IsFiniteSet(T)
  BY <1>1, FS_Subset
<1>3. IsFiniteSet(S) /\ Cardinality(S) <= Cardinality(T)
  BY <1>2, FS_Subset
<1>4. Students(T) \subseteq Learner /\ Students(S) \subseteq Students(T)
  BY RowFacts DEF Students
<1>5. IsFiniteSet(Students(T)) /\ Cardinality(Students(T)) <= Cardinality(Learner)
  BY <1>1, <1>4, FS_Subset
<1>6. IsFiniteSet(Students(S)) /\ Cardinality(Students(S)) <= Cardinality(Students(T))
  BY <1>4, <1>5, FS_Subset
<1> QED
  BY <1>2, <1>3, <1>4, <1>5, <1>6, FS_CardinalityType

(* Rounding half up does not leave the numbers up to a bound.               *)
LEMMA RoundedBound ==
  ASSUME NEW n \in Nat, NEW d \in Nat \ {0}, NEW c \in Nat, n <= c * d
  PROVE  Rounded(n, d) \in 0 .. c
<1> DEFINE x == 2 * n + d
           y == 2 * d
<1>1. x \in Nat /\ y \in Nat \ {0}
  OBVIOUS
<1>2. Rounded(n, d) = x \div y
  BY DEF Rounded
<1>3. c * d \in Nat /\ (c + 1) * y = 2 * (c * d) + 2 * d /\ c + 1 \in Nat
  OBVIOUS
<1>4. x < (c + 1) * y
  BY <1>3
<1> HIDE DEF x, y
<1>5. Rounded(n, d) < c + 1 /\ Rounded(n, d) \in Nat
  BY <1>1, <1>2, <1>3, <1>4, QuotientBelow, QuotientFacts
<1> QED
  BY <1>5

(* A number of something rounds to a number.                               *)
LEMMA RoundedType ==
  ASSUME NEW n \in Nat, NEW d \in Nat \ {0}
  PROVE  Rounded(n, d) \in Nat
<1> DEFINE x == 2 * n + d
           y == 2 * d
<1>1. x \in Nat /\ y \in Nat \ {0} /\ Rounded(n, d) = x \div y
  BY DEF Rounded
<1> HIDE DEF x, y
<1> QED
  BY <1>1, QuotientFacts

(* More rounds to no less.                                                 *)
LEMMA RoundedMonotone ==
  ASSUME NEW m \in Nat, NEW n \in Nat, m <= n, NEW d \in Nat \ {0}
  PROVE  Rounded(m, d) <= Rounded(n, d)
<1> DEFINE w == 2 * m + d
           x == 2 * n + d
           y == 2 * d
<1>1. w \in Nat /\ x \in Nat /\ w <= x /\ y \in Nat \ {0}
  OBVIOUS
<1>2. Rounded(m, d) = w \div y /\ Rounded(n, d) = x \div y
  BY DEF Rounded
<1> HIDE DEF w, x, y
<1> QED
  BY <1>1, <1>2, QuotientMonotone

(* A share is a number.                                                    *)
LEMMA PercentType ==
  ASSUME NEW n \in Nat, NEW d \in Nat
  PROVE  PercentOf(n, d) \in Nat
<1>1. CASE d = 0
  BY <1>1 DEF PercentOf
<1>2. CASE d # 0
  <2>1. d \in Nat \ {0} /\ 1000 * n \in Nat
    BY <1>2
  <2>2. Rounded(1000 * n, d) \in Nat
    BY <2>1, RoundedType
  <2> QED
    BY <1>2, <2>2 DEF PercentOf
<1> QED
  BY <1>1, <1>2

(* The share of a part is a percentage.                                    *)
LEMMA PercentBound ==
  ASSUME NEW n \in Nat, NEW d \in Nat, n <= d
  PROVE  PercentOf(n, d) \in 0 .. 1000
<1>1. CASE d = 0
  BY <1>1 DEF PercentOf
<1>2. CASE d # 0
  <2>1. d \in Nat \ {0} /\ 1000 * n \in Nat /\ 1000 \in Nat /\ 1000 * n <= 1000 * d
    BY <1>2
  <2>2. Rounded(1000 * n, d) \in 0 .. 1000
    <3> DEFINE x == 1000 * n
               c == 1000
    <3>1. x \in Nat /\ c \in Nat /\ x <= c * d
      BY <2>1
    <3> HIDE DEF x, c
    <3>2. Rounded(x, d) \in 0 .. c
      BY <2>1, <3>1, RoundedBound, Zenon
    <3> QED
      BY <3>2 DEF x, c
  <2> QED
    BY <1>2, <2>2 DEF PercentOf
<1> QED
  BY <1>1, <1>2

(* The share of more is not less.                                          *)
LEMMA PercentMonotone ==
  ASSUME NEW m \in Nat, NEW n \in Nat, m <= n, NEW d \in Nat
  PROVE  PercentOf(m, d) <= PercentOf(n, d)
<1>1. CASE d = 0
  BY <1>1 DEF PercentOf
<1>2. CASE d # 0
  <2>1. d \in Nat \ {0} /\ 1000 * m \in Nat /\ 1000 * n \in Nat /\ 1000 * m <= 1000 * n
    BY <1>2
  <2>2. Rounded(1000 * m, d) <= Rounded(1000 * n, d)
    BY <2>1, RoundedMonotone
  <2> QED
    BY <1>2, <2>2 DEF PercentOf
<1> QED
  BY <1>1, <1>2

(* The rows of a unit are among the rows of their kinds.                    *)
LEMMA KindFacts ==
  ASSUME NEW J, NEW K, J \subseteq K, NEW u
  PROVE  /\ Rows(J, u) \subseteq Rows(K, u) /\ Rows(J, u) \subseteq OfKind(K)
         /\ OfKind(J) \subseteq OfKind(K)
         /\ Passing(Rows(J, u)) \subseteq Rows(J, u)
         /\ Passing(Rows(J, u)) \subseteq Passing(OfKind(K))
         /\ Rows(J, u) \subseteq DOMAIN rows /\ OfKind(J) \subseteq DOMAIN rows
         /\ Passing(OfKind(J)) \subseteq OfKind(J)
BY DEF Rows, OfKind, Passing

(* Of a unit's students those who completed it are counted, and the         *)
(* drop-off is the share of the others.                                    *)
LEMMA UnitFacts ==
  ASSUME AnalyticsInv, NEW u
  PROVE  /\ Completed(u) \subseteq Started(u)
         /\ IsFiniteSet(Started(u)) /\ Cardinality(Started(u)) \in Nat
         /\ Completions(u) = Cardinality(Completed(u)) /\ Completions(u) \in Nat
         /\ Completed(u) # {} => Completions(u) > 0
         /\ EffectiveStarts(u) = Cardinality(Started(u)) /\ EffectiveStarts(u) \in Nat
         /\ DropOff(u) = PercentOf(Cardinality(Started(u) \ Completed(u)), Cardinality(Started(u)))
         /\ DropOff(u) \in 0 .. 1000 /\ DropOff(u) \in Nat
<1> DEFINE S == Started(u)
           C == Completed(u)
           A == Rows({"submission", "practice"}, u)
<1>1. C \subseteq S /\ IsFiniteSet(S) /\ IsFiniteSet(C)
  <2>1. {"submission", "practice"} \subseteq WithUnit
    BY DEF WithUnit
  <2>2. A \subseteq Rows(WithUnit, u) /\ Passing(A) \subseteq A /\ Rows(WithUnit, u) \subseteq DOMAIN rows
    BY <2>1, KindFacts
  <2>3. Passing(A) \subseteq Rows(WithUnit, u)
    BY <2>2
  <2> QED
    BY <2>2, <2>3, StudentsFacts DEF Started, Completed
<1> HIDE DEF S, C
<1>2. Cardinality(S) \in Nat /\ Cardinality(C) \in Nat /\ Cardinality(C) <= Cardinality(S)
  BY <1>1, FS_Subset, FS_CardinalityType
<1>3. C # {} => Cardinality(C) > 0
  <2>1. Cardinality(C) = 0 <=> C = {}
    BY <1>1, FS_EmptySet
  <2> QED
    BY <1>2, <2>1
<1>4. Cardinality(S \ C) = Cardinality(S) - Cardinality(C)
  <2>1. S \cap C = C
    BY <1>1
  <2> QED
    BY <1>1, <2>1, FS_Difference
<1>5. Completions(u) = Cardinality(C)
  BY <1>2 DEF Completions, Least, S, C
<1>6. EffectiveStarts(u) = Cardinality(S)
  BY <1>2, <1>5 DEF EffectiveStarts, Greatest, S
<1>7. DropOff(u) = PercentOf(Cardinality(S \ C), Cardinality(S))
  BY <1>4, <1>5, <1>6 DEF DropOff
<1>8. DropOff(u) \in 0 .. 1000
  <2>1. Cardinality(S \ C) \in Nat /\ Cardinality(S \ C) <= Cardinality(S)
    BY <1>2, <1>4
  <2>2. PercentOf(Cardinality(S \ C), Cardinality(S)) \in 0 .. 1000
    BY <1>2, <2>1, PercentBound, Zenon
  <2> QED
    BY <1>7, <2>2
<1> QED
  BY <1>1, <1>2, <1>3, <1>5, <1>6, <1>7, <1>8 DEF S, C

(* The share of first drills that failed is one.                           *)
LEMMA RetrievalFacts ==
  ASSUME AnalyticsInv, NEW u
  PROVE  RetrievalFail(u) \in 0 .. 1000
<1> DEFINE D == FirstDrills(u)
           F == D \ Passing(D)
<1>1. D \subseteq DOMAIN rows
  BY KindFacts DEF FirstDrills
<1>2. F \subseteq D
  OBVIOUS
<1> HIDE DEF D
<1>3. Cardinality(F) \in Nat /\ Cardinality(D) \in Nat /\ Cardinality(F) <= Cardinality(D)
  BY <1>1, <1>2, StudentsFacts
<1>4. RetrievalFail(u) = PercentOf(Cardinality(F), Cardinality(D))
  BY DEF RetrievalFail, D
<1> HIDE DEF F
<1>5. PercentOf(Cardinality(F), Cardinality(D)) \in 0 .. 1000
  BY <1>3, PercentBound, Zenon
<1> QED
  BY <1>4, <1>5

(* Who completed a unit needed one attempt or more.                        *)
LEMMA AttemptFacts ==
  ASSUME AnalyticsInv, NEW u
  PROVE  AvgAttempts(u) \in Nat /\ (AvgAttempts(u) >= 100 \/ Completed(u) = {})
<1> DEFINE total == Cardinality(Rows({"submission", "practice"}, u))
           done  == Completions(u)
           starts == EffectiveStarts(u)
<1>1. total \in Nat
  <2>1. Rows({"submission", "practice"}, u) \subseteq DOMAIN rows
    BY KindFacts
  <2> QED
    BY <2>1, StudentsFacts
<1>2. done \in Nat /\ starts \in Nat /\ (Completed(u) # {} => done > 0)
  <2>1. /\ Completions(u) \in Nat /\ EffectiveStarts(u) \in Nat
        /\ Completed(u) # {} => Completions(u) > 0
    <3> HIDE DEF total, done, starts
    <3>1. Completions(u) \in Nat /\ EffectiveStarts(u) \in Nat
      BY UnitFacts, Zenon
    <3>2. Completed(u) # {} => Completions(u) > 0
      BY UnitFacts, Zenon
    <3> QED
      BY <3>1, <3>2
  <2> QED
    BY <2>1
<1>3. AvgAttempts(u) = CASE done > 0 -> Greatest(100, Rounded(100 * total, done))
                         [] done = 0 /\ starts > 0 /\ total > 0 -> Rounded(100 * total, starts)
                         [] OTHER -> 100
  BY DEF AvgAttempts
<1> HIDE DEF total, done, starts
<1>4. \A d \in Nat \ {0} : Rounded(100 * total, d) \in Nat
  <2>1. 100 * total \in Nat
    BY <1>1
  <2> QED
    BY <2>1, RoundedType
<1>5. CASE done > 0
  <2>1. Rounded(100 * total, done) \in Nat
    BY <1>2, <1>4, <1>5
  <2>2. AvgAttempts(u) = Greatest(100, Rounded(100 * total, done))
    BY <1>3, <1>5
  <2> QED
    BY <2>1, <2>2 DEF Greatest
<1>6. CASE done = 0 /\ starts > 0 /\ total > 0
  <2>1. AvgAttempts(u) = Rounded(100 * total, starts)
    BY <1>3, <1>6
  <2>2. starts \in Nat \ {0}
    BY <1>2, <1>6
  <2> QED
    BY <1>2, <1>4, <1>6, <2>1, <2>2
<1>7. CASE done = 0 /\ ~ (starts > 0 /\ total > 0)
  <2>1. AvgAttempts(u) = 100
    BY <1>3, <1>7
  <2> QED
    BY <2>1
<1> QED
  BY <1>2, <1>5, <1>6, <1>7

(* The weights of a friction score add up to one.                          *)
LEMMA FrictionFacts ==
  ASSUME AnalyticsInv, NEW u
  PROVE  Friction(u) \in 0 .. 1000
<1> DEFINE turns == Cardinality(Rows({"concierge"}, u))
           a == Clamped(DropOff(u))
           b == Clamped(RetrievalFail(u))
           c == Least(3000, 10 * Greatest(0, AvgAttempts(u) - 100))
           d == Clamped(100 * turns)
           sum == 120 * a + 90 * b + 20 * c + 30 * d
<1>1. turns \in Nat
  <2>1. Rows({"concierge"}, u) \subseteq DOMAIN rows
    BY KindFacts
  <2> QED
    BY <2>1, StudentsFacts
<1>2. \A x \in Int : Clamped(x) \in 0 .. 1000
  BY DEF Clamped, Greatest, Least
<1>3. a \in 0 .. 1000 /\ b \in 0 .. 1000 /\ d \in 0 .. 1000
  <2>1. DropOff(u) \in Int /\ RetrievalFail(u) \in Int
    <3>1. DropOff(u) \in Nat
      BY UnitFacts, Zenon
    <3>2. RetrievalFail(u) \in 0 .. 1000
      BY RetrievalFacts
    <3> QED
      BY <3>1, <3>2
  <2>2. 100 * turns \in Int
    BY <1>1
  <2>3. Clamped(DropOff(u)) \in 0 .. 1000 /\ Clamped(RetrievalFail(u)) \in 0 .. 1000
    BY <1>2, <2>1
  <2> DEFINE x == 100 * turns
  <2>4. x \in Int
    BY <2>2
  <2> HIDE DEF x
  <2>5. Clamped(x) \in 0 .. 1000
    BY <1>2, <2>4
  <2> QED
    BY <2>3, <2>5 DEF x
<1>4. c \in 0 .. 3000
  BY AttemptFacts DEF Least, Greatest
<1>5. Friction(u) = Rounded(sum, 300)
  BY DEF Friction, FrictionScore
<1> HIDE DEF a, b, c, d
<1>6. sum \in Nat /\ sum <= 1000 * 300
  BY <1>3, <1>4
<1> HIDE DEF sum
<1>7. Rounded(sum, 300) \in 0 .. 1000
  <2> DEFINE weight == 300
             most == 1000
  <2>1. weight \in Nat \ {0} /\ most \in Nat /\ sum <= most * weight
    BY <1>6
  <2> HIDE DEF weight, most
  <2>2. Rounded(sum, weight) \in 0 .. most
    BY <1>6, <2>1, RoundedBound, Zenon
  <2> QED
    BY <2>2 DEF weight, most
<1> QED
  BY <1>5, <1>7

(* No unit scores worse than the first of the breakdown.                    *)
LEMMA WorstFacts ==
  ASSUME AnalyticsInv
  PROVE  /\ DropoffBreakdown[1] \in Module
         /\ \A u \in Module : Friction(DropoffBreakdown[1]) >= Friction(u)
<1> DEFINE friction == [u \in Module |-> Friction(u)]
           dropOff  == [u \in Module |-> DropOff(u)]
           starts   == [u \in Module |-> EffectiveStarts(u)]
           ahead == [v \in Module |-> {u \in Module :
             \/ friction[u] > friction[v]
             \/ friction[u] = friction[v] /\ dropOff[u] > dropOff[v]
             \/ friction[u] = friction[v] /\ dropOff[u] = dropOff[v] /\ starts[u] > starts[v]}]
           list == SortedList(Module, ahead)
           N == Cardinality(Module)
<1>1. DropoffBreakdown = list
  BY DEF DropoffBreakdown
<1>2. \A u \in Module : friction[u] \in Nat /\ dropOff[u] \in Nat /\ starts[u] \in Nat
  <2> SUFFICES ASSUME NEW u \in Module
               PROVE  Friction(u) \in Nat /\ DropOff(u) \in Nat /\ EffectiveStarts(u) \in Nat
    OBVIOUS
  <2>1. DropOff(u) \in Nat /\ EffectiveStarts(u) \in Nat
    BY UnitFacts, Zenon
  <2>2. Friction(u) \in 0 .. 1000
    BY FrictionFacts
  <2> QED
    BY <2>1, <2>2
<1>3. IsFiniteSet(Module) /\ N \in Nat /\ N # 0
  <2>1. IsFiniteSet(Module) /\ Module # {}
    BY AnalyticsAssumption
  <2> QED
    BY <2>1, FS_CardinalityType, FS_EmptySet
<1>4. \A u \in Module : friction[u] = Friction(u)
  OBVIOUS
<1> HIDE DEF friction, dropOff, starts
<1>5. \A u, v \in Module : u \in ahead[v] <=>
        \/ friction[u] > friction[v]
        \/ friction[u] = friction[v] /\ dropOff[u] > dropOff[v]
        \/ friction[u] = friction[v] /\ dropOff[u] = dropOff[v] /\ starts[u] > starts[v]
  OBVIOUS
<1>6. \A v \in Module : ahead[v] \subseteq Module
  OBVIOUS
<1> HIDE DEF ahead
<1>7. \A v \in Module : ahead[v] \subseteq Module \ {v}
  BY <1>2, <1>5, <1>6
<1>8. \A u, v \in Module : u \in ahead[v] => ahead[u] \subseteq ahead[v]
  <2>1. \A u, v, w \in Module : u \in ahead[v] /\ w \in ahead[u] => w \in ahead[v]
    BY <1>2, <1>5
  <2> QED
    BY <1>6, <2>1
<1>9. /\ list \in [1 .. N -> Module]
      /\ \A x \in Module : \E i \in DOMAIN list : list[i] = x
      /\ \A i, j \in DOMAIN list : list[i] \in ahead[list[j]] => i < j
  BY <1>3, <1>7, <1>8, SortedListFacts
<1> HIDE DEF list
<1>10. 1 \in DOMAIN list /\ DOMAIN list = 1 .. N
  BY <1>3, <1>9
<1>11. list[1] \in Module
  BY <1>9, <1>10
<1>12. ASSUME NEW u \in Module PROVE friction[list[1]] >= friction[u]
  <2>1. PICK j \in 1 .. N : list[j] = u
    BY <1>9, <1>10
  <2>2. ~ (j < 1)
    BY <1>3
  <2>3. u \notin ahead[list[1]]
    BY <1>9, <1>10, <2>1, <2>2
  <2> QED
    BY <1>2, <1>5, <1>11, <2>3
<1> QED
  BY <1>1, <1>4, <1>11, <1>12

(* Failures are listed by their number.                                    *)
LEMMA ModesFacts ==
  ASSUME AnalyticsInv, NEW u
  PROVE  LET modes == FailureModes(u)
         IN  \A i, j \in DOMAIN modes : i < j => modes[i].occurrences >= modes[j].occurrences
<1> DEFINE mode(kind) == [of |-> kind, occurrences |-> Cardinality(FailuresOf(u, kind)),
                          samples |-> Least(3, Cardinality(FailuresOf(u, kind)))]
           kinds == {k \in {"submission", "practice"} : FailuresOf(u, k) # {}}
           S == {mode(kind) : kind \in kinds}
           ahead == [m \in S |-> {l \in S : l.occurrences > m.occurrences}]
           list == SortedList(S, ahead)
<1>1. FailureModes(u) = list
  BY DEF FailureModes
<1>2. \A kind : Cardinality(FailuresOf(u, kind)) \in Nat
  <2> SUFFICES ASSUME NEW kind PROVE Cardinality(FailuresOf(u, kind)) \in Nat
    OBVIOUS
  <2>1. FailuresOf(u, kind) \subseteq DOMAIN rows
    BY KindFacts DEF FailuresOf
  <2> QED
    BY <2>1, StudentsFacts
<1>3. \A m \in S : m.occurrences \in Nat
  BY <1>2
<1>4. IsFiniteSet(S)
  <2> DEFINE one == {mode("submission")}
             two == {mode("practice")}
  <2>1. S \subseteq one \cup two
    OBVIOUS
  <2> HIDE DEF mode, S
  <2>2. IsFiniteSet(one) /\ IsFiniteSet(two)
    BY FS_Singleton
  <2> HIDE DEF one, two
  <2>3. IsFiniteSet(one \cup two)
    BY <2>2, FS_Union
  <2> QED
    BY <2>1, <2>3, FS_Subset
<1> HIDE DEF S
<1>5. \A m \in S : ahead[m] \subseteq S
  OBVIOUS
<1>6. \A l, m \in S : l \in ahead[m] <=> l.occurrences > m.occurrences
  OBVIOUS
<1> HIDE DEF ahead
<1>7. \A m \in S : ahead[m] \subseteq S \ {m}
  BY <1>3, <1>5, <1>6
<1>8. \A l, m \in S : l \in ahead[m] => ahead[l] \subseteq ahead[m]
  <2>1. \A k, l, m \in S : l \in ahead[m] /\ k \in ahead[l] => k \in ahead[m]
    BY <1>3, <1>6
  <2> QED
    BY <1>5, <2>1
<1>9. /\ list \in [1 .. Cardinality(S) -> S]
      /\ \A i, j \in DOMAIN list : list[i] \in ahead[list[j]] => i < j
  BY <1>4, <1>7, <1>8, SortedListFacts
<1>10. Cardinality(S) \in Nat
  BY <1>4, FS_CardinalityType
<1> HIDE DEF list
<1>11. ASSUME NEW i \in DOMAIN list, NEW j \in DOMAIN list, i < j
       PROVE  list[i].occurrences >= list[j].occurrences
  <2>1. list[i] \in S /\ list[j] \in S /\ i \in Nat /\ j \in Nat
    BY <1>9, <1>10
  <2>2. list[j] \notin ahead[list[i]]
    BY <1>9, <1>11, <2>1
  <2> QED
    BY <1>3, <1>6, <2>1, <2>2
<1> QED
  BY <1>1, <1>11

(* The stages of the funnel are students; who completed a unit is active    *)
(* and has passed, and who passed the capstone is in the last two stages.   *)
LEMMA FunnelFacts ==
  ASSUME AnalyticsInv
  PROVE  /\ \A stage \in 1 .. 6 : /\ Funnel[stage] \subseteq Learner /\ IsFiniteSet(Funnel[stage])
                                  /\ Cardinality(Funnel[stage]) \in 0 .. Cardinality(Learner)
         /\ \A u : Completed(u) \subseteq Funnel[3] \cap Funnel[4]
         /\ Students(Passing(Rows({"submission"}, CapstoneUnit))) \subseteq Funnel[5] \cap Funnel[6]
<1> DEFINE D == OfKind({"diagnostic"})
           A == OfKind({"submission", "practice", "retrieval", "concierge"})
           P == Passing(OfKind({"submission", "practice"})) \cup OfKind({"unlock"})
           G == OfKind({"gate"}) \cup UNION {Passing(Rows({"submission"}, u)) : u \in PhaseUnits}
           C == OfKind({"defense"}) \cup Passing(Rows({"submission"}, CapstoneUnit))
<1>1. Funnel = <<Learner, Students(D), Students(A), Students(P), Students(G), Students(C)>>
  BY DEF Funnel
<1>2. D \subseteq DOMAIN rows /\ A \subseteq DOMAIN rows /\ P \subseteq DOMAIN rows
      /\ G \subseteq DOMAIN rows /\ C \subseteq DOMAIN rows
  BY DEF OfKind, Passing, Rows
<1>3. ASSUME NEW u PROVE Completed(u) \subseteq Students(A) \cap Students(P)
  <2> DEFINE B == Passing(Rows({"submission", "practice"}, u))
  <2>1. B \subseteq A /\ B \subseteq P
    BY DEF Passing, Rows, OfKind
  <2>2. Completed(u) = Students(B)
    BY DEF Completed
  <2> HIDE DEF B, A, P
  <2> QED
    BY <2>1, <2>2 DEF Students
<1>4. Students(Passing(Rows({"submission"}, CapstoneUnit))) \subseteq Students(G) \cap Students(C)
  <2> DEFINE B == Passing(Rows({"submission"}, CapstoneUnit))
  <2>1. B \subseteq G /\ B \subseteq C
    BY AnalyticsAssumption
  <2> HIDE DEF B, G, C
  <2> QED
    BY <2>1 DEF Students, B
<1> HIDE DEF D, A, P, G, C
<1>5. \A S : S \subseteq DOMAIN rows => Students(S) \subseteq Learner
  BY RowFacts DEF Students
<1>6. ASSUME NEW S, S \subseteq Learner
      PROVE  IsFiniteSet(S) /\ Cardinality(S) \in 0 .. Cardinality(Learner)
  <2>1. IsFiniteSet(S) /\ Cardinality(S) <= Cardinality(Learner) /\ Cardinality(Learner) \in Nat
    BY <1>6, RowFacts, FS_Subset
  <2>2. Cardinality(S) \in Nat
    BY <2>1, FS_CardinalityType
  <2> QED
    BY <2>1, <2>2
<1>7. ASSUME NEW stage \in 1 .. 6 PROVE Funnel[stage] \subseteq Learner
  <2>1. stage \in {1, 2, 3, 4, 5, 6}
    OBVIOUS
  <2>2. /\ Funnel[1] = Learner /\ Funnel[2] = Students(D) /\ Funnel[3] = Students(A)
        /\ Funnel[4] = Students(P) /\ Funnel[5] = Students(G) /\ Funnel[6] = Students(C)
    BY <1>1
  <2> QED
    BY <1>2, <1>5, <2>1, <2>2
<1>8. Funnel[3] = Students(A) /\ Funnel[4] = Students(P) /\ Funnel[5] = Students(G) /\ Funnel[6] = Students(C)
  BY <1>1
<1> HIDE DEF Funnel
<1> QED
  BY <1>3, <1>4, <1>6, <1>7, <1>8

(* The rates of the summary are percentages.                               *)
LEMMA SummaryFacts ==
  ASSUME AnalyticsInv
  PROVE  /\ \A n \in Nat : ActiveRate(n) \in 0 .. 1000
         /\ \A n \in Nat \ {0} : ActiveRate(n) <= ActiveRate(n - 1)
         /\ PodCompliance(Learner) \in 0 .. 1000
<1> DEFINE K == OfKind({"submission", "practice", "retrieval", "concierge", "post", "simulation"})
           Since(n) == {i \in K : i > n}
           all == Cardinality(Learner)
<1>1. all \in Nat \ {0} /\ K \subseteq DOMAIN rows /\ \A i \in K : i \in Nat
  BY RowFacts DEF OfKind
<1>2. \A n : ActiveRate(n) = PercentOf(Cardinality(Students(Since(n))), all)
  BY DEF ActiveRate
<1> HIDE DEF K
<1>3. ASSUME NEW n \in Nat PROVE ActiveRate(n) \in 0 .. 1000
  <2>1. Since(n) \subseteq DOMAIN rows
    BY <1>1
  <2> HIDE DEF Since, all
  <2>2. /\ Cardinality(Students(Since(n))) \in Nat
        /\ Cardinality(Students(Since(n))) <= all
    BY <2>1, StudentsFacts DEF all
  <2>3. PercentOf(Cardinality(Students(Since(n))), all) \in 0 .. 1000
    BY <1>1, <2>2, PercentBound, Zenon
  <2> QED
    BY <1>2, <2>3
<1>4. ASSUME NEW n \in Nat \ {0} PROVE ActiveRate(n) <= ActiveRate(n - 1)
  <2>1. Since(n - 1) \subseteq DOMAIN rows /\ Since(n) \subseteq Since(n - 1)
    BY <1>1
  <2> DEFINE s == Cardinality(Students(Since(n)))
             t == Cardinality(Students(Since(n - 1)))
  <2>2. ActiveRate(n) = PercentOf(s, all) /\ ActiveRate(n - 1) = PercentOf(t, all)
    BY <1>2
  <2> HIDE DEF Since, all
  <2>3. s \in Nat /\ t \in Nat /\ s <= t
    BY <2>1, StudentsFacts
  <2> HIDE DEF s, t
  <2>4. PercentOf(s, all) <= PercentOf(t, all)
    BY <1>1, <2>3, PercentMonotone, Zenon
  <2> QED
    BY <2>2, <2>4
<1>5. PodCompliance(Learner) \in 0 .. 1000
  <2> DEFINE S == {i \in OfKind({"post"}) : rows[i].who \in Learner}
             p == PercentOf(Cardinality(S), all)
  <2>1. S \subseteq DOMAIN rows
    BY DEF OfKind
  <2>2. Learner # {}
    BY AnalyticsAssumption
  <2>3. PodCompliance(Learner) = Least(1000, p)
    BY <2>2 DEF PodCompliance
  <2> HIDE DEF S
  <2>4. Cardinality(S) \in Nat
    BY <2>1, StudentsFacts
  <2> HIDE DEF all
  <2>5. p \in Nat
    BY <1>1, <2>4, PercentType
  <2> HIDE DEF p
  <2> QED
    BY <2>3, <2>5 DEF Least
<1> QED
  BY <1>3, <1>4, <1>5

(* The rates of the funnel are percentages, the last two at least the one   *)
(* of the capstone.                                                        *)
LEMMA RateFacts ==
  ASSUME AnalyticsInv
  PROVE  /\ \A stage \in 1 .. 6 : Conversion[stage] \in 0 .. 1000
         /\ \A stage \in 2 .. 6 : StageDropOff[stage] \in 0 .. 1000
         /\ CapstoneRate <= Conversion[5] /\ CapstoneRate <= Conversion[6]
<1> DEFINE all == Cardinality(Learner)
           c(stage) == Cardinality(Funnel[stage])
<1>1. all \in Nat /\ \A stage \in 1 .. 6 : c(stage) \in Nat /\ c(stage) <= all
  BY RowFacts, FunnelFacts
<1>2. \A stage \in 1 .. 6 : Conversion[stage] = PercentOf(c(stage), all)
  BY DEF Conversion
<1>3. \A stage \in 2 .. 6 :
        StageDropOff[stage] = PercentOf(Greatest(0, c(stage - 1) - c(stage)), all)
  BY DEF StageDropOff
<1> HIDE DEF all, c
<1>4. ASSUME NEW stage \in 1 .. 6 PROVE Conversion[stage] \in 0 .. 1000
  <2> DEFINE m == c(stage)
  <2>1. all \in Nat /\ m \in Nat /\ m <= all
    BY <1>1
  <2>2. Conversion[stage] = PercentOf(m, all)
    BY <1>2
  <2> HIDE DEF m
  <2>3. PercentOf(m, all) \in 0 .. 1000
    BY <2>1, PercentBound
  <2> QED
    BY <2>2, <2>3
<1>5. ASSUME NEW stage \in 2 .. 6 PROVE StageDropOff[stage] \in 0 .. 1000
  <2> DEFINE lost == Greatest(0, c(stage - 1) - c(stage))
  <2>1. c(stage - 1) \in Nat /\ c(stage - 1) <= all /\ c(stage) \in Nat
    BY <1>1
  <2>2. lost \in Nat /\ lost <= all
    BY <1>1, <2>1 DEF Greatest
  <2>3. StageDropOff[stage] = PercentOf(lost, all)
    BY <1>3
  <2> HIDE DEF lost
  <2>4. PercentOf(lost, all) \in 0 .. 1000
    BY <1>1, <2>2, PercentBound, Zenon
  <2> QED
    BY <2>3, <2>4
<1>6. ASSUME NEW stage \in {5, 6} PROVE CapstoneRate <= Conversion[stage]
  <2> DEFINE S == Students(Passing(Rows({"submission"}, CapstoneUnit)))
             s == Cardinality(S)
  <2>1. S \subseteq Funnel[stage] /\ IsFiniteSet(Funnel[stage]) /\ stage \in 1 .. 6
    BY FunnelFacts
  <2>2. CapstoneRate = PercentOf(s, all)
    BY DEF CapstoneRate, all
  <2> HIDE DEF S
  <2>3. IsFiniteSet(S) /\ s <= c(stage)
    BY <2>1, FS_Subset DEF c
  <2>4. s \in Nat
    BY <2>3, FS_CardinalityType
  <2> HIDE DEF s
  <2>5. PercentOf(s, all) <= PercentOf(c(stage), all)
    BY <1>1, <2>1, <2>3, <2>4, PercentMonotone, Zenon
  <2> QED
    BY <1>2, <2>1, <2>2, <2>5
<1> QED
  BY <1>4, <1>5, <1>6

(* The numbers agree with each other and with the students they count, for  *)
(* any curriculum, students and rows: drop-offs are shares of who started,  *)
(* funnel stages keep who passes, rates are percentages, and the bottleneck *)
(* scores worst.                                                           *)
THEOREM MetricsAreConsistent == AnalyticsSpec => []MetricsConsistent
<1>1. ASSUME AnalyticsInv PROVE MetricsConsistent
  <2> DEFINE friction == [u \in Module |-> Friction(u)]
             worst == DropoffBreakdown[1]
  <2>1. ASSUME NEW u \in Module
        PROVE  /\ DropOff(u) = PercentOf(Cardinality(Started(u) \ Completed(u)), Cardinality(Started(u)))
               /\ friction[u] \in 0 .. 1000 /\ RetrievalFail(u) \in 0 .. 1000
               /\ AvgAttempts(u) >= 100 \/ Completed(u) = {}
               /\ Completed(u) \subseteq Funnel[3] \cap Funnel[4]
               /\ friction[worst] >= friction[u]
               /\ LET modes == FailureModes(u) IN \A i, j \in DOMAIN modes :
                    i < j => modes[i].occurrences >= modes[j].occurrences
    <3>1. DropOff(u) = PercentOf(Cardinality(Started(u) \ Completed(u)), Cardinality(Started(u)))
      BY <1>1, UnitFacts, Zenon
    <3>2. friction[u] \in 0 .. 1000 /\ RetrievalFail(u) \in 0 .. 1000
      BY <1>1, FrictionFacts, RetrievalFacts
    <3>3. AvgAttempts(u) >= 100 \/ Completed(u) = {}
      BY <1>1, AttemptFacts
    <3>4. Completed(u) \subseteq Funnel[3] \cap Funnel[4]
      BY <1>1, FunnelFacts
    <3>5. friction[worst] >= friction[u]
      BY <1>1, WorstFacts
    <3>6. LET modes == FailureModes(u) IN \A i, j \in DOMAIN modes :
            i < j => modes[i].occurrences >= modes[j].occurrences
      BY <1>1, ModesFacts, Zenon
    <3> QED
      BY <3>1, <3>2, <3>3, <3>4, <3>5, <3>6
  <2>2. /\ \A stage \in 1 .. 6 : Conversion[stage] \in 0 .. 1000
        /\ \A stage \in 2 .. 6 : StageDropOff[stage] \in 0 .. 1000
        /\ CapstoneRate <= Conversion[6] /\ CapstoneRate <= Conversion[5]
    BY <1>1, RateFacts
  <2>3. ASSUME NEW n \in 1 .. Len(rows) PROVE ActiveRate(n) \in 0 .. ActiveRate(n - 1)
    <3>1. n \in Nat \ {0} /\ n - 1 \in Nat
      BY <1>1, RowFacts
    <3>2. \A m \in Nat : ActiveRate(m) \in 0 .. 1000
      BY <1>1, SummaryFacts
    <3> DEFINE a == ActiveRate(n)
               b == ActiveRate(n - 1)
    <3>3. a \in 0 .. 1000
      BY <3>1, <3>2
    <3>4. b \in 0 .. 1000
      BY <3>1, <3>2
    <3>5. a <= b
      BY <1>1, <3>1, SummaryFacts
    <3> HIDE DEF a, b
    <3>6. a \in 0 .. b
      BY <3>3, <3>4, <3>5
    <3> QED
      BY <3>6 DEF a, b
  <2>4. ActiveRate(0) \in 0 .. 1000 /\ PodCompliance(Learner) \in 0 .. 1000
    BY <1>1, SummaryFacts
  <2> QED
    BY <2>1, <2>2, <2>3, <2>4, Zenon DEF MetricsConsistent
<1> QED
  BY <1>1, AnalyticsInvariant, PTL
=============================================================================

------------------------------ MODULE Assessment ------------------------------
(***************************************************************************)
(* The two graders that ask a model for a verdict per rubric criterion: the *)
(* conceptual judge of the practice server, and the judge CLI the worker    *)
(* runs, with its calibration and the gate for rubric changes.  A reply is  *)
(* Malformed (no JSON object) or a record: the entries <<id, verdict>> in   *)
(* their order, the poorest evidence among them, and the model's own        *)
(* overall.  Both graders read the same replies here.                       *)
(***************************************************************************)
EXTENDS Integers, Sequences, FiniteSets

CONSTANTS
  Criterion,       \* the ids of the rubric
  UnknownId,       \* an id it does not have
  Malformed,
  MaxEntries,      \* bounds the entries of a reply
  MaxGolden        \* bounds the golden set

ASSUME CriterionAssumption == IsFiniteSet(Criterion) /\ Criterion # {} /\ UnknownId \notin Criterion
ASSUME AssessmentBounds == MaxEntries \in Nat /\ MaxGolden \in Nat

Grade   == {"pass", "fail"}
Entry   == (Criterion \X Grade) \cup {<<UnknownId, "pass">>}
             \cup (Criterion \X {"unclear", "missing"})
Reply   == [entries : UNION {[1 .. n -> Entry] : n \in 0 .. MaxEntries},
            evidence : {"given", "empty", "missing"}, overall : Grade]

VARIABLES
  asked,        \* how many replies were given
  accepted,     \* the reply that each of the graders took its verdict from
  conceptual,   \* what grade_conceptual_completion_answer made of them
  cli,          \* what judge made of them
  report        \* the calibration report of a candidate rubric

assessmentVars == <<asked, accepted, conceptual, cli, report>>

AssessmentInit ==
  /\ asked = 0 /\ accepted = [conceptual |-> Malformed, cli |-> Malformed]
  /\ conceptual = "open" /\ cli = "open"
  /\ report = [total |-> 0]

Ids(r)      == {r.entries[i][1] : i \in DOMAIN r.entries}
AllPass(r)  == \A i \in DOMAIN r.entries : r.entries[i][2] = "pass"
Recomputed(r) == IF AllPass(r) THEN "pass" ELSE "fail"

-----------------------------------------------------------------------------
(* Faulty variant: unknown and doubled ids are refused, missing ones not.  *)
ConceptualContractPartial(r) ==
  /\ r # Malformed
  /\ r.entries # <<>>
  /\ Ids(r) \subseteq Criterion
  /\ Cardinality(Ids(r)) = Len(r.entries)
  /\ \A i \in DOMAIN r.entries : r.entries[i][2] \in Grade

(* extract_conceptual_verdict_json: every criterion exactly once; evidence  *)
(* need not be given.                                                      *)
ConceptualContract(r) ==
  /\ r # Malformed
  /\ r.entries # <<>>
  /\ Ids(r) = Criterion
  /\ Cardinality(Ids(r)) = Len(r.entries)
  /\ \A i \in DOMAIN r.entries : r.entries[i][2] \in Grade

(* grade_conceptual_completion_answer: anything else is nudged once.       *)
ConceptualReads(r) ==
  IF conceptual # "open" THEN conceptual
  ELSE IF ConceptualContract(r) THEN Recomputed(r)
  ELSE IF asked = 0 THEN "open" ELSE "malformed"

(* judge() copies the fields of each entry, and no one catches the KeyError *)
(* of a field that is not there (an entry without a verdict stands for one  *)
(* without an id and for a list that is none).                             *)
LacksField(r) ==
  \E i \in DOMAIN r.entries : r.entries[i][2] = "missing" \/ r.evidence = "missing"

(* verdict.schema.json and the checks of judge(): doubled ids are let in,  *)
(* evidence must be given, and the model must agree with the recomputed    *)
(* overall.                                                                *)
CliContract(r) ==
  /\ r.entries # <<>> /\ r.evidence = "given"
  /\ \A i \in DOMAIN r.entries : r.entries[i][2] \in Grade
  /\ Ids(r) = Criterion
  /\ r.overall = Recomputed(r)

(* call_with_json_retry: only a reply that is not JSON is nudged.          *)
CliReads(r) ==
  IF cli # "open" THEN cli
  ELSE IF r = Malformed THEN IF asked = 0 THEN "open" ELSE "error"
  ELSE IF LacksField(r) THEN "crash"
  ELSE IF CliContract(r) THEN Recomputed(r) ELSE "error"

Answer(r) ==
  /\ asked < 2 /\ "open" \in {conceptual, cli} /\ report.total = 0
  /\ asked' = asked + 1
  /\ conceptual' = ConceptualReads(r)
  /\ cli' = CliReads(r)
  /\ accepted' = [conceptual |-> IF conceptual = "open" /\ conceptual' \in Grade
                                    THEN r ELSE accepted.conceptual,
                   cli |-> IF cli = "open" /\ cli' \in Grade THEN r ELSE accepted.cli]
  /\ UNCHANGED report

(* No reply comes.                                                         *)
Stop(conceptualOutcome, cliOutcome) ==
  /\ asked < 2 /\ "open" \in {conceptual, cli} /\ report.total = 0
  /\ asked' = 2
  /\ conceptual' = IF conceptual = "open" THEN conceptualOutcome ELSE conceptual
  /\ cli' = IF cli = "open" THEN cliOutcome ELSE cli
  /\ UNCHANGED <<accepted, report>>

(* The proxy refuses the student: both graders stop.                       *)
BudgetExceeded == Stop("budget_exceeded", "budget_exceeded")

(* An error status or no connection; or a response without choices, which  *)
(* call_model of the CLI does not expect.                                  *)
UpstreamFails == Stop("upstream_error", "error") \/ Stop("upstream_error", "crash")

(* The exit code of the CLI; an uncaught exception ends Python with 1, too. *)
ExitCode(outcome) ==
  CASE outcome = "pass" -> 0 [] outcome \in {"fail", "crash"} -> 1
    [] outcome = "error" -> 2 [] outcome = "budget_exceeded" -> 3

(* run_judge: any code but two is a GradeError, that of a failing verdict,  *)
(* too.                                                                    *)
WorkerOutcome(code) ==
  CASE code = 0 -> "pass" [] code = 3 -> "budget_exceeded" [] OTHER -> "error"

-----------------------------------------------------------------------------
Ceiling(a, b) == (a + b - 1) \div b

(* A percentage with two places, in hundredths; a zero base gives 0.       *)
Percent(part, whole) == IF whole = 0 THEN 0 ELSE (20000 * part + whole) \div (2 * whole)

(* run_calibration, a process of its own: a graded submission matches the  *)
(* reference or misses it, the others are errors; criteria are counted     *)
(* over the graded ones.                                                   *)
Summary(total, errors, matches, criteria, agreed) ==
  [total |-> total, errors |-> errors, overall_matches |-> matches,
   overall_agreement_pct |-> Percent(matches, total - errors),
   criterion_total |-> criteria, criterion_matches |-> agreed]

(* Faulty variant: agreement over the graded ones, and errors overlooked.  *)
GatePassesIgnoringErrors(s) ==
  /\ s.overall_matches >= Ceiling(14 * (s.total - s.errors), 15)
  /\ s.criterion_matches >= Ceiling(72 * s.criterion_total, 75)

(* gate.evaluate                                                           *)
GatePasses(s) ==
  /\ s.errors = 0
  /\ s.overall_matches >= Ceiling(14 * s.total, 15)
  /\ s.criterion_matches >= Ceiling(72 * s.criterion_total, 75)

(* calibrate.main                                                          *)
Calibrated(s) == s.errors = 0 /\ s.overall_agreement_pct >= 9000

Calibrate(total, errors, matches, agreed) ==
  /\ report.total = 0 /\ asked = 0
  /\ report' = Summary(total, errors, matches, 5 * (total - errors), agreed)
  /\ UNCHANGED <<asked, accepted, conceptual, cli>>

(* resolve_active_rubric: the highest number, not the last name.           *)
ActiveRubric(versions) == CHOOSE v \in versions : \A w \in versions : w <= v

-----------------------------------------------------------------------------
AssessmentNext ==
  \/ asked < 2 /\ \E r \in Reply \cup {Malformed} : Answer(r)
  \/ BudgetExceeded \/ UpstreamFails
  \/ \E total \in 1 .. MaxGolden : \E errors \in 0 .. 1 : \E matches \in 0 .. total - errors :
       \E missed \in 0 .. 4 :
         /\ missed <= 5 * (total - errors)
         /\ Calibrate(total, errors, matches, 5 * (total - errors) - missed)

AssessmentSpec == AssessmentInit /\ [][AssessmentNext]_assessmentVars

-----------------------------------------------------------------------------
CriterionPasses(r, c) ==
  /\ \E i \in DOMAIN r.entries : r.entries[i] = <<c, "pass">>
  /\ \A i \in DOMAIN r.entries : r.entries[i][1] = c => r.entries[i][2] = "pass"

(* No grader passes a submission unless the reply it accepted passes each   *)
(* criterion of the rubric, however often the reply names it and whatever   *)
(* overall the model claims; graders that accept the same reply agree; and  *)
(* the worker takes nothing but a pass for a pass, and nothing but a        *)
(* refused budget for one, though a crash and a failing verdict share a     *)
(* code.                                                                   *)
PassNeedsEveryCriterion ==
  /\ conceptual = "pass" => \A c \in Criterion : CriterionPasses(accepted.conceptual, c)
  /\ cli = "pass" => \A c \in Criterion : CriterionPasses(accepted.cli, c)
  /\ accepted.conceptual = accepted.cli /\ {conceptual, cli} \subseteq Grade => conceptual = cli
  /\ cli # "open" => \A outcome \in {"pass", "budget_exceeded"} :
                       WorkerOutcome(ExitCode(cli)) = outcome <=> cli = outcome

(* A candidate rubric that passes the regression gate would pass the        *)
(* calibration it is derived from, at every size of the golden set: no      *)
(* rounding of the two thresholds lets one through.                        *)
GateStricterThanCalibration == report.total # 0 /\ GatePasses(report) => Calibrated(report)
=============================================================================

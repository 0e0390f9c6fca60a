------------------------------ MODULE Placement ------------------------------
(***************************************************************************)
(* practice/server.py: the placement diagnostic of one student.  It is      *)
(* scored without a judge, may be taken again or declined, and opens units. *)
(***************************************************************************)
EXTENDS Integers, Sequences, FiniteSets, Functions

CONSTANTS
  Question,        \* the questions of the specification in content/diagnostic
  Points,          \* what each is worth
  KeyTo,           \* its correct answer; Blank if the specification has none
  Option, Blank,   \* what a student can submit, Blank for nothing
  Threshold,       \* passing_threshold_pct, in hundredths
  PassSkipUnits, FailBaselineUnits,
  MaxAttempts      \* bound: times the student takes or declines it

ASSUME PlacementAssumption ==
  /\ IsFiniteSet(Question)
  /\ Points \in [Question -> Nat] /\ KeyTo \in [Question -> Option \cup {Blank}]
  /\ Blank \notin Option /\ Threshold \in 0 .. 10000 /\ MaxAttempts \in Nat

VARIABLES
  attempts,        \* diagnostic_attempts
  unlocked,        \* unlocked_units of the student
  placements       \* diagnostic.completed and diagnostic.placed events

placementVars == <<attempts, unlocked, placements>>

PlacementInit == attempts = <<>> /\ unlocked = {} /\ placements = <<>>

Correct(answers) == {q \in Question : answers[q] = KeyTo[q] /\ answers[q] # Blank}

PointsOf(questions) == SumFunctionOnSet(Points, questions)

(* score_pct, rounded to hundredths of a percent.                          *)
ScorePct(answers) ==
  IF PointsOf(Question) = 0 THEN 0
  ELSE (20000 * PointsOf(Correct(answers)) + PointsOf(Question)) \div (2 * PointsOf(Question))

(* evaluate_diagnostic                                                     *)
EvaluateDiagnostic(answers) ==
  LET passed == ScorePct(answers) >= Threshold
  IN [score    |-> ScorePct(answers),
      earned   |-> PointsOf(Correct(answers)),
      possible |-> PointsOf(Question),
      passed   |-> passed,
      route    |-> IF passed THEN "1.3_skip" ELSE "baseline_0.1",
      units    |-> IF passed THEN PassSkipUnits ELSE FailBaselineUnits]

(* Faulty variant: the opened units replace what the student had.          *)
RecordReplaces(attempt, types) ==
  /\ attempt.possible > 0
  /\ attempts' = Append(attempts, attempt)
  /\ unlocked' = attempt.units
  /\ placements' = placements \o [i \in DOMAIN types |->
       [type |-> types[i], attempt |-> Len(attempts) + 1, passed |-> attempt.passed]]

(* The attempt, the units it opens and its events, in one transaction; the *)
(* table refuses an attempt at nothing, and the student gets an error.     *)
Record(attempt, types) ==
  /\ attempt.possible > 0
  /\ attempts' = Append(attempts, attempt)
  /\ unlocked' = unlocked \cup attempt.units
  /\ placements' = placements \o [i \in DOMAIN types |->
       [type |-> types[i], attempt |-> Len(attempts) + 1, passed |-> attempt.passed]]

(* _handle_diagnostic_evaluate                                             *)
DiagnosticEvaluate(answers) ==
  /\ Len(attempts) < MaxAttempts
  /\ Record(EvaluateDiagnostic(answers), <<"diagnostic.completed", "diagnostic.placed">>)

(* _handle_diagnostic_opt_out: points_possible is the number of questions. *)
DiagnosticOptOut ==
  /\ Len(attempts) < MaxAttempts
  /\ Record([score |-> 0, earned |-> 0, possible |-> Cardinality(Question), passed |-> FALSE,
             route |-> "opt_out", units |-> FailBaselineUnits], <<"diagnostic.placed">>)

(* _handle_get_diagnostic_attempts: the latest first.                      *)
DiagnosticAttempts == [i \in DOMAIN attempts |-> attempts[Len(attempts) + 1 - i]]

PlacementNext ==
  \/ \E answers \in [Question -> Option \cup {Blank}] : DiagnosticEvaluate(answers)
  \/ DiagnosticOptOut

PlacementSpec == PlacementInit /\ [][PlacementNext]_placementVars

-----------------------------------------------------------------------------
(* Placement is earned and kept: whoever submits nothing is not placed       *)
(* ahead, a further right answer never costs a placement, and a retake or   *)
(* an opt-out after a pass takes no unit away, nor adds one that no attempt  *)
(* opened.  What the events say is what was stored.  (With a threshold of 0 *)
(* whoever submits nothing passes and whoever opts out does not.)          *)
PlacementSound ==
  /\ \A i \in DOMAIN attempts :
       /\ attempts[i].passed => attempts[i].earned > 0 \/ Threshold = 0
       /\ \A j \in DOMAIN attempts : /\ attempts[i].earned <= attempts[j].earned
                                     /\ attempts[i].passed
                                     => \/ attempts[j].passed
                                        \/ (attempts[j].route = "opt_out" /\ Threshold = 0)
       /\ attempts[i].units \subseteq unlocked
       /\ \E e \in DOMAIN placements :
            placements[e] = [type |-> "diagnostic.placed", attempt |-> i,
                             passed |-> attempts[i].passed]
  /\ \A u \in unlocked : \E i \in DOMAIN attempts : u \in attempts[i].units
  /\ attempts # <<>> => \A answers \in [Question -> Option \cup {Blank}] :
       /\ ScorePct(answers) \in 0 .. 10000
       /\ Correct(answers) = {} => ~EvaluateDiagnostic(answers).passed \/ Threshold = 0
       /\ (\A q \in Question : answers[q] = Blank) => ScorePct(answers) = 0
=============================================================================

---------------------------- MODULE PracticeRoute ----------------------------
(***************************************************************************)
(* practice/server.py: the adaptive route of a student through a unit,     *)
(* derived on every read from the attempt history.  A history is all that  *)
(* derive_unit_practice_route looks at: D is the set of pairs <<seed,      *)
(* passed>> of the retrieval attempts, C the set of the outcomes of the    *)
(* completion attempts.                                                    *)
(***************************************************************************)
EXTENDS Integers, FiniteSets

CONSTANT Seed            \* the indexes of the unit's retrieval seeds

ASSUME SeedAssumption == Seed \subseteq Nat /\ IsFiniteSet(Seed)

(* An attempt on a seed the unit no longer has does not count.             *)
PassedSeeds(D)  == {i \in Seed : <<i, TRUE>> \in D}
FailedEver(D)   == {i \in Seed : <<i, FALSE>> \in D}
ActiveFailed(D) == FailedEver(D) \ PassedSeeds(D)
AllPassed(D)    == PassedSeeds(D) = Seed /\ Seed # {}

FastPassEligible(D) == FailedEver(D) = {}

(* A clean sweep: every seed passed and none of them ever failed.          *)
FastPass(D) == AllPassed(D) /\ FastPassEligible(D)

(* Faulty variant: the latest outcome decides, not any pass.               *)
CompletedIfNoFail(C) == C = {TRUE}

Completed(C)        == TRUE \in C
CompletionFailed(C) == C # {} /\ ~Completed(C)
ScaffoldActive(D, C) == ActiveFailed(D) # {} \/ CompletionFailed(C)

(* scaffold_callout: the last failed drill comes before the completion.    *)
Callout(D, C) ==
  CASE ActiveFailed(D) # {} ->
         [type |-> "drill_retry",
          seed |-> CHOOSE i \in ActiveFailed(D) : \A j \in ActiveFailed(D) : j <= i]
    [] ActiveFailed(D) = {} /\ CompletionFailed(C) -> [type |-> "completion_retry"]
    [] OTHER -> [type |-> "none"]

RetrievalStep(D) ==
  CASE AllPassed(D) -> "done"
    [] ActiveFailed(D) # {} -> "retry"
    [] OTHER -> "current"

(* Faulty variant: a clean sweep hides the scaffold of a failed completion. *)
WorkedExampleFastFirst(D, C) ==
  CASE FastPass(D) -> "optional"
    [] ~FastPass(D) /\ Completed(C) -> "done"
    [] ~FastPass(D) /\ ~Completed(C) /\ ScaffoldActive(D, C) -> "scaffold"
    [] OTHER -> IF AllPassed(D) THEN "current" ELSE "upcoming"

WorkedExampleStep(D, C) ==
  CASE Completed(C) -> IF FastPass(D) THEN "optional" ELSE "done"
    [] ~Completed(C) /\ ScaffoldActive(D, C) -> "scaffold"
    [] ~Completed(C) /\ ~ScaffoldActive(D, C) ->
         IF FastPass(D) THEN "optional" ELSE IF AllPassed(D) THEN "current" ELSE "upcoming"

CompletionStep(D, C) ==
  CASE Completed(C) -> "done"
    [] CompletionFailed(C) -> "retry"
    [] C = {} -> IF FastPass(D) THEN "current" ELSE "upcoming"

(* The overall status; the first rule that applies wins.                   *)
RouteStatus(D, C) ==
  CASE Completed(C) -> "completed"
    [] ~Completed(C) /\ ScaffoldActive(D, C) -> "scaffold_active"
    [] ~Completed(C) /\ ~ScaffoldActive(D, C) ->
         IF FastPass(D) THEN "fast_pass" ELSE IF AllPassed(D) THEN "standard" ELSE "in_progress"

RecommendedStep(D, C) ==
  CASE RouteStatus(D, C) = "completed" -> "build"
    [] RouteStatus(D, C) \in {"scaffold_active", "standard"} -> "worked_example"
    [] RouteStatus(D, C) = "fast_pass" -> "completion"
    [] RouteStatus(D, C) = "in_progress" -> "retrieval"

(* derive_concierge_mode                                                   *)
ConciergeMode(status) == IF status = "completed" THEN "guard" ELSE "teach"

(* The step the route recommends is one the student can act on.            *)
RecommendedIsOpen(D, C) ==
  CASE RecommendedStep(D, C) = "worked_example" ->
         WorkedExampleStep(D, C) \in {"scaffold", "current"}
    [] RecommendedStep(D, C) = "completion" -> CompletionStep(D, C) = "current"
    [] RecommendedStep(D, C) = "retrieval" ->
         RetrievalStep(D) # "done" /\ (Seed = {} \/ PassedSeeds(D) # Seed)
    [] OTHER -> Completed(C)
=============================================================================

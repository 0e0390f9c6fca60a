------------------------------ MODULE LearningMC ------------------------------
(* The parts that decide what a student is told to learn and whether it was *)
(* learned (re-checks, graders, lesson excerpts, sandboxed checks, placement, *)
(* the operators' numbers), and what students do beside the course          *)
(* (simulations, pods, digests, the gallery).  Their models share no        *)
(* variable - a row one service writes and another reads, as the unlocked   *)
(* units are, changes freely in the reader's model - so each behaviour is   *)
(* about one of them, the subject.                                         *)
EXTENDS Recheck, Assessment, LessonExcerpt, Sandbox, Placement, Analytics,
        Simulation, Pods, Digests, Gallery, TLC

VARIABLE subject

CONSTANTS d1, d2, l1, l2, p1, p2, p3   \* model values: threads and students

ActorSymmetry == Permutations({d1, d2}) \cup Permutations({l1, l2}) \cup Permutations({p1, p2, p3})

learning  == <<recheckVars, assessmentVars, excerptVars, sandboxVars, placementVars,
               analyticsVars>>
community == <<simulationVars, podsVars, digestsVars, galleryVars>>
vars      == <<learning, community, subject>>

Criteria == {"a", "b"}
TwoChecks == <<"exit_nonzero", "output_contains">>
Questions == {"q1", "q2", "q3"}
Worth     == [q \in Questions |-> IF q = "q1" THEN 3 ELSE 1]
Keys      == [q \in Questions |-> IF q = "q3" THEN "" ELSE "a"]
Messages  == {{"vague"},
              {"metrics", "cost", "security", "jargon", "value", "risk", "rollout"}}

Init ==
  /\ subject \in {"recheck", "assessment", "excerpt", "sandbox", "placement", "analytics",
                  "simulation", "pods", "digests", "gallery"}
  /\ RecheckInit /\ AssessmentInit /\ ExcerptInit /\ SandboxInit /\ PlacementInit
  /\ AnalyticsInit /\ SimulationInit /\ PodsInit /\ DigestsInit /\ GalleryInit

Next ==
  /\ UNCHANGED subject
  /\ \/ /\ subject = "recheck" /\ RecheckNext
        /\ UNCHANGED <<assessmentVars, excerptVars, sandboxVars, placementVars, analyticsVars, community>>
     \/ /\ subject = "assessment" /\ AssessmentNext
        /\ UNCHANGED <<recheckVars, excerptVars, sandboxVars, placementVars, analyticsVars, community>>
     \/ /\ subject = "excerpt" /\ ExcerptNext
        /\ UNCHANGED <<recheckVars, assessmentVars, sandboxVars, placementVars, analyticsVars, community>>
     \/ /\ subject = "sandbox" /\ SandboxNext
        /\ UNCHANGED <<recheckVars, assessmentVars, excerptVars, placementVars, analyticsVars, community>>
     \/ /\ subject = "placement" /\ PlacementNext
        /\ UNCHANGED <<recheckVars, assessmentVars, excerptVars, sandboxVars, analyticsVars, community>>
     \/ /\ subject = "analytics" /\ AnalyticsNext
        /\ UNCHANGED <<recheckVars, assessmentVars, excerptVars, sandboxVars, placementVars, community>>
     \/ /\ subject = "simulation" /\ SimulationNext
        /\ UNCHANGED <<podsVars, digestsVars, galleryVars, learning>>
     \/ /\ subject = "pods" /\ PodsNext
        /\ UNCHANGED <<simulationVars, digestsVars, galleryVars, learning>>
     \/ /\ subject = "digests" /\ DigestsNext
        /\ UNCHANGED <<simulationVars, podsVars, galleryVars, learning>>
     \/ /\ subject = "gallery" /\ GalleryNext
        /\ UNCHANGED <<simulationVars, podsVars, digestsVars, learning>>

Spec == Init /\ [][Next]_vars
=============================================================================

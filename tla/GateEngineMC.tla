---------------------------- MODULE GateEngineMC -----------------------------
(* Small instances of GateEngine for TLC, with the two rebate gates of     *)
(* content/gates: phase 5 (unit 5.1, unlocks 6.1) and the capstone (12.1,  *)
(* unlocks nothing).  Unit 6.1 has no rule, and only phase 5 pays a rebate *)
(* here, so that both kinds of gate occur.  A placement may open a unit no *)
(* gate unlocks, or one that phase 5 unlocks as well; the shipped          *)
(* diagnostic (content/diagnostic) opens no unit of the latter kind, but   *)
(* both lists are data.                                                    *)
EXTENDS GateEngine

OneStudent == {"ann"}

Units   == {"5.1", "6.1", "12.1"}
Gates   == {"phase-5-integration", "capstone"}
Clears  == [g \in Gates |-> IF g = "capstone" THEN "12.1" ELSE "5.1"]
Opens   == [g \in Gates |-> IF g = "capstone" THEN {} ELSE {"6.1"}]
Rebates == {"phase-5-integration"}
Placements == {{"5.1"}, {"5.1", "6.1"}}
=============================================================================

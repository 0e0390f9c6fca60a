-------------------------- MODULE PracticeServiceMC --------------------------
(* A code unit and a conceptual unit of one student, with two answers, two  *)
(* drills on one seed and a question to the concierge.                      *)
EXTENDS PracticeService

Requests == {"k1", "c1", "c2", "d1", "d2", "q1"}
Units    == {"code", "conceptual"}
Seeds    == {0}
Kinds == [r \in Requests |->
  CASE r = "k1" -> "code" [] r \in {"c1", "c2"} -> "conceptual"
    [] r \in {"d1", "d2"} -> "drill" [] r = "q1" -> "ask"]
Units_Of == [r \in Requests |-> IF r = "k1" THEN "code" ELSE "conceptual"]
Seeds_Of == [r \in Requests |-> 0]
=============================================================================

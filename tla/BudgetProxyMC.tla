---------------------------- MODULE BudgetProxyMC ----------------------------
(* A small instance of BudgetProxy for TLC: two students, of which one has  *)
(* several requests, all for one unit but one that names none.             *)
EXTENDS BudgetProxy

Students == {"ann", "ben"}
OneUnit  == {"5.1"}

FourRequests == {1, 2, 3, 4}
FourSentBy   == [r \in FourRequests |-> IF r = 2 THEN "ben" ELSE "ann"]
FourSentFor  == [r \in FourRequests |-> IF r = 4 THEN NoUnit ELSE "5.1"]
=============================================================================

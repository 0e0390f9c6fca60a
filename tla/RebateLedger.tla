---------------------------- MODULE RebateLedger -----------------------------
(***************************************************************************)
(* What the rebate ledger promises: the graph of rebate_transitions'       *)
(* pair CHECK (schema/0005_rebates.sql), and nothing but that graph.  A    *)
(* rebate is pledged once, earned once, and never moves backwards.         *)
(* RebateMachine implements this specification.                            *)
(***************************************************************************)
CONSTANT Rebate    \* one for each student and gate

VARIABLE standing  \* where each rebate stands

Edge == {<<"none", "pending">>, <<"pending", "earned">>, <<"pending", "expired">>,
         <<"earned", "paid">>, <<"earned", "forfeited">>}

LedgerInit == standing = [r \in Rebate |-> "none"]

(* One transaction moves one rebate, or sweeps several at once.            *)
LedgerNext ==
  /\ DOMAIN standing' = Rebate
  /\ standing' = [r \in Rebate |-> standing'[r]]
  /\ \A r \in Rebate : standing'[r] = standing[r] \/ <<standing[r], standing'[r]>> \in Edge

LedgerSpec == LedgerInit /\ [][LedgerNext]_standing
=============================================================================

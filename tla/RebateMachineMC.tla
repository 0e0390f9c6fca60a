--------------------------- MODULE RebateMachineMC ---------------------------
(* Small instances of RebateMachine for TLC: two rebates, one of them for  *)
(* a gate that is not configured, and two units.                           *)
EXTENDS RebateMachine

Rebates == {"phase5", "bonus"}
Known   == {"phase5"}
Units   == {"5.1", "12.1"}
=============================================================================

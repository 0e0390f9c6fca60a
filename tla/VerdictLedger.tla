---------------------------- MODULE VerdictLedger ----------------------------
(***************************************************************************)
(* What the grading queue promises to everything downstream of it, with    *)
(* no queue, worker, lock or crash in sight: a submission is decided at    *)
(* most once, the decision never changes, and it is announced on the event *)
(* spine exactly once, with the decided outcome.  GradingQueue implements  *)
(* this specification.                                                     *)
(***************************************************************************)
CONSTANT Submission

Outcome   == {"pass", "fail"}
NoVerdict == "none"

VARIABLES decided,    \* the verdict of each submission, or NoVerdict
          announced   \* the submissions whose verdict.issued event is out

ledgerVars == <<decided, announced>>

LedgerInit ==
  /\ decided = [s \in Submission |-> NoVerdict]
  /\ announced = {}

Decide(s, o) ==
  /\ decided[s] = NoVerdict
  /\ decided' = [decided EXCEPT ![s] = o]
  /\ UNCHANGED announced

Announce(s) ==
  /\ decided[s] # NoVerdict
  /\ s \notin announced
  /\ announced' = announced \cup {s}
  /\ UNCHANGED decided

LedgerNext ==
  \E s \in Submission : Announce(s) \/ \E o \in Outcome : Decide(s, o)

LedgerSpec     == LedgerInit /\ [][LedgerNext]_ledgerVars
=============================================================================

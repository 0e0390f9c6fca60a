----------------------------- MODULE BudgetProxy -----------------------------
(***************************************************************************)
(* proxy/server.py: the LLM proxy and the two token budgets it enforces.   *)
(* A student's budget is a row of the database; the charges of one student *)
(* are serialised by a lock of this process, held from the pre-check over  *)
(* the upstream call to the charge.  A unit's budget is a dictionary of    *)
(* the process, checked before the call and charged after it, with no lock *)
(* in between.  Each request runs in a thread of its own.                  *)
(***************************************************************************)
EXTENDS Integers, FiniteSets, Functions

CONSTANTS
  Request, Student, Unit,
  NoUnit,       \* a request without X-Keel-Unit-Id
  NoRequest,    \* nobody holds the lock
  StudentOf, UnitOf,
  Cap,          \* budgets.tokens_cap, the same for each student
  UnitCap,      \* KEEL_UNIT_TOKENS_CAP
  MaxTokens,    \* the largest usage of one call
  MaxFaults     \* database errors, upstream failures and crashes

ASSUME RequestAssumption ==
  /\ StudentOf \in [Request -> Student]
  /\ UnitOf \in [Request -> Unit \cup {NoUnit}]
  /\ NoRequest \notin Request /\ NoUnit \notin Unit
  /\ IsFiniteSet(Request) /\ IsFiniteSet(Student)
ASSUME CapAssumption ==
  Cap \in Nat /\ UnitCap \in Nat \ {0} /\ MaxTokens \in Nat /\ MaxFaults \in Nat

Ended  == {"ok", "refused", "failed", "dropped"}
Inside == {"check", "refuse", "unitCheck", "unitRefuse", "forward", "charge", "unitCharge"}

VARIABLES
  used,       \* budgets.tokens_used of each student
  unitUsed,   \* _unit_used
  holder,     \* the request that holds each student's lock
  pc,         \* where the thread of each request stands, or how it ended
  tokens,     \* the usage in its upstream response
  exceeded,   \* the requests with a proxy.(unit_)budget_exceeded event
  faults

budgets == <<used, unitUsed>>
vars    == <<budgets, holder, pc, tokens, exceeded, faults>>

TypeOK ==
  /\ used \in [Student -> Nat]
  /\ unitUsed \in [Unit -> Nat]
  /\ holder \in [Student -> Request \cup {NoRequest}]
  /\ pc \in [Request -> Inside \cup Ended \cup {"new", "wait"}]
  /\ tokens \in [Request -> 0 .. MaxTokens]
  /\ exceeded \in SUBSET Request
  /\ faults \in Nat

Init ==
  /\ used = [s \in Student |-> 0]
  /\ unitUsed = [u \in Unit |-> 0]
  /\ holder = [s \in Student |-> NoRequest]
  /\ pc = [r \in Request |-> "new"]
  /\ tokens = [r \in Request |-> 0]
  /\ exceeded = {}
  /\ faults = 0

Goto(r, label) == pc' = [pc EXCEPT ![r] = label]

(* The with block is left: the lock is free again.                         *)
Release(r) == holder' = [holder EXCEPT ![StudentOf[r]] = NoRequest]

Fault == faults < MaxFaults /\ faults' = faults + 1

(* do_POST up to the lock: a valid request of a student with a budget row. *)
(* (Any other request is answered 400 or 404 and changes nothing.)         *)
Arrive(r) ==
  /\ pc[r] = "new" /\ Goto(r, "wait")
  /\ UNCHANGED <<budgets, holder, tokens, exceeded, faults>>

(* Faulty variant: check, forward and charge without the lock.             *)
AcquireNothing(r) ==
  /\ pc[r] = "wait" /\ Goto(r, "check")
  /\ UNCHANGED <<budgets, holder, tokens, exceeded, faults>>

Acquire(r) ==
  /\ pc[r] = "wait" /\ holder[StudentOf[r]] = NoRequest
  /\ holder' = [holder EXCEPT ![StudentOf[r]] = r]
  /\ Goto(r, "check")
  /\ UNCHANGED <<budgets, tokens, exceeded, faults>>

(* The pre-check reads the budget row inside the lock.                     *)
Precheck(r) ==
  /\ pc[r] = "check"
  /\ Goto(r, IF used[StudentOf[r]] >= Cap THEN "refuse" ELSE "unitCheck")
  /\ UNCHANGED <<budgets, holder, tokens, exceeded, faults>>

(* Faulty variant: the unit's budget is not asked.                         *)
UnitPrecheckSkipped(r) ==
  /\ pc[r] = "unitCheck" /\ Goto(r, "forward")
  /\ UNCHANGED <<budgets, holder, tokens, exceeded, faults>>

(* unit_budget_allows                                                      *)
UnitPrecheck(r) ==
  /\ pc[r] = "unitCheck"
  /\ Goto(r, IF UnitOf[r] # NoUnit /\ unitUsed[UnitOf[r]] >= UnitCap
               THEN "unitRefuse" ELSE "forward")
  /\ UNCHANGED <<budgets, holder, tokens, exceeded, faults>>

(* Faulty variant: the 429 path leaves the lock taken.                     *)
RefuseKeepsLock(r) ==
  /\ pc[r] \in {"refuse", "unitRefuse"}
  /\ exceeded' = exceeded \cup {r}
  /\ Goto(r, "refused")
  /\ UNCHANGED <<budgets, holder, tokens, faults>>

(* append_budget_exceeded or append_unit_budget_exceeded, then 429.        *)
Refuse(r) ==
  /\ pc[r] \in {"refuse", "unitRefuse"}
  /\ exceeded' = exceeded \cup {r}
  /\ Goto(r, "refused") /\ Release(r)
  /\ UNCHANGED <<budgets, tokens, faults>>

(* The upstream call, answered 200 with a usage of n tokens.               *)
Forward(r, n) ==
  /\ pc[r] = "forward"
  /\ tokens' = [tokens EXCEPT ![r] = n]
  /\ IF n > 0 THEN Goto(r, "charge") /\ UNCHANGED holder
              ELSE Goto(r, "ok") /\ Release(r)
  /\ UNCHANGED <<budgets, exceeded, faults>>

(* Anything else upstream is answered 502 and nothing is charged.          *)
UpstreamFailure(r) ==
  /\ pc[r] = "forward" /\ Fault
  /\ Goto(r, "failed") /\ Release(r)
  /\ UNCHANGED <<budgets, tokens, exceeded>>

(* charge adds to the row, whatever the pre-check had read of it.          *)
AddUsage(r) ==
  /\ pc[r] = "charge"
  /\ used' = [used EXCEPT ![StudentOf[r]] = @ + tokens[r]]

(* Faulty variant: the sum is computed from what the pre-check allowed.    *)
ChargeOverwrites(r) ==
  /\ pc[r] = "charge"
  /\ used' = [used EXCEPT ![StudentOf[r]] = tokens[r]]
  /\ Goto(r, "unitCharge")
  /\ UNCHANGED <<unitUsed, holder, tokens, exceeded, faults>>

Charge(r) ==
  /\ AddUsage(r)
  /\ Goto(r, "unitCharge")
  /\ UNCHANGED <<unitUsed, holder, tokens, exceeded, faults>>

(* charge raises: 500, and the unit is not charged.  The increment may     *)
(* have gone through all the same.                                         *)
ChargeFailed(r) ==
  /\ pc[r] = "charge" /\ Fault
  /\ AddUsage(r) \/ UNCHANGED used
  /\ Goto(r, "failed") /\ Release(r)
  /\ UNCHANGED <<unitUsed, tokens, exceeded>>

(* unit_charge, and the answer.                                            *)
UnitCharge(r) ==
  /\ pc[r] = "unitCharge"
  /\ unitUsed' = IF UnitOf[r] = NoUnit THEN unitUsed
                 ELSE [unitUsed EXCEPT ![UnitOf[r]] = @ + tokens[r]]
  /\ Goto(r, "ok") /\ Release(r)
  /\ UNCHANGED <<used, tokens, exceeded, faults>>

(* Any other db_sql raises: nothing catches it, the thread ends without an *)
(* answer, and its with block frees the lock.  (A failed append may have   *)
(* written its event.)                                                     *)
DbError(r) ==
  /\ pc[r] \in {"check", "refuse", "unitRefuse"} /\ Fault
  /\ \/ UNCHANGED exceeded
     \/ pc[r] # "check" /\ exceeded' = exceeded \cup {r}
  /\ Goto(r, "dropped") /\ Release(r)
  /\ UNCHANGED <<budgets, tokens>>

(* The process dies with all its threads and is started again: the locks   *)
(* and the unit budgets were its memory.                                   *)
Crash ==
  /\ Fault
  /\ pc' = [r \in Request |-> IF pc[r] \in Inside \cup {"wait"} THEN "dropped" ELSE pc[r]]
  /\ holder' = [s \in Student |-> NoRequest]
  /\ unitUsed' = [u \in Unit |-> 0]
  /\ UNCHANGED <<used, tokens, exceeded>>

Thread(r) ==
  \/ Acquire(r) \/ Precheck(r) \/ UnitPrecheck(r) \/ Refuse(r)
  \/ \E n \in 0 .. MaxTokens : Forward(r, n)
  \/ Charge(r) \/ UnitCharge(r)

Next ==
  \/ \E r \in Request :
       Arrive(r) \/ Thread(r) \/ UpstreamFailure(r) \/ ChargeFailed(r) \/ DbError(r)
  \/ Crash

Spec == Init /\ [][Next]_vars

(* Every thread is scheduled and each of its calls is bounded (the         *)
(* upstream one by KEEL_PROXY_TIMEOUT_S).  Python's lock has no queue, so  *)
(* nothing stronger than weak fairness is assumed of the waiting threads.  *)
FairSpec == Spec /\ \A r \in Request : WF_vars(Thread(r))

-----------------------------------------------------------------------------
(* Properties.                                                             *)

(* The overshoot rule of the module's docstring: tokens_used exceeds the   *)
(* cap by less than one accepted call, however many requests of the        *)
(* student are in flight.                                                  *)
StudentOvershoot ==
  \A s \in Student :
    used[s] <= Cap \/ \E r \in Request : StudentOf[r] = s /\ used[s] < Cap + tokens[r]

Usage(R) == SumFunctionOnSet(tokens, R)

(* Usage is metered: every 200 answer has been charged to its student, and *)
(* no call is charged twice, whatever fails between upstream and charge.   *)
Metered ==
  \A s \in Student :
    LET calls == {r \in Request : StudentOf[r] = s}
    IN  Usage({r \in calls : pc[r] \in {"ok", "unitCharge"}}) <= used[s] /\ used[s] <= Usage(calls)

(* What the unit budget does guarantee with no lock over the call: since   *)
(* the locks admit one call of each student, at most one call of each      *)
(* student comes on top of the unit's cap.                                 *)
UnitOvershootPerStudent ==
  \A u \in Unit : unitUsed[u] < UnitCap + Cardinality(Student) * MaxTokens

(* A request that waits for its student's lock gets an answer or, after a  *)
(* crash or a database error, a closed connection: no path out of the with *)
(* block keeps the lock.                                                   *)
EveryRequestEnds ==
  \A r \in Request : pc[r] = "wait" ~> pc[r] \in Ended

(* What the student's bound rests on: the lock is held by the one request  *)
(* inside the with block, and past the pre-check its student is below the  *)
(* cap until it charges.                                                   *)
LockInv ==
  \A r \in Request : pc[r] \in Inside => holder[StudentOf[r]] = r

BelowCap ==
  \A r \in Request :
    pc[r] \in {"unitCheck", "forward", "charge"} => used[StudentOf[r]] < Cap

(* The inductive invariant of BudgetProxyProofs.                           *)
ProxyInv == LockInv /\ BelowCap /\ StudentOvershoot
=============================================================================

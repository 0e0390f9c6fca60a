--------------------------- MODULE PracticeService ---------------------------
(***************************************************************************)
(* practice/server.py: the requests of one student that grade something or *)
(* ask the concierge.  Each runs in a thread of its own: it reads the      *)
(* enrollment, grades (in the sandbox, or with one or two calls through    *)
(* the LLM proxy), and stores a row and its event in one transaction.      *)
(* Everything a thread has read may be old when it stores its row.         *)
(*                                                                         *)
(* The proxy is the environment: it refuses a student at the cap, and its  *)
(* lock of the student is held over a call (module BudgetProxy), so that a *)
(* call the client gave up on delays the student's next one.               *)
(***************************************************************************)
EXTENDS PracticeRoute, Functions

CONSTANTS
  Request, Unit,
  KindOf,      \* "code", "conceptual", "drill" or "ask"
  UnitOf, SeedOf,
  Cap,         \* the student's token budget
  MaxTokens,   \* the largest usage of one call
  MaxRequests, \* bounds the requests that arrive
  MaxFaults    \* bounds database errors, failed or late calls and crashes

ASSUME RequestAssumption ==
  /\ KindOf \in [Request -> {"code", "conceptual", "drill", "ask"}]
  /\ UnitOf \in [Request -> Unit]
  /\ SeedOf \in [Request -> Nat]
  /\ IsFiniteSet(Request)
ASSUME BudgetAssumption ==
  Cap \in Nat /\ MaxTokens \in Nat \ {0} /\ MaxRequests \in Nat /\ MaxFaults \in Nat

Ended   == {"stored", "refused", "declined", "failed", "dropped"}
Working == {"stage", "check", "derive", "call1", "call2", "persist", "commit"}

VARIABLES
  attempts,   \* practice_attempts
  drills,     \* retrieval_attempts
  turns,      \* concierge_turns
  verdicts,   \* the requests that inserted a verdict.issued
  used,       \* the student's tokens_used at the proxy
  late,       \* requests whose proxy call goes on without them
  staged,     \* requests with a staging directory
  pc, mode, passed, spent,   \* of each request
  saw,        \* what the NOT EXISTS of its transaction found
  faults

rows   == <<attempts, drills, turns, verdicts>>
proxy  == <<used, late>>
locals == <<mode, passed, spent, saw>>
practiceVars == <<rows, proxy, staged, pc, locals, faults>>

PracticeTypeOK ==
  /\ attempts \in SUBSET [req : Request, unit : Unit, passed : BOOLEAN]
  /\ drills \in SUBSET [req : Request, unit : Unit, seed : Nat, passed : BOOLEAN, tokens : Nat]
  /\ turns \in SUBSET [req : Request, unit : Unit, mode : {"teach", "guard"}, tokens : Nat]
  /\ verdicts \in SUBSET Request
  /\ used \in Nat /\ late \in SUBSET Request /\ staged \in SUBSET Request
  /\ pc \in [Request -> Working \cup Ended \cup {"new"}]
  /\ mode \in [Request -> {"teach", "guard"}]
  /\ passed \in [Request -> BOOLEAN] /\ saw \in [Request -> BOOLEAN]
  /\ spent \in [Request -> Nat]
  /\ faults \in Nat

PracticeInit ==
  /\ attempts = {} /\ drills = {} /\ turns = {} /\ verdicts = {}
  /\ used = 0 /\ late = {} /\ staged = {}
  /\ pc = [r \in Request |-> "new"]
  /\ mode = [r \in Request |-> "teach"]
  /\ passed = [r \in Request |-> FALSE] /\ saw = [r \in Request |-> FALSE]
  /\ spent = [r \in Request |-> 0]
  /\ faults = 0

Goto(r, label) == pc' = [pc EXCEPT ![r] = label]
Fault == faults < MaxFaults /\ faults' = faults + 1

(* What derive_unit_practice_route is given of the history.                *)
DrillHistory(u) == {<<d.seed, d.passed>> : d \in {x \in drills : x.unit = u}}
Completions(u)  == {a.passed : a \in {x \in attempts : x.unit = u}}
Status(u)       == RouteStatus(DrillHistory(u), Completions(u))

-----------------------------------------------------------------------------
(* A request whose body and unit are in order arrives and meets the        *)
(* enrollment gate; the enroll service grants and cancels when it likes.   *)
Arrives(r, kinds) ==
  /\ pc[r] = "new" /\ KindOf[r] \in kinds
  /\ Cardinality({x \in Request : pc[x] # "new"}) < MaxRequests
  /\ UNCHANGED <<rows, proxy, staged, locals, faults>>

GateAttempt(r, active) ==
  /\ Arrives(r, {"code", "conceptual"})
  /\ Goto(r, IF ~active THEN "refused" ELSE IF KindOf[r] = "code" THEN "stage" ELSE "call1")

GateDrill(r, active) ==
  Arrives(r, {"drill"}) /\ Goto(r, IF active THEN "call1" ELSE "refused")

GateAsk(r, active) ==
  Arrives(r, {"ask"}) /\ Goto(r, IF active THEN "derive" ELSE "refused")

Gate(r, active) == GateAttempt(r, active) \/ GateDrill(r, active) \/ GateAsk(r, active)

(* A database error in the gate or in the concierge's history query.       *)
ReadError(r) ==
  /\ pc[r] \in {"new", "derive"} /\ Fault
  /\ Goto(r, "failed")
  /\ UNCHANGED <<rows, proxy, staged, locals>>

(* A code unit: the problem base and the student's files are staged, ...   *)
Stage(r) ==
  /\ pc[r] = "stage" /\ Goto(r, "check")
  /\ staged' = staged \cup {r}
  /\ UNCHANGED <<rows, proxy, locals, faults>>

(* ... the checks run in the sandbox, the directory is removed, ...        *)
RunChecks(r, outcome) ==
  /\ pc[r] = "check" /\ Goto(r, "commit")
  /\ passed' = [passed EXCEPT ![r] = outcome]
  /\ staged' = staged \ {r}
  /\ UNCHANGED <<rows, proxy, mode, spent, saw, faults>>

(* ... also when the sandbox fails.                                        *)
SandboxError(r) ==
  /\ pc[r] = "check" /\ Fault /\ Goto(r, "failed")
  /\ staged' = staged \ {r}
  /\ UNCHANGED <<rows, proxy, locals>>

(* Faulty variant: any completion attempt ends the teaching.               *)
DeriveOnAttempt(r) ==
  /\ pc[r] = "derive" /\ Goto(r, "call1")
  /\ mode' = [mode EXCEPT ![r] = IF Completions(UnitOf[r]) = {} THEN "teach" ELSE "guard"]
  /\ UNCHANGED <<rows, proxy, staged, passed, spent, saw, faults>>

(* ask_concierge up to its call: the mode follows from the history now.    *)
Derive(r) ==
  /\ pc[r] = "derive" /\ Goto(r, "call1")
  /\ mode' = [mode EXCEPT ![r] = ConciergeMode(Status(UnitOf[r]))]
  /\ UNCHANGED <<rows, proxy, staged, passed, spent, saw, faults>>

(* A call that has the lock.                                               *)
Calling(r) == pc[r] \in {"call1", "call2"} /\ late = {}

(* The proxy forwards the call and charges its usage.                      *)
Charged(r, n) ==
  /\ Calling(r) /\ used < Cap
  /\ used' = used + n
  /\ spent' = [spent EXCEPT ![r] = @ + n]
  /\ UNCHANGED <<rows, late, staged, mode, saw, faults>>

(* A reply that keeps its contract, module Assessment: the grade of a      *)
(* conceptual answer, ...                                                  *)
GradeConceptual(r, n, outcome) ==
  /\ KindOf[r] = "conceptual" /\ Charged(r, n)
  /\ Goto(r, IF outcome THEN "persist" ELSE "commit")
  /\ passed' = [passed EXCEPT ![r] = outcome]

(* ... the grade of a drill, ...                                           *)
GradeDrill(r, n, outcome) ==
  /\ KindOf[r] = "drill" /\ Charged(r, n)
  /\ Goto(r, "commit")
  /\ passed' = [passed EXCEPT ![r] = outcome]

(* ... or the answer of the concierge, which has none to break.            *)
AskConcierge(r, n) ==
  /\ KindOf[r] = "ask" /\ Charged(r, n)
  /\ Goto(r, "commit")
  /\ UNCHANGED passed

(* A reply that breaks it: one nudge, then the request fails.              *)
Malformed(r, n) ==
  /\ KindOf[r] # "ask"
  /\ Charged(r, n)
  /\ Goto(r, IF pc[r] = "call1" THEN "call2" ELSE "failed")
  /\ UNCHANGED passed

(* A reply without a choice, or a charge that went through and was reported *)
(* as failed: paid for and not asked again.                                *)
NoAnswer(r, n) ==
  /\ Charged(r, n)
  /\ Goto(r, "failed")
  /\ UNCHANGED passed

(* Faulty variant: a refusal is tried again like a malformed reply.        *)
DeclinedRetries(r) ==
  /\ Calling(r) /\ used >= Cap
  /\ UNCHANGED practiceVars

(* 429: the proxy refuses, and so does this service.                       *)
Declined(r) ==
  /\ Calling(r) /\ used >= Cap
  /\ Goto(r, "declined")
  /\ UNCHANGED <<rows, proxy, staged, locals, faults>>

(* The proxy answers 5xx, or is not there: nothing was charged.            *)
CallFailed(r) ==
  /\ Calling(r) /\ Fault /\ Goto(r, "failed")
  /\ UNCHANGED <<rows, proxy, staged, locals>>

(* No answer within DEFAULT_TIMEOUT_S, half of what the proxy gives its    *)
(* upstream: the request fails, and the call goes on, ...                  *)
CallTimeout(r) ==
  /\ pc[r] \in {"call1", "call2"} /\ Fault /\ Goto(r, "failed")
  /\ late' = late \cup {r}
  /\ UNCHANGED <<rows, used, staged, locals>>

(* ... charged like any other once it has the lock.                        *)
LateCharge(r, n) ==
  /\ r \in late /\ late' = late \ {r}
  /\ used' = IF used < Cap THEN used + n ELSE used
  /\ UNCHANGED <<rows, staged, pc, locals, faults>>

-----------------------------------------------------------------------------
(* The transaction at the end.                                             *)

PassVerdict(u) == \E r \in verdicts : UnitOf[r] = u

(* A passed conceptual answer inserts a verdict.issued unless there is one: *)
(* its statement takes its snapshot.                                       *)
PersistRead(r) ==
  /\ pc[r] = "persist" /\ Goto(r, "commit")
  /\ saw' = [saw EXCEPT ![r] = PassVerdict(UnitOf[r])]
  /\ UNCHANGED <<rows, proxy, staged, mode, passed, spent, faults>>

(* Faulty variant: the verdict is left to a later transaction.             *)
StoreAttemptOnly(r) ==
  /\ KindOf[r] \in {"code", "conceptual"}
  /\ attempts' = attempts \cup {[req |-> r, unit |-> UnitOf[r], passed |-> passed[r]]}
  /\ UNCHANGED <<verdicts, drills, turns>>

StoreAttempt(r) ==
  /\ KindOf[r] \in {"code", "conceptual"}
  /\ attempts' = attempts \cup {[req |-> r, unit |-> UnitOf[r], passed |-> passed[r]]}
  /\ verdicts' = IF KindOf[r] = "conceptual" /\ passed[r] /\ ~saw[r]
                   THEN verdicts \cup {r} ELSE verdicts
  /\ UNCHANGED <<drills, turns>>

StoreDrill(r) ==
  /\ KindOf[r] = "drill"
  /\ drills' = drills \cup {[req |-> r, unit |-> UnitOf[r], seed |-> SeedOf[r],
                             passed |-> passed[r], tokens |-> spent[r]]}
  /\ UNCHANGED <<attempts, verdicts, turns>>

(* Faulty variant: the answer is charged as if every call had been nudged. *)
StoreTurnTwice(r) ==
  /\ KindOf[r] = "ask"
  /\ turns' = turns \cup {[req |-> r, unit |-> UnitOf[r], mode |-> mode[r], tokens |-> 2 * spent[r]]}
  /\ UNCHANGED <<attempts, verdicts, drills>>

StoreTurn(r) ==
  /\ KindOf[r] = "ask"
  /\ turns' = turns \cup {[req |-> r, unit |-> UnitOf[r], mode |-> mode[r], tokens |-> spent[r]]}
  /\ UNCHANGED <<attempts, verdicts, drills>>

Store(r) == StoreAttempt(r) \/ StoreDrill(r) \/ StoreTurn(r)

PersistCommit(r) ==
  /\ pc[r] = "commit" /\ Store(r) /\ Goto(r, "stored")
  /\ UNCHANGED <<proxy, staged, locals, faults>>

(* 500: the transaction failed, or it committed and its reply was lost.    *)
PersistError(r) ==
  /\ pc[r] = "commit" /\ Fault /\ Goto(r, "failed")
  /\ Store(r) \/ UNCHANGED rows
  /\ UNCHANGED <<proxy, staged, locals>>

(* The process dies with all its threads; the directories stay.            *)
PracticeCrash ==
  /\ Fault
  /\ pc' = [r \in Request |-> IF pc[r] \in Working THEN "dropped" ELSE pc[r]]
  /\ late' = late \cup {r \in Request : pc[r] \in {"call1", "call2"}}
  /\ UNCHANGED <<rows, used, staged, locals>>

PracticeThread(r) ==
  \/ Stage(r) \/ Derive(r) \/ Declined(r)
  \/ \E outcome \in BOOLEAN : RunChecks(r, outcome)
  \/ \E n \in 1 .. MaxTokens :
       \/ AskConcierge(r, n)
       \/ \E outcome \in BOOLEAN : GradeConceptual(r, n, outcome) \/ GradeDrill(r, n, outcome)
  \/ PersistRead(r) \/ PersistCommit(r)

PracticeNext ==
  \/ \E r \in Request :
       \/ \E active \in BOOLEAN : Gate(r, active)
       \/ PracticeThread(r)
       \/ ReadError(r) \/ SandboxError(r) \/ CallFailed(r) \/ CallTimeout(r) \/ PersistError(r)
       \/ \E n \in 1 .. MaxTokens : Malformed(r, n) \/ NoAnswer(r, n) \/ LateCharge(r, n)
  \/ PracticeCrash

PracticeSpec == PracticeInit /\ [][PracticeNext]_practiceVars

(* Threads are scheduled and all their calls are bounded; so are the       *)
(* proxy's.                                                                *)
FairPracticeSpec ==
  /\ PracticeSpec
  /\ \A r \in Request : WF_practiceVars(PracticeThread(r))
  /\ WF_practiceVars(\E r \in Request, n \in 1 .. MaxTokens : LateCharge(r, n))

-----------------------------------------------------------------------------
(* A passed conceptual answer is the unit's grade, and verdict.issued is   *)
(* the only pass signal the gate engine has (server.py:3747): a unit has   *)
(* one exactly if it has such an attempt.  Its failing would strand a      *)
(* student who passed, or pass one who did not.                            *)
PassIsAnnounced ==
  \A u \in Unit :
    PassVerdict(u) <=> \E a \in attempts : a.unit = u /\ a.passed /\ KindOf[a.req] = "conceptual"

HasPass(u) == \E a \in attempts : a.unit = u /\ a.passed

(* The concierge explains only as a guard, never solves, until the         *)
(* completion is passed; a turn in guard mode has a pass behind it, however *)
(* old the history was from which its mode followed.                       *)
GuardMeansCompleted == \A t \in turns : t.mode = "guard" => HasPass(t.unit)

(* The inductive invariant: the types; a transaction that found a verdict  *)
(* of the unit is right for ever; a request in guard mode has its pass; and *)
(* a sandbox directory outlives its request only if the process died.      *)
PracticeInv ==
  /\ PracticeTypeOK
  /\ \A r \in Request : saw[r] => PassVerdict(UnitOf[r])
  /\ \A r \in Request : mode[r] = "guard" => HasPass(UnitOf[r])
  /\ \A r \in staged : pc[r] \in {"check", "dropped"}
  /\ PassIsAnnounced
  /\ GuardMeansCompleted

(* What the rows say a student was charged, the proxy did charge: a nudge, *)
(* a timeout or a lost reply may hide tokens from the rows but never add.  *)
TokensIn(R) == SumFunctionOnSet([x \in R |-> x.tokens], R)
Accounted   == TokensIn(drills) + TokensIn(turns) <= used

(* The step the route recommends is one whose status lets the student act, *)
(* after any history of drills and completions.                            *)
RecommendationOpen == \A u \in Unit : RecommendedIsOpen(DrillHistory(u), Completions(u))

(* No later attempt, however it ends and whenever it is stored, undoes a   *)
(* completed unit or a finished set of drills, or gives back the fast pass. *)
RouteForward ==
  [][\A u \in Unit :
       /\ Completed(Completions(u)) => Completed(Completions(u)')
       /\ AllPassed(DrillHistory(u)) => AllPassed(DrillHistory(u)')
       /\ FastPassEligible(DrillHistory(u)') => FastPassEligible(DrillHistory(u))]_practiceVars

(* Every request that arrived is answered, or dropped with its process: a  *)
(* call that is still running for nobody does not hold the others for ever. *)
EveryAnswerEnds == \A r \in Request : pc[r] \in Working ~> pc[r] \in Ended

=============================================================================

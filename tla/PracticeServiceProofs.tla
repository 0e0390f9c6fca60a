------------------------ MODULE PracticeServiceProofs ------------------------
(* The invariant of the practice service and the monotony of its route, for *)
(* any requests, units, seeds, budgets and faults.                         *)
EXTENDS PracticeService, DataTheorems

(* Rows are inserted and never updated or deleted: what a thread has read  *)
(* may be incomplete when it uses it, but it is not wrong.                 *)
LEMMA RowsGrow ==
  ASSUME PracticeNext
  PROVE  attempts \subseteq attempts' /\ drills \subseteq drills' /\ verdicts \subseteq verdicts'
<1>1. CASE UNCHANGED rows
  BY <1>1 DEF rows
<1>2. ASSUME NEW r \in Request, Store(r)
      PROVE  attempts \subseteq attempts' /\ drills \subseteq drills' /\ verdicts \subseteq verdicts'
  BY <1>2 DEF Store, StoreAttempt, StoreDrill, StoreTurn
<1>3. ASSUME NEW r \in Request, PersistCommit(r) \/ PersistError(r)
      PROVE  attempts \subseteq attempts' /\ drills \subseteq drills' /\ verdicts \subseteq verdicts'
  BY <1>1, <1>2, <1>3 DEF PersistCommit, PersistError
<1>4. ASSUME NEW r \in Request, NEW n \in 1 .. MaxTokens,
             \/ Malformed(r, n) \/ NoAnswer(r, n) \/ LateCharge(r, n) \/ AskConcierge(r, n)
             \/ \E outcome \in BOOLEAN : GradeConceptual(r, n, outcome) \/ GradeDrill(r, n, outcome)
      PROVE  UNCHANGED rows
  BY <1>4 DEF Malformed, NoAnswer, LateCharge, AskConcierge, GradeConceptual, GradeDrill, Charged
<1>5. ASSUME NEW r \in Request,
             \/ \E active \in BOOLEAN : Gate(r, active)
             \/ Stage(r) \/ Derive(r) \/ Declined(r) \/ PersistRead(r)
             \/ \E outcome \in BOOLEAN : RunChecks(r, outcome)
             \/ ReadError(r) \/ SandboxError(r) \/ CallFailed(r) \/ CallTimeout(r)
      PROVE  UNCHANGED rows
  BY <1>5 DEF Gate, GateAttempt, GateDrill, GateAsk, Arrives, Stage, Derive, Declined, PersistRead,
              RunChecks, ReadError, SandboxError, CallFailed, CallTimeout
<1>6. CASE PracticeCrash
  BY <1>1, <1>6 DEF PracticeCrash
<1> QED
  BY <1>1, <1>3, <1>4, <1>5, <1>6 DEF PracticeNext, PracticeThread

(* A unit's passed completion and its verdict are there for good.          *)
LEMMA PassStays ==
  ASSUME attempts \subseteq attempts', verdicts \subseteq verdicts', NEW u \in Unit
  PROVE  (HasPass(u) => HasPass(u)') /\ (PassVerdict(u) => PassVerdict(u)')
BY DEF HasPass, PassVerdict

(* The mode is guard only for a completed route, and that only for a pass. *)
LEMMA GuardNeedsPass ==
  ASSUME NEW u \in Unit, ConciergeMode(Status(u)) = "guard"
  PROVE  HasPass(u)
<1>1. Status(u) = "completed"
  BY DEF ConciergeMode
<1>2. Completed(Completions(u))
  BY <1>1 DEF Status, RouteStatus
<1> QED
  BY <1>2 DEF Completed, Completions, HasPass

(* At first no request is open.                                            *)
LEMMA InitPractice == ASSUME PracticeInit PROVE PracticeInv
BY RequestAssumption
   DEF PracticeInit, PracticeInv, PracticeTypeOK, PassIsAnnounced, GuardMeansCompleted,
       PassVerdict, HasPass, Working, Ended

(* The bounds are numbers.                                                 *)
LEMMA MaxAssumptions == MaxTokens \in Nat \ {0} /\ Cap \in Nat
BY BudgetAssumption

(* The steps that store nothing leave the claims about rows alone; they owe *)
(* the types, the verdict that was seen, the mode and the staging.         *)
LEMMA ThreadStep ==
  ASSUME PracticeInv, UNCHANGED rows, PracticeTypeOK',
         \A r \in Request : saw'[r] => PassVerdict(UnitOf[r]),
         \A r \in Request : mode'[r] = "guard" => HasPass(UnitOf[r]),
         \A r \in staged' : pc'[r] \in {"check", "dropped"}
  PROVE  PracticeInv'
BY DEF PracticeInv, PassIsAnnounced, GuardMeansCompleted, PassVerdict, HasPass, rows

(* The claims of the invariant that a thread step starts from.             *)
LEMMA Now ==
  ASSUME PracticeInv
  PROVE  /\ PracticeTypeOK
         /\ \A r \in Request : saw[r] => PassVerdict(UnitOf[r])
         /\ \A r \in Request : mode[r] = "guard" => HasPass(UnitOf[r])
         /\ \A r \in staged : pc[r] \in {"check", "dropped"}
BY DEF PracticeInv

(* A request passes the gate or is sent away.                              *)
LEMMA GateStep ==
  ASSUME PracticeInv, NEW r \in Request, NEW active \in BOOLEAN, Gate(r, active)
  PROVE  PracticeInv'
<1> USE Now DEF Gate, GateAttempt, GateDrill, GateAsk, Arrives, Goto, rows, proxy, locals
<1>1. PracticeTypeOK'
  BY DEF PracticeTypeOK, Working, Ended
<1>2. \A x \in staged' : pc'[x] \in {"check", "dropped"}
  BY DEF PracticeTypeOK
<1> QED
  BY <1>1, <1>2, ThreadStep

(* A request that cannot be read or answered ends without a row.           *)
LEMMA FailStep ==
  ASSUME PracticeInv, NEW r \in Request, ReadError(r) \/ CallFailed(r)
  PROVE  PracticeInv'
<1> USE Now DEF ReadError, CallFailed, Calling, Fault, Goto, rows, proxy, locals
<1>1. PracticeTypeOK'
  BY DEF PracticeTypeOK, Working, Ended
<1>2. \A x \in staged' : pc'[x] \in {"check", "dropped"}
  BY DEF PracticeTypeOK
<1> QED
  BY <1>1, <1>2, ThreadStep

(* A submission is staged, and run in the sandbox.                         *)
LEMMA SandboxStep ==
  ASSUME PracticeInv, NEW r \in Request,
         Stage(r) \/ SandboxError(r) \/ \E outcome \in BOOLEAN : RunChecks(r, outcome)
  PROVE  PracticeInv'
<1> USE Now DEF Stage, SandboxError, RunChecks, Fault, Goto, rows, proxy, locals
<1>1. PracticeTypeOK'
  BY DEF PracticeTypeOK, Working, Ended
<1>2. \A x \in staged' : pc'[x] \in {"check", "dropped"}
  BY DEF PracticeTypeOK
<1> QED
  BY <1>1, <1>2, ThreadStep

(* The concierge's mode follows from the history as it is read.            *)
LEMMA DeriveStep ==
  ASSUME PracticeInv, NEW r \in Request, Derive(r)
  PROVE  PracticeInv'
<1> USE Now DEF Derive, Goto, rows, proxy
<1>0. ConciergeMode(Status(UnitOf[r])) \in {"teach", "guard"}
  BY DEF ConciergeMode
<1>1. PracticeTypeOK'
  BY <1>0 DEF PracticeTypeOK, Working
<1>2. \A x \in staged' : pc'[x] \in {"check", "dropped"}
  BY DEF PracticeTypeOK
<1>3. ASSUME NEW x \in Request, mode'[x] = "guard" PROVE HasPass(UnitOf[x])
  <2>1. CASE x = r
    <3>1. ConciergeMode(Status(UnitOf[r])) = "guard"
      BY <1>3, <2>1 DEF PracticeTypeOK
    <3>2. UnitOf[r] \in Unit
      BY RequestAssumption
    <3> QED
      BY <2>1, <3>1, <3>2, GuardNeedsPass
  <2>2. CASE x # r
    BY <1>3, <2>2 DEF PracticeTypeOK
  <2> QED
    BY <2>1, <2>2
<1> QED
  BY <1>1, <1>2, <1>3, ThreadStep

(* A reply is charged to its request.                                      *)
LEMMA ReplyStep ==
  ASSUME PracticeInv, NEW r \in Request, NEW n \in 1 .. MaxTokens,
         \/ Malformed(r, n) \/ NoAnswer(r, n) \/ AskConcierge(r, n)
         \/ \E outcome \in BOOLEAN : GradeConceptual(r, n, outcome) \/ GradeDrill(r, n, outcome)
  PROVE  PracticeInv'
<1> USE Now, MaxAssumptions DEF Malformed, NoAnswer, AskConcierge, GradeConceptual, GradeDrill, Charged, Calling, Goto, rows
<1>0. n \in Nat
  OBVIOUS
<1>1. PracticeTypeOK'
  BY <1>0 DEF PracticeTypeOK, Working, Ended
<1>2. \A x \in staged' : pc'[x] \in {"check", "dropped"}
  BY DEF PracticeTypeOK
<1> QED
  BY <1>1, <1>2, ThreadStep

(* A call that was given up may be charged later.                          *)
LEMMA UnansweredStep ==
  ASSUME PracticeInv, NEW r \in Request,
         Declined(r) \/ CallTimeout(r) \/ \E n \in 1 .. MaxTokens : LateCharge(r, n)
  PROVE  PracticeInv'
<1> USE Now, MaxAssumptions DEF Declined, CallTimeout, LateCharge, Calling, Fault, Goto, rows, proxy, locals
<1>1. PracticeTypeOK'
  BY DEF PracticeTypeOK, Working, Ended
<1>2. \A x \in staged' : pc'[x] \in {"check", "dropped"}
  BY DEF PracticeTypeOK
<1> QED
  BY <1>1, <1>2, ThreadStep

(* Whether the unit has a passing verdict is read before the rows are      *)
(* stored.                                                                 *)
LEMMA PersistReadStep ==
  ASSUME PracticeInv, NEW r \in Request, PersistRead(r)
  PROVE  PracticeInv'
<1> USE Now DEF PersistRead, Goto, rows, proxy
<1>0. PassVerdict(UnitOf[r]) \in BOOLEAN
  BY DEF PassVerdict
<1>1. PracticeTypeOK'
  BY <1>0 DEF PracticeTypeOK, Working
<1>2. \A x \in staged' : pc'[x] \in {"check", "dropped"}
  BY DEF PracticeTypeOK
<1>3. \A x \in Request : saw'[x] => PassVerdict(UnitOf[x])
  BY DEF PracticeTypeOK
<1> QED
  BY <1>1, <1>2, <1>3, ThreadStep

(* A crash ends the requests in flight and keeps the rows.                 *)
LEMMA CrashStep ==
  ASSUME PracticeInv, PracticeCrash
  PROVE  PracticeInv'
<1> USE Now DEF PracticeCrash, Fault, rows, locals
<1>1. PracticeTypeOK'
  BY DEF PracticeTypeOK, Working, Ended
<1>2. \A x \in staged' : pc'[x] \in {"check", "dropped"}
  BY DEF PracticeTypeOK, Working
<1> QED
  BY <1>1, <1>2, ThreadStep

(* Storing an attempt keeps the verdicts and the passes together: either    *)
(* the verdict is inserted with it, or the transaction found one.          *)
LEMMA StoredTogether ==
  ASSUME PracticeInv, NEW r \in Request, StoreAttempt(r)
  PROVE  PassIsAnnounced'
<1> USE DEF StoreAttempt
<1>0. PracticeTypeOK /\ PassIsAnnounced /\ (saw[r] => PassVerdict(UnitOf[r]))
  BY DEF PracticeInv
<1> SUFFICES ASSUME NEW u \in Unit
             PROVE  PassVerdict(u)' <=> \E a \in attempts' : a.unit = u /\ a.passed /\ KindOf[a.req] = "conceptual"
  BY DEF PassIsAnnounced
<1>1. PassVerdict(u) <=> \E a \in attempts : a.unit = u /\ a.passed /\ KindOf[a.req] = "conceptual"
  BY <1>0 DEF PassIsAnnounced
<1>2. CASE KindOf[r] = "conceptual" /\ passed[r] /\ ~saw[r]
  <2>1. passed[r] = TRUE
    BY <1>0, <1>2 DEF PracticeTypeOK
  <2>2. /\ attempts' = attempts \cup {[req |-> r, unit |-> UnitOf[r], passed |-> TRUE]}
        /\ verdicts' = verdicts \cup {r}
    BY <1>2, <2>1
  <2>3. PassVerdict(u)' <=> (PassVerdict(u) \/ UnitOf[r] = u)
    BY <2>2 DEF PassVerdict
  <2>4. (\E a \in attempts' : a.unit = u /\ a.passed /\ KindOf[a.req] = "conceptual")
          <=> ((\E a \in attempts : a.unit = u /\ a.passed /\ KindOf[a.req] = "conceptual") \/ UnitOf[r] = u)
    <3> DEFINE new == [req |-> r, unit |-> UnitOf[r], passed |-> TRUE]
    <3>1. new.req = r /\ new.unit = UnitOf[r] /\ new.passed = TRUE
      OBVIOUS
    <3>2. attempts' = attempts \cup {new}
      BY <2>2
    <3> HIDE DEF new
    <3> QED
      BY <1>2, <3>1, <3>2
  <2> QED
    BY <1>1, <2>3, <2>4
<1>3. CASE KindOf[r] = "conceptual" /\ passed[r] /\ saw[r]
  BY <1>0, <1>1, <1>3 DEF PassVerdict
<1>4. CASE ~(KindOf[r] = "conceptual" /\ passed[r])
  BY <1>1, <1>4 DEF PassVerdict
<1> QED
  BY <1>2, <1>3, <1>4

(* A concierge turn is stored under the mode of its request.               *)
LEMMA TurnsAreGuarded ==
  ASSUME PracticeInv, NEW r \in Request, Store(r)
  PROVE  GuardMeansCompleted'
<1>0. /\ PracticeTypeOK /\ GuardMeansCompleted
      /\ mode[r] = "guard" => HasPass(UnitOf[r])
  BY DEF PracticeInv
<1>1. attempts \subseteq attempts'
  BY DEF Store, StoreAttempt, StoreDrill, StoreTurn
<1>2. \A u : HasPass(u) => HasPass(u)'
  BY <1>1 DEF HasPass
<1>3. CASE turns' = turns
  BY <1>0, <1>2, <1>3 DEF GuardMeansCompleted
<1>4. CASE StoreTurn(r)
  BY <1>0, <1>2, <1>4 DEF StoreTurn, GuardMeansCompleted
<1> QED
  BY <1>3, <1>4 DEF Store, StoreAttempt, StoreDrill

(* A row is stored with the tokens its request spent.                      *)
LEMMA StoreStep ==
  ASSUME PracticeInv, NEW r \in Request, PersistCommit(r) \/ (PersistError(r) /\ Store(r))
  PROVE  PracticeInv'
<1>0. /\ Store(r) /\ UNCHANGED <<proxy, staged, locals>>
      /\ pc[r] = "commit" /\ pc' \in {[pc EXCEPT ![r] = "stored"], [pc EXCEPT ![r] = "failed"]}
      /\ faults' \in Nat
  BY Now DEF PersistCommit, PersistError, Fault, Goto, PracticeTypeOK
<1>1. PracticeTypeOK'
  BY <1>0, Now, RequestAssumption
     DEF PracticeTypeOK, Store, StoreAttempt, StoreDrill, StoreTurn, Working, Ended, proxy, locals
<1>2. \A x \in staged' : pc'[x] \in {"check", "dropped"}
  BY <1>0, Now DEF PracticeTypeOK
<1>3. attempts \subseteq attempts' /\ verdicts \subseteq verdicts'
  BY <1>0 DEF Store, StoreAttempt, StoreDrill, StoreTurn
<1>4. /\ \A x \in Request : saw'[x] => PassVerdict(UnitOf[x])'
      /\ \A x \in Request : mode'[x] = "guard" => HasPass(UnitOf[x])'
  BY <1>0, <1>3, Now DEF locals, PassVerdict, HasPass
<1>5. PassIsAnnounced'
  <2>1. CASE StoreAttempt(r)
    BY <2>1, StoredTogether
  <2>2. CASE UNCHANGED <<attempts, verdicts>>
    BY <2>2 DEF PracticeInv, PassIsAnnounced, PassVerdict
  <2> QED
    BY <1>0, <2>1, <2>2 DEF Store, StoreDrill, StoreTurn
<1>6. GuardMeansCompleted'
  BY <1>0, TurnsAreGuarded
<1> QED
  BY <1>1, <1>2, <1>4, <1>5, <1>6 DEF PracticeInv

(* 500 and nothing committed.                                              *)
LEMMA LostStep ==
  ASSUME PracticeInv, NEW r \in Request, PersistError(r), UNCHANGED rows
  PROVE  PracticeInv'
<1> USE Now DEF PersistError, Fault, Goto, rows, proxy, locals
<1>1. PracticeTypeOK'
  BY DEF PracticeTypeOK, Working, Ended
<1>2. \A x \in staged' : pc'[x] \in {"check", "dropped"}
  BY DEF PracticeTypeOK
<1> QED
  BY <1>1, <1>2, ThreadStep

(* Every step keeps the invariant.                                         *)
LEMMA NextPractice == ASSUME PracticeInv, [PracticeNext]_practiceVars PROVE PracticeInv'
<1>1. CASE PracticeCrash
  BY <1>1, CrashStep
<1>2. ASSUME NEW r \in Request,
             \/ \E active \in BOOLEAN : Gate(r, active)
             \/ PracticeThread(r)
             \/ ReadError(r) \/ SandboxError(r) \/ CallFailed(r) \/ CallTimeout(r) \/ PersistError(r)
             \/ \E n \in 1 .. MaxTokens : Malformed(r, n) \/ NoAnswer(r, n) \/ LateCharge(r, n)
      PROVE  PracticeInv'
  <2>1. CASE \E active \in BOOLEAN : Gate(r, active)
    BY <2>1, GateStep
  <2>2. CASE PracticeThread(r)
    BY <2>2, SandboxStep, DeriveStep, UnansweredStep, ReplyStep, PersistReadStep, StoreStep
       DEF PracticeThread
  <2>3. CASE ReadError(r) \/ CallFailed(r)
    BY <2>3, FailStep
  <2>4. CASE SandboxError(r)
    BY <2>4, SandboxStep
  <2>5. CASE CallTimeout(r) \/ \E n \in 1 .. MaxTokens : LateCharge(r, n)
    BY <2>5, UnansweredStep
  <2>6. CASE PersistError(r)
    BY <2>6, StoreStep, LostStep DEF PersistError
  <2>7. CASE \E n \in 1 .. MaxTokens : Malformed(r, n) \/ NoAnswer(r, n)
    BY <2>7, ReplyStep
  <2> QED
    BY <1>2, <2>1, <2>2, <2>3, <2>4, <2>5, <2>6, <2>7
<1>3. CASE UNCHANGED practiceVars
  BY <1>3, Now, ThreadStep
     DEF practiceVars, rows, proxy, locals, PracticeTypeOK
<1> QED
  BY <1>1, <1>2, <1>3 DEF PracticeNext

(* The inductive invariant holds of every practice service.                *)
THEOREM PracticeInvariant == PracticeSpec => []PracticeInv
BY InitPractice, NextPractice, PTL DEF PracticeSpec

(* A conceptual unit has its verdict.issued exactly if a conceptual answer  *)
(* of it passed, whatever threads do between their reads and their commits. *)
THEOREM ConceptualPassIsAnnounced == PracticeSpec => []PassIsAnnounced
<1>1. PracticeInv => PassIsAnnounced
  BY DEF PracticeInv
<1> QED
  BY <1>1, PracticeInvariant, PTL

(* No turn is stored in guard mode for a unit that was not completed.      *)
THEOREM GuardIsEarned == PracticeSpec => []GuardMeansCompleted
<1>1. PracticeInv => GuardMeansCompleted
  BY DEF PracticeInv
<1> QED
  BY <1>1, PracticeInvariant, PTL

(* Completion, a finished set of drills and the loss of the fast pass are   *)
(* never undone by a later attempt.                                        *)
THEOREM RouteOnlyAdvances == PracticeSpec => RouteForward
<1> DEFINE Forward(u) ==
      /\ Completed(Completions(u)) => Completed(Completions(u)')
      /\ AllPassed(DrillHistory(u)) => AllPassed(DrillHistory(u)')
      /\ FastPassEligible(DrillHistory(u)') => FastPassEligible(DrillHistory(u))
<1>1. ASSUME PracticeNext, NEW u \in Unit PROVE Forward(u)
  <2>1. attempts \subseteq attempts' /\ drills \subseteq drills'
    BY <1>1, RowsGrow
  <2>2. Completions(u) \subseteq Completions(u)' /\ DrillHistory(u) \subseteq DrillHistory(u)'
    BY <2>1 DEF Completions, DrillHistory
  <2> QED
    BY <2>2 DEF Completed, AllPassed, PassedSeeds, FastPassEligible, FailedEver
<1>2. PracticeNext => \A u \in Unit : Forward(u)
  BY <1>1
<1> QED
  BY <1>2, PTL DEF PracticeSpec, RouteForward

-----------------------------------------------------------------------------
(* Storing a row counts its tokens at most once.                           *)
LEMMA TokensOfNone == TokensIn({}) = 0
BY SumOfNone DEF TokensIn

(* One more row adds no more than its own tokens.                          *)
LEMMA TokensWithOne ==
  ASSUME NEW R, IsFiniteSet(R), NEW x, \A y \in R \cup {x} : y.tokens \in Nat
  PROVE  /\ IsFiniteSet(R \cup {x})
         /\ TokensIn(R) \in Nat /\ TokensIn(R \cup {x}) \in Nat
         /\ TokensIn(R \cup {x}) <= TokensIn(R) + x.tokens
<1> DEFINE f == [y \in R |-> y.tokens]
           g == [y \in R \cup {x} |-> y.tokens]
<1>1. IsFiniteSet(R \cup {x})
  BY FS_AddElement
<1>2. (\A y \in R : f[y] \in Nat /\ g[y] = f[y]) /\ (\A y \in R \cup {x} : g[y] \in Nat)
      /\ g[x] = x.tokens /\ x.tokens \in Nat
  OBVIOUS
<1>3. TokensIn(R) = SumFunctionOnSet(f, R) /\ TokensIn(R \cup {x}) = SumFunctionOnSet(g, R \cup {x})
  BY DEF TokensIn
<1> HIDE DEF f, g
<1>4. SumFunctionOnSet(f, R) = SumFunctionOnSet(g, R)
  BY <1>2, SumSame
<1>5. SumFunctionOnSet(f, R) \in Nat /\ SumFunctionOnSet(g, R \cup {x}) \in Nat
  BY <1>1, <1>2, SumType
<1>6. CASE x \in R
  <2>1. R \cup {x} = R
    BY <1>6
  <2>2. TokensIn(R \cup {x}) = TokensIn(R)
    BY <2>1
  <2>3. TokensIn(R) \in Nat
    BY <1>3, <1>5
  <2> QED
    BY <1>1, <1>2, <2>2, <2>3
<1>7. CASE x \notin R
  <2>1. SumFunctionOnSet(g, R \cup {x}) = g[x] + SumFunctionOnSet(g, R)
    BY <1>2, <1>7, SumAdd
  <2> QED
    BY <1>1, <1>2, <1>3, <1>4, <1>5, <2>1
<1> QED
  BY <1>6, <1>7

(* What a request has paid for before it stores is in no row yet, but it   *)
(* is charged: with the rows it stays within what the proxy has charged.   *)
Unstored == {r \in Request : pc[r] \in Working \cup {"new"}}
Unsent   == SumFunctionOnSet(spent, Unstored)
AccountInv ==
  /\ IsFiniteSet(drills) /\ IsFiniteSet(turns)
  /\ TokensIn(drills) + TokensIn(turns) + Unsent <= used

(* What the requests spent sums up.                                        *)
LEMMA SpentSums ==
  ASSUME PracticeTypeOK, NEW R \in SUBSET Request
  PROVE  IsFiniteSet(R) /\ SumFunctionOnSet(spent, R) \in Nat /\ \A r \in R : spent[r] \in Nat
<1>1. IsFiniteSet(R) /\ \A r \in R : spent[r] \in Nat
  BY RequestAssumption, FS_Subset DEF PracticeTypeOK
<1> QED
  BY <1>1, SumType

(* The sums of the rows, and of what is still to be sent, are numbers.     *)
LEMMA RowSums ==
  ASSUME PracticeTypeOK, AccountInv
  PROVE  TokensIn(drills) \in Nat /\ TokensIn(turns) \in Nat /\ Unsent \in Nat /\ used \in Nat
<1>1. ASSUME NEW R, IsFiniteSet(R), \A x \in R : x.tokens \in Nat PROVE TokensIn(R) \in Nat
  <2> DEFINE f == [x \in R |-> x.tokens]
  <2>1. \A x \in R : f[x] \in Nat
    BY <1>1
  <2>2. TokensIn(R) = SumFunctionOnSet(f, R)
    BY DEF TokensIn
  <2> HIDE DEF f
  <2> QED
    BY <1>1, <2>1, <2>2, SumType
<1>2. (\A d \in drills : d.tokens \in Nat) /\ (\A t \in turns : t.tokens \in Nat)
  BY DEF PracticeTypeOK
<1>3. Unsent \in Nat
  <2>1. Unstored \subseteq Request
    BY DEF Unstored
  <2> QED
    BY <2>1, SpentSums DEF Unsent
<1> QED
  BY <1>1, <1>2, <1>3 DEF AccountInv, PracticeTypeOK

(* No step but a store and a charge touches the account; a request that    *)
(* ends without a row takes what it paid with it.                          *)
LEMMA AccountKeeps ==
  ASSUME PracticeTypeOK, PracticeTypeOK', AccountInv, UNCHANGED <<drills, turns, spent>>, used <= used',
         \A r \in Request : pc'[r] \in Working \cup {"new"} => pc[r] \in Working \cup {"new"}
  PROVE  AccountInv'
<1>1. Unstored' \subseteq Unstored /\ Unstored \subseteq Request
  BY DEF Unstored
<1>2. SumFunctionOnSet(spent, Unstored') <= SumFunctionOnSet(spent, Unstored)
  <2>1. \A r \in Unstored : spent[r] \in Nat /\ spent[r] <= spent[r]
    BY <1>1, SpentSums
  <2> QED
    BY <1>1, <2>1, SpentSums, SumMonotone
<1>3. Unsent' = SumFunctionOnSet(spent, Unstored') /\ Unsent = SumFunctionOnSet(spent, Unstored)
  BY DEF Unsent
<1>4. SumFunctionOnSet(spent, Unstored') \in Nat
  BY <1>1, SpentSums
<1>5. TokensIn(drills)' = TokensIn(drills) /\ TokensIn(turns)' = TokensIn(turns)
  BY DEF TokensIn
<1>6. TokensIn(drills) + TokensIn(turns) + Unsent <= used
  BY DEF AccountInv
<1>7. used' \in Nat
  BY DEF PracticeTypeOK
<1>8. TokensIn(drills)' + TokensIn(turns)' + Unsent' <= used'
  BY <1>2, <1>3, <1>4, <1>5, <1>6, <1>7, RowSums
<1> QED
  BY <1>8 DEF AccountInv

(* A charge is added on both sides.                                        *)
LEMMA AccountCharged ==
  ASSUME PracticeTypeOK, PracticeTypeOK', AccountInv, NEW r \in Request, NEW n \in Nat, Charged(r, n),
         \A x \in Request : x # r => pc'[x] = pc[x]
  PROVE  AccountInv'
<1>1. Unstored' \subseteq Unstored /\ Unstored \subseteq Request /\ r \in Unstored
  BY DEF Unstored, Charged, Calling, Working
<1>2. /\ used' = used + n /\ spent' = [spent EXCEPT ![r] = spent[r] + n]
      /\ UNCHANGED <<drills, turns>>
  BY DEF Charged, rows
<1>3. /\ spent'[r] = spent[r] + n /\ spent[r] \in Nat
      /\ \A x \in Request \ {r} : spent'[x] = spent[x]
      /\ \A x \in Request : spent[x] \in Nat /\ spent'[x] \in Nat /\ spent'[x] <= spent'[x]
  BY <1>2 DEF PracticeTypeOK
<1>4. IsFiniteSet(Unstored) /\ IsFiniteSet(Unstored \ {r}) /\ Unstored \ {r} \subseteq Request
      /\ SumFunctionOnSet(spent, Unstored \ {r}) \in Nat
  BY <1>1, SpentSums
<1>5. SumFunctionOnSet(spent, Unstored) = spent[r] + SumFunctionOnSet(spent, Unstored \ {r})
  BY <1>1, <1>3, <1>4, SumTake
<1>6. SumFunctionOnSet(spent', Unstored) = spent'[r] + SumFunctionOnSet(spent', Unstored \ {r})
  BY <1>1, <1>3, <1>4, SumTake
<1>7. SumFunctionOnSet(spent', Unstored \ {r}) = SumFunctionOnSet(spent, Unstored \ {r})
  BY <1>3, <1>4, SumSame
<1>8. SumFunctionOnSet(spent', Unstored') <= SumFunctionOnSet(spent', Unstored)
  BY <1>1, <1>3, <1>4, SumMonotone
<1>9. SumFunctionOnSet(spent', Unstored') \in Nat
  BY <1>1, <1>3, <1>4, SumType, FS_Subset
<1>10. Unsent' = SumFunctionOnSet(spent', Unstored') /\ Unsent = SumFunctionOnSet(spent, Unstored)
  BY DEF Unsent
<1>11. TokensIn(drills)' = TokensIn(drills) /\ TokensIn(turns)' = TokensIn(turns)
  BY <1>2 DEF TokensIn
<1>12. TokensIn(drills) + TokensIn(turns) + Unsent <= used
  BY DEF AccountInv
<1>13. TokensIn(drills)' + TokensIn(turns)' + Unsent' <= used'
  <2>1. Unsent' <= Unsent + n
    BY <1>3, <1>4, <1>5, <1>6, <1>7, <1>8, <1>9, <1>10
  <2>2. Unsent' \in Nat
    BY <1>9, <1>10
  <2> QED
    BY <1>2, <1>11, <1>12, <2>1, <2>2, RowSums
<1> QED
  BY <1>2, <1>13 DEF AccountInv

(* A stored row takes over what its request had paid.                      *)
LEMMA AccountStored ==
  ASSUME PracticeTypeOK, PracticeTypeOK', AccountInv, NEW r \in Request, Store(r), pc[r] = "commit",
         NEW label \in {"stored", "failed"}, Goto(r, label), UNCHANGED <<used, spent>>
  PROVE  AccountInv'
<1>1. Unstored' = Unstored \ {r} /\ Unstored \subseteq Request /\ r \in Unstored
  BY DEF Unstored, Goto, Working, PracticeTypeOK
<1>2. \A x \in Request : spent[x] \in Nat
  BY DEF PracticeTypeOK
<1>3. Unsent = spent[r] + Unsent'
  BY <1>1, <1>2, SpentSums, SumTake DEF Unsent
<1>4. Unsent' \in Nat /\ spent[r] \in Nat
  <2>1. Unsent' = SumFunctionOnSet(spent, Unstored') /\ Unstored' \subseteq Request
    BY <1>1 DEF Unsent
  <2> QED
    BY <1>2, <2>1, SpentSums
<1>5. TokensIn(drills) + TokensIn(turns) + Unsent <= used
  BY DEF AccountInv
<1>6. /\ IsFiniteSet(drills) /\ IsFiniteSet(turns)
      /\ (\A d \in drills' : d.tokens \in Nat) /\ (\A t \in turns' : t.tokens \in Nat)
  BY DEF AccountInv, PracticeTypeOK
<1>7. CASE StoreAttempt(r)
  <2>1. drills' = drills /\ turns' = turns
    BY <1>7 DEF StoreAttempt
  <2>2. TokensIn(drills)' = TokensIn(drills) /\ TokensIn(turns)' = TokensIn(turns)
    BY <2>1 DEF TokensIn
  <2>3. TokensIn(drills)' + TokensIn(turns)' + Unsent' <= used'
    BY <1>3, <1>4, <1>5, <2>2, RowSums
  <2> QED
    BY <1>6, <2>1, <2>3 DEF AccountInv
<1>8. CASE StoreDrill(r)
  <2> DEFINE new == [req |-> r, unit |-> UnitOf[r], seed |-> SeedOf[r],
                     passed |-> passed[r], tokens |-> spent[r]]
  <2>1. drills' = drills \cup {new} /\ turns' = turns /\ new.tokens = spent[r]
    BY <1>8 DEF StoreDrill
  <2> HIDE DEF new
  <2>2. \A y \in drills \cup {new} : y.tokens \in Nat
    BY <1>6, <2>1
  <2>3. /\ IsFiniteSet(drills') /\ TokensIn(drills') \in Nat
        /\ TokensIn(drills') <= TokensIn(drills) + spent[r]
    BY <1>6, <2>1, <2>2, TokensWithOne
  <2>4. TokensIn(drills)' = TokensIn(drills') /\ TokensIn(turns)' = TokensIn(turns)
    BY <2>1 DEF TokensIn
  <2>5. TokensIn(drills)' + TokensIn(turns)' + Unsent' <= used'
    BY <1>3, <1>4, <1>5, <2>3, <2>4, RowSums
  <2> QED
    BY <1>6, <2>1, <2>3, <2>5 DEF AccountInv
<1>9. CASE StoreTurn(r)
  <2> DEFINE new == [req |-> r, unit |-> UnitOf[r], mode |-> mode[r], tokens |-> spent[r]]
  <2>1. turns' = turns \cup {new} /\ drills' = drills /\ new.tokens = spent[r]
    BY <1>9 DEF StoreTurn
  <2> HIDE DEF new
  <2>2. \A y \in turns \cup {new} : y.tokens \in Nat
    BY <1>6, <2>1
  <2>3. /\ IsFiniteSet(turns') /\ TokensIn(turns') \in Nat
        /\ TokensIn(turns') <= TokensIn(turns) + spent[r]
    BY <1>6, <2>1, <2>2, TokensWithOne
  <2>4. TokensIn(turns)' = TokensIn(turns') /\ TokensIn(drills)' = TokensIn(drills)
    BY <2>1 DEF TokensIn
  <2>5. TokensIn(drills)' + TokensIn(turns)' + Unsent' <= used'
    BY <1>3, <1>4, <1>5, <2>3, <2>4, RowSums
  <2> QED
    BY <1>6, <2>1, <2>3, <2>5 DEF AccountInv
<1> QED
  BY <1>7, <1>8, <1>9 DEF Store

(* The tokens in the rows, and those of requests still to be stored, were  *)
(* all charged by the proxy.                                               *)
THEOREM AccountInvariant == PracticeSpec => []AccountInv
<1>1. PracticeInit => AccountInv
  <2> SUFFICES ASSUME PracticeInit PROVE AccountInv
    OBVIOUS
  <2>1. IsFiniteSet(drills) /\ IsFiniteSet(turns) /\ TokensIn(drills) = 0 /\ TokensIn(turns) = 0 /\ used = 0
    BY TokensOfNone, FS_EmptySet DEF PracticeInit
  <2>2. IsFiniteSet(Unstored) /\ \A r \in Unstored : spent[r] = 0
    BY RequestAssumption, FS_Subset DEF PracticeInit, Unstored
  <2>3. Unsent = 0
    BY <2>2, SumZero DEF Unsent
  <2> QED
    BY <2>1, <2>3 DEF AccountInv
<1>2. ASSUME PracticeTypeOK, PracticeTypeOK', AccountInv, [PracticeNext]_practiceVars
      PROVE  AccountInv'
  <2> USE <1>2
  <2>0. used \in Nat /\ used <= used
    BY DEF PracticeTypeOK
  <2>1. CASE UNCHANGED practiceVars
    BY <2>0, <2>1, AccountKeeps DEF practiceVars, rows, proxy, locals
  <2>2. CASE PracticeCrash
    BY <2>0, <2>2, AccountKeeps DEF PracticeCrash, rows, locals, Working, PracticeTypeOK
  <2>3. ASSUME NEW r \in Request,
               \/ \E active \in BOOLEAN : Gate(r, active)
               \/ Stage(r) \/ Derive(r) \/ Declined(r) \/ PersistRead(r)
               \/ \E outcome \in BOOLEAN : RunChecks(r, outcome)
        PROVE  AccountInv'
    BY <2>0, <2>3, AccountKeeps
       DEF Gate, GateAttempt, GateDrill, GateAsk, Arrives, Stage, Derive, Declined, Calling, PersistRead,
           RunChecks, Goto, rows, proxy, locals, Working, PracticeTypeOK
  <2>4. ASSUME NEW r \in Request,
               ReadError(r) \/ SandboxError(r) \/ CallFailed(r) \/ CallTimeout(r)
        PROVE  AccountInv'
    BY <2>0, <2>4, AccountKeeps
       DEF ReadError, SandboxError, CallFailed, CallTimeout, Goto, rows, proxy, locals, Working, PracticeTypeOK
  <2>5. ASSUME NEW r \in Request, NEW n \in 1 .. MaxTokens, LateCharge(r, n)
        PROVE  AccountInv'
    <3>1. used <= used'
      BY <2>0, <2>5, MaxAssumptions DEF LateCharge
    <3> QED
      BY <2>5, <3>1, AccountKeeps DEF LateCharge, rows, locals
  <2>6. ASSUME NEW r \in Request, NEW n \in 1 .. MaxTokens,
               \/ Malformed(r, n) \/ NoAnswer(r, n) \/ AskConcierge(r, n)
               \/ \E outcome \in BOOLEAN : GradeConceptual(r, n, outcome) \/ GradeDrill(r, n, outcome)
        PROVE  AccountInv'
    <3>1. n \in Nat
      BY MaxAssumptions
    <3>2. Charged(r, n) /\ \A x \in Request : x # r => pc'[x] = pc[x]
      BY <2>6 DEF Malformed, NoAnswer, AskConcierge, GradeConceptual, GradeDrill, Goto, PracticeTypeOK
    <3> QED
      BY <3>1, <3>2, AccountCharged
  <2>7. ASSUME NEW r \in Request, PersistCommit(r) \/ PersistError(r)
        PROVE  AccountInv'
    <3>1. CASE PersistCommit(r)
      BY <3>1, AccountStored DEF PersistCommit, proxy, locals
    <3>2. CASE PersistError(r) /\ Store(r)
      BY <3>2, AccountStored DEF PersistError, proxy, locals
    <3>3. CASE PersistError(r) /\ UNCHANGED rows
      BY <2>0, <3>3, AccountKeeps DEF PersistError, Goto, rows, proxy, locals, Working, PracticeTypeOK
    <3> QED
      BY <2>7, <3>1, <3>2, <3>3 DEF PersistError
  <2> QED
    BY <2>1, <2>2, <2>3, <2>4, <2>5, <2>6, <2>7 DEF PracticeNext, PracticeThread
<1>3. PracticeInv => PracticeTypeOK
  BY DEF PracticeInv
<1> QED
  BY <1>1, <1>2, <1>3, PracticeInvariant, PTL DEF PracticeSpec

(* The tokens on the stored drills and turns were all charged to the        *)
(* student, through nudges, timeouts, lost replies and crashes.            *)
THEOREM RowsAreAccounted == PracticeSpec => []Accounted
<1>1. ASSUME PracticeTypeOK, AccountInv PROVE Accounted
  BY <1>1, RowSums DEF AccountInv, Accounted
<1>2. PracticeInv => PracticeTypeOK
  BY DEF PracticeInv
<1> QED
  BY <1>1, <1>2, AccountInvariant, PracticeInvariant, PTL

-----------------------------------------------------------------------------
(* The route: a recommended step is open, for any set of seeds and any     *)
(* history, also one with attempts on seeds that the unit has lost.        *)
LEMMA RecommendationIsOpen == \A D, C : RecommendedIsOpen(D, C)
<1> SUFFICES ASSUME NEW D, NEW C PROVE RecommendedIsOpen(D, C)
  OBVIOUS
<1>1. CASE Completed(C)
  BY <1>1 DEF RecommendedIsOpen, RecommendedStep, RouteStatus
<1>2. CASE ~Completed(C) /\ ScaffoldActive(D, C)
  <2>1. RecommendedStep(D, C) = "worked_example"
    BY <1>2 DEF RecommendedStep, RouteStatus
  <2>2. WorkedExampleStep(D, C) = "scaffold"
    BY <1>2 DEF WorkedExampleStep
  <2> QED
    BY <2>1, <2>2 DEF RecommendedIsOpen
<1>3. CASE ~Completed(C) /\ ~ScaffoldActive(D, C)
  <2>1. C = {}
    BY <1>3 DEF ScaffoldActive, CompletionFailed
  <2>2. CASE FastPass(D)
    <3>1. RecommendedStep(D, C) = "completion"
      BY <1>3, <2>2 DEF RecommendedStep, RouteStatus
    <3>2. CompletionStep(D, C) = "current"
      BY <1>3, <2>1, <2>2 DEF CompletionStep, CompletionFailed
    <3> QED
      BY <3>1, <3>2 DEF RecommendedIsOpen
  <2>3. CASE ~FastPass(D) /\ AllPassed(D)
    <3>1. RecommendedStep(D, C) = "worked_example"
      BY <1>3, <2>3 DEF RecommendedStep, RouteStatus
    <3>2. WorkedExampleStep(D, C) = "current"
      BY <1>3, <2>3 DEF WorkedExampleStep
    <3> QED
      BY <3>1, <3>2 DEF RecommendedIsOpen
  <2>4. CASE ~FastPass(D) /\ ~AllPassed(D)
    <3>1. RecommendedStep(D, C) = "retrieval"
      BY <1>3, <2>4 DEF RecommendedStep, RouteStatus
    <3>2. ActiveFailed(D) = {}
      BY <1>3 DEF ScaffoldActive
    <3>3. RetrievalStep(D) = "current"
      BY <2>4, <3>2 DEF RetrievalStep
    <3>4. Seed = {} \/ PassedSeeds(D) # Seed
      BY <2>4 DEF AllPassed
    <3> QED
      BY <3>1, <3>3, <3>4 DEF RecommendedIsOpen
  <2> QED
    BY <2>2, <2>3, <2>4
<1> QED
  BY <1>1, <1>2, <1>3

(* The recommended next step is one the student can take.                  *)
THEOREM RecommendedStepIsOpen == PracticeSpec => []RecommendationOpen
<1>1. RecommendationOpen
  BY RecommendationIsOpen DEF RecommendationOpen
<1> QED
  BY <1>1, PTL
=============================================================================

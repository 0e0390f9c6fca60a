-------------------------- MODULE BudgetProxyProofs --------------------------
(***************************************************************************)
(* Proofs about BudgetProxy, for any students, requests and caps: the      *)
(* types, the overshoot rules of a student's and of a unit's budget, and   *)
(* that every answer is metered once.                                      *)
(***************************************************************************)
EXTENDS BudgetProxy, DataTheorems

(* The type invariant: what the database, the locks and the threads hold.  *)
THEOREM ProxyTypeCorrect == Spec => []TypeOK
<1>1. Init => TypeOK
  BY CapAssumption DEF Init, TypeOK
<1>2. ASSUME TypeOK, [Next]_vars PROVE TypeOK'
  <2> USE RequestAssumption, CapAssumption, <1>2
        DEF TypeOK, Goto, Release, Fault, budgets
  <2>1. CASE UNCHANGED vars
    BY <2>1 DEF vars
  <2>2. CASE Crash
    BY <2>2 DEF Crash, Inside, Ended
  <2>3. ASSUME NEW r \in Request, Arrive(r) \/ Acquire(r) PROVE TypeOK'
    BY <2>3 DEF Arrive, Acquire, Inside, Ended
  <2>4. ASSUME NEW r \in Request, Precheck(r) \/ UnitPrecheck(r) PROVE TypeOK'
    BY <2>4 DEF Precheck, UnitPrecheck, Inside, Ended
  <2>5. ASSUME NEW r \in Request, Refuse(r) \/ UpstreamFailure(r) \/ DbError(r) PROVE TypeOK'
    BY <2>5 DEF Refuse, UpstreamFailure, DbError, Inside, Ended
  <2>6. ASSUME NEW r \in Request, NEW n \in 0 .. MaxTokens, Forward(r, n) PROVE TypeOK'
    BY <2>6 DEF Forward, Inside, Ended
  <2>7. ASSUME NEW r \in Request, Charge(r) \/ ChargeFailed(r) PROVE TypeOK'
    BY <2>7 DEF Charge, ChargeFailed, AddUsage, Inside, Ended
  <2>8. ASSUME NEW r \in Request, UnitCharge(r) PROVE TypeOK'
    <3>1. pc' \in [Request -> Inside \cup Ended \cup {"new", "wait"}]
      BY <2>8 DEF UnitCharge, Ended
    <3>2. unitUsed' \in [Unit -> Nat]
      BY <2>8 DEF UnitCharge
    <3> QED
      BY <2>8, <3>1, <3>2 DEF UnitCharge
  <2> QED
    BY <2>1, <2>2, <2>3, <2>4, <2>5, <2>6, <2>7, <2>8 DEF Next, Thread
<1> QED
  BY <1>1, <1>2, PTL DEF Spec

(* Who may take or give back a lock, and who enters the with block.        *)
LEMMA LockStep ==
  ASSUME TypeOK, LockInv, [Next]_vars PROVE LockInv'
<1> USE RequestAssumption DEF TypeOK, LockInv, Goto, Release, Inside, budgets
<1>1. CASE UNCHANGED vars
  BY <1>1 DEF vars
<1>2. CASE Crash
  BY <1>2 DEF Crash, Ended
<1>3. ASSUME NEW r \in Request, Arrive(r) PROVE LockInv'
  BY <1>3 DEF Arrive
<1>4. ASSUME NEW r \in Request, Acquire(r) PROVE LockInv'
  BY <1>4 DEF Acquire
<1>5. ASSUME NEW r \in Request, Precheck(r) \/ UnitPrecheck(r) \/ Charge(r) PROVE LockInv'
  BY <1>5 DEF Precheck, UnitPrecheck, Charge, AddUsage
<1>6. ASSUME NEW r \in Request, NEW n \in 0 .. MaxTokens, Forward(r, n) PROVE LockInv'
  BY <1>6 DEF Forward
<1>7. ASSUME NEW r \in Request, Refuse(r) \/ UpstreamFailure(r) \/ DbError(r) PROVE LockInv'
  BY <1>7 DEF Refuse, UpstreamFailure, DbError
<1>8. ASSUME NEW r \in Request, ChargeFailed(r) \/ UnitCharge(r) PROVE LockInv'
  BY <1>8 DEF ChargeFailed, UnitCharge, AddUsage
<1> QED
  BY <1>1, <1>2, <1>3, <1>4, <1>5, <1>6, <1>7, <1>8 DEF Next, Thread

(* A charge ends at less than its own usage above the cap, and no other    *)
(* thread of that student is past the pre-check.                           *)
LEMMA ChargeStep ==
  ASSUME TypeOK, ProxyInv, NEW r \in Request, AddUsage(r), tokens' = tokens,
         NEW label, pc' = [pc EXCEPT ![r] = label],
         label \notin {"unitCheck", "forward", "charge"}
  PROVE  (BelowCap /\ StudentOvershoot)'
<1> DEFINE s == StudentOf[r]
<1>1. s \in Student /\ used[s] \in Nat /\ tokens[r] \in Nat /\ used[s] < Cap
  <2>1. s \in Student
    BY RequestAssumption
  <2>2. used[s] \in Nat /\ tokens[r] \in Nat
    BY <2>1, CapAssumption DEF TypeOK
  <2>3. used[s] < Cap
    BY DEF AddUsage, ProxyInv, BelowCap
  <2> QED
    BY <2>1, <2>2, <2>3
<1>2. used' = [used EXCEPT ![s] = used[s] + tokens[r]]
  BY DEF AddUsage
<1>3. BelowCap'
  <2> SUFFICES ASSUME NEW q \in Request, pc'[q] \in {"unitCheck", "forward", "charge"}
               PROVE  used'[StudentOf[q]] < Cap
    BY DEF BelowCap
  <2>1. q # r /\ pc[q] = pc'[q]
    BY DEF TypeOK
  <2>2. StudentOf[q] # s
    BY <2>1 DEF ProxyInv, LockInv, Inside, AddUsage
  <2>3. used[StudentOf[q]] < Cap
    BY <2>1 DEF ProxyInv, BelowCap
  <2> QED
    BY <1>2, <2>2, <2>3, RequestAssumption DEF TypeOK
<1>4. StudentOvershoot'
  <2> SUFFICES ASSUME NEW t \in Student
               PROVE  \/ used'[t] <= Cap
                      \/ \E q \in Request : StudentOf[q] = t /\ used'[t] < Cap + tokens'[q]
    BY DEF StudentOvershoot
  <2>1. CASE t = s
    <3>1. used'[s] = used[s] + tokens[r]
      BY <1>1, <1>2 DEF TypeOK
    <3> QED
      BY <1>1, <2>1, <3>1, CapAssumption
  <2>2. CASE t # s
    <3>1. used'[t] = used[t]
      BY <1>2, <2>2 DEF TypeOK
    <3> QED
      BY <3>1 DEF ProxyInv, StudentOvershoot
  <2> QED
    BY <2>1, <2>2
<1> QED
  BY <1>3, <1>4

(* An upstream answer changes no budget; it is given to a student who is   *)
(* below the cap, so no overshoot has to be explained anew.                *)
LEMMA ForwardStep ==
  ASSUME TypeOK, ProxyInv, NEW r \in Request, NEW n \in 0 .. MaxTokens, Forward(r, n)
  PROVE  (BelowCap /\ StudentOvershoot)'
<1>1. used' = used /\ tokens' = [tokens EXCEPT ![r] = n]
  BY DEF Forward, budgets
<1>2. used[StudentOf[r]] < Cap
  BY DEF Forward, ProxyInv, BelowCap
<1>3. BelowCap'
  BY <1>1, <1>2 DEF Forward, ProxyInv, BelowCap, TypeOK, Goto
<1>4. StudentOvershoot'
  <2> SUFFICES ASSUME NEW t \in Student
               PROVE  \/ used[t] <= Cap
                      \/ \E q \in Request : StudentOf[q] = t /\ used[t] < Cap + tokens'[q]
    BY <1>1 DEF StudentOvershoot
  <2>1. CASE t = StudentOf[r]
    BY <1>2, <2>1, RequestAssumption, CapAssumption DEF TypeOK
  <2>2. CASE t # StudentOf[r]
    <3>1. \A q \in Request : StudentOf[q] = t => tokens'[q] = tokens[q]
      BY <1>1, <2>2 DEF TypeOK
    <3> QED
      BY <3>1 DEF ProxyInv, StudentOvershoot
  <2> QED
    BY <2>1, <2>2
<1> QED
  BY <1>3, <1>4

(* The bound is inductive together with the lock and the pre-check.        *)
THEOREM ProxyInvariant == Spec => []ProxyInv
<1>1. Init => ProxyInv
  BY CapAssumption DEF Init, ProxyInv, LockInv, BelowCap, StudentOvershoot, Inside
<1>2. ASSUME TypeOK, ProxyInv, [Next]_vars PROVE ProxyInv'
  <2>1. LockInv'
    BY <1>2, LockStep DEF ProxyInv
  <2> SUFFICES (BelowCap /\ StudentOvershoot)'
    BY <2>1 DEF ProxyInv
  <2>2. ASSUME used' = used, tokens' = tokens,
               \A q \in Request : pc'[q] \in {"unitCheck", "forward", "charge"} =>
                 pc[q] \in {"unitCheck", "forward", "charge"} \/ used[StudentOf[q]] < Cap
        PROVE  (BelowCap /\ StudentOvershoot)'
    BY <1>2, <2>2 DEF ProxyInv, BelowCap, StudentOvershoot
  <2>3. CASE UNCHANGED vars
    BY <2>2, <2>3 DEF vars, budgets
  <2>4. CASE Crash
    BY <2>2, <2>4, <1>2 DEF Crash, TypeOK
  <2>5. ASSUME NEW r \in Request,
               Arrive(r) \/ Acquire(r) \/ Precheck(r) \/ UnitPrecheck(r) \/ Refuse(r)
        PROVE  (BelowCap /\ StudentOvershoot)'
    <3>1. used \in [Student -> Nat] /\ StudentOf[r] \in Student
      BY <1>2, RequestAssumption DEF TypeOK
    <3> QED
      BY <1>2, <2>2, <2>5, <3>1, CapAssumption
         DEF Arrive, Acquire, Precheck, UnitPrecheck, Refuse, Goto, budgets, TypeOK
  <2>6. ASSUME NEW r \in Request, UpstreamFailure(r) \/ DbError(r) \/ UnitCharge(r)
        PROVE  (BelowCap /\ StudentOvershoot)'
    BY <1>2, <2>2, <2>6 DEF UpstreamFailure, DbError, UnitCharge, Goto, budgets, TypeOK
  <2>7. ASSUME NEW r \in Request, Charge(r) PROVE (BelowCap /\ StudentOvershoot)'
    BY <1>2, <2>7, ChargeStep DEF Charge, Goto
  <2>8. ASSUME NEW r \in Request, ChargeFailed(r) PROVE (BelowCap /\ StudentOvershoot)'
    <3>1. CASE AddUsage(r)
      BY <1>2, <2>8, <3>1, ChargeStep DEF ChargeFailed, Goto
    <3>2. CASE UNCHANGED used
      BY <1>2, <2>2, <2>8, <3>2 DEF ChargeFailed, Goto, TypeOK
    <3> QED
      BY <2>8, <3>1, <3>2 DEF ChargeFailed
  <2> QED
    BY <1>2, <2>1, <2>3, <2>4, <2>5, <2>6, <2>7, <2>8, ForwardStep
       DEF Next, Thread, ProxyInv
<1> QED
  BY <1>1, <1>2, ProxyTypeCorrect, PTL DEF Spec

(* The overshoot rule: tokens_used never exceeds tokens_cap by more than   *)
(* the usage of one accepted call.                                         *)
THEOREM OvershootBound == Spec => []StudentOvershoot
BY ProxyInvariant, PTL DEF ProxyInv

-----------------------------------------------------------------------------
(* What is certainly charged to a student, and what may be.                *)
Paid(s)  == {r \in Request : StudentOf[r] = s /\ pc[r] \in {"ok", "unitCharge"}}
Spent(s) == {r \in Request : StudentOf[r] = s /\ pc[r] # "charge"}

(* A request has no usage before its answer, which is not charged before    *)
(* the charge.                                                             *)
Early == {"new", "wait", "check", "refuse", "unitCheck", "unitRefuse", "forward"}
MeterInv ==
  /\ \A r \in Request : pc[r] \in Early => tokens[r] = 0
  /\ \A s \in Student : Usage(Paid(s)) <= used[s] /\ used[s] <= Usage(Spent(s))

(* The students with a request between the unit's check and its charge.    *)
Passing(u) ==
  {s \in Student : \E r \in Request :
     StudentOf[r] = s /\ UnitOf[r] = u /\ pc[r] \in {"forward", "charge", "unitCharge"}}

(* Each of them may still add one call to what the unit has used.          *)
UnitInv ==
  \A u \in Unit :
    unitUsed[u] + Cardinality(Passing(u)) * MaxTokens < UnitCap + Cardinality(Student) * MaxTokens

(* Products of natural numbers grow with their factors.                    *)
LEMMA Times ==
  \A a, b, m \in Nat : a * m \in Nat /\ (a <= b => a * m <= b * m) /\ (a + 1) * m = a * m + m
<1>1. \A a, b, m \in Nat : a * m \in Nat /\ (a + 1) * m = a * m + m
  OBVIOUS
<1>2. ASSUME NEW a \in Nat, NEW b \in Nat, NEW m \in Nat, a <= b PROVE a * m <= b * m
  <2>1. b - a \in Nat /\ b * m = a * m + (b - a) * m /\ (b - a) * m \in Nat /\ a * m \in Nat
    BY <1>2
  <2> QED
    BY <2>1
<1> QED
  BY <1>1, <1>2

(* No more students are on their way than there are.                       *)
LEMMA PassingCount ==
  ASSUME NEW u
  PROVE  /\ IsFiniteSet(Passing(u)) /\ Cardinality(Passing(u)) \in Nat
         /\ Cardinality(Student) \in Nat /\ Cardinality(Passing(u)) <= Cardinality(Student)
<1>1. Passing(u) \subseteq Student
  BY DEF Passing
<1> QED
  BY <1>1, RequestAssumption, FS_Subset, FS_CardinalityType

(* The students with a call past the unit's check are finitely many.       *)
LEMMA PassingCountNext ==
  ASSUME NEW u
  PROVE  /\ IsFiniteSet(Passing(u)') /\ Cardinality(Passing(u)') \in Nat
         /\ Cardinality(Passing(u)') <= Cardinality(Student)
<1>1. Passing(u)' \subseteq Student
  BY DEF Passing
<1> QED
  BY <1>1, RequestAssumption, FS_Subset, FS_CardinalityType

(* Who leaves the way, or finds the unit below its cap, keeps the bound.   *)
LEMMA UnitKeeps ==
  ASSUME TypeOK, UnitInv, NEW u \in Unit, unitUsed'[u] \in 0 .. unitUsed[u],
         Passing(u)' \subseteq Passing(u) \/ unitUsed'[u] < UnitCap
  PROVE  unitUsed'[u] + Cardinality(Passing(u)') * MaxTokens < UnitCap + Cardinality(Student) * MaxTokens
<1> DEFINE a == Cardinality(Passing(u)')
           b == Cardinality(Passing(u))
           c == Cardinality(Student)
<1>1. a \in Nat /\ b \in Nat /\ c \in Nat /\ a <= c /\ MaxTokens \in Nat /\ UnitCap \in Nat
      /\ unitUsed[u] \in Nat /\ unitUsed'[u] \in Nat /\ unitUsed'[u] <= unitUsed[u]
  BY PassingCount, PassingCountNext, CapAssumption DEF TypeOK
<1>2. unitUsed[u] + b * MaxTokens < UnitCap + c * MaxTokens
  BY DEF UnitInv
<1>3. a * MaxTokens \in Nat /\ b * MaxTokens \in Nat /\ c * MaxTokens \in Nat
  BY <1>1, Times
<1>4. CASE Passing(u)' \subseteq Passing(u)
  <2>1. a <= b
    BY <1>4, PassingCount, FS_Subset
  <2>2. a * MaxTokens <= b * MaxTokens
    <3> HIDE DEF a, b, c
    <3> QED BY <1>1, <2>1, Times
  <2> HIDE DEF a, b, c
  <2>3. unitUsed'[u] + a * MaxTokens < UnitCap + c * MaxTokens
    BY <1>1, <1>2, <1>3, <2>2
  <2> QED
    BY <2>3 DEF a, c
<1>5. CASE unitUsed'[u] < UnitCap
  <2>1. a * MaxTokens <= c * MaxTokens
    <3> HIDE DEF a, b, c
    <3> QED BY <1>1, Times
  <2> HIDE DEF a, b, c
  <2>3. unitUsed'[u] + a * MaxTokens < UnitCap + c * MaxTokens
    BY <1>1, <1>3, <1>5, <2>1
  <2> QED
    BY <2>3 DEF a, c
<1> QED
  BY <1>4, <1>5

(* A charge takes its student off the way: the lock admits no second       *)
(* request of that student.                                                *)
LEMMA UnitChargeStep ==
  ASSUME TypeOK, LockInv, UnitInv, NEW r \in Request, UnitCharge(r), NEW u \in Unit
  PROVE  unitUsed'[u] + Cardinality(Passing(u)') * MaxTokens < UnitCap + Cardinality(Student) * MaxTokens
<1>1. \A q \in Request : q # r => pc'[q] = pc[q]
  BY DEF UnitCharge, Goto, TypeOK
<1>2. pc[r] = "unitCharge" /\ pc'[r] = "ok"
  BY DEF UnitCharge, Goto, TypeOK
<1>3. CASE UnitOf[r] # u
  <2>1. unitUsed'[u] = unitUsed[u] /\ unitUsed[u] \in Nat
    BY <1>3, RequestAssumption DEF UnitCharge, TypeOK
  <2>2. Passing(u)' \subseteq Passing(u)
    BY <1>1, <1>3 DEF Passing
  <2> QED
    BY <2>1, <2>2, UnitKeeps
<1>4. CASE UnitOf[r] = u
  <2> DEFINE s == StudentOf[r]
             a == Cardinality(Passing(u)')
             b == Cardinality(Passing(u))
             c == Cardinality(Student)
  <2>1. s \in Passing(u)
    BY <1>2, <1>4, RequestAssumption DEF Passing
  <2>2. Passing(u)' \subseteq Passing(u) \ {s}
    <3> SUFFICES ASSUME NEW t \in Passing(u)' PROVE t \in Passing(u) /\ t # s
      OBVIOUS
    <3>1. PICK q \in Request : /\ t \in Student /\ StudentOf[q] = t /\ UnitOf[q] = u
                               /\ pc'[q] \in {"forward", "charge", "unitCharge"}
      BY DEF Passing
    <3>2. q # r /\ pc[q] = pc'[q]
      BY <1>1, <1>2, <3>1
    <3>3. holder[StudentOf[q]] = q /\ holder[StudentOf[r]] = r
      BY <1>2, <3>1, <3>2 DEF LockInv, Inside
    <3> QED
      BY <3>1, <3>2, <3>3 DEF Passing
  <2>3. b - 1 \in Nat /\ a <= b - 1
    <3>1. IsFiniteSet(Passing(u) \ {s}) /\ Cardinality(Passing(u) \ {s}) = b - 1
          /\ Cardinality(Passing(u) \ {s}) \in Nat
      BY <2>1, PassingCount, FS_RemoveElement, FS_CardinalityType
    <3> QED
      BY <2>2, <3>1, FS_Subset
  <2>4. a \in Nat /\ b \in Nat /\ c \in Nat /\ MaxTokens \in Nat /\ UnitCap \in Nat
        /\ unitUsed[u] \in Nat /\ tokens[r] \in Nat /\ tokens[r] <= MaxTokens
    BY PassingCount, PassingCountNext, CapAssumption DEF TypeOK
  <2>5. unitUsed'[u] = unitUsed[u] + tokens[r]
    BY <1>4, RequestAssumption DEF UnitCharge, TypeOK
  <2>6. unitUsed[u] + b * MaxTokens < UnitCap + c * MaxTokens
    BY DEF UnitInv
  <2> HIDE DEF a, b, c
  <2>7. a * MaxTokens <= (b - 1) * MaxTokens /\ b * MaxTokens = (b - 1) * MaxTokens + MaxTokens
    <3>1. b = (b - 1) + 1
      BY <2>4
    <3> QED
      BY <2>3, <2>4, <3>1, Times
  <2>8. a * MaxTokens \in Nat /\ (b - 1) * MaxTokens \in Nat /\ c * MaxTokens \in Nat
    BY <2>3, <2>4, Times
  <2>9. unitUsed'[u] + a * MaxTokens < UnitCap + c * MaxTokens
    BY <2>4, <2>5, <2>6, <2>7, <2>8
  <2> QED
    BY <2>9 DEF a, c
<1> QED
  BY <1>3, <1>4

(* The unit's rule with the locks; it needs nothing of the students' caps.  *)
THEOREM UnitInvariant == Spec => []UnitInv
<1>1. Init => UnitInv
  <2> SUFFICES ASSUME Init, NEW u \in Unit
               PROVE  unitUsed[u] + Cardinality(Passing(u)) * MaxTokens
                        < UnitCap + Cardinality(Student) * MaxTokens
    BY DEF UnitInv
  <2>1. Passing(u) = {} /\ unitUsed[u] = 0
    BY DEF Init, Passing
  <2>2. Cardinality(Passing(u)) = 0 /\ 0 * MaxTokens = 0
    BY <2>1, FS_EmptySet, CapAssumption
  <2>3. Cardinality(Student) * MaxTokens \in Nat
    BY PassingCount, CapAssumption, Times
  <2> QED
    BY <2>1, <2>2, <2>3, CapAssumption
<1>2. ASSUME TypeOK, LockInv, UnitInv, [Next]_vars PROVE UnitInv'
  <2> SUFFICES ASSUME NEW u \in Unit
               PROVE  unitUsed'[u] + Cardinality(Passing(u)') * MaxTokens
                        < UnitCap + Cardinality(Student) * MaxTokens
    BY DEF UnitInv
  <2> USE <1>2
  <2>0. unitUsed[u] \in Nat
    BY DEF TypeOK
  <2>1. ASSUME unitUsed' = unitUsed,
               \A q \in Request : pc'[q] \in {"forward", "charge", "unitCharge"} =>
                 pc[q] \in {"forward", "charge", "unitCharge"}
        PROVE  unitUsed'[u] + Cardinality(Passing(u)') * MaxTokens
                 < UnitCap + Cardinality(Student) * MaxTokens
    BY <2>0, <2>1, UnitKeeps DEF Passing
  <2>2. CASE UNCHANGED vars
    BY <2>1, <2>2 DEF vars, budgets
  <2>3. CASE Crash
    <3>1. unitUsed'[u] = 0 /\ 0 < UnitCap
      BY <2>3, CapAssumption DEF Crash
    <3> QED
      BY <2>0, <3>1, UnitKeeps
  <2>4. ASSUME NEW r \in Request, UnitPrecheck(r)
        PROVE  unitUsed'[u] + Cardinality(Passing(u)') * MaxTokens
                 < UnitCap + Cardinality(Student) * MaxTokens
    <3>1. unitUsed'[u] = unitUsed[u]
      BY <2>4 DEF UnitPrecheck, budgets
    <3>2. CASE unitUsed[u] < UnitCap
      BY <2>0, <3>1, <3>2, UnitKeeps
    <3>3. CASE ~ (unitUsed[u] < UnitCap)
      <4>1. UnitOf[r] = u => UnitOf[r] # NoUnit
        BY RequestAssumption
      <4>2. ASSUME UnitOf[r] = u PROVE pc' = [pc EXCEPT ![r] = "unitRefuse"]
        <5>1. UnitOf[r] # NoUnit /\ unitUsed[UnitOf[r]] >= UnitCap
          BY <2>0, <3>3, <4>1, <4>2, CapAssumption
        <5> QED
          BY <2>4, <5>1 DEF UnitPrecheck, Goto
      <4>3. \A q \in Request : q # r => pc'[q] = pc[q]
        BY <2>4 DEF UnitPrecheck, Goto, TypeOK
      <4>4. Passing(u)' \subseteq Passing(u)
        <5> SUFFICES ASSUME NEW q \in Request, UnitOf[q] = u,
                            pc'[q] \in {"forward", "charge", "unitCharge"}
                     PROVE  pc[q] \in {"forward", "charge", "unitCharge"}
          BY DEF Passing
        <5>1. q # r
          BY <4>2 DEF TypeOK
        <5> QED
          BY <4>3, <5>1
      <4> QED
        BY <2>0, <3>1, <4>4, UnitKeeps
    <3> QED
      BY <3>2, <3>3
  <2>5. ASSUME NEW r \in Request,
               Arrive(r) \/ Acquire(r) \/ Precheck(r) \/ Refuse(r) \/ UpstreamFailure(r) \/ DbError(r)
        PROVE  unitUsed'[u] + Cardinality(Passing(u)') * MaxTokens
                 < UnitCap + Cardinality(Student) * MaxTokens
    BY <2>1, <2>5 DEF Arrive, Acquire, Precheck, Refuse, UpstreamFailure, DbError, Goto, budgets, TypeOK
  <2>6. ASSUME NEW r \in Request, Charge(r) \/ ChargeFailed(r) \/ \E n \in 0 .. MaxTokens : Forward(r, n)
        PROVE  unitUsed'[u] + Cardinality(Passing(u)') * MaxTokens
                 < UnitCap + Cardinality(Student) * MaxTokens
    BY <2>1, <2>6 DEF Charge, ChargeFailed, Forward, AddUsage, Goto, budgets, TypeOK
  <2> QED
    BY <2>2, <2>3, <2>4, <2>5, <2>6, UnitChargeStep DEF Next, Thread
<1>3. Spec => []LockInv
  BY ProxyInvariant, PTL DEF ProxyInv
<1> QED
  BY <1>1, <1>2, <1>3, ProxyTypeCorrect, PTL DEF Spec

(* The overshoot of a unit: below one call of each student, for any number *)
(* of students and requests.                                               *)
THEOREM UnitOvershootBound == Spec => []UnitOvershootPerStudent
<1>1. ASSUME TypeOK, UnitInv PROVE UnitOvershootPerStudent
  <2> SUFFICES ASSUME NEW u \in Unit
               PROVE  unitUsed[u] < UnitCap + Cardinality(Student) * MaxTokens
    BY DEF UnitOvershootPerStudent
  <2>1. Cardinality(Passing(u)) * MaxTokens \in Nat /\ Cardinality(Student) * MaxTokens \in Nat
    BY PassingCount, CapAssumption, Times
  <2> QED
    BY <1>1, <2>1, CapAssumption DEF UnitInv, TypeOK
<1> QED
  BY <1>1, UnitInvariant, ProxyTypeCorrect, PTL
-----------------------------------------------------------------------------
(* The calls are finitely many, and so are their tokens.                   *)
LEMMA CallsFinite ==
  ASSUME NEW R \in SUBSET Request, TypeOK
  PROVE  IsFiniteSet(R) /\ (\A r \in R : tokens[r] \in Nat) /\ Usage(R) \in Nat
<1>1. IsFiniteSet(R) /\ \A r \in R : tokens[r] \in Nat
  BY RequestAssumption, CapAssumption, FS_Subset DEF TypeOK
<1> QED
  BY <1>1, SumType DEF Usage

(* Where a thread goes without a charge or an answer, the sums stay.       *)
LEMMA MeterKeeps ==
  ASSUME TypeOK, TypeOK', MeterInv, used' = used, tokens' = tokens,
         \A q \in Request : /\ pc'[q] \in {"ok", "unitCharge"} => pc[q] \in {"ok", "unitCharge"}
                            /\ pc'[q] = "charge" => pc[q] = "charge"
                            /\ pc'[q] \in Early => pc[q] \in Early
  PROVE  MeterInv'
<1>1. \A q \in Request : pc'[q] \in Early => tokens'[q] = 0
  BY DEF MeterInv
<1>2. ASSUME NEW s \in Student
      PROVE  Usage(Paid(s))' <= used'[s] /\ used'[s] <= Usage(Spent(s))'
  <2>1. Paid(s)' \subseteq Paid(s) /\ Spent(s) \subseteq Spent(s)'
    BY DEF Paid, Spent
  <2>2. Paid(s) \subseteq Request /\ Spent(s)' \subseteq Request /\ Spent(s) \subseteq Request
        /\ Paid(s)' \subseteq Request
    BY DEF Paid, Spent
  <2>3. Usage(Paid(s)') <= Usage(Paid(s)) /\ Usage(Spent(s)) <= Usage(Spent(s)')
    <3>1. \A R \in SUBSET Request : IsFiniteSet(R) /\ \A r \in R : tokens[r] \in Nat /\ tokens[r] <= tokens[r]
      BY CallsFinite
    <3> QED
      BY <2>1, <2>2, <3>1, SumMonotone DEF Usage
  <2>4. Usage(Paid(s))' = Usage(Paid(s)') /\ Usage(Spent(s))' = Usage(Spent(s)')
    BY DEF Usage
  <2>5. Usage(Paid(s)) <= used[s] /\ used[s] <= Usage(Spent(s)) /\ used[s] \in Nat
    BY DEF MeterInv, TypeOK
  <2>6. /\ Usage(Paid(s)) \in Nat /\ Usage(Paid(s)') \in Nat
        /\ Usage(Spent(s)) \in Nat /\ Usage(Spent(s)') \in Nat
    BY <2>2, CallsFinite
  <2> QED
    BY <2>3, <2>4, <2>5, <2>6
<1> QED
  BY <1>1, <1>2 DEF MeterInv

(* The answer of the upstream call changes the usage of its own request,   *)
(* which counted for nothing until then.                                   *)
LEMMA MeterForward ==
  ASSUME TypeOK, TypeOK', MeterInv, NEW r \in Request, NEW n \in 0 .. MaxTokens, Forward(r, n)
  PROVE  MeterInv'
<1>1. /\ tokens[r] = 0 /\ pc[r] = "forward" /\ used' = used
      /\ tokens' = [tokens EXCEPT ![r] = n] /\ tokens'[r] = n
      /\ \A q \in Request : q # r => pc'[q] = pc[q] /\ tokens'[q] = tokens[q]
      /\ pc'[r] = IF n > 0 THEN "charge" ELSE "ok"
  BY DEF Forward, MeterInv, Early, Goto, budgets, TypeOK
<1>2. \A q \in Request : pc'[q] \in Early => tokens'[q] = 0
  BY <1>1 DEF MeterInv, Early
<1>3. ASSUME NEW s \in Student
      PROVE  Usage(Paid(s))' <= used'[s] /\ used'[s] <= Usage(Spent(s))'
  <2> DEFINE P == Paid(s) \cup {r}
             Q == Spent(s) \ {r}
  <2>1. P \subseteq Request /\ Q \subseteq Request /\ Paid(s) \subseteq Request /\ Spent(s) \subseteq Request
        /\ Paid(s)' \subseteq Request /\ Spent(s)' \subseteq Request
    BY DEF Paid, Spent
  <2>2. Paid(s)' \subseteq P /\ Q \subseteq Spent(s)' /\ r \notin Paid(s)
    BY <1>1 DEF Paid, Spent
  <2>3. \A q \in Request : tokens[q] \in Nat /\ tokens'[q] \in Nat
    BY CapAssumption DEF TypeOK
  <2>4. \A q \in Paid(s)' : tokens'[q] <= tokens[q]
    <3> SUFFICES ASSUME NEW q \in Paid(s)' PROVE tokens'[q] <= tokens[q]
      OBVIOUS
    <3>1. CASE q = r
      <4>1. pc'[r] # "charge"
        BY <3>1 DEF Paid
      <4>2. n = 0
        BY <1>1, <4>1, CapAssumption
      <4> QED
        BY <1>1, <3>1, <4>2
    <3>2. CASE q # r
      BY <1>1, <2>1, <2>3, <3>2
    <3> QED
      BY <3>1, <3>2
  <2>5. \A q \in Q : tokens[q] <= tokens'[q]
    BY <1>1, <2>1, <2>3
  <2>6. SumFunctionOnSet(tokens', Paid(s)') <= Usage(P)
    <3>1. IsFiniteSet(P)
      BY <2>1, CallsFinite
    <3> HIDE DEF P
    <3> QED
      BY <2>1, <2>2, <2>3, <2>4, <3>1, SumMonotone DEF Usage
  <2>7. Usage(P) = Usage(Paid(s))
    <3>1. Usage(P) = tokens[r] + Usage(Paid(s))
      BY <2>1, <2>2, <2>3, CallsFinite, SumAdd DEF Usage
    <3>2. Usage(Paid(s)) \in Nat
      BY <2>1, CallsFinite
    <3> QED
      BY <1>1, <3>1, <3>2
  <2>8. Usage(Q) <= SumFunctionOnSet(tokens', Spent(s)')
    <3>1. IsFiniteSet(Spent(s)')
      BY <2>1, CallsFinite
    <3> HIDE DEF Q
    <3> QED
      BY <2>1, <2>2, <2>3, <2>5, <3>1, SumMonotone DEF Usage
  <2>9. Usage(Q) = Usage(Spent(s))
    <3>1. CASE r \in Spent(s)
      <4>1. Usage(Spent(s)) = tokens[r] + Usage(Q)
        BY <2>1, <2>3, <3>1, CallsFinite, SumTake DEF Usage
      <4>2. Usage(Q) \in Nat
        BY <2>1, CallsFinite
      <4> QED
        BY <1>1, <4>1, <4>2
    <3>2. CASE r \notin Spent(s)
      <4>1. Q = Spent(s)
        BY <3>2
      <4> QED
        BY <4>1
    <3> QED
      BY <3>1, <3>2
  <2>10. Usage(Paid(s)) <= used[s] /\ used[s] <= Usage(Spent(s)) /\ used[s] \in Nat
    BY DEF MeterInv, TypeOK
  <2>11. /\ Usage(Paid(s)) \in Nat /\ Usage(Spent(s)) \in Nat
         /\ SumFunctionOnSet(tokens', Paid(s)') \in Nat /\ SumFunctionOnSet(tokens', Spent(s)') \in Nat
    BY <2>1, <2>3, CallsFinite, SumType
  <2>12. Usage(Paid(s))' = SumFunctionOnSet(tokens', Paid(s)')
         /\ Usage(Spent(s))' = SumFunctionOnSet(tokens', Spent(s)')
    BY DEF Usage
  <2> QED
    BY <1>1, <2>6, <2>7, <2>8, <2>9, <2>10, <2>11, <2>12
<1> QED
  BY <1>2, <1>3 DEF MeterInv

(* The charge itself: what the row gains, its student's two sums gain.     *)
LEMMA MeterCharge ==
  ASSUME TypeOK, TypeOK', MeterInv, NEW r \in Request, AddUsage(r), tokens' = tokens,
         NEW label \in {"unitCharge", "failed"}, Goto(r, label)
  PROVE  MeterInv'
<1>1. /\ pc[r] = "charge" /\ pc'[r] = label
      /\ \A q \in Request : q # r => pc'[q] = pc[q]
      /\ tokens[r] \in Nat /\ StudentOf[r] \in Student
  BY RequestAssumption, CapAssumption DEF AddUsage, Goto, TypeOK
<1>2. \A q \in Request : pc'[q] \in Early => tokens'[q] = 0
  BY <1>1 DEF MeterInv, Early
<1>3. ASSUME NEW s \in Student
      PROVE  Usage(Paid(s))' <= used'[s] /\ used'[s] <= Usage(Spent(s))'
  <2>1. Paid(s) \subseteq Request /\ Spent(s) \subseteq Request
        /\ Paid(s)' \subseteq Request /\ Spent(s)' \subseteq Request
    BY DEF Paid, Spent
  <2>2. Usage(Paid(s)) <= used[s] /\ used[s] <= Usage(Spent(s)) /\ used[s] \in Nat
    BY DEF MeterInv, TypeOK
  <2>3. Usage(Paid(s)) \in Nat /\ Usage(Spent(s)) \in Nat /\ Usage(Paid(s)') \in Nat
    BY <2>1, CallsFinite
  <2>4. Usage(Paid(s))' = Usage(Paid(s)') /\ Usage(Spent(s))' = Usage(Spent(s)')
    BY DEF Usage
  <2>5. CASE StudentOf[r] = s
    <3>1. used'[s] = used[s] + tokens[r]
      BY <2>5 DEF AddUsage, TypeOK
    <3>2. r \notin Paid(s) /\ r \notin Spent(s) /\ Spent(s)' = Spent(s) \cup {r}
          /\ Paid(s)' \in {Paid(s), Paid(s) \cup {r}}
      BY <1>1, <2>5 DEF Paid, Spent
    <3>3. \A R \in SUBSET Request : r \notin R => Usage(R \cup {r}) = tokens[r] + Usage(R)
      <4> SUFFICES ASSUME NEW R \in SUBSET Request, r \notin R
                   PROVE  Usage(R \cup {r}) = tokens[r] + Usage(R)
        OBVIOUS
      <4>1. IsFiniteSet(R) /\ \A x \in R \cup {r} : tokens[x] \in Nat
        BY <1>1, CallsFinite
      <4> QED
        BY <4>1, SumAdd DEF Usage
    <3>4. Usage(Spent(s)') = tokens[r] + Usage(Spent(s))
      BY <2>1, <3>2, <3>3
    <3>5. Usage(Paid(s)') = Usage(Paid(s)) \/ Usage(Paid(s)') = tokens[r] + Usage(Paid(s))
      BY <2>1, <3>2, <3>3
    <3> QED
      BY <1>1, <2>2, <2>3, <2>4, <3>1, <3>4, <3>5
  <2>6. CASE StudentOf[r] # s
    <3>1. used'[s] = used[s]
      BY <2>6 DEF AddUsage, TypeOK
    <3>2. Paid(s)' = Paid(s) /\ Spent(s)' = Spent(s)
      BY <1>1, <2>6 DEF Paid, Spent
    <3> QED
      BY <2>2, <2>4, <3>1, <3>2
  <2> QED
    BY <2>5, <2>6
<1> QED
  BY <1>2, <1>3 DEF MeterInv

(* The two sums bound the row at every moment, the crash and the failed    *)
(* charge included.                                                        *)
THEOREM MeterInvariant == Spec => []MeterInv
<1>1. Init => MeterInv
  <2> SUFFICES ASSUME Init, NEW s \in Student
               PROVE  Usage(Paid(s)) <= used[s] /\ used[s] <= Usage(Spent(s))
    BY DEF Init, MeterInv
  <2>1. TypeOK
    BY CapAssumption DEF Init, TypeOK
  <2>2. Paid(s) = {} /\ used[s] = 0 /\ Spent(s) \subseteq Request
    BY DEF Init, Paid, Spent
  <2>3. Usage(Paid(s)) = 0
    BY <2>2, SumOfNone DEF Usage
  <2>4. Usage(Spent(s)) \in Nat
    BY <2>1, <2>2, CallsFinite
  <2> QED
    BY <2>2, <2>3, <2>4
<1>2. ASSUME TypeOK, TypeOK', MeterInv, [Next]_vars PROVE MeterInv'
  <2> USE <1>2
  <2>1. CASE UNCHANGED vars
    BY <2>1, MeterKeeps DEF vars, budgets
  <2>2. CASE Crash
    BY <2>2, MeterKeeps DEF Crash, Inside, Early, TypeOK
  <2>3. ASSUME NEW r \in Request,
               Arrive(r) \/ Acquire(r) \/ Precheck(r) \/ UnitPrecheck(r) \/ Refuse(r)
        PROVE  MeterInv'
    BY <2>3, MeterKeeps
       DEF Arrive, Acquire, Precheck, UnitPrecheck, Refuse, Goto, budgets, Early, TypeOK
  <2>4. ASSUME NEW r \in Request, UpstreamFailure(r) \/ DbError(r) \/ UnitCharge(r)
        PROVE  MeterInv'
    BY <2>4, MeterKeeps DEF UpstreamFailure, DbError, UnitCharge, Goto, budgets, Early, TypeOK
  <2>5. ASSUME NEW r \in Request, Charge(r) PROVE MeterInv'
    BY <2>5, MeterCharge DEF Charge
  <2>6. ASSUME NEW r \in Request, ChargeFailed(r) PROVE MeterInv'
    <3>1. CASE AddUsage(r)
      BY <2>6, <3>1, MeterCharge DEF ChargeFailed
    <3>2. CASE UNCHANGED used
      BY <2>6, <3>2, MeterKeeps DEF ChargeFailed, Goto, Early, TypeOK
    <3> QED
      BY <2>6, <3>1, <3>2 DEF ChargeFailed
  <2> QED
    BY <2>1, <2>2, <2>3, <2>4, <2>5, <2>6, MeterForward DEF Next, Thread
<1> QED
  BY <1>1, <1>2, ProxyTypeCorrect, PTL DEF Spec

(* Metering: a student pays for every answered call, and for no call twice. *)
THEOREM EveryAnswerMetered == Spec => []Metered
<1>1. ASSUME TypeOK, MeterInv PROVE Metered
  <2> SUFFICES ASSUME NEW s \in Student
               PROVE  LET calls == {r \in Request : StudentOf[r] = s}
                      IN  /\ Usage({r \in calls : pc[r] \in {"ok", "unitCharge"}}) <= used[s]
                          /\ used[s] <= Usage(calls)
    BY DEF Metered
  <2> DEFINE calls == {r \in Request : StudentOf[r] = s}
  <2>1. {r \in calls : pc[r] \in {"ok", "unitCharge"}} = Paid(s)
    BY DEF Paid
  <2>2. calls \subseteq Request /\ Spent(s) \subseteq calls /\ Spent(s) \subseteq Request
    BY DEF Spent
  <2>3. \A r \in Request : tokens[r] \in Nat /\ tokens[r] <= tokens[r]
    BY <1>1, CapAssumption DEF TypeOK
  <2>4. IsFiniteSet(calls) /\ Usage(calls) \in Nat /\ Usage(Spent(s)) \in Nat
    BY <1>1, <2>2, CallsFinite
  <2>5. Usage(Spent(s)) <= Usage(calls)
    <3> HIDE DEF calls
    <3> QED
      BY <2>2, <2>3, <2>4, SumMonotone DEF Usage
  <2>6. Usage(Paid(s)) <= used[s] /\ used[s] <= Usage(Spent(s)) /\ used[s] \in Nat
    BY <1>1 DEF MeterInv, TypeOK
  <2>7. used[s] <= Usage(calls)
    BY <2>4, <2>5, <2>6
  <2> QED
    BY <2>1, <2>6, <2>7
<1> QED
  BY <1>1, MeterInvariant, ProxyTypeCorrect, PTL
=============================================================================

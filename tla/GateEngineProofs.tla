-------------------------- MODULE GateEngineProofs ---------------------------
(***************************************************************************)
(* Proofs about GateEngine, for any students, units, gates and rules, any  *)
(* number of events, crashes and cursor resets.                            *)
(***************************************************************************)
EXTENDS GateEngine, TLAPS

GateType == {"gate.pledged", "gate.passed"}

(* What one handled event may do to the gate events of a student and gate: *)
(* nothing, or one more event of a type that was not there.                *)
Grown(s, g, e) ==
  \/ emitted'[s][g] = emitted[s][g]
  \/ \E t \in GateType : /\ ~Has(s, g, t)
                         /\ emitted'[s][g] = Append(emitted[s][g], GateOn(t, e))

(* What an append adds and keeps.                                          *)
LEMMA AppendFacts ==
  ASSUME NEW q \in Seq(GateEvent), NEW r \in GateEvent
  PROVE  /\ Len(q) \in Nat /\ Len(Append(q, r)) = Len(q) + 1
         /\ \A i \in 1 .. Len(q) : Append(q, r)[i] = q[i] /\ q[i] \in GateEvent
         /\ Append(q, r)[Len(q) + 1] = r
OBVIOUS

(* Whatever has been emitted stays emitted.                                *)
LEMMA GrownKeeps ==
  ASSUME TypeOK, NEW s \in Student, NEW g \in Gate, NEW e \in Event, Grown(s, g, e), NEW type
  PROVE  Has(s, g, type) => Has(s, g, type)'
<1>1. emitted[s][g] \in Seq(GateEvent)
  BY DEF TypeOK
<1>2. ASSUME NEW t \in GateType
      PROVE  GateOn(t, e) \in GateEvent
  BY <1>2 DEF GateOn, GateEvent, GateType, Event
<1>3. CASE emitted'[s][g] = emitted[s][g]
  BY <1>3 DEF Has
<1>4. ASSUME NEW t \in GateType, emitted'[s][g] = Append(emitted[s][g], GateOn(t, e))
      PROVE  Has(s, g, type) => Has(s, g, type)'
  <2> DEFINE q == emitted[s][g]
             r == GateOn(t, e)
  <2>1. /\ Len(q) \in Nat /\ Len(Append(q, r)) = Len(q) + 1
        /\ \A i \in 1 .. Len(q) : Append(q, r)[i] = q[i]
    BY <1>1, <1>2, AppendFacts
  <2>2. SUFFICES ASSUME NEW i \in 1 .. Len(q), q[i].type = type
                 PROVE  \E j \in 1 .. Len(Append(q, r)) : Append(q, r)[j].type = type
    BY <1>4 DEF Has
  <2> QED BY <2>1, <2>2
<1> QED BY <1>3, <1>4 DEF Grown

(* Growing keeps the events of a student and gate distinct.                *)
LEMMA GrownDistinct ==
  ASSUME TypeOK, NEW s \in Student, NEW g \in Gate, NEW e \in Event, Grown(s, g, e),
         \A i, j \in 1 .. Len(emitted[s][g]) :
           emitted[s][g][i].type = emitted[s][g][j].type => i = j
  PROVE  \A i, j \in 1 .. Len(emitted'[s][g]) :
           emitted'[s][g][i].type = emitted'[s][g][j].type => i = j
<1>1. emitted[s][g] \in Seq(GateEvent)
  BY DEF TypeOK
<1>2. CASE emitted'[s][g] = emitted[s][g]
  BY <1>2
<1>3. ASSUME NEW t \in GateType, ~Has(s, g, t),
             emitted'[s][g] = Append(emitted[s][g], GateOn(t, e))
      PROVE  \A i, j \in 1 .. Len(emitted'[s][g]) :
               emitted'[s][g][i].type = emitted'[s][g][j].type => i = j
  <2> DEFINE q == emitted[s][g]
             r == GateOn(t, e)
  <2>1. r \in GateEvent /\ r.type = t
    BY DEF GateOn, GateEvent, GateType, Event
  <2>2. /\ Len(q) \in Nat /\ Len(Append(q, r)) = Len(q) + 1
        /\ \A i \in 1 .. Len(q) : Append(q, r)[i] = q[i]
        /\ Append(q, r)[Len(q) + 1] = r
    BY <1>1, <2>1, AppendFacts
  <2>3. \A i \in 1 .. Len(q) : q[i].type # t
    BY <1>3 DEF Has
  <2> HIDE DEF q, r
  <2>4. \A i, j \in 1 .. Len(Append(q, r)) :
          Append(q, r)[i].type = Append(q, r)[j].type => i = j
    <3> SUFFICES ASSUME NEW i \in 1 .. Len(q) + 1, NEW j \in 1 .. Len(q) + 1,
                        Append(q, r)[i].type = Append(q, r)[j].type
                 PROVE  i = j
      BY <2>2
    <3>1. CASE i = Len(q) + 1 /\ j = Len(q) + 1
      BY <3>1
    <3>2. CASE i = Len(q) + 1 /\ j # Len(q) + 1
      BY <2>1, <2>2, <2>3, <3>2
    <3>3. CASE i # Len(q) + 1 /\ j = Len(q) + 1
      BY <2>1, <2>2, <2>3, <3>3
    <3>4. CASE i # Len(q) + 1 /\ j # Len(q) + 1
      <4>1. i \in 1 .. Len(q) /\ j \in 1 .. Len(q)
        BY <2>2, <3>4
      <4> QED BY <2>2, <4>1 DEF q
    <3> QED BY <3>1, <3>2, <3>3, <3>4
  <2> QED BY <1>3, <2>4 DEF q, r
<1> QED BY <1>2, <1>3 DEF Grown

-----------------------------------------------------------------------------
(* The two handlers, in terms of Grown.                                    *)

(* An enrollment passes no gate.                                           *)
LEMMA EnrollmentGrows ==
  ASSUME TypeOK, BatchInv, NEW e \in batch, HandleEnrollment(e)
  PROVE  \A s \in Student, g \in Gate :
           /\ Grown(s, g, e)
           /\ Has(s, g, "gate.passed")' <=> Has(s, g, "gate.passed")
           /\ Len(emitted'[s][g]) \in Nat
<1> SUFFICES ASSUME NEW s \in Student, NEW g \in Gate
             PROVE  /\ Grown(s, g, e)
                    /\ Has(s, g, "gate.passed")' <=> Has(s, g, "gate.passed")
                    /\ Len(emitted'[s][g]) \in Nat
  OBVIOUS
<1>1. e \in Event /\ emitted[s][g] \in Seq(GateEvent)
  BY DEF TypeOK
<1>2. \/ emitted'[s][g] = emitted[s][g]
      \/ ~Pledged(s, g) /\ emitted'[s][g] = Append(emitted[s][g], GateOn("gate.pledged", e))
  BY DEF HandleEnrollment, TypeOK
<1>3. GateOn("gate.pledged", e) \in GateEvent /\ GateOn("gate.pledged", e).type = "gate.pledged"
  BY <1>1 DEF GateOn, GateEvent, Event
<1>4. Grown(s, g, e)
  BY <1>2 DEF Grown, GateType, Pledged
<1>5. CASE emitted'[s][g] = emitted[s][g]
  BY <1>1, <1>4, <1>5 DEF Has
<1>6. CASE emitted'[s][g] = Append(emitted[s][g], GateOn("gate.pledged", e))
  <2>1. Has(s, g, "gate.passed")' => Has(s, g, "gate.passed")
    BY <1>1, <1>3, <1>6, AppendFacts DEF Has
  <2>2. Has(s, g, "gate.passed") => Has(s, g, "gate.passed")'
    BY <1>1, <1>4, GrownKeeps
  <2> QED BY <1>1, <1>3, <1>4, <1>6, <2>1, <2>2, AppendFacts
<1> QED BY <1>2, <1>5, <1>6

(* A verdict passes the gates it clears, and no other.                     *)
LEMMA VerdictGrows ==
  ASSUME TypeOK, BatchInv, NEW e \in batch, HandleVerdict(e)
  PROVE  \A s \in Student, g \in Gate :
           /\ Grown(s, g, e)
           /\ Has(s, g, "gate.passed")' <=>
                \/ Has(s, g, "gate.passed")
                \/ s = e.student /\ Enrolled(s) /\ g \in ClearedBy(e)
<1> SUFFICES ASSUME NEW s \in Student, NEW g \in Gate
             PROVE  /\ Grown(s, g, e)
                    /\ Has(s, g, "gate.passed")' <=>
                         \/ Has(s, g, "gate.passed")
                         \/ s = e.student /\ Enrolled(s) /\ g \in ClearedBy(e)
  OBVIOUS
<1> DEFINE clears == s = e.student /\ Enrolled(s) /\ g \in ClearedBy(e)
<1>1. e \in Event /\ emitted[s][g] \in Seq(GateEvent)
  BY DEF TypeOK
<1>2. emitted'[s][g] = IF clears /\ ~Passed(s, g)
                         THEN Append(emitted[s][g], GateOn("gate.passed", e))
                         ELSE emitted[s][g]
  <2>1. CASE s = e.student
    BY <2>1 DEF HandleVerdict, TypeOK
  <2>2. CASE s # e.student
    BY <2>2 DEF HandleVerdict, TypeOK
  <2> QED BY <2>1, <2>2
<1>3. GateOn("gate.passed", e) \in GateEvent /\ GateOn("gate.passed", e).type = "gate.passed"
  BY <1>1 DEF GateOn, GateEvent, Event
<1>4. Grown(s, g, e)
  BY <1>2 DEF Grown, GateType, Passed
<1>5. CASE clears /\ ~Passed(s, g)
  <2>1. Len(emitted[s][g]) + 1 \in 1 .. Len(emitted'[s][g])
    BY <1>1, <1>2, <1>3, <1>5, AppendFacts
  <2>2. emitted'[s][g][Len(emitted[s][g]) + 1].type = "gate.passed"
    BY <1>1, <1>2, <1>3, <1>5, AppendFacts
  <2> QED BY <1>4, <1>5, <2>1, <2>2 DEF Has
<1>6. CASE ~(clears /\ ~Passed(s, g))
  BY <1>2, <1>4, <1>6 DEF Has, Passed
<1> QED BY <1>5, <1>6
(* Where a gate.passed event of the next state comes from.                 *)
LEMMA EnrollmentAddsNoPass ==
  ASSUME TypeOK, BatchInv, NEW e \in batch, HandleEnrollment(e),
         NEW s \in Student, NEW g \in Gate, NEW i \in 1 .. Len(emitted'[s][g]),
         emitted'[s][g][i].type = "gate.passed"
  PROVE  i \in 1 .. Len(emitted[s][g]) /\ emitted'[s][g][i] = emitted[s][g][i]
<1>1. e \in Event /\ emitted[s][g] \in Seq(GateEvent)
  BY DEF TypeOK, BatchInv
<1>2. \/ emitted'[s][g] = emitted[s][g]
      \/ emitted'[s][g] = Append(emitted[s][g], GateOn("gate.pledged", e))
  BY DEF HandleEnrollment, TypeOK
<1>3. GateOn("gate.pledged", e) \in GateEvent /\ GateOn("gate.pledged", e).type # "gate.passed"
  BY <1>1 DEF GateOn, GateEvent, Event
<1> QED BY <1>1, <1>2, <1>3, AppendFacts

(* An event a verdict adds is the pass of a verified gate.                 *)
LEMMA VerdictAddsVerifiedPass ==
  ASSUME TypeOK, BatchInv, NEW e \in batch, HandleVerdict(e),
         NEW s \in Student, NEW g \in Gate, NEW i \in 1 .. Len(emitted'[s][g])
  PROVE  \/ i \in 1 .. Len(emitted[s][g]) /\ emitted'[s][g][i] = emitted[s][g][i]
         \/ /\ s = e.student /\ Enrolled(s) /\ g \in ClearedBy(e)
            /\ emitted'[s][g][i].source = e.seq
<1> DEFINE clears == s = e.student /\ Enrolled(s) /\ g \in ClearedBy(e)
<1>1. e \in Event /\ emitted[s][g] \in Seq(GateEvent)
  BY DEF TypeOK, BatchInv
<1>2. \/ emitted'[s][g] = emitted[s][g]
      \/ clears /\ emitted'[s][g] = Append(emitted[s][g], GateOn("gate.passed", e))
  <2>1. CASE s = e.student
    BY <2>1 DEF HandleVerdict, TypeOK
  <2>2. CASE s # e.student
    BY <2>2 DEF HandleVerdict, TypeOK
  <2> QED BY <2>1, <2>2
<1>3. GateOn("gate.passed", e) \in GateEvent /\ GateOn("gate.passed", e).source = e.seq
  BY <1>1 DEF GateOn, GateEvent, Event
<1> HIDE DEF clears
<1>4. CASE emitted'[s][g] = emitted[s][g]
  BY <1>4
<1>5. CASE clears /\ emitted'[s][g] = Append(emitted[s][g], GateOn("gate.passed", e))
  <2>1. i \in 1 .. Len(emitted[s][g]) \/ i = Len(emitted[s][g]) + 1
    BY <1>1, <1>3, <1>5, AppendFacts
  <2> QED BY <1>1, <1>3, <1>5, <2>1, AppendFacts DEF clears
<1> QED BY <1>2, <1>4, <1>5

-----------------------------------------------------------------------------
(* One lemma for each part of the invariant.                               *)

(* Every step keeps the types.                                             *)
LEMMA TypeStep ==
  TypeOK /\ BatchInv /\ [Next]_vars => TypeOK'
<1> SUFFICES ASSUME TypeOK, BatchInv, [Next]_vars
             PROVE  TypeOK'
  OBVIOUS
<1> USE DEF TypeOK, BatchInv, writers, effects, engine
<1>1. ASSUME NEW s \in Student, NEW u \in Unit, InsertEnrollment(s, u) \/ \E o \in {"pass", "fail"} : InsertVerdict(s, u, o)
      PROVE  TypeOK'
  <2>1. PICK type \in {"verdict.issued", "enrollment.activated"},
             overall \in {"pass", "fail", "none"} : Insert(type, s, u, overall)
    BY <1>1 DEF InsertEnrollment, InsertVerdict
  <2>2. [seq |-> lastSeq + 1, type |-> type, student |-> s, unit |-> u, overall |-> overall] \in Event
    BY DEF Event
  <2> QED BY <2>1, <2>2 DEF Insert
<1>2. ASSUME NEW e \in open, Commit(e)
      PROVE  TypeOK'
  BY <1>2 DEF Commit, Event
<1>3. ASSUME NEW e \in open, Abort(e)
      PROVE  TypeOK'
  BY <1>3 DEF Abort
<1>4. CASE Read
  BY <1>4 DEF Read
<1>5. ASSUME NEW e \in batch, HandleEnrollment(e)
      PROVE  TypeOK'
  <2>1. GateOn("gate.pledged", e) \in GateEvent
    BY DEF GateOn, GateEvent, Event
  <2>2. emitted' \in [Student -> [Gate -> Seq(GateEvent)]]
    <3> DEFINE pledge(q, P) == IF P THEN Append(q, GateOn("gate.pledged", e)) ELSE q
    <3>1. \A q \in Seq(GateEvent) : \A P \in BOOLEAN : pledge(q, P) \in Seq(GateEvent)
      BY <2>1
    <3> DEFINE isFirst == Cardinality({u \in Unit : <<e.student, u>> \in enrollments}) = 1
               mine == [g \in Gate |-> pledge(emitted[e.student][g],
                          g \in RebateGate /\ isFirst /\ ~Pledged(e.student, g))]
    <3>2. e.student \in Student
      BY DEF Event
    <3>3. mine \in [Gate -> Seq(GateEvent)]
      BY <3>1, <3>2, <2>1
    <3>4. emitted' = [emitted EXCEPT ![e.student] = mine]
      BY <1>5 DEF HandleEnrollment
    <3> QED BY <3>3, <3>4
  <2> QED BY <1>5, <2>2 DEF HandleEnrollment
<1>6. ASSUME NEW e \in batch, HandleVerdict(e)
      PROVE  TypeOK'
  <2>1. GateOn("gate.passed", e) \in GateEvent /\ e.student \in Student
    BY DEF GateOn, GateEvent, Event
  <2>2. emitted' \in [Student -> [Gate -> Seq(GateEvent)]]
    BY <1>6, <2>1 DEF HandleVerdict
  <2>3. unlocked' \in [Student -> SUBSET Unit]
    BY <1>6, <2>1, RuleAssumption DEF HandleVerdict, ClearedBy
  <2>4. unlockEvents' \in [Student -> [Unit -> Nat]]
    BY <1>6, <2>1 DEF HandleVerdict
  <2> QED BY <1>6, <2>2, <2>3, <2>4 DEF HandleVerdict
<1>7. ASSUME NEW e \in batch, Advance(e)
      PROVE  TypeOK'
  BY <1>7 DEF Advance, Event
<1>8. CASE Restart \/ Crash \/ ResetCursor
  BY <1>8 DEF Restart, Crash, ResetCursor, Fault
<1>9. CASE UNCHANGED vars
  BY <1>9 DEF vars
<1>10. ASSUME NEW s \in Student, NEW units \in PlacementOpens, Place(s, units)
      PROVE  TypeOK'
  BY <1>10, RuleAssumption DEF Place
<1> QED BY <1>1, <1>2, <1>3, <1>4, <1>5, <1>6, <1>7, <1>8, <1>9, <1>10 DEF Next, Writers, Engine

(* A new number is above all the others.                                   *)
LEMMA SeqStep ==
  TypeOK /\ SeqInv /\ [Next]_vars => SeqInv'
<1> SUFFICES ASSUME TypeOK, SeqInv, [Next]_vars
             PROVE  SeqInv'
  OBVIOUS
<1> USE DEF TypeOK, SeqInv, Event, writers, effects, engine
<1>1. ASSUME NEW s \in Student, NEW u \in Unit, InsertEnrollment(s, u) \/ \E o \in {"pass", "fail"} : InsertVerdict(s, u, o)
      PROVE  SeqInv'
  <2>0. PICK type, overall : Insert(type, s, u, overall)
    BY <1>1 DEF InsertEnrollment, InsertVerdict
  <2> DEFINE n == [seq |-> lastSeq', type |-> type, student |-> s, unit |-> u,
                   overall |-> overall]
  <2>1. open' = open \cup {n} /\ n.seq = lastSeq + 1
    BY <2>0 DEF Insert
  <2> HIDE DEF n
  <2>2. lastSeq' = lastSeq + 1 /\ UNCHANGED <<spine, enrollments>>
    BY <1>1 DEF InsertEnrollment, InsertVerdict, Insert
  <2>3. \A e \in open \cup spine : e.seq \in Nat /\ e.seq < n.seq /\ e # n
    BY <2>1
  <2>4. (open \cap spine = {})' /\ (\A e \in open \cup spine : e.seq <= lastSeq)'
    BY <2>1, <2>2, <2>3
  <2>5. (\A e, f \in open \cup spine : e.seq = f.seq => e = f)'
    BY <2>1, <2>2, <2>3
  <2>6. (CommitInOrder => \A e \in spine, f \in open : e.seq < f.seq)'
    BY <2>1, <2>2, <2>3
  <2> QED BY <2>2, <2>4, <2>5, <2>6
<1>2. ASSUME NEW e \in open, Commit(e)
      PROVE  SeqInv'
  BY <1>2 DEF Commit
<1>3. ASSUME NEW e \in open, Abort(e)
      PROVE  SeqInv'
  BY <1>3 DEF Abort
<1>4. CASE Read
  BY <1>4 DEF Read
<1>5. ASSUME NEW e \in batch, HandleEnrollment(e)
      PROVE  SeqInv'
  BY <1>5 DEF HandleEnrollment
<1>6. ASSUME NEW e \in batch, HandleVerdict(e)
      PROVE  SeqInv'
  BY <1>6 DEF HandleVerdict
<1>7. ASSUME NEW e \in batch, Advance(e)
      PROVE  SeqInv'
  BY <1>7 DEF Advance
<1>8. CASE Restart \/ Crash \/ ResetCursor
  BY <1>8 DEF Restart, Crash, ResetCursor, Fault
<1>9. CASE UNCHANGED vars
  BY <1>9 DEF vars
<1>10. ASSUME NEW s \in Student, NEW units \in PlacementOpens, Place(s, units)
      PROVE  SeqInv'
  BY <1>10 DEF Place
<1> QED BY <1>1, <1>2, <1>3, <1>4, <1>5, <1>6, <1>7, <1>8, <1>9, <1>10 DEF Next, Writers, Engine

(* and what is known of the batch,                                         *)
LEMMA BatchStep ==
  TypeOK /\ BatchInv /\ [Next]_vars => BatchInv'
<1> SUFFICES ASSUME TypeOK, BatchInv, [Next]_vars
             PROVE  BatchInv'
  OBVIOUS
<1> USE DEF BatchInv, writers, effects, engine
<1>1. ASSUME NEW s \in Student, NEW u \in Unit, InsertEnrollment(s, u) \/ \E o \in {"pass", "fail"} : InsertVerdict(s, u, o)
      PROVE  BatchInv'
  BY <1>1 DEF InsertEnrollment, InsertVerdict, Insert
<1>2. ASSUME NEW e \in open, Commit(e)
      PROVE  BatchInv'
  BY <1>2 DEF Commit
<1>3. ASSUME NEW e \in open, Abort(e)
      PROVE  BatchInv'
  BY <1>3 DEF Abort
<1>4. CASE Read
  BY <1>4 DEF Read
<1>5. ASSUME NEW e \in batch, HandleEnrollment(e)
      PROVE  BatchInv'
  BY <1>5 DEF HandleEnrollment
<1>6. ASSUME NEW e \in batch, HandleVerdict(e)
      PROVE  BatchInv'
  BY <1>6 DEF HandleVerdict
<1>7. ASSUME NEW e \in batch, Advance(e)
      PROVE  BatchInv'
  BY <1>7 DEF Advance
<1>8. CASE Restart \/ Crash \/ ResetCursor
  BY <1>8 DEF Restart, Crash, ResetCursor, Fault
<1>9. CASE UNCHANGED vars
  BY <1>9 DEF vars
<1>10. ASSUME NEW s \in Student, NEW units \in PlacementOpens, Place(s, units)
      PROVE  BatchInv'
  BY <1>10 DEF Place
<1> QED BY <1>1, <1>2, <1>3, <1>4, <1>5, <1>6, <1>7, <1>8, <1>9, <1>10 DEF Next, Writers, Engine

(* each gate passed once,                                                  *)
LEMMA EmittedStep ==
  TypeOK /\ BatchInv /\ UnlockedIsPassed /\ EmittedOnce /\ [Next]_vars => EmittedOnce'
<1> SUFFICES ASSUME TypeOK, BatchInv, UnlockedIsPassed, EmittedOnce, [Next]_vars
             PROVE  EmittedOnce'
  OBVIOUS
<1> USE DEF EmittedOnce, writers, effects, engine
<1>1. ASSUME NEW s \in Student, NEW u \in Unit, InsertEnrollment(s, u) \/ \E o \in {"pass", "fail"} : InsertVerdict(s, u, o)
      PROVE  EmittedOnce'
  BY <1>1 DEF InsertEnrollment, InsertVerdict, Insert
<1>2. ASSUME NEW e \in open, Commit(e)
      PROVE  EmittedOnce'
  BY <1>2 DEF Commit
<1>3. ASSUME NEW e \in open, Abort(e)
      PROVE  EmittedOnce'
  BY <1>3 DEF Abort
<1>4. CASE Read
  BY <1>4 DEF Read
<1>5. ASSUME NEW e \in batch, HandleEnrollment(e)
      PROVE  EmittedOnce'
  <2>1. \A s \in Student, g \in Gate : Grown(s, g, e)
    BY <1>5, EnrollmentGrows
  <2>2. ASSUME NEW s \in Student, NEW g \in Gate
        PROVE  \A i, j \in 1 .. Len(emitted'[s][g]) :
                 emitted'[s][g][i].type = emitted'[s][g][j].type => i = j
    BY <2>1, GrownDistinct DEF TypeOK, BatchInv
  <2> QED BY <1>5, <2>2 DEF HandleEnrollment
<1>6. ASSUME NEW e \in batch, HandleVerdict(e)
      PROVE  EmittedOnce'
  <2>1. \A s \in Student, g \in Gate : Grown(s, g, e)
    BY <1>6, VerdictGrows
  <2>2. ASSUME NEW s \in Student, NEW g \in Gate
        PROVE  \A i, j \in 1 .. Len(emitted'[s][g]) :
                 emitted'[s][g][i].type = emitted'[s][g][j].type => i = j
    BY <2>1, GrownDistinct DEF TypeOK, BatchInv
  <2>3. ASSUME NEW s \in Student, NEW u \in Unit
        PROVE  unlockEvents'[s][u] = IF u \in unlocked'[s] \ placed'[s] THEN 1 ELSE 0
    <3>1. e.student \in Student
      BY DEF TypeOK, BatchInv, Event
    <3>2. unlockEvents[s][u] = IF u \in unlocked[s] \ placed[s] THEN 1 ELSE 0
      OBVIOUS
    <3>3. CASE s = e.student
      <4> DEFINE cleared == IF Enrolled(e.student) THEN ClearedBy(e) ELSE {}
                 opened == UNION {Unlocks[g] : g \in cleared}
                 fresh == opened \ unlocked[e.student]
      <4>1. unlocked' = [unlocked EXCEPT ![e.student] = @ \cup fresh]
        BY <1>6 DEF HandleVerdict
      <4>2. unlockEvents' = [unlockEvents EXCEPT ![e.student] =
              [v \in Unit |-> IF v \in fresh THEN @[v] + 1 ELSE @[v]]]
        BY <1>6 DEF HandleVerdict
      <4>3. unlocked'[s] = unlocked[s] \cup fresh /\ placed'[s] = placed[s]
        BY <1>6, <3>3, <4>1 DEF HandleVerdict, TypeOK
      <4>4. unlockEvents'[s][u] = IF u \in fresh THEN unlockEvents[s][u] + 1 ELSE unlockEvents[s][u]
        BY <3>3, <4>2 DEF TypeOK
      <4>5. u \in fresh => u \notin unlocked[s] /\ u \notin placed[s]
        BY <3>3 DEF UnlockedIsPassed
      <4> HIDE DEF fresh
      <4> QED BY <3>2, <4>3, <4>4, <4>5
    <3>4. CASE s # e.student
      <4>1. /\ unlocked'[s] = unlocked[s] /\ unlockEvents'[s] = unlockEvents[s]
            /\ placed' = placed
        BY <1>6, <3>4 DEF HandleVerdict, TypeOK
      <4> QED BY <3>2, <4>1
    <3> QED BY <3>3, <3>4
  <2> QED BY <2>2, <2>3
<1>7. ASSUME NEW e \in batch, Advance(e)
      PROVE  EmittedOnce'
  BY <1>7 DEF Advance
<1>8. CASE Restart \/ Crash \/ ResetCursor
  BY <1>8 DEF Restart, Crash, ResetCursor, Fault
<1>9. CASE UNCHANGED vars
  BY <1>9 DEF vars
<1>10. ASSUME NEW s \in Student, NEW units \in PlacementOpens, Place(s, units)
      PROVE  EmittedOnce'
  <2>1. UNCHANGED <<emitted, unlockEvents>>
    BY <1>10 DEF Place
  <2>2. ASSUME NEW c \in Student
        PROVE  unlocked'[c] \ placed'[c] = unlocked[c] \ placed[c]
    BY <1>10 DEF Place, TypeOK
  <2> QED BY <2>1, <2>2
<1> QED BY <1>1, <1>2, <1>3, <1>4, <1>5, <1>6, <1>7, <1>8, <1>9, <1>10 DEF Next, Writers, Engine

(* by a verified verdict,                                                  *)
LEMMA VerifiedStep ==
  TypeOK /\ BatchInv /\ PassedIsVerified /\ [Next]_vars => PassedIsVerified'
<1> SUFFICES ASSUME TypeOK, BatchInv, PassedIsVerified, [Next]_vars
             PROVE  PassedIsVerified'
  OBVIOUS
<1> USE DEF PassedIsVerified, Enrolled, writers, effects, engine
<1>1. ASSUME NEW s \in Student, NEW u \in Unit,
             InsertEnrollment(s, u) \/ \E o \in {"pass", "fail"} : InsertVerdict(s, u, o)
      PROVE  PassedIsVerified'
  BY <1>1 DEF InsertEnrollment, InsertVerdict, Insert
<1>2. ASSUME NEW e \in open, Commit(e)
      PROVE  PassedIsVerified'
  BY <1>2 DEF Commit
<1>3. ASSUME NEW e \in open, Abort(e)
      PROVE  PassedIsVerified'
  BY <1>3 DEF Abort
<1>4. CASE Read
  BY <1>4 DEF Read
<1>5. ASSUME NEW e \in batch, HandleEnrollment(e)
      PROVE  PassedIsVerified'
  <2>1. UNCHANGED <<spine, enrollments>>
    BY <1>5 DEF HandleEnrollment
  <2> QED BY <1>5, <2>1, EnrollmentAddsNoPass
<1>6. ASSUME NEW e \in batch, HandleVerdict(e)
      PROVE  PassedIsVerified'
  <2>1. UNCHANGED <<spine, enrollments>> /\ e.type = "verdict.issued" /\ e \in spine
    BY <1>6 DEF HandleVerdict, BatchInv
  <2>2. ASSUME NEW s \in Student, NEW g \in Gate, NEW i \in 1 .. Len(emitted'[s][g]),
               emitted'[s][g][i].type = "gate.passed"
        PROVE  /\ Enrolled(s)
               /\ \E f \in spine : /\ f.seq = emitted'[s][g][i].source
                                   /\ f.type = "verdict.issued" /\ f.overall = "pass"
                                   /\ f.student = s /\ f.unit = UnitOf[g]
    <3> HIDE DEF Enrolled
    <3>0. \/ i \in 1 .. Len(emitted[s][g]) /\ emitted'[s][g][i] = emitted[s][g][i]
          \/ /\ s = e.student /\ Enrolled(s) /\ g \in ClearedBy(e)
             /\ emitted'[s][g][i].source = e.seq
      BY <1>6, VerdictAddsVerifiedPass
    <3>1. CASE i \in 1 .. Len(emitted[s][g]) /\ emitted'[s][g][i] = emitted[s][g][i]
      BY <2>2, <3>1
    <3>2. CASE /\ s = e.student /\ Enrolled(s) /\ g \in ClearedBy(e)
               /\ emitted'[s][g][i].source = e.seq
      BY <2>1, <3>2 DEF ClearedBy
    <3> QED BY <3>0, <3>1, <3>2
  <2> QED BY <2>1, <2>2
<1>7. ASSUME NEW e \in batch, Advance(e)
      PROVE  PassedIsVerified'
  BY <1>7 DEF Advance
<1>8. CASE Restart \/ Crash \/ ResetCursor
  BY <1>8 DEF Restart, Crash, ResetCursor, Fault
<1>9. CASE UNCHANGED vars
  BY <1>9 DEF vars
<1>10. ASSUME NEW s \in Student, NEW units \in PlacementOpens, Place(s, units)
      PROVE  PassedIsVerified'
  BY <1>10 DEF Place
<1> HIDE DEF PassedIsVerified, Enrolled
<1> QED BY <1>1, <1>2, <1>3, <1>4, <1>5, <1>6, <1>7, <1>8, <1>9, <1>10 DEF Next, Writers, Engine

(* and what is unlocked was passed or placed.                              *)
LEMMA UnlockedStep ==
  TypeOK /\ BatchInv /\ UnlockedIsPassed /\ [Next]_vars => UnlockedIsPassed'
<1> SUFFICES ASSUME TypeOK, BatchInv, UnlockedIsPassed, [Next]_vars
             PROVE  UnlockedIsPassed'
  OBVIOUS
<1> USE DEF UnlockedIsPassed, writers, effects, engine
<1>1. ASSUME NEW s \in Student, NEW u \in Unit,
             InsertEnrollment(s, u) \/ \E o \in {"pass", "fail"} : InsertVerdict(s, u, o)
      PROVE  UnlockedIsPassed'
  BY <1>1 DEF InsertEnrollment, InsertVerdict, Insert, Passed, Has
<1>2. ASSUME NEW e \in open, Commit(e)
      PROVE  UnlockedIsPassed'
  BY <1>2 DEF Commit, Passed, Has
<1>3. ASSUME NEW e \in open, Abort(e)
      PROVE  UnlockedIsPassed'
  BY <1>3 DEF Abort, Passed, Has
<1>4. CASE Read
  BY <1>4 DEF Read, Passed, Has
<1>5. ASSUME NEW e \in batch, HandleEnrollment(e)
      PROVE  UnlockedIsPassed'
  <2>1. \A s \in Student, g \in Gate : Passed(s, g)' <=> Passed(s, g)
    BY <1>5, EnrollmentGrows DEF Passed
  <2> QED BY <1>5, <2>1 DEF HandleEnrollment
<1>6. ASSUME NEW e \in batch, HandleVerdict(e)
      PROVE  UnlockedIsPassed'
  <2>1. ASSUME NEW s \in Student, NEW g \in Gate
        PROVE  Passed(s, g)' <=> \/ Passed(s, g)
                                 \/ s = e.student /\ Enrolled(s) /\ g \in ClearedBy(e)
    BY <1>6, VerdictGrows DEF Passed
  <2>2. ASSUME NEW s \in Student
        PROVE  unlocked'[s] = placed'[s] \cup UNION {Unlocks[g] : g \in {h \in Gate : Passed(s, h)'}}
    <3>1. unlocked[s] = placed[s] \cup UNION {Unlocks[g] : g \in {h \in Gate : Passed(s, h)}}
      OBVIOUS
    <3>2. CASE s = e.student
      <4> DEFINE cleared == IF Enrolled(e.student) THEN ClearedBy(e) ELSE {}
                 opened == UNION {Unlocks[g] : g \in cleared}
      <4>1. unlocked' = [unlocked EXCEPT ![e.student] = @ \cup (opened \ @)]
        BY <1>6 DEF HandleVerdict
      <4>2. unlocked'[s] = unlocked[s] \cup opened /\ placed'[s] = placed[s]
        BY <1>6, <3>2, <4>1 DEF HandleVerdict, TypeOK
      <4>3. {h \in Gate : Passed(s, h)'} = {h \in Gate : Passed(s, h)} \cup cleared
        BY <2>1, <3>2 DEF ClearedBy
      <4> QED BY <3>1, <4>2, <4>3
    <3>3. CASE s # e.student
      <4>1. unlocked'[s] = unlocked[s] /\ placed'[s] = placed[s]
        BY <1>6, <3>3 DEF HandleVerdict, TypeOK
      <4>2. {h \in Gate : Passed(s, h)'} = {h \in Gate : Passed(s, h)}
        BY <2>1, <3>3
      <4> QED BY <3>1, <4>1, <4>2
    <3> QED BY <3>2, <3>3
  <2> QED BY <2>2
<1>7. ASSUME NEW e \in batch, Advance(e)
      PROVE  UnlockedIsPassed'
  BY <1>7 DEF Advance, Passed, Has
<1>8. CASE Restart \/ Crash \/ ResetCursor
  BY <1>8 DEF Restart, Crash, ResetCursor, Fault, Passed, Has
<1>9. CASE UNCHANGED vars
  BY <1>9 DEF vars, Passed, Has
<1>10. ASSUME NEW s \in Student, NEW units \in PlacementOpens, Place(s, units)
      PROVE  UnlockedIsPassed'
  <2>1. \A c \in Student, g \in Gate : Passed(c, g)' <=> Passed(c, g)
    BY <1>10 DEF Place, Passed, Has
  <2>2. ASSUME NEW c \in Student
        PROVE  \/ unlocked'[c] = unlocked[c] /\ placed'[c] = placed[c]
               \/ /\ unlocked'[c] = unlocked[c] \cup units
                  /\ placed'[c] = placed[c] \cup (units \ unlocked[c])
    BY <1>10 DEF Place, TypeOK
  <2>3. ASSUME NEW c \in Student
        PROVE  unlocked'[c] = placed'[c] \cup UNION {Unlocks[g] : g \in {h \in Gate : Passed(c, h)'}}
    <3>1. unlocked[c] = placed[c] \cup UNION {Unlocks[g] : g \in {h \in Gate : Passed(c, h)}}
      OBVIOUS
    <3>2. {h \in Gate : Passed(c, h)'} = {h \in Gate : Passed(c, h)}
      BY <2>1
    <3> QED BY <2>2, <3>1, <3>2
  <2> QED BY <2>3
<1> QED BY <1>1, <1>2, <1>3, <1>4, <1>5, <1>6, <1>7, <1>8, <1>9, <1>10 DEF Next, Writers, Engine

-----------------------------------------------------------------------------
(* Nothing behind the cursor is lost, if events become visible in order.   *)

(* An event stays applied.                                                 *)
LEMMA AppliedKeeps ==
  ASSUME TypeOK, NEW e \in Event, UNCHANGED spine,
         \A s \in Student, g \in Gate : Passed(s, g) => Passed(s, g)'
  PROVE  Applied(e) => Applied(e)'
BY DEF Applied, ClearedBy, Event

(* The handlers keep every pass.                                           *)
LEMMA HandlersKeepPassed ==
  ASSUME TypeOK, BatchInv, NEW e \in batch, HandleEnrollment(e) \/ HandleVerdict(e)
  PROVE  \A s \in Student, g \in Gate : Passed(s, g) => Passed(s, g)'
BY EnrollmentGrows, VerdictGrows DEF Passed

(* The cursor passes only what was applied.                                *)
LEMMA ProgressStep ==
  ASSUME CommitInOrder, TypeOK, SeqInv, BatchInv, ProgressInv, [Next]_vars
  PROVE  ProgressInv'
<1> USE DEF writers, effects, engine
<1>0. /\ batch \subseteq spine /\ spine \subseteq Event /\ open \subseteq Event
      /\ cursor \in Nat /\ lastSeq \in Nat
      /\ \A e \in Event : e.seq \in Nat /\ e.student \in Student
  BY DEF TypeOK, BatchInv, Event
<1>p. ASSUME UNCHANGED emitted
      PROVE  \A s \in Student, g \in Gate : Passed(s, g) => Passed(s, g)'
  BY <1>p DEF Passed, Has
<1>k. ASSUME UNCHANGED <<emitted, spine>>, NEW e \in Event
      PROVE  Applied(e) => Applied(e)'
  BY <1>k, <1>p, AppliedKeeps
<1>1. ASSUME NEW s \in Student, NEW u \in Unit,
             InsertEnrollment(s, u) \/ \E o \in {"pass", "fail"} : InsertVerdict(s, u, o)
      PROVE  ProgressInv'
  <2>1. /\ UNCHANGED <<spine, emitted, cursor, batch, pc>>
        /\ lastSeq' = lastSeq + 1 /\ \A e \in open' : e \in open \/ e.seq = lastSeq + 1
    BY <1>1 DEF InsertEnrollment, InsertVerdict, Insert
  <2>2. /\ \A e \in open' : cursor < e.seq
        /\ cursor <= lastSeq'
    BY <1>0, <2>1 DEF ProgressInv
  <2> QED BY <1>0, <1>k, <2>1, <2>2 DEF ProgressInv, IsNext
<1>2. ASSUME NEW n \in open, Commit(n)
      PROVE  ProgressInv'
  <2>1. /\ UNCHANGED <<emitted, cursor, batch, pc, lastSeq>>
        /\ spine' = spine \cup {n} /\ open' = open \ {n}
        /\ \A e \in spine : e.seq < n.seq
        /\ cursor < n.seq
    BY <1>2 DEF Commit, SeqInv, ProgressInv
  <2>2. ASSUME NEW e \in spine
        PROVE  Applied(e) => Applied(e)'
    <3>1. ASSUME NEW f \in spine', f.seq < e.seq
          PROVE  f \in spine
      BY <1>0, <2>1, <3>1
    <3> QED BY <1>0, <1>p, <2>1, <3>1 DEF Applied, ClearedBy
  <2>3. /\ \A e \in open' : cursor' < e.seq
        /\ cursor' <= lastSeq'
        /\ \A e \in spine' : e.seq <= cursor' => Applied(e)'
    BY <1>0, <2>1, <2>2 DEF ProgressInv
  <2>4. \A b \in batch', e \in spine' : e.seq <= b.seq => e \in batch' \/ Applied(e)'
    BY <1>0, <2>1, <2>2 DEF ProgressInv
  <2>5. pc' = "advance" => \A e \in batch' : IsNext(e)' => Applied(e)'
    BY <1>0, <2>1, <2>2 DEF ProgressInv, IsNext
  <2> QED BY <2>3, <2>4, <2>5 DEF ProgressInv
<1>3. ASSUME NEW e \in open, Abort(e)
      PROVE  ProgressInv'
  BY <1>0, <1>3, <1>k DEF Abort, ProgressInv, IsNext
<1>4. CASE Read
  <2>1. UNCHANGED <<spine, open, emitted, cursor, lastSeq>> /\ pc' # "advance"
        /\ batch' = {e \in spine : e.seq > cursor}
    BY <1>4 DEF Read
  <2>2. \A b \in batch', e \in spine' : e.seq <= b.seq => e \in batch' \/ Applied(e)'
    BY <1>0, <1>k, <2>1 DEF ProgressInv
  <2> QED BY <1>0, <1>k, <2>1, <2>2 DEF ProgressInv
<1>5. ASSUME NEW e \in batch, HandleEnrollment(e) \/ HandleVerdict(e)
      PROVE  ProgressInv'
  <2>1. UNCHANGED <<spine, open, cursor, lastSeq, batch>> /\ IsNext(e)
    BY <1>5 DEF HandleEnrollment, HandleVerdict
  <2>2. \A x \in spine : Applied(x) => Applied(x)'
    BY <1>0, <1>5, <2>1, HandlersKeepPassed, AppliedKeeps
  <2>3. Applied(e)'
    <3>1. CASE HandleEnrollment(e)
      BY <3>1 DEF HandleEnrollment, Applied
    <3>2. CASE HandleVerdict(e)
      <4>1. ASSUME NEW f \in spine, f.type = "enrollment.activated", f.student = e.student,
                   NEW g \in ClearedBy(e)
            PROVE  Passed(e.student, g)'
        <5>1. <<f.student, f.unit>> \in enrollments /\ f.unit \in Unit
          BY <1>0, <4>1 DEF SeqInv, Event
        <5>2. Enrolled(e.student) /\ e.student \in Student /\ g \in Gate
          BY <1>0, <4>1, <5>1 DEF Enrolled, ClearedBy
        <5> QED BY <3>2, <5>2, VerdictGrows DEF Passed
      <4> QED BY <2>1, <4>1 DEF Applied, ClearedBy
    <3> QED BY <1>5, <3>1, <3>2
  <2>4. \A x \in batch : IsNext(x) => x = e
    BY <1>0, <2>1 DEF IsNext, SeqInv
  <2>5. pc' = "advance" => \A x \in batch' : IsNext(x)' => Applied(x)'
    BY <2>1, <2>3, <2>4 DEF IsNext
  <2> QED BY <1>0, <2>1, <2>2, <2>5 DEF ProgressInv
<1>6. ASSUME NEW e \in batch, Advance(e)
      PROVE  ProgressInv'
  <2>1. /\ UNCHANGED <<spine, open, emitted, lastSeq>> /\ IsNext(e) /\ Applied(e)
        /\ cursor' = IF e.seq > cursor THEN e.seq ELSE cursor
        /\ batch' = batch \ {e} /\ pc' # "advance"
    BY <1>6 DEF Advance, ProgressInv
  <2>2. \A x \in spine : Applied(x) => Applied(x)'
    BY <1>0, <1>k, <2>1
  <2>3. \A x \in batch : x.seq <= e.seq => x = e
    BY <1>0, <2>1 DEF IsNext, SeqInv
  <2>4. \A x \in spine' : x.seq <= cursor' => Applied(x)'
    BY <1>0, <2>1, <2>2, <2>3 DEF ProgressInv
  <2>5. \A b \in batch', x \in spine' : x.seq <= b.seq => x \in batch' \/ Applied(x)'
    BY <1>0, <2>1, <2>2 DEF ProgressInv
  <2>6. (\A x \in open' : cursor' < x.seq) /\ cursor' <= lastSeq'
    BY <1>0, <2>1 DEF ProgressInv, SeqInv
  <2> QED BY <2>1, <2>4, <2>5, <2>6 DEF ProgressInv
<1>7. CASE Restart \/ Crash \/ ResetCursor
  <2>1. /\ UNCHANGED <<spine, open, emitted, lastSeq>>
        /\ cursor' = cursor \/ cursor' = 0
        /\ (batch' = batch /\ pc' = pc) \/ batch' = {}
    BY <1>7 DEF Restart, Crash, ResetCursor, Fault, BatchInv
  <2>2. \A x \in spine : Applied(x) => Applied(x)'
    BY <1>0, <1>k, <2>1
  <2>3. \A x \in open : 0 <= cursor /\ cursor < x.seq
    BY <1>0 DEF ProgressInv
  <2>4. (\A x \in open' : cursor' < x.seq) /\ cursor' <= lastSeq'
    BY <1>0, <2>1, <2>3 DEF ProgressInv
  <2>5. \A x \in spine' : x.seq <= cursor' => Applied(x)'
    BY <1>0, <2>1, <2>2 DEF ProgressInv
  <2>6. \A b \in batch', x \in spine' : x.seq <= b.seq => x \in batch' \/ Applied(x)'
    BY <1>0, <2>1, <2>2 DEF ProgressInv
  <2>7. pc' = "advance" => \A x \in batch' : IsNext(x)' => Applied(x)'
    BY <1>0, <2>1, <2>2 DEF ProgressInv, IsNext
  <2> QED BY <2>4, <2>5, <2>6, <2>7 DEF ProgressInv
<1>8. CASE UNCHANGED vars
  BY <1>0, <1>8, <1>k DEF vars, ProgressInv, IsNext
<1>9. ASSUME NEW s \in Student, NEW units \in PlacementOpens, Place(s, units)
      PROVE  ProgressInv'
  BY <1>0, <1>9, <1>k DEF Place, ProgressInv, IsNext
<1> QED BY <1>1, <1>2, <1>3, <1>4, <1>5, <1>6, <1>7, <1>8, <1>9 DEF Next, Writers, Engine

-----------------------------------------------------------------------------
(* The theorems.                                                           *)

(* The inductive invariant of the engine, with its types.                  *)
THEOREM GateInvariant == Spec => [](TypeOK /\ GateInv)
<1>1. Init => TypeOK /\ GateInv
  <2> SUFFICES ASSUME Init PROVE TypeOK /\ GateInv
    OBVIOUS
  <2> USE DEF Init
  <2>1. TypeOK
    BY DEF TypeOK
  <2>2. SeqInv /\ BatchInv /\ ProgressInv
    BY DEF SeqInv, BatchInv, ProgressInv
  <2>3. EmittedOnce /\ PassedIsVerified
    BY DEF EmittedOnce, PassedIsVerified
  <2>4. UnlockedIsPassed
    BY DEF UnlockedIsPassed, Passed, Has
  <2> QED BY <2>1, <2>2, <2>3, <2>4 DEF GateInv
<1>2. TypeOK /\ GateInv /\ [Next]_vars => (TypeOK /\ GateInv)'
  BY TypeStep, SeqStep, BatchStep, ProgressStep, EmittedStep, VerifiedStep, UnlockedStep DEF GateInv
<1> QED BY <1>1, <1>2, PTL DEF Spec

(* Type correctness of the engine and of the spine it reads.               *)
THEOREM GateTypeCorrect == Spec => []TypeOK
BY GateInvariant, PTL

(* No crash or cursor reset makes the engine repeat a gate event or an     *)
(* unit.unlocked, and a unit a placement opened has none: replay is        *)
(* exactly-once.                                                           *)
THEOREM GateEventsOnce == Spec => []EmittedOnce
<1>1. GateInv => EmittedOnce
  BY DEF GateInv
<1> QED BY <1>1, GateInvariant, PTL

(* Gates are passed on verified verdicts of enrolled students only.        *)
THEOREM GatesAreVerified == Spec => []PassedIsVerified
<1>1. GateInv => PassedIsVerified
  BY DEF GateInv
<1> QED BY <1>1, GateInvariant, PTL

(* The units behind passed gates are open, and beside those a placement    *)
(* opened no others.                                                       *)
THEOREM UnlocksFollowGates == Spec => []UnlockedIsPassed
<1>1. GateInv => UnlockedIsPassed
  BY DEF GateInv
<1> QED BY <1>1, GateInvariant, PTL

(* If events become visible in seq order, the cursor leaves no pass of an  *)
(* enrolled student behind unapplied.  CommitInOrder is needed: the run    *)
(* gate_skipped refutes the conclusion without it.                         *)
THEOREM CursorLosesNothing ==
  ASSUME CommitInOrder
  PROVE  Spec => []BehindCursorApplied
<1>1. TypeOK /\ GateInv => BehindCursorApplied
  BY DEF GateInv, ProgressInv, Applied, BehindCursorApplied
<1> QED BY <1>1, GateInvariant, PTL
=============================================================================

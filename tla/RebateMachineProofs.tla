------------------------- MODULE RebateMachineProofs -------------------------
(***************************************************************************)
(* What RebateMachine guarantees for every set of rebates, window, clock,  *)
(* number of events and number of faults.  TypeOK /\ RebateInv is          *)
(* inductive; the two action properties (the ledger graph, and the silence *)
(* of an earning event's replay) follow from it step by step.              *)
(***************************************************************************)
EXTENDS RebateMachine, TLAPS

USE RebateAssumption, RebateBounds

(* The event that is being handled is one of the spine.                    *)
LEMMA HandledEvent ==
  ASSUME TypeOK, LoopInv, pc = "handle"
  PROVE  at \in 1 .. Len(spine) /\ spine[at] \in GateEvent
  BY DEF TypeOK, LoopInv

(* What Emit leaves behind: one more event, and every old one in its place.*)
LEMMA EmitFacts ==
  ASSUME TypeOK, NEW type \in {"gate.pledged", "gate.passed"},
         NEW r \in Rebate, NEW u \in Unit, NEW t \in Nat, Emit(type, r, u, t)
  PROVE  /\ spine' \in Seq(GateEvent)
         /\ Len(spine') = Len(spine) + 1 /\ Len(spine) < MaxEvents
         /\ \A i \in 1 .. Len(spine) : i \in 1 .. Len(spine') /\ spine'[i] = spine[i]
         /\ UNCHANGED <<now, cursor, at, upto, pc, standing, unitOf, endsAt,
                        earnedBy, rejections, faults>>
<1> DEFINE e == [type |-> type, rebate |-> r, unit |-> u, passedAt |-> t]
<1>1. e \in GateEvent
  BY DEF GateEvent
<1>2. spine \in Seq(GateEvent) /\ spine' = Append(spine, e)
  BY DEF TypeOK, Emit
<1> HIDE DEF e
<1>. QED
  BY <1>1, <1>2 DEF Emit, loop, ledger

(* An environment step that emits is one Emit.                             *)
LEMMA EmitCases ==
  ASSUME NEW r \in Rebate, NEW u \in Unit,
         EmitPledged(r, u) \/ \E t \in 0 .. MaxTime : EmitPassed(r, u, t)
  PROVE  \E type \in {"gate.pledged", "gate.passed"}, t \in Nat : Emit(type, r, u, t)
  BY DEF EmitPledged, EmitPassed

-----------------------------------------------------------------------------
(* Every variable keeps its type.                                          *)
LEMMA TypeStep == TypeOK /\ LoopInv /\ [Next]_vars => TypeOK'
<1> SUFFICES ASSUME TypeOK, LoopInv, [Next]_vars PROVE TypeOK'
  OBVIOUS
<1> USE DEF TypeOK, ledger, loop, Standing
<1>1. CASE Tick
  BY <1>1 DEF Tick
<1>2. ASSUME NEW r \in Rebate, NEW u \in Unit,
             EmitPledged(r, u) \/ \E t \in 0 .. MaxTime : EmitPassed(r, u, t)
      PROVE  TypeOK'
  <2>1. PICK type \in {"gate.pledged", "gate.passed"}, t \in Nat : Emit(type, r, u, t)
    BY <1>2, EmitCases
  <2>. QED
    BY <2>1, EmitFacts
<1>3. ASSUME NEW r \in Rebate, NEW to \in {"paid", "forfeited"}, RunbookMark(r, to)
      PROVE  TypeOK'
  BY <1>3 DEF RunbookMark
<1>4. CASE Read
  BY <1>4 DEF Read
<1>5. CASE HandlePledged
  <2>1. at \in 1 .. Len(spine) /\ spine[at].rebate \in Rebate /\ spine[at].unit \in Unit
    BY <1>5, HandledEvent DEF HandlePledged, Handling, GateEvent
  <2>2. now + Window \in Nat
    OBVIOUS
  <2>3. /\ standing' \in [Rebate -> Standing]
        /\ unitOf' \in [Rebate -> Unit \cup {NoUnit}]
        /\ endsAt' \in [Rebate -> Nat]
    BY <1>5, <2>1, <2>2 DEF HandlePledged
  <2>. QED
    BY <1>5, <2>3 DEF HandlePledged
<1>6. CASE HandlePassed
  <2>1. at \in 1 .. Len(spine) /\ spine[at].rebate \in Rebate
    BY <1>6, HandledEvent DEF HandlePassed, Handling, GateEvent
  <2>2. standing' \in [Rebate -> Standing] /\ earnedBy' \in [Rebate -> Nat]
    BY <1>6, <2>1 DEF HandlePassed
  <2>. QED
    BY <1>6, <2>2 DEF HandlePassed
<1>7. CASE AppendRejected
  <2>1. at \in 1 .. MaxEvents
    BY <1>7 DEF AppendRejected, LoopInv
  <2>2. rejections' \in [1 .. MaxEvents -> Nat]
    BY <1>7, <2>1 DEF AppendRejected
  <2>. QED
    BY <1>7, <2>2 DEF AppendRejected
<1>8. CASE AdvanceCursor
  BY <1>8 DEF AdvanceCursor
<1>9. CASE SweepExpired
  BY <1>9 DEF SweepExpired
<1>10. CASE Restart \/ Crash \/ ResetCursor
  BY <1>10 DEF Restart, Crash, ResetCursor, Fault
<1>11. CASE UNCHANGED vars
  BY <1>11 DEF vars
<1>. QED
  BY <1>1, <1>2, <1>3, <1>4, <1>5, <1>6, <1>7, <1>8, <1>9, <1>10, <1>11
  DEF Next, Machine, Environment

(* The event at hand stays on the spine, and an event that goes to be      *)
(* rejected has not earned any rebate.                                     *)
LEMMA LoopStep == TypeOK /\ RebateInv /\ [Next]_vars => LoopInv'
<1> SUFFICES ASSUME TypeOK, LoopInv, EarnedByPassage, RowHasPledge, [Next]_vars
             PROVE  LoopInv'
  BY DEF RebateInv
<1> USE DEF LoopInv, ledger, loop
<1>1. CASE Tick
  BY <1>1 DEF Tick
<1>2. ASSUME NEW r \in Rebate, NEW u \in Unit,
             EmitPledged(r, u) \/ \E t \in 0 .. MaxTime : EmitPassed(r, u, t)
      PROVE  LoopInv'
  <2>1. PICK type \in {"gate.pledged", "gate.passed"}, t \in Nat : Emit(type, r, u, t)
    BY <1>2, EmitCases
  <2>. QED
    BY <2>1, EmitFacts DEF TypeOK
<1>3. ASSUME NEW r \in Rebate, NEW to \in {"paid", "forfeited"}, RunbookMark(r, to)
      PROVE  LoopInv'
  BY <1>3 DEF RunbookMark
<1>4. CASE Read
  BY <1>4 DEF Read, TypeOK
<1>5. CASE HandlePledged
  <2>1. \A r \in Rebate : earnedBy[r] # at
    BY <1>5, HandledEvent DEF HandlePledged, Handling, EarnedByPassage
  <2>. QED
    BY <1>5, <2>1 DEF HandlePledged, Handling
<1>6. CASE HandlePassed
  <2> DEFINE e == spine[at]
  <2>1. /\ at \in 1 .. Len(spine) /\ e \in GateEvent /\ e.rebate \in Rebate /\ pc = "handle"
    BY <1>6, HandledEvent DEF HandlePassed, Handling, GateEvent
  <2>2. ASSUME pc' = "reject", NEW r \in Rebate, earnedBy[r] = at PROVE FALSE
    <3>1. ~Earns(e.rebate, e) /\ ~Absorbed(e.rebate, e)
      BY <1>6, <2>2 DEF HandlePassed
    <3>2. r = e.rebate /\ e.unit = unitOf[r] /\ standing[r] # "none"
      BY <2>1, <2>2 DEF EarnedByPassage
    <3>. QED
      BY <2>2, <3>1, <3>2 DEF Absorbed, RowHasPledge
  <2>3. pc' = "reject" => earnedBy' = earnedBy
    BY <1>6 DEF HandlePassed
  <2>. QED
    BY <1>6, <2>1, <2>2, <2>3 DEF HandlePassed
<1>7. CASE AppendRejected
  BY <1>7 DEF AppendRejected
<1>8. CASE AdvanceCursor
  BY <1>8 DEF AdvanceCursor, TypeOK
<1>9. CASE SweepExpired
  BY <1>9 DEF SweepExpired
<1>10. CASE Restart \/ Crash \/ ResetCursor
  BY <1>10 DEF Restart, Crash, ResetCursor
<1>11. CASE UNCHANGED vars
  BY <1>11 DEF vars
<1>. QED
  BY <1>1, <1>2, <1>3, <1>4, <1>5, <1>6, <1>7, <1>8, <1>9, <1>10, <1>11
  DEF Next, Machine, Environment

(* Earned, paid and forfeited rebates keep the passage that earned them.   *)
LEMMA EarnedStep == TypeOK /\ RebateInv /\ [Next]_vars => EarnedByPassage'
<1> SUFFICES ASSUME TypeOK, LoopInv, EarnedByPassage, [Next]_vars
             PROVE  EarnedByPassage'
  BY DEF RebateInv
<1> USE DEF EarnedByPassage, ledger, loop
<1>1. CASE Tick
  BY <1>1 DEF Tick
<1>2. ASSUME NEW r \in Rebate, NEW u \in Unit,
             EmitPledged(r, u) \/ \E t \in 0 .. MaxTime : EmitPassed(r, u, t)
      PROVE  EarnedByPassage'
  <2>1. PICK type \in {"gate.pledged", "gate.passed"}, t \in Nat : Emit(type, r, u, t)
    BY <1>2, EmitCases
  <2>. QED
    BY <2>1, EmitFacts
<1>3. ASSUME NEW r \in Rebate, NEW to \in {"paid", "forfeited"}, RunbookMark(r, to)
      PROVE  EarnedByPassage'
  BY <1>3 DEF RunbookMark, TypeOK
<1>4. CASE HandlePledged
  <2> DEFINE p == spine[at].rebate
  <2>1. p \in Rebate
    BY <1>4, HandledEvent DEF HandlePledged, Handling, GateEvent
  <2>2. ASSUME NEW r \in Rebate, standing'[r] # standing[r] \/ unitOf'[r] # unitOf[r] \/ endsAt'[r] # endsAt[r]
        PROVE  r = p /\ standing[r] = "none" /\ standing'[r] = "pending"
    BY <1>4, <2>1, <2>2 DEF HandlePledged, TypeOK
  <2>3. spine' = spine /\ earnedBy' = earnedBy
    BY <1>4 DEF HandlePledged
  <2>. QED
    BY <2>2, <2>3
<1>5. CASE HandlePassed
  <2> DEFINE e == spine[at]
  <2>1. /\ at \in 1 .. Len(spine) /\ e \in GateEvent /\ e.rebate \in Rebate /\ e.type = "gate.passed"
    BY <1>5, HandledEvent DEF HandlePassed, Handling, GateEvent
  <2>2. ASSUME NEW r \in Rebate, standing'[r] # standing[r] \/ earnedBy'[r] # earnedBy[r]
        PROVE  /\ r = e.rebate /\ Earns(r, e)
               /\ standing'[r] = "earned" /\ earnedBy'[r] = at
    BY <1>5, <2>1, <2>2 DEF HandlePassed, TypeOK
  <2>3. UNCHANGED <<spine, unitOf, endsAt>>
    BY <1>5 DEF HandlePassed
  <2>. QED
    BY <2>1, <2>2, <2>3 DEF Earns
<1>6. CASE SweepExpired
  BY <1>6 DEF SweepExpired
<1>7. CASE Read \/ AppendRejected \/ AdvanceCursor \/ Restart \/ Crash \/ ResetCursor
  BY <1>7 DEF Read, AppendRejected, AdvanceCursor, Restart, Crash, ResetCursor
<1>8. CASE UNCHANGED vars
  BY <1>8 DEF vars
<1>. QED
  BY <1>1, <1>2, <1>3, <1>4, <1>5, <1>6, <1>7, <1>8 DEF Next, Machine, Environment

(* A row of the ledger keeps the pledge it was made for.                   *)
LEMMA RowStep == TypeOK /\ RebateInv /\ [Next]_vars => RowHasPledge'
<1> SUFFICES ASSUME TypeOK, LoopInv, RowHasPledge, [Next]_vars
             PROVE  RowHasPledge'
  BY DEF RebateInv
<1> USE DEF RowHasPledge, ledger, loop
<1>1. CASE Tick
  BY <1>1 DEF Tick
<1>2. ASSUME NEW r \in Rebate, NEW u \in Unit,
             EmitPledged(r, u) \/ \E t \in 0 .. MaxTime : EmitPassed(r, u, t)
      PROVE  RowHasPledge'
  <2>1. PICK type \in {"gate.pledged", "gate.passed"}, t \in Nat : Emit(type, r, u, t)
    BY <1>2, EmitCases
  <2>. QED
    BY <2>1, EmitFacts
<1>3. ASSUME NEW r \in Rebate, NEW to \in {"paid", "forfeited"}, RunbookMark(r, to)
      PROVE  RowHasPledge'
  BY <1>3 DEF RunbookMark, TypeOK
<1>4. CASE HandlePledged
  <2> DEFINE e == spine[at]
  <2>1. /\ at \in 1 .. Len(spine) /\ e \in GateEvent /\ e.rebate \in Rebate /\ e.type = "gate.pledged"
    BY <1>4, HandledEvent DEF HandlePledged, Handling, GateEvent
  <2>2. ASSUME NEW r \in Rebate, standing'[r] # standing[r] \/ unitOf'[r] # unitOf[r]
        PROVE  r = e.rebate /\ r \in Configured /\ unitOf'[r] = e.unit
    BY <1>4, <2>1, <2>2 DEF HandlePledged, TypeOK
  <2>3. spine' = spine
    BY <1>4 DEF HandlePledged
  <2>. QED
    BY <2>1, <2>2, <2>3
<1>5. CASE HandlePassed
  <2>1. spine[at].rebate \in Rebate
    BY <1>5, HandledEvent DEF HandlePassed, Handling, GateEvent
  <2>2. ASSUME NEW r \in Rebate, standing'[r] # standing[r] PROVE standing[r] # "none"
    BY <1>5, <2>1, <2>2 DEF HandlePassed, Earns, TypeOK
  <2>3. UNCHANGED <<spine, unitOf>>
    BY <1>5 DEF HandlePassed
  <2>. QED
    BY <2>2, <2>3
<1>6. CASE SweepExpired
  BY <1>6 DEF SweepExpired
<1>7. CASE Read \/ AppendRejected \/ AdvanceCursor \/ Restart \/ Crash \/ ResetCursor
  BY <1>7 DEF Read, AppendRejected, AdvanceCursor, Restart, Crash, ResetCursor
<1>8. CASE UNCHANGED vars
  BY <1>8 DEF vars
<1>. QED
  BY <1>1, <1>2, <1>3, <1>4, <1>5, <1>6, <1>7, <1>8 DEF Next, Machine, Environment

(* Every step of the machine, the clock or an operator moves each rebate   *)
(* along an edge of the ledger graph, or leaves it.                        *)
LEMMA GraphStep ==
  TypeOK /\ TypeOK' /\ LoopInv /\ [Next]_vars => [Ledger!LedgerNext]_standing
<1> SUFFICES ASSUME TypeOK, TypeOK', LoopInv, [Next]_vars
             PROVE  Ledger!LedgerNext \/ UNCHANGED standing
  OBVIOUS
<1>1. DOMAIN standing' = Rebate /\ standing' = [r \in Rebate |-> standing'[r]]
  BY DEF TypeOK
<1>2. SUFFICES ASSUME standing' # standing
               PROVE  \A r \in Rebate : standing'[r] = standing[r]
                                        \/ <<standing[r], standing'[r]>> \in Ledger!Edge
  BY <1>1 DEF Ledger!LedgerNext
<1> USE DEF Ledger!Edge
<1>3. CASE HandlePledged
  <2>1. spine[at].rebate \in Rebate
    BY <1>3, HandledEvent DEF HandlePledged, Handling, GateEvent
  <2>. QED
    BY <1>3, <2>1 DEF HandlePledged, TypeOK
<1>4. CASE HandlePassed
  <2>1. spine[at].rebate \in Rebate
    BY <1>4, HandledEvent DEF HandlePassed, Handling, GateEvent
  <2>. QED
    BY <1>4, <2>1 DEF HandlePassed, Earns, TypeOK
<1>5. CASE SweepExpired
  BY <1>5 DEF SweepExpired
<1>6. ASSUME NEW r \in Rebate, NEW to \in {"paid", "forfeited"}, RunbookMark(r, to)
      PROVE  \A q \in Rebate : standing'[q] = standing[q]
                                \/ <<standing[q], standing'[q]>> \in Ledger!Edge
  BY <1>6 DEF RunbookMark, TypeOK
<1>7. ASSUME NEW r \in Rebate, NEW u \in Unit,
             EmitPledged(r, u) \/ \E t \in 0 .. MaxTime : EmitPassed(r, u, t)
      PROVE  FALSE
  BY <1>2, <1>7, EmitCases DEF Emit, ledger
<1>8. ~ (Tick \/ Read \/ AppendRejected \/ AdvanceCursor \/ Restart \/ Crash
         \/ ResetCursor \/ UNCHANGED vars)
  BY <1>2 DEF Tick, Read, AppendRejected, AdvanceCursor, Restart, Crash, ResetCursor,
              ledger, vars
<1>. QED
  BY <1>3, <1>4, <1>5, <1>6, <1>7, <1>8 DEF Next, Machine, Environment

(* No step rejects an event that has earned a rebate.                      *)
LEMMA ReplayStep ==
  TypeOK /\ RebateInv /\ [Next]_vars =>
    \A r \in Rebate : earnedBy[r] # 0 => rejections'[earnedBy[r]] = rejections[earnedBy[r]]
<1> SUFFICES ASSUME TypeOK, LoopInv, EarnedByPassage, [Next]_vars,
                    NEW r \in Rebate, earnedBy[r] # 0
             PROVE  rejections'[earnedBy[r]] = rejections[earnedBy[r]]
  BY DEF RebateInv
<1>1. CASE AppendRejected
  <2>1. earnedBy[r] # at /\ earnedBy[r] \in 1 .. MaxEvents
    BY <1>1 DEF AppendRejected, LoopInv, EarnedByPassage, TypeOK
  <2>. QED
    BY <1>1, <2>1 DEF AppendRejected, TypeOK
<1>2. CASE ~AppendRejected
  <2>1. rejections' = rejections
    BY <1>2 DEF Next, Machine, Environment, vars, Tick, Read, HandlePledged, HandlePassed,
                AdvanceCursor, SweepExpired, Restart, Crash, ResetCursor, RunbookMark,
                EmitPledged, EmitPassed, Emit
  <2>. QED
    BY <2>1
<1>. QED
  BY <1>1, <1>2

-----------------------------------------------------------------------------
(* The initial state is typed and satisfies the invariant.                 *)
LEMMA InitInv == Init => TypeOK /\ RebateInv
BY DEF Init, TypeOK, Standing, GateEvent, RebateInv, LoopInv, EarnedByPassage, RowHasPledge

(* The inductive invariant of the rebate machine holds in every reachable  *)
(* state.                                                                  *)
THEOREM RebateInvariant == Spec => [](TypeOK /\ RebateInv)
<1>1. TypeOK /\ RebateInv /\ [Next]_vars => (TypeOK /\ RebateInv)'
  BY TypeStep, LoopStep, EarnedStep, RowStep DEF RebateInv
<1>. QED
  BY InitInv, <1>1, PTL DEF Spec

(* Every variable of the machine keeps its type.                           *)
THEOREM RebateTypeCorrect == Spec => []TypeOK
BY RebateInvariant, PTL

(* Money is promised only for a verified passage inside the window, whose  *)
(* event the rebate names; earned, paid and forfeited rebates have one and *)
(* no other does.                                                          *)
THEOREM RebatesAreEarned == Spec => []EarnedByPassage
<1>1. RebateInv => EarnedByPassage
  BY DEF RebateInv
<1>. QED
  BY RebateInvariant, <1>1, PTL

(* Only a configured gate's pledge makes a ledger row, for its own unit.   *)
THEOREM RowsArePledged == Spec => []RowHasPledge
<1>1. RebateInv => RowHasPledge
  BY DEF RebateInv
<1>. QED
  BY RebateInvariant, <1>1, PTL

(* The machine implements the ledger graph: no interleaving of replays,    *)
(* crashes, sweeps and runbook marks takes a rebate backwards.             *)
THEOREM MachineImplementsLedger == Spec => ImplementsRebateLedger
<1>1. Init => Ledger!LedgerInit
  BY DEF Init, Ledger!LedgerInit
<1>2. RebateInv => LoopInv
  BY DEF RebateInv
<1>. QED
  BY <1>1, <1>2, GraphStep, RebateInvariant, PTL DEF Spec, ImplementsRebateLedger, Ledger!LedgerSpec

(* The replay of the event that earned a rebate is never rejected, also    *)
(* after the rebate was paid or forfeited.                                 *)
THEOREM EarnersAreAbsorbed == Spec => EarnerNeverRejected
<1>1. TypeOK /\ RebateInv /\ [Next]_vars =>
        [\A r \in Rebate : earnedBy[r] # 0 => rejections'[earnedBy[r]] = rejections[earnedBy[r]]]_vars
  BY ReplayStep
<1>. QED
  BY <1>1, RebateInvariant, PTL DEF Spec, EarnerNeverRejected
=============================================================================

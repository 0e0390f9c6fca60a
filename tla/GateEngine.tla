----------------------------- MODULE GateEngine ------------------------------
(***************************************************************************)
(* gates/engine.py: the consumer of the events spine that turns            *)
(* verdict.issued and enrollment.activated into unlocked units and into    *)
(* the gate.pledged / gate.passed events of the rebate contract.           *)
(*                                                                         *)
(* The spine numbers an event (seq, a bigserial) when its writer inserts   *)
(* it and shows it when the writer commits; several writers (grading       *)
(* workers, the threads of the enroll service) are open at once.  The      *)
(* engine reads everything above its cursor, handles the events one        *)
(* transaction each, and moves the cursor in a transaction of its own.     *)
(* The placement diagnostic of the practice service writes unlocked_units  *)
(* too, under a gate_id of its own ("diagnostic-...") and with no event of *)
(* the engine's.                                                           *)
(***************************************************************************)
EXTENDS Naturals, Sequences, FiniteSets

CONSTANTS
  Student, Unit, Gate,
  UnitOf,          \* the unit whose pass clears the gate (RULES)
  Unlocks,         \* the units the gate unlocks
  RebateGate,      \* the gates whose rule says rebate: true
  PlacementOpens,  \* the sets of units a placement may open
  MaxEvents,       \* how many consumed events are ever inserted
  MaxFaults,       \* crashes, database errors and cursor resets
  CommitInOrder    \* TRUE: events become visible in seq order

ASSUME RuleAssumption ==
  /\ UnitOf \in [Gate -> Unit]
  /\ \A g, h \in Gate : UnitOf[g] = UnitOf[h] => g = h
  /\ Unlocks \in [Gate -> SUBSET Unit]
  /\ RebateGate \subseteq Gate
  /\ PlacementOpens \subseteq SUBSET Unit
ASSUME BoundAssumption ==
  MaxEvents \in Nat /\ MaxFaults \in Nat /\ CommitInOrder \in BOOLEAN

(* The consumed events.  An enrollment's overall is "none".                *)
Event == [seq : Nat, type : {"verdict.issued", "enrollment.activated"},
          student : Student, unit : Unit, overall : {"pass", "fail", "none"}]

GateEvent == [type : {"gate.pledged", "gate.passed"}, source : Nat]

VARIABLES
  open,          \* inserted events whose transactions have not ended
  spine,         \* committed events
  lastSeq,       \* the last number the sequence gave out
  enrollments,   \* rows of enrollments: <<student, unit>>
  cursor,        \* gate_cursor.last_seq
  batch,         \* the events of this pass that are not done yet
  pc,            \* "read", "handle", "advance" or "down"
  unlocked,      \* unlocked_units: the units of each student
  placed,        \* those whose row has a diagnostic's gate_id
  unlockEvents,  \* how many unit.unlocked events each of them has
  emitted,       \* the gate events of each student and gate, in order
  faults

writers == <<open, spine, lastSeq, enrollments>>
effects == <<unlocked, placed, unlockEvents, emitted>>
engine  == <<cursor, batch, pc>>
vars    == <<writers, effects, engine, faults>>

TypeOK ==
  /\ open \in SUBSET Event
  /\ spine \in SUBSET Event
  /\ lastSeq \in Nat
  /\ enrollments \in SUBSET (Student \X Unit)
  /\ cursor \in Nat
  /\ batch \in SUBSET Event
  /\ pc \in {"read", "handle", "advance", "down"}
  /\ unlocked \in [Student -> SUBSET Unit]
  /\ placed \in [Student -> SUBSET Unit]
  /\ unlockEvents \in [Student -> [Unit -> Nat]]
  /\ emitted \in [Student -> [Gate -> Seq(GateEvent)]]
  /\ faults \in Nat

Init ==
  /\ open = {} /\ spine = {} /\ lastSeq = 0 /\ enrollments = {}
  /\ cursor = 0 /\ batch = {} /\ pc = "read"
  /\ unlocked = [s \in Student |-> {}]
  /\ placed = [s \in Student |-> {}]
  /\ unlockEvents = [s \in Student |-> [u \in Unit |-> 0]]
  /\ emitted = [s \in Student |-> [g \in Gate |-> << >>]]
  /\ faults = 0

-----------------------------------------------------------------------------
(* The writers of the spine.                                               *)

Insert(type, s, u, overall) ==
  /\ lastSeq < MaxEvents
  /\ lastSeq' = lastSeq + 1
  /\ open' = open \cup {[seq |-> lastSeq', type |-> type, student |-> s,
                         unit |-> u, overall |-> overall]}
  /\ UNCHANGED <<spine, enrollments, effects, engine, faults>>

(* A worker finishes a submission of the student.                          *)
InsertVerdict(s, u, o) == Insert("verdict.issued", s, u, o)

(* The enroll service grants a unit: row and event in one transaction,     *)
(* ON CONFLICT DO NOTHING, so once for each student and unit (a second     *)
(* insert waits for the first one's transaction).                          *)
InsertEnrollment(s, u) ==
  /\ <<s, u>> \notin enrollments
  /\ \A e \in open : e.type = "enrollment.activated" => <<e.student, e.unit>> # <<s, u>>
  /\ Insert("enrollment.activated", s, u, "none")

Commit(e) ==
  /\ e \in open
  /\ CommitInOrder => \A f \in open : e.seq <= f.seq
  /\ open' = open \ {e}
  /\ spine' = spine \cup {e}
  /\ enrollments' = IF e.type = "enrollment.activated"
                      THEN enrollments \cup {<<e.student, e.unit>>}
                      ELSE enrollments
  /\ UNCHANGED <<lastSeq, effects, engine, faults>>

(* The writer's transaction fails: the number stays unused.                *)
Abort(e) ==
  /\ e \in open
  /\ open' = open \ {e}
  /\ UNCHANGED <<spine, lastSeq, enrollments, effects, engine, faults>>

(* _handle_diagnostic_opt_out and _handle_diagnostic_evaluate: the rows of *)
(* a placement, ON CONFLICT DO NOTHING, in one transaction with events the *)
(* engine does not read.  No enrollment is asked for.                      *)
Place(s, units) ==
  /\ unlocked' = [unlocked EXCEPT ![s] = @ \cup units]
  /\ placed' = [placed EXCEPT ![s] = @ \cup (units \ unlocked[s])]
  /\ UNCHANGED <<writers, unlockEvents, emitted, engine, faults>>

-----------------------------------------------------------------------------
(* The engine.                                                             *)

(* Faulty variant: an off-by-one in the SELECT's bound.                    *)
ReadOffByOne ==
  /\ pc = "read"
  /\ batch' = {e \in spine : e.seq > cursor + 1}
  /\ pc' = IF batch' = {} THEN "read" ELSE "handle"
  /\ UNCHANGED <<writers, effects, cursor, faults>>

(* read_cursor and the SELECT of process_events.                           *)
Read ==
  /\ pc = "read"
  /\ batch' = {e \in spine : e.seq > cursor}
  /\ pc' = IF batch' = {} THEN "read" ELSE "handle"
  /\ UNCHANGED <<writers, effects, cursor, faults>>

(* Events are handled ORDER BY seq.                                        *)
IsNext(e) == e \in batch /\ \A f \in batch : e.seq <= f.seq

Has(s, g, type) == \E i \in 1 .. Len(emitted[s][g]) : emitted[s][g][i].type = type
Pledged(s, g)   == Has(s, g, "gate.pledged")

(* Faulty variant: the guard of gate.passed looks up the other event.      *)
PassedLooksUpPledge(s, g) == Has(s, g, "gate.pledged")

Passed(s, g)    == Has(s, g, "gate.passed")

GateOn(type, e) == [type |-> type, source |-> e.seq]

(* handle_enrollment: pledge every rebate gate, once, if this is the only  *)
(* enrollment of the student at the time the event is handled.             *)
HandleEnrollment(e) ==
  /\ pc = "handle" /\ IsNext(e) /\ e.type = "enrollment.activated"
  /\ LET s == e.student
         isFirst == Cardinality({u \in Unit : <<s, u>> \in enrollments}) = 1
     IN  emitted' = [emitted EXCEPT ![s] = [g \in Gate |->
           IF g \in RebateGate /\ isFirst /\ ~Pledged(s, g)
             THEN Append(emitted[s][g], GateOn("gate.pledged", e))
             ELSE emitted[s][g]]]
  /\ pc' = "advance"
  /\ UNCHANGED <<writers, unlocked, placed, unlockEvents, cursor, batch, faults>>

Enrolled(s) == \E u \in Unit : <<s, u>> \in enrollments

(* Faulty variant: any verdict on the unit clears the gate.                *)
ClearedByAny(e) == {g \in Gate : UnitOf[g] = e.unit}

ClearedBy(e) == {g \in Gate : UnitOf[g] = e.unit /\ e.overall = "pass"}

(* Faulty variant: the unlock rows do not wait for the enrollment check.   *)
HandleVerdictUnlocksFirst(e) ==
  /\ pc = "handle" /\ IsNext(e) /\ e.type = "verdict.issued"
  /\ LET s == e.student
         fresh == (UNION {Unlocks[g] : g \in ClearedBy(e)}) \ unlocked[s]
     IN  /\ unlocked' = [unlocked EXCEPT ![s] = @ \cup fresh]
         /\ unlockEvents' = [unlockEvents EXCEPT ![s] =
              [u \in Unit |-> IF u \in fresh THEN @[u] + 1 ELSE @[u]]]
         /\ emitted' = [emitted EXCEPT ![s] = [g \in Gate |->
              IF Enrolled(s) /\ g \in ClearedBy(e) /\ ~Passed(s, g)
                THEN Append(emitted[s][g], GateOn("gate.passed", e))
                ELSE emitted[s][g]]]
  /\ pc' = "advance"
  /\ UNCHANGED <<writers, placed, cursor, batch, faults>>

(* handle_verdict: a pass on a unit with a rule, of an enrolled student,   *)
(* unlocks what the rule says and passes the gate; anything else changes   *)
(* nothing.                                                                *)
HandleVerdict(e) ==
  /\ pc = "handle" /\ IsNext(e) /\ e.type = "verdict.issued"
  /\ LET s == e.student
         cleared == IF Enrolled(s) THEN ClearedBy(e) ELSE {}
         fresh == (UNION {Unlocks[g] : g \in cleared}) \ unlocked[s]
     IN  /\ unlocked' = [unlocked EXCEPT ![s] = @ \cup fresh]
         /\ unlockEvents' = [unlockEvents EXCEPT ![s] =
              [u \in Unit |-> IF u \in fresh THEN @[u] + 1 ELSE @[u]]]
         /\ emitted' = [emitted EXCEPT ![s] = [g \in Gate |->
              IF g \in cleared /\ ~Passed(s, g)
                THEN Append(emitted[s][g], GateOn("gate.passed", e))
                ELSE emitted[s][g]]]
  /\ pc' = "advance"
  /\ UNCHANGED <<writers, placed, cursor, batch, faults>>

(* Faulty variant: the cursor moves to the end of the batch at once.       *)
AdvanceToEnd(e) ==
  /\ pc = "advance" /\ IsNext(e)
  /\ cursor' \in {f.seq : f \in batch} /\ \A f \in batch : f.seq <= cursor'
  /\ batch' = batch \ {e}
  /\ pc' = IF batch' = {} THEN "read" ELSE "handle"
  /\ UNCHANGED <<writers, effects, faults>>

(* advance_cursor: only forward.                                           *)
Advance(e) ==
  /\ pc = "advance" /\ IsNext(e)
  /\ cursor' = IF e.seq > cursor THEN e.seq ELSE cursor
  /\ batch' = batch \ {e}
  /\ pc' = IF batch' = {} THEN "read" ELSE "handle"
  /\ UNCHANGED <<writers, effects, faults>>

Fault == faults < MaxFaults /\ faults' = faults + 1

(* A database error is not caught and ends the process, as a crash does.   *)
Crash ==
  /\ pc # "down" /\ Fault
  /\ pc' = "down" /\ batch' = {}
  /\ UNCHANGED <<writers, effects, cursor>>

Restart ==
  /\ pc = "down" /\ pc' = "read"
  /\ UNCHANGED <<writers, effects, cursor, batch, faults>>

(* An operator resets the cursor to replay the whole spine.                *)
ResetCursor ==
  /\ cursor > 0 /\ Fault
  /\ cursor' = 0
  /\ UNCHANGED <<writers, effects, batch, pc>>

-----------------------------------------------------------------------------
Writers ==
  \/ \E s \in Student, u \in Unit :
       InsertEnrollment(s, u) \/ \E o \in {"pass", "fail"} : InsertVerdict(s, u, o)
  \/ \E e \in open : Commit(e) \/ Abort(e)
  \/ \E s \in Student, units \in PlacementOpens : Place(s, units)

Engine ==
  \/ Read
  \/ \E e \in batch : HandleEnrollment(e) \/ HandleVerdict(e) \/ Advance(e)
  \/ Restart

Next == Writers \/ Engine \/ Crash \/ ResetCursor

Spec == Init /\ [][Next]_vars

(* The poll loop runs for ever, and somebody starts it again after a crash *)
(* (scripts/provision installs no service for this engine, so that is an   *)
(* assumption about its operators); the writers are free.                  *)
FairSpec == Spec /\ WF_vars(Engine)

-----------------------------------------------------------------------------
(* Properties.                                                             *)

(* Each gate event is emitted once for a student and gate, and each unlock *)
(* row the engine wrote has one unit.unlocked, however often crashes and   *)
(* cursor resets replay the spine ("cursor-reset replay is exactly-once"), *)
(* while a row a placement wrote first has none.                           *)
EmittedOnce ==
  \A s \in Student :
    /\ \A g \in Gate : \A i, j \in 1 .. Len(emitted[s][g]) :
         emitted[s][g][i].type = emitted[s][g][j].type => i = j
    /\ \A u \in Unit : unlockEvents[s][u] = IF u \in unlocked[s] \ placed[s] THEN 1 ELSE 0

(* A gate is passed only on a committed pass verdict for its own unit, by  *)
(* a student who is enrolled: never on a fail, another unit, or for        *)
(* somebody who has not paid.                                              *)
PassedIsVerified ==
  \A s \in Student, g \in Gate : \A i \in 1 .. Len(emitted[s][g]) :
    emitted[s][g][i].type = "gate.passed" =>
      /\ Enrolled(s)
      /\ \E e \in spine : /\ e.seq = emitted[s][g][i].source
                          /\ e.type = "verdict.issued" /\ e.overall = "pass"
                          /\ e.student = s /\ e.unit = UnitOf[g]

(* Unlock state and gate events never drift apart: every unit a passed     *)
(* gate unlocks is open, whichever of the engine and a placement wrote its *)
(* row, and a unit no placement opened is open behind a passed gate only.  *)
UnlockedIsPassed ==
  \A s \in Student :
    unlocked[s] = placed[s] \cup UNION {Unlocks[g] : g \in {h \in Gate : Passed(s, h)}}

(* Nothing the cursor has left behind is lost: a pass of an enrolled       *)
(* student (the enrollment is earlier on the spine) that lies behind the   *)
(* cursor has passed its gate.                                             *)
BehindCursorApplied ==
  \A e, f \in spine :
    /\ e.type = "verdict.issued" /\ f.type = "enrollment.activated"
    /\ e.student = f.student /\ f.seq < e.seq /\ e.seq <= cursor
    => \A g \in ClearedBy(e) : Passed(e.student, g)

(* What the invariants above rest on: the numbers of the sequence, ...     *)
SeqInv ==
  /\ open \cap spine = {}
  /\ \A e \in open \cup spine : e.seq <= lastSeq
  /\ \A e, f \in open \cup spine : e.seq = f.seq => e = f
  /\ CommitInOrder => \A e \in spine, f \in open : e.seq < f.seq
  /\ \A e \in spine : e.type = "enrollment.activated" => <<e.student, e.unit>> \in enrollments

(* ... that the batch is part of the spine, ...                            *)
BatchInv == batch \subseteq spine /\ (pc \in {"read", "down"} => batch = {})

(* ... and what has become of an event once the engine is past it.         *)
Applied(e) ==
  e.type = "verdict.issued" =>
    \A f \in spine :
      f.type = "enrollment.activated" /\ f.student = e.student /\ f.seq < e.seq
        => \A g \in ClearedBy(e) : Passed(e.student, g)

ProgressInv ==
  /\ \A e \in open : cursor < e.seq
  /\ cursor <= lastSeq
  /\ \A e \in spine : e.seq <= cursor => Applied(e)
  /\ \A b \in batch, e \in spine : e.seq <= b.seq => e \in batch \/ Applied(e)
  /\ pc = "advance" => \A e \in batch : IsNext(e) => Applied(e)

(* The inductive invariant of GateEngineProofs.                            *)
GateInv ==
  /\ SeqInv
  /\ BatchInv
  /\ CommitInOrder => ProgressInv
  /\ EmittedOnce
  /\ PassedIsVerified
  /\ UnlockedIsPassed

(* A pass of an enrolled student passes its gate in the end, through       *)
(* crashes and replays, as long as events become visible in seq order.     *)
PassedInTheEnd ==
  \A s \in Student, g \in Gate :
    (\E e, f \in spine : /\ e.type = "verdict.issued" /\ f.type = "enrollment.activated"
                         /\ e.student = s /\ f.student = s /\ f.seq < e.seq
                         /\ g \in ClearedBy(e))
      ~> Passed(s, g)
=============================================================================

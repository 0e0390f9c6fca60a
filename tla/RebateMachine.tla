---------------------------- MODULE RebateMachine ----------------------------
(***************************************************************************)
(* rebate/machine.py: the ledger of rebates.  It consumes the gate events  *)
(* from the spine behind a cursor, one transaction for each event and one  *)
(* for the cursor, sweeps what has expired after every pass, and lets an   *)
(* operator mark an earned rebate paid or forfeited at any moment.         *)
(*                                                                         *)
(* All gate events have one writer, the gate engine, so their order is     *)
(* their position here.  Time is counted in steps of the window's unit.    *)
(***************************************************************************)
EXTENDS Naturals, Sequences, FiniteSets

CONSTANTS
  Rebate,        \* one for each student and gate
  Configured,    \* those whose gate is in KEEL_REBATE_GATES
  Unit,
  Window,        \* window_days of a pledge
  MaxTime,       \* how far the clock goes
  MaxEvents,     \* how many gate events there are
  MaxFaults      \* crashes, database errors and cursor resets

ASSUME RebateAssumption == Configured \subseteq Rebate
ASSUME RebateBounds ==
  /\ Window \in Nat \ {0} /\ MaxTime \in Nat /\ MaxEvents \in Nat /\ MaxFaults \in Nat

NoUnit == "none"

Standing == {"none", "pending", "earned", "expired", "paid", "forfeited"}

(* passedAt is the moment of the verdict; a pledge carries none (0).       *)
GateEvent == [type : {"gate.pledged", "gate.passed"}, rebate : Rebate,
              unit : Unit, passedAt : Nat]

VARIABLES
  now,
  spine,       \* the gate events, in seq order
  cursor,      \* rebate_cursor.last_seq
  at, upto,    \* the pass: the event it is at, and the last one it read
  pc,          \* "read", "handle", "reject", "advance", "sweep" or "down"
  standing,    \* rebates.status of each row ("none": no row)
  unitOf,      \* rebates.unit_id
  endsAt,      \* rebates.window_ends_at
  earnedBy,    \* rebates.earned_event_seq, or 0
  rejections,  \* how many rebate.rejected events each gate event caused
  faults

ledger == <<standing, unitOf, endsAt, earnedBy>>
loop   == <<cursor, at, upto, pc>>
vars   == <<now, spine, loop, ledger, rejections, faults>>

TypeOK ==
  /\ now \in Nat
  /\ spine \in Seq(GateEvent)
  /\ cursor \in Nat /\ at \in Nat /\ upto \in Nat
  /\ pc \in {"read", "handle", "reject", "advance", "sweep", "down"}
  /\ standing \in [Rebate -> Standing]
  /\ unitOf \in [Rebate -> Unit \cup {NoUnit}]
  /\ endsAt \in [Rebate -> Nat]
  /\ earnedBy \in [Rebate -> Nat]
  /\ rejections \in [1 .. MaxEvents -> Nat]
  /\ faults \in Nat

Init ==
  /\ now = 0 /\ spine = << >>
  /\ cursor = 0 /\ at = 0 /\ upto = 0 /\ pc = "read"
  /\ standing = [r \in Rebate |-> "none"]
  /\ unitOf = [r \in Rebate |-> NoUnit]
  /\ endsAt = [r \in Rebate |-> 0]
  /\ earnedBy = [r \in Rebate |-> 0]
  /\ rejections = [i \in 1 .. MaxEvents |-> 0]
  /\ faults = 0

-----------------------------------------------------------------------------
Tick ==
  /\ now < MaxTime /\ now' = now + 1
  /\ UNCHANGED <<spine, loop, ledger, rejections, faults>>

(* The gate engine commits an event; a passage may be an old verdict it    *)
(* comes to only now.                                                      *)
Emit(type, r, u, t) ==
  /\ Len(spine) < MaxEvents
  /\ spine' = Append(spine, [type |-> type, rebate |-> r, unit |-> u, passedAt |-> t])
  /\ UNCHANGED <<now, loop, ledger, rejections, faults>>

EmitPledged(r, u)   == Emit("gate.pledged", r, u, 0)
EmitPassed(r, u, t) == t <= now /\ Emit("gate.passed", r, u, t)

-----------------------------------------------------------------------------
(* process_events                                                          *)

(* read_cursor and the SELECT: the pass goes up to the last event there is.*)
Read ==
  /\ pc = "read"
  /\ at' = cursor + 1 /\ upto' = Len(spine)
  /\ pc' = IF at' <= upto' THEN "handle" ELSE "sweep"
  /\ UNCHANGED <<now, spine, cursor, ledger, rejections, faults>>

Handling(type) == pc = "handle" /\ spine[at].type = type

(* handle_pledged: a row in pending whose window starts now, at the        *)
(* machine's clock; a repeated pledge conflicts and is absorbed.           *)
HandlePledged ==
  /\ Handling("gate.pledged")
  /\ LET r == spine[at].rebate
         new == r \in Configured /\ standing[r] = "none"
     IN  /\ standing' = IF new THEN [standing EXCEPT ![r] = "pending"] ELSE standing
         /\ unitOf' = IF new THEN [unitOf EXCEPT ![r] = spine[at].unit] ELSE unitOf
         /\ endsAt' = IF new THEN [endsAt EXCEPT ![r] = now + Window] ELSE endsAt
         /\ pc' = IF r \in Configured THEN "advance" ELSE "reject"
  /\ UNCHANGED <<now, spine, cursor, at, upto, earnedBy, rejections, faults>>

(* Faulty variant: the window is not checked.                              *)
EarnsOutside(r, e) == r \in Configured /\ standing[r] = "pending" /\ unitOf[r] = e.unit

(* The guarded UPDATE of handle_passed.                                    *)
Earns(r, e) ==
  r \in Configured /\ standing[r] = "pending" /\ unitOf[r] = e.unit /\ e.passedAt <= endsAt[r]

(* Faulty variant: the replay is recognised only while still earned.       *)
AbsorbedIfEarned(r, e) ==
  r \in Configured /\ unitOf[r] = e.unit /\ earnedBy[r] = at /\ standing[r] = "earned"

(* The replay of the earning event, whatever became of the rebate since.   *)
Absorbed(r, e) == r \in Configured /\ unitOf[r] = e.unit /\ earnedBy[r] = at

HandlePassed ==
  /\ Handling("gate.passed")
  /\ LET e == spine[at]
         r == e.rebate
     IN  /\ standing' = IF Earns(r, e) THEN [standing EXCEPT ![r] = "earned"] ELSE standing
         /\ earnedBy' = IF Earns(r, e) THEN [earnedBy EXCEPT ![r] = at] ELSE earnedBy
         /\ pc' = IF Earns(r, e) \/ Absorbed(r, e) THEN "advance" ELSE "reject"
  /\ UNCHANGED <<now, spine, cursor, at, upto, unitOf, endsAt, rejections, faults>>

(* append_rejected, a transaction of its own.                              *)
AppendRejected ==
  /\ pc = "reject"
  /\ rejections' = [rejections EXCEPT ![at] = @ + 1]
  /\ pc' = "advance"
  /\ UNCHANGED <<now, spine, cursor, at, upto, ledger, faults>>

AdvanceCursor ==
  /\ pc = "advance"
  /\ cursor' = IF at > cursor THEN at ELSE cursor
  /\ at' = at + 1
  /\ pc' = IF at' <= upto THEN "handle" ELSE "sweep"
  /\ UNCHANGED <<now, spine, upto, ledger, rejections, faults>>

(* Faulty variants: a sweep that is not guarded on its from-state, and one *)
(* that comes a step late.                                                 *)
SweepExpiredUnguarded ==
  /\ pc = "sweep"
  /\ standing' = [r \in Rebate |->
       IF standing[r] # "none" /\ now > endsAt[r] THEN "expired" ELSE standing[r]]
  /\ pc' = "read"
  /\ UNCHANGED <<now, spine, cursor, at, upto, unitOf, endsAt, earnedBy, rejections, faults>>

SweepExpiredLate ==
  /\ pc = "sweep"
  /\ standing' = [r \in Rebate |->
       IF standing[r] = "pending" /\ now > endsAt[r] + 1 THEN "expired" ELSE standing[r]]
  /\ pc' = "read"
  /\ UNCHANGED <<now, spine, cursor, at, upto, unitOf, endsAt, earnedBy, rejections, faults>>

(* sweep_expired                                                           *)
SweepExpired ==
  /\ pc = "sweep"
  /\ standing' = [r \in Rebate |->
       IF standing[r] = "pending" /\ now > endsAt[r] THEN "expired" ELSE standing[r]]
  /\ pc' = "read"
  /\ UNCHANGED <<now, spine, cursor, at, upto, unitOf, endsAt, earnedBy, rejections, faults>>

-----------------------------------------------------------------------------
(* runbook_mark, run by an operator next to the loop.                      *)
RunbookMark(r, to) ==
  /\ standing[r] = "earned"
  /\ standing' = [standing EXCEPT ![r] = to]
  /\ UNCHANGED <<now, spine, loop, unitOf, endsAt, earnedBy, rejections, faults>>

Fault == faults < MaxFaults /\ faults' = faults + 1

(* A database error is not caught and ends the process, as a crash does.   *)
Crash ==
  /\ pc # "down" /\ Fault
  /\ pc' = "down" /\ at' = 0 /\ upto' = 0
  /\ UNCHANGED <<now, spine, cursor, ledger, rejections>>

Restart ==
  /\ pc = "down" /\ pc' = "read"
  /\ UNCHANGED <<now, spine, cursor, at, upto, ledger, rejections, faults>>

ResetCursor ==
  /\ cursor > 0 /\ Fault
  /\ cursor' = 0
  /\ UNCHANGED <<now, spine, at, upto, pc, ledger, rejections>>

-----------------------------------------------------------------------------
Machine ==
  Read \/ HandlePledged \/ HandlePassed \/ AppendRejected \/ AdvanceCursor \/ SweepExpired \/ Restart

Environment ==
  \/ Tick
  \/ \E r \in Rebate, u \in Unit : EmitPledged(r, u) \/ \E t \in 0 .. MaxTime : EmitPassed(r, u, t)
  \/ \E r \in Rebate, to \in {"paid", "forfeited"} : RunbookMark(r, to)

Next == Machine \/ Environment \/ Crash \/ ResetCursor

Spec == Init /\ [][Next]_vars

(* The poll loop runs for ever, systemd restarts it, and time passes.      *)
FairSpec == Spec /\ WF_vars(Machine) /\ WF_vars(Tick)

-----------------------------------------------------------------------------
(* Properties.                                                             *)

Ledger == INSTANCE RebateLedger

(* The machine implements the ledger graph: whatever replays, crashes,     *)
(* sweeps and runbook marks do to each other, no rebate leaves the graph.  *)
ImplementsRebateLedger == Ledger!LedgerSpec

(* Money is promised only for a verified passage: a rebate that was ever   *)
(* earned names an event on the spine, of its own gate and unit, whose     *)
(* verdict fell inside the window, and no other rebate has that status.    *)
EarnedByPassage ==
  \A r \in Rebate :
    /\ standing[r] \in {"earned", "paid", "forfeited"} <=> earnedBy[r] # 0
    /\ earnedBy[r] # 0 =>
         /\ earnedBy[r] \in 1 .. Len(spine)
         /\ LET e == spine[earnedBy[r]]
            IN  /\ e.type = "gate.passed" /\ e.rebate = r
                /\ e.unit = unitOf[r] /\ e.passedAt <= endsAt[r]

(* A rebate has a row exactly if a pledge of it for the same unit is on    *)
(* the spine and was handled while its gate was configured.                *)
RowHasPledge ==
  \A r \in Rebate : standing[r] # "none" =>
    /\ r \in Configured
    /\ \E i \in 1 .. Len(spine) :
         spine[i].type = "gate.pledged" /\ spine[i].rebate = r /\ spine[i].unit = unitOf[r]

(* The replay of the event that earned a rebate is silent, even when the   *)
(* rebate has been paid or forfeited since: it is never rejected.          *)
EarnerNeverRejected ==
  [][\A r \in Rebate : earnedBy[r] # 0 => rejections'[earnedBy[r]] = rejections[earnedBy[r]]]_vars

(* What the properties above rest on: an event is handled while it is on   *)
(* the spine, and one that is about to be rejected has earned nothing.     *)
LoopInv ==
  /\ Len(spine) <= MaxEvents
  /\ pc \in {"handle", "reject", "advance"} => at \in 1 .. upto /\ upto <= Len(spine)
  /\ pc = "reject" => \A r \in Rebate : earnedBy[r] # at

(* The inductive invariant of RebateMachineProofs.                         *)
RebateInv == LoopInv /\ EarnedByPassage /\ RowHasPledge

(* A rebate expires only if the window elapsed without a passage ("timed   *)
(* sweep: window elapsed, no passage").                                    *)
ExpiryMeansNoPassage ==
  [][\A r \in Rebate : standing[r] = "pending" /\ standing'[r] = "expired" =>
       ~ \E i, j \in 1 .. Len(spine) :
           /\ i < j /\ spine[i].type = "gate.pledged" /\ spine[j].type = "gate.passed"
           /\ spine[i].rebate = r /\ spine[j].rebate = r
           /\ spine[j].unit = unitOf[r] /\ spine[j].passedAt <= endsAt[r]]_vars

(* A pending rebate whose window ends is settled, whatever crashes.        *)
PendingSettles ==
  \A r \in Rebate :
    standing[r] = "pending" /\ endsAt[r] < MaxTime ~> standing[r] # "pending"
=============================================================================

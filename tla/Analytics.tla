------------------------------ MODULE Analytics ------------------------------
(***************************************************************************)
(* analytics/engine.py: what the operators are told about the students.     *)
(* Every number is computed from the rows of the other services, so the     *)
(* state is these rows, in the order they were inserted; percentages are   *)
(* in tenths of a percent and rounded half up.                             *)
(***************************************************************************)
EXTENDS Integers, Sequences, FiniteSets

CONSTANTS
  Learner,        \* students
  Module,         \* units of the curriculum
  PhaseUnits,     \* the units 1.5, 2.7, 5.1 and 12.1 of the funnel
  CapstoneUnit,   \* 12.1
  MaxRows         \* bound: rows

ASSUME AnalyticsAssumption ==
  /\ IsFiniteSet(Learner) /\ Learner # {} /\ IsFiniteSet(Module) /\ MaxRows \in Nat
  /\ CapstoneUnit \in PhaseUnits /\ PhaseUnits \subseteq Module

VARIABLE rows

analyticsVars == <<rows>>

AnalyticsInit == rows = <<>>

(* The rows the queries read: enrollments, submissions with their verdict,  *)
(* practice and retrieval attempts, questions, unlocked units, posts,      *)
(* simulations, diagnostics, and the gate.passed and gate.defense_cleared   *)
(* events.  The progress table, which no service writes, is left out.      *)
WithUnit == {"enrollment", "submission", "practice", "retrieval", "concierge", "unlock"}
Passable == {"submission", "practice", "retrieval"}
Row ==
  {r \in [who : Learner, kind : WithUnit, unit : Module, passed : BOOLEAN] :
     r.passed => r.kind \in Passable}
  \cup [who : Learner, kind : {"diagnostic", "post", "simulation", "gate", "defense"}]

Insert(r) == Len(rows) < MaxRows /\ rows' = Append(rows, r)

AnalyticsNext == \E r \in Row : Insert(r)

AnalyticsSpec == AnalyticsInit /\ [][AnalyticsNext]_analyticsVars

-----------------------------------------------------------------------------
Rows(kinds, u) == {i \in DOMAIN rows : rows[i].kind \in kinds /\ rows[i].unit = u}
OfKind(kinds)  == {i \in DOMAIN rows : rows[i].kind \in kinds}
Passing(S)     == {i \in S : rows[i].passed}
Students(S)    == {rows[i].who : i \in S}

Rounded(n, d) == (2 * n + d) \div (2 * d)

(* round(100 * n / d, 1), and 0.0 of nothing                               *)
PercentOf(n, d) == IF d = 0 THEN 0 ELSE Rounded(1000 * n, d)
Least(a, b)   == IF a < b THEN a ELSE b
Greatest(a, b) == IF a < b THEN b ELSE a

(* unit_interactions, unit_starts: students who did anything on the unit.  *)
Started(u)   == Students(Rows(WithUnit, u))
(* unit_completions: a passing verdict or practice attempt.                *)
Completed(u) == Students(Passing(Rows({"submission", "practice"}, u)))

(* Faulty variant: passing rows are counted, not students.                 *)
CompletionsByRow(u) ==
  Least(Cardinality(Started(u)), Cardinality(Passing(Rows({"submission", "practice"}, u))))

Completions(u)     == Least(Cardinality(Started(u)), Cardinality(Completed(u)))
EffectiveStarts(u) == Greatest(Cardinality(Started(u)), Completions(u))

DropOff(u) ==
  LET starts == EffectiveStarts(u) IN PercentOf(starts - Completions(u), starts)

(* retrieval_ranked: the first drill of each student on a seed, of which a  *)
(* unit has one here.                                                      *)
FirstDrills(u) ==
  {i \in Rows({"retrieval"}, u) :
     \A j \in Rows({"retrieval"}, u) : rows[j].who = rows[i].who => i <= j}
RetrievalFail(u) ==
  LET drills == FirstDrills(u)
  IN PercentOf(Cardinality(drills \ Passing(drills)), Cardinality(drills))

(* Average attempts to pass, in hundredths.                                *)
AvgAttempts(u) ==
  LET total == Cardinality(Rows({"submission", "practice"}, u))
      done  == Completions(u)
  IN CASE done > 0 -> Greatest(100, Rounded(100 * total, done))
       [] done = 0 /\ EffectiveStarts(u) > 0 /\ total > 0 ->
            Rounded(100 * total, EffectiveStarts(u))
       [] OTHER -> 100

Clamped(x) == Greatest(0, Least(1000, x))

(* calculate_friction_score, in tenths: weights of 40, 30, 20 and 10; four  *)
(* attempts or ten questions are as bad as can be.                         *)
FrictionScore(dropOff, retrieval, attempts, turns) ==
  LET excess == Least(3000, 10 * Greatest(0, attempts - 100))
  IN Rounded(120 * Clamped(dropOff) + 90 * Clamped(retrieval) + 20 * excess
               + 30 * Clamped(100 * turns), 300)

Friction(u) ==
  FrictionScore(DropOff(u), RetrievalFail(u), AvgAttempts(u), Cardinality(Rows({"concierge"}, u)))

(* A list of S in which each one stands behind those ahead of it.          *)
SortedList(S, ahead) ==
  CHOOSE list \in [1 .. Cardinality(S) -> S] :
    /\ \A x \in S : \E i \in DOMAIN list : list[i] = x
    /\ \A i, j \in DOMAIN list : list[i] \in ahead[list[j]] => i < j

(* compute_dropoff_breakdown: the units, the one with most friction first. *)
DropoffBreakdown ==
  LET friction == [u \in Module |-> Friction(u)]
      dropOff  == [u \in Module |-> DropOff(u)]
      starts   == [u \in Module |-> EffectiveStarts(u)]
  IN SortedList(Module, [v \in Module |-> {u \in Module :
       \/ friction[u] > friction[v]
       \/ friction[u] = friction[v] /\ dropOff[u] > dropOff[v]
       \/ friction[u] = friction[v] /\ dropOff[u] = dropOff[v] /\ starts[u] > starts[v]}])

(* compute_macro_funnel: the students of each stage.  An unlocked unit      *)
(* counts as a passed one.                                                 *)
Funnel ==
  <<Learner,
    Students(OfKind({"diagnostic"})),
    Students(OfKind({"submission", "practice", "retrieval", "concierge"})),
    Students(Passing(OfKind({"submission", "practice"})) \cup OfKind({"unlock"})),
    Students(OfKind({"gate"}) \cup UNION {Passing(Rows({"submission"}, u)) : u \in PhaseUnits}),
    Students(OfKind({"defense"}) \cup Passing(Rows({"submission"}, CapstoneUnit)))>>

(* What compute_macro_funnel returns of each stage.                        *)
Conversion ==
  LET funnel == Funnel
  IN [stage \in 1 .. 6 |-> PercentOf(Cardinality(funnel[stage]), Cardinality(Learner))]
StageDropOff ==
  LET funnel == Funnel
  IN [stage \in 2 .. 6 |->
        PercentOf(Greatest(0, Cardinality(funnel[stage - 1]) - Cardinality(funnel[stage])),
                  Cardinality(Learner))]

(* compute_summary, with the rows after the first n in its 30 days.        *)
ActiveRate(n) ==
  PercentOf(Cardinality(Students({i \in OfKind({"submission", "practice", "retrieval",
                                              "concierge", "post", "simulation"}) : i > n})),
          Cardinality(Learner))
PodCompliance(members) ==
  IF members = {} THEN 0
  ELSE Least(1000, PercentOf(Cardinality({i \in OfKind({"post"}) : rows[i].who \in members}),
                           Cardinality(members)))
CapstoneRate ==
  PercentOf(Cardinality(Students(Passing(Rows({"submission"}, CapstoneUnit)))), Cardinality(Learner))

(* compute_unit_detail: what failed on the unit, the most frequent first,   *)
(* with up to three samples of each.                                       *)
FailuresOf(u, kind) == Rows({kind}, u) \ Passing(Rows({kind}, u))
FailureModes(u) ==
  LET mode(kind) == [of |-> kind, occurrences |-> Cardinality(FailuresOf(u, kind)),
                     samples |-> Least(3, Cardinality(FailuresOf(u, kind)))]
      modes == {mode(kind) : kind \in {k \in {"submission", "practice"} : FailuresOf(u, k) # {}}}
  IN SortedList(modes, [m \in modes |-> {l \in modes : l.occurrences > m.occurrences}])

-----------------------------------------------------------------------------
(* The numbers agree with each other and with the students they count: the  *)
(* drop-off is the share of the students who touched a unit and have not   *)
(* completed it, so the cap on the completions hides nobody; a student who  *)
(* passes leaves no stage of the funnel; every rate and score is a          *)
(* percentage, the capstone rate of the summary at most the ones of the      *)
(* funnel; and the bottleneck is the unit that scores worst.               *)
MetricsConsistent ==
  rows # <<>> =>
  LET score  == [u \in Module |-> Friction(u)]
      worst  == DropoffBreakdown[1]
      funnel == Funnel
      rate   == Conversion
  IN
  /\ \A u \in Module :
       /\ DropOff(u) = PercentOf(Cardinality(Started(u) \ Completed(u)), Cardinality(Started(u)))
       /\ score[u] \in 0 .. 1000 /\ RetrievalFail(u) \in 0 .. 1000
       /\ AvgAttempts(u) >= 100 \/ Completed(u) = {}
       /\ Completed(u) \subseteq funnel[3] \cap funnel[4]
       /\ score[worst] >= score[u]
       /\ LET modes == FailureModes(u) IN \A i, j \in DOMAIN modes :
            i < j => modes[i].occurrences >= modes[j].occurrences
  /\ \A stage \in 1 .. 6 : rate[stage] \in 0 .. 1000
  /\ LET lost == StageDropOff IN \A stage \in 2 .. 6 : lost[stage] \in 0 .. 1000
  /\ \A n \in 1 .. Len(rows) : ActiveRate(n) \in 0 .. ActiveRate(n - 1)
  /\ ActiveRate(0) \in 0 .. 1000
  /\ PodCompliance(Learner) \in 0 .. 1000
  /\ CapstoneRate <= rate[6] /\ CapstoneRate <= rate[5]
=============================================================================

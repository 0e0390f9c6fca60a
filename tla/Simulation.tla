------------------------------ MODULE Simulation ------------------------------
(***************************************************************************)
(* simulation/engine.py: role-played calls with three personas.  A turn and   *)
(* a conclusion each read the simulation in one transaction, ask a model in *)
(* between and write in another, so requests of the same student overlap.  *)
(* The two defenses, once both are passed, clear a gate event.  What a      *)
(* student says is the set of the topics it touches.                       *)
(***************************************************************************)
EXTENDS Integers, Sequences, FiniteSets, FiniteSetsExt, Functions

CONSTANTS
  Trainee,          \* students
  Said,             \* the messages there are, each a set of topics
  SimSeat,          \* request threads of the practice service
  MaxSims, MaxTurns, MaxScores, \* bounds the simulations, their turns and scores
  MaxSimFaults      \* bounds the errors while clearing

ASSUME SimulationAssumption ==
  MaxSims \in Nat /\ MaxTurns \in Nat /\ MaxScores \in Nat /\ MaxSimFaults \in Nat

VARIABLES
  sims,        \* simulations: rows in their order
  scored,      \* simulation.scored events
  cleared,     \* gate.defense_cleared events: student and the scores known then
  simSeat,     \* the request of each thread
  simFaults    \* checks of the defenses that failed

simulationVars == <<sims, scored, cleared, simSeat, simFaults>>

Technical == "technical-stakeholder"
Business  == "business-owner"
Discovery == "discovery-call"
Defense   == {Technical, Business}
Standing  == [op |-> "free"]

SimulationInit ==
  /\ sims = <<>> /\ scored = <<>> /\ cleared = <<>>
  /\ simSeat = [d \in SimSeat |-> Standing] /\ simFaults = 0

-----------------------------------------------------------------------------
(* What the offline persona reacts to, the first that is said.             *)
TechnicalCues == <<"vague", "security", "cost", "architecture", "metrics">>
BusinessCues  == <<"jargon", "value", "risk", "rollout", "payback">>
DiscoveryCues == <<"summary", "root", "pitch", "metrics">>

CueHeard(cues, said) ==
  LET hits == {i \in DOMAIN cues : cues[i] \in said}
  IN IF hits = {} THEN "default" ELSE cues[Min(hits)]

MockReply(persona, said) ==
  CueHeard(CASE persona = Technical -> TechnicalCues
             [] persona = Business  -> BusinessCues
             [] OTHER               -> DiscoveryCues, said)

(* The offline judge: each criterion's weight, its score and whether it was *)
(* met, over everything the student said and what was said first.          *)
Weighed(weight, good, bad, met) ==
  [weight |-> weight, met |-> met, score |-> IF met THEN good ELSE bad]

TechnicalCriteria(all, first) ==
  <<Weighed(30, 95, 30, /\ all \cap {"vague", "metrics"} # {}
                         /\ ~("vague" \in first /\ all \cap {"metrics", "cost"} = {})),
    Weighed(25, 90, 35, "cost" \in all),
    Weighed(25, 95, 25, "security" \in all),
    Weighed(20, 90, 40, "architecture" \in all)>>

BusinessCriteria(all) ==
  <<Weighed(30, 95, 30, all \cap {"value", "payback"} # {}),
    Weighed(25, 95, 20, "jargon" \in all => "plain" \in all),
    Weighed(25, 90, 35, "risk" \in all),
    Weighed(20, 90, 40, "rollout" \in all)>>

DiscoveryCriteria(all, first) ==
  <<Weighed(35, 100, 30, "root" \in all),
    Weighed(25, 100, 40, "metrics" \in all),
    Weighed(20, 100, 20, "pitch" \notin first),
    Weighed(20, 100, 35, "summary" \in all)>>

CriteriaOf(persona, turns) ==
  LET all   == UNION {turns[i].said : i \in DOMAIN turns}
      first == turns[1].said
  IN CASE persona = Technical -> TechnicalCriteria(all, first)
       [] persona = Business  -> BusinessCriteria(all)
       [] OTHER               -> DiscoveryCriteria(all, first)

(* The weighted score in hundredths of a percent, and the pass mark of 70.  *)
WeightedScore(criteria) ==
  SumFunctionOnSet([i \in 1 .. 4 |-> criteria[i].weight * criteria[i].score], 1 .. 4)

MockVerdict(persona, turns) ==
  LET criteria == CriteriaOf(persona, turns)
  IN [passed |-> WeightedScore(criteria) >= 7000, met |-> Cardinality({i \in 1 .. 4 : criteria[i].met})]

(* With a model behind the proxy the verdict is free: its "passed" is taken  *)
(* as it comes.  Any failure of the call, a spent budget included, falls    *)
(* back to the offline one.  (The model's replies only ever reach the model, *)
(* so the offline ones stand for all.)                                     *)
Verdicts(persona, turns) ==
  {MockVerdict(persona, turns)} \cup [passed : BOOLEAN, met : {-1}]

-----------------------------------------------------------------------------
(* start_simulation_session                                                *)
StartSimulation(s, persona) ==
  /\ Len(sims) < MaxSims
  /\ sims' = Append(sims, [student |-> s, persona |-> persona, status |-> "in_progress",
                           turns |-> <<>>, passed |-> FALSE])
  /\ UNCHANGED <<scored, cleared, simSeat, simFaults>>

Turns == MapThenSumSet(LAMBDA i : Len(sims[i].turns), DOMAIN sims)
         + Cardinality({d \in SimSeat : simSeat[d].op = "turn"})

SeatAt(d, request) == simSeat' = [simSeat EXCEPT ![d] = request]

(* execute_simulation_turn: the owner's simulation, still in progress ...  *)
LoadTurn(d, s, i) ==
  /\ simSeat[d] = Standing
  /\ sims[i].student = s /\ sims[i].status = "in_progress" /\ Turns < MaxTurns
  /\ \E said \in Said : SeatAt(d, [op |-> "turn", sim |-> i, turns |-> sims[i].turns, said |-> said])
  /\ UNCHANGED <<sims, scored, cleared, simFaults>>

(* ... is overwritten with what was read and the new turn, graded or not.  *)
PersistTurn(d) ==
  LET r == simSeat[d]
  IN /\ r.op = "turn"
     /\ sims' = [sims EXCEPT ![r.sim].turns =
                   Append(r.turns, [said  |-> r.said,
                                    reply |-> MockReply(sims[r.sim].persona, r.said)])]
     /\ SeatAt(d, Standing)
     /\ UNCHANGED <<scored, cleared, simFaults>>

(* conclude_and_score_simulation: graded before or not, if anything was said. *)
LoadConclude(d, s, i) ==
  /\ simSeat[d] = Standing /\ Len(scored) < MaxScores
  /\ sims[i].student = s /\ sims[i].turns # <<>>
  /\ SeatAt(d, [op |-> "score", sim |-> i, turns |-> sims[i].turns])
  /\ UNCHANGED <<sims, scored, cleared, simFaults>>

(* Its verdict is on the turns that were read.                             *)
PersistScore(d) ==
  LET r == simSeat[d]
      persona == sims[r.sim].persona
  IN /\ r.op = "score"
     /\ \E v \in Verdicts(persona, r.turns) :
          /\ sims' = [sims EXCEPT ![r.sim].status = "graded", ![r.sim].passed = v.passed]
          /\ scored' = Append(scored, [student |-> sims[r.sim].student, persona |-> persona,
                                       passed |-> v.passed, met |-> v.met])
          /\ SeatAt(d, IF v.passed /\ persona \in Defense
                         THEN [op |-> "check", student |-> sims[r.sim].student] ELSE Standing)
     /\ UNCHANGED <<cleared, simFaults>>

(* get_student_defenses                                                    *)
DefensePassed(s, persona) ==
  \E i \in DOMAIN sims :
    sims[i].student = s /\ sims[i].persona = persona /\ sims[i].status = "graded" /\ sims[i].passed

(* Faulty variant: either defense will do.                                 *)
CheckEitherDefense(d) ==
  LET s == simSeat[d].student
  IN /\ simSeat[d].op = "check"
     /\ SeatAt(d, IF \E persona \in Defense : DefensePassed(s, persona)
                    THEN [op |-> "emit", student |-> s] ELSE Standing)
     /\ UNCHANGED <<sims, scored, cleared, simFaults>>

(* check_and_emit_defense_cleared: both defenses are read,                 *)
CheckDefenses(d) ==
  LET s == simSeat[d].student
  IN /\ simSeat[d].op = "check"
     /\ SeatAt(d, IF \A persona \in Defense : DefensePassed(s, persona)
                    THEN [op |-> "emit", student |-> s] ELSE Standing)
     /\ UNCHANGED <<sims, scored, cleared, simFaults>>

(* the statement looks whether the event is there,                         *)
EmitSnapshot(d) ==
  LET s == simSeat[d].student
  IN /\ simSeat[d].op = "emit"
     /\ SeatAt(d, IF \E i \in DOMAIN cleared : cleared[i].student = s
                    THEN Standing ELSE [op |-> "commit", student |-> s])
     /\ UNCHANGED <<sims, scored, cleared, simFaults>>

(* and commits it, though another statement may have done so since.        *)
EmitCommit(d) ==
  /\ simSeat[d].op = "commit"
  /\ cleared' = Append(cleared, [student |-> simSeat[d].student, scores |-> Len(scored)])
  /\ SeatAt(d, Standing)
  /\ UNCHANGED <<sims, scored, simFaults>>

(* A database error while the defenses are checked is swallowed.  (A request *)
(* that dies before it has written leaves nothing behind.)                  *)
ClearingFails(d) ==
  /\ simSeat[d].op \in {"check", "emit", "commit"} /\ simFaults < MaxSimFaults
  /\ simFaults' = simFaults + 1 /\ SeatAt(d, Standing)
  /\ UNCHANGED <<sims, scored, cleared>>

SimulationNext ==
  \/ \E s \in Trainee, persona \in {Technical, Business, Discovery} : StartSimulation(s, persona)
  \/ \E d \in SimSeat, s \in Trainee, i \in DOMAIN sims : LoadTurn(d, s, i) \/ LoadConclude(d, s, i)
  \/ \E d \in SimSeat :
       \/ PersistTurn(d) \/ PersistScore(d) \/ CheckDefenses(d)
       \/ EmitSnapshot(d) \/ EmitCommit(d) \/ ClearingFails(d)

SimulationSpec == SimulationInit /\ [][SimulationNext]_simulationVars

-----------------------------------------------------------------------------
PassedBy(s, persona, n) ==
  \E i \in 1..n : scored[i].student = s /\ scored[i].persona = persona /\ scored[i].passed

(* A cleared gate is earned: by the time of the event each defense had been *)
(* passed, and whatever was scored again since, and a defense the offline   *)
(* judge passed met three of its four criteria.  And what is earned is      *)
(* cleared: who has passed both, with no request under way, has the event,  *)
(* unless a check failed.                                                 *)
ClearedIsEarned ==
  /\ \A i \in DOMAIN cleared, persona \in Defense :
       PassedBy(cleared[i].student, persona, cleared[i].scores)
  /\ \A i \in DOMAIN scored :
       scored[i].passed /\ scored[i].met # -1 /\ scored[i].persona \in Defense => scored[i].met >= 3
  /\ \A s \in Trainee :
       /\ \A persona \in Defense : DefensePassed(s, persona)
       /\ \A d \in SimSeat : simSeat[d].op \notin {"check", "emit", "commit"}
       /\ simFaults = 0
       => \E i \in DOMAIN cleared : cleared[i].student = s
=============================================================================

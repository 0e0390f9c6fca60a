-------------------------------- MODULE Digests --------------------------------
(***************************************************************************)
(* community/digests.py and scripts/generate-digests.py: the weekly mail.  A   *)
(* run of the script goes through the students; two runs may overlap, and   *)
(* either may die between reading, storing, mailing and marking a digest.   *)
(* Units are positions in UNIT_ORDER, whose last is the capstone; progress   *)
(* goes on while a digest is put together.                                 *)
(***************************************************************************)
EXTENDS Integers, Sequences, FiniteSets, Folds, Functions

CONSTANTS
  Reader,        \* students
  CohortWeek,    \* weeks digests are made for
  Dispatch,      \* runs of the script
  RouteLength,         \* length of UNIT_ORDER
  MaxMailFaults  \* bounds the mails that fail and the runs that die

ASSUME DigestsAssumption == RouteLength \in Nat \ {0} /\ MaxMailFaults \in Nat

VARIABLES
  passedUnits,   \* progress rows in state "passed"
  openUnits,     \* units enrolled or unlocked
  active,        \* students with any activity at all
  rebateCents,   \* rebates: [status, cents] of each
  digests,       \* digests: a partial function of <<student, week>>
  generated,     \* digest.generated events, in their order
  mails,         \* what went through deliver_email, in its order
  marked,        \* digest.delivered events, in their order
  dispatch,      \* what each run is at
  mailFaults

digestsVars == <<passedUnits, openUnits, active, rebateCents, digests, generated, mails,
                 marked, dispatch, mailFaults>>
standing == <<passedUnits, openUnits, active, rebateCents>>

NoDigest == [state |-> "none"]
Resting  == [op |-> "rest"]
Capstone == RouteLength

DigestsInit ==
  /\ passedUnits = [s \in Reader |-> {}] /\ openUnits = [s \in Reader |-> {}]
  /\ active = {} /\ rebateCents = [s \in Reader |-> <<>>]
  /\ digests = [k \in Reader \X CohortWeek |-> NoDigest]
  /\ generated = <<>> /\ mails = <<>> /\ marked = <<>>
  /\ dispatch = [r \in Dispatch |-> Resting] /\ mailFaults = 0

-----------------------------------------------------------------------------
(* The first unit that is open and not passed, or else the first not passed; *)
(* 0 is none.                                                              *)
ActiveUnit(open, passed) ==
  LET todo  == (1..RouteLength) \ passed
      first == IF todo \cap open # {} THEN todo \cap open ELSE todo
  IN IF first = {} THEN 0 ELSE CHOOSE u \in first : \A v \in first : u <= v

RouteCompleted(open, passed) ==
  \/ Capstone \in passed
  \/ Cardinality(passed) >= 3 /\ ActiveUnit(open, passed) = 0

CurrentLocation(open, passed, idle) ==
  LET unit == ActiveUnit(open, passed)
      done == RouteCompleted(open, passed)
  IN [unit |-> IF done /\ unit \in {0, Capstone} THEN Capstone ELSE unit,
      completed |-> passed, done |-> done, idle |-> idle]

(* The three units after it, or the alumni network at the very end.        *)
NextUnlocks(location) ==
  LET next == {u \in location.unit + 1 .. location.unit + 3 : u <= RouteLength}
  IN IF next = {} /\ location.done THEN {"alumni"} ELSE next

(* What was pledged, earned or not; without any, two that every student has. *)
RebateStatus(rebates) ==
  LET total(S) == SumFunctionOnSet([i \in DOMAIN rebates |-> rebates[i].cents], S)
  IN [earned  |-> total({i \in DOMAIN rebates : rebates[i].status \in {"earned", "paid"}}),
      pledged |-> IF rebates = <<>> THEN 60000 ELSE total(DOMAIN rebates)]

-----------------------------------------------------------------------------
(* What goes on meanwhile: gates and placements open units, rebates are      *)
(* pledged and earned, students practise.  The progress rows of passed units *)
(* have no writer in any service (gates/engine.py keeps unlocks elsewhere): *)
(* an operator does.                                                       *)
OpenUnit(s, u) ==
  /\ openUnits' = [openUnits EXCEPT ![s] = @ \cup {u}]
  /\ UNCHANGED <<passedUnits, active, rebateCents, digests, generated, mails, marked, dispatch, mailFaults>>

PassUnit(s, u) ==
  /\ u \in openUnits[s] /\ passedUnits' = [passedUnits EXCEPT ![s] = @ \cup {u}]
  /\ active' = active \cup {s}
  /\ UNCHANGED <<openUnits, rebateCents, digests, generated, mails, marked, dispatch, mailFaults>>

Rebate(s) ==
  /\ \/ rebateCents[s] = <<>> /\ rebateCents' = [rebateCents EXCEPT ![s] = <<[status |-> "pledged", cents |-> 30000]>>]
     \/ rebateCents[s] # <<>> /\ rebateCents' = [rebateCents EXCEPT ![s][1].status = "earned"]
  /\ UNCHANGED <<passedUnits, openUnits, active, digests, generated, mails, marked, dispatch, mailFaults>>

Practise(s) ==
  /\ active' = active \cup {s}
  /\ UNCHANGED <<passedUnits, openUnits, rebateCents, digests, generated, mails, marked, dispatch, mailFaults>>

At(r, work) == dispatch' = [dispatch EXCEPT ![r] = work]

(* generate_and_deliver_student_digest: a digest that is there is left,     *)
(* mailed or not.                                                          *)
CheckDigest(r, k) ==
  /\ dispatch[r] = Resting /\ digests[k] = NoDigest
  /\ At(r, [op |-> "units", key |-> k])
  /\ UNCHANGED <<standing, digests, generated, mails, marked, mailFaults>>

(* synthesize_student_digest: the units are read,                          *)
ReadUnits(r) ==
  LET s == dispatch[r].key[1]
  IN /\ dispatch[r].op = "units"
     /\ At(r, [op |-> "activity", key |-> dispatch[r].key,
               open |-> openUnits[s], passed |-> passedUnits[s]])
     /\ UNCHANGED <<standing, digests, generated, mails, marked, mailFaults>>

(* then whether there ever was any activity,                               *)
ReadActivity(r) ==
  LET w == dispatch[r]
  IN /\ w.op = "activity"
     /\ At(r, [op |-> "rebates", key |-> w.key,
               location |-> CurrentLocation(w.open, w.passed, w.key[1] \notin active)])
     /\ UNCHANGED <<standing, digests, generated, mails, marked, mailFaults>>

(* then the rebates.                                                       *)
ReadRebates(r) ==
  LET w == dispatch[r]
  IN /\ w.op = "rebates"
     /\ At(r, [op |-> "store", key |-> w.key,
               content |-> [location |-> w.location, next |-> NextUnlocks(w.location),
                            rebate |-> RebateStatus(rebateCents[w.key[1]])]])
     /\ UNCHANGED <<standing, digests, generated, mails, marked, mailFaults>>

(* Faulty variant: the run that comes second mails what it has.            *)
StoreDigestAnyway(r) ==
  LET w == dispatch[r]
  IN /\ w.op = "store"
     /\ digests' = [digests EXCEPT ![w.key] =
                      IF @ = NoDigest THEN [state |-> "stored", content |-> w.content] ELSE @]
     /\ generated' = IF digests[w.key] = NoDigest THEN Append(generated, w.key) ELSE generated
     /\ At(r, [w EXCEPT !.op = "mail"])
     /\ UNCHANGED <<standing, mails, marked, mailFaults>>

(* The row and its event are stored; the run that comes second stops here.  *)
StoreDigest(r) ==
  LET w == dispatch[r]
  IN /\ w.op = "store"
     /\ IF digests[w.key] = NoDigest
          THEN /\ digests' = [digests EXCEPT ![w.key] = [state |-> "stored", content |-> w.content]]
               /\ generated' = Append(generated, w.key)
               /\ At(r, [w EXCEPT !.op = "mail"])
          ELSE At(r, Resting) /\ UNCHANGED <<digests, generated>>
     /\ UNCHANGED <<standing, mails, marked, mailFaults>>

(* deliver_email: the mail is sent, or where no transport is configured     *)
(* only said to be; an error after it went out (unconfirmed) or instead of  *)
(* it ends the run's work on this student.                                 *)
MailDigest(r) ==
  LET w == dispatch[r]
      Handed(how) == Append(mails, [key |-> w.key, content |-> w.content, how |-> how])
  IN /\ w.op = "mail"
     /\ \/ /\ mails' \in {Handed("sent"), Handed("simulated")}
           /\ At(r, [w EXCEPT !.op = "mark"]) /\ UNCHANGED mailFaults
        \/ /\ mailFaults < MaxMailFaults /\ mailFaults' = mailFaults + 1
           /\ mails' \in {mails, Handed("unconfirmed")} /\ At(r, Resting)
     /\ UNCHANGED <<standing, digests, generated, marked>>

MarkDelivered(r) ==
  LET w == dispatch[r]
  IN /\ w.op = "mark"
     /\ IF digests[w.key].state = "stored"
          THEN /\ digests' = [digests EXCEPT ![w.key].state = "delivered"]
               /\ marked' = Append(marked, w.key)
          ELSE UNCHANGED <<digests, marked>>
     /\ At(r, Resting)
     /\ UNCHANGED <<standing, generated, mails, mailFaults>>

(* A run may die with its digest stored and not mailed, or not marked; one   *)
(* that only has read leaves nothing behind.                               *)
RunDies(r) ==
  /\ dispatch[r].op \in {"mail", "mark"} /\ mailFaults < MaxMailFaults
  /\ mailFaults' = mailFaults + 1 /\ At(r, Resting)
  /\ UNCHANGED <<standing, digests, generated, mails, marked>>

DigestsNext ==
  \/ \E s \in Reader : Rebate(s) \/ Practise(s) \/ \E u \in 1..RouteLength : OpenUnit(s, u) \/ PassUnit(s, u)
  \/ \E r \in Dispatch :
       \/ \E k \in Reader \X CohortWeek : CheckDigest(r, k)
       \/ ReadUnits(r) \/ ReadActivity(r) \/ ReadRebates(r) \/ StoreDigest(r)
       \/ MailDigest(r) \/ MarkDelivered(r) \/ RunDies(r)

DigestsSpec == DigestsInit /\ [][DigestsNext]_digestsVars

-----------------------------------------------------------------------------
Times(log, k) == Cardinality({i \in DOMAIN log : log[i] = k})

(* However the runs overlap and wherever they die, a student gets at most    *)
(* one mail a week, with what is stored; each event is written at most      *)
(* once; a digest is marked only when deliver_email reported it, sent or     *)
(* simulated, and never after an error; and what it says hangs together: it *)
(* sends a student to a unit that is not passed, unless the route is done,  *)
(* and has no more earned than pledged.                                    *)
DigestOnce ==
  \A k \in Reader \X CohortWeek :
    LET d == digests[k]
        handed == {i \in DOMAIN mails : mails[i].key = k}
    IN /\ Cardinality(handed) <= 1
       /\ \A i \in handed : d # NoDigest /\ mails[i].content = d.content
       /\ Times(generated, k) = (IF d = NoDigest THEN 0 ELSE 1)
       /\ Times(marked, k) = (IF d.state = "delivered" THEN 1 ELSE 0)
       /\ d.state = "delivered" => \E i \in handed : mails[i].how # "unconfirmed"
       /\ d # NoDigest =>
            /\ d.content.location.done \/ d.content.location.unit \in (1..RouteLength) \ d.content.location.completed
            /\ d.content.rebate.earned <= d.content.rebate.pledged
=============================================================================

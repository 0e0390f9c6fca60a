-------------------------------- MODULE Recheck --------------------------------
(***************************************************************************)
(* practice/server.py: the spaced re-checks of one student's retrieval      *)
(* seeds.  Nothing is stored but the answers: stage, due date and mastery   *)
(* of a seed and the review queue are derived from them on every read.      *)
(* An answer is stamped when its transaction starts and seen when it        *)
(* commits, so answers may appear before others that are already there.     *)
(* Days stand for instants.                                                 *)
(***************************************************************************)
EXTENDS Integers, Sequences, FiniteSets

CONSTANTS
  Units,        \* how many units the student is enrolled in
  Seeds,        \* how many seeds each of them has
  First, Second,\* RECHECK_INTERVALS
  Lapse,        \* the days after which an overdue seed decays
  MaxDay,       \* bounds the time that passes
  MaxAnswers    \* bounds the answers

ASSUME IntervalAssumption ==
  /\ Units \in Nat \ {0} /\ Seeds \in Nat \ {0}
  /\ First \in Nat \ {0} /\ Second \in Nat \ {0} /\ Lapse \in Nat \ {0}
  /\ MaxDay \in Nat /\ MaxAnswers \in Nat

VARIABLES
  today,     \* practice_now
  started,   \* the answers whose transactions have begun
  answers    \* retrieval_attempts

recheckVars == <<today, started, answers>>

Key    == (1 .. Units) \X (1 .. Seeds)
SeedAnswer == [key : Key, passed : BOOLEAN, day : 0 .. MaxDay]

RecheckInit == today = 0 /\ started = {} /\ answers = {}

Midnight ==
  /\ today < MaxDay /\ today' = today + 1
  /\ UNCHANGED <<started, answers>>

StartAnswer(k, passed) ==
  /\ Cardinality(started) < MaxAnswers
  /\ started' = started \cup {[key |-> k, passed |-> passed, day |-> today]}
  /\ UNCHANGED <<today, answers>>

CommitAnswer(a) ==
  /\ a \in started \ answers
  /\ answers' = answers \cup {a}
  /\ UNCHANGED <<today, started>>

RecheckNext ==
  \/ Midnight
  \/ \E k \in Key, passed \in BOOLEAN : StartAnswer(k, passed)
  \/ \E a \in started : CommitAnswer(a)

RecheckSpec == RecheckInit /\ [][RecheckNext]_recheckVars

-----------------------------------------------------------------------------
History(k)  == {a \in answers : a.key = k}
PassDays(k) == {a.day : a \in {x \in History(k) : x.passed}}

(* Faulty variant: every pass restarts the interval.                       *)
AdvanceAnchorMoves(s, d) ==
  CASE s.stage = 0 -> [stage |-> 1, anchor |-> d]
    [] s.stage = 1 -> [stage |-> IF d >= s.anchor + First THEN 2 ELSE 1, anchor |-> d]
    [] s.stage = 2 -> [stage |-> IF d >= s.anchor + Second THEN 3 ELSE 2, anchor |-> d]
    [] OTHER -> s

(* One pass on day d: only one at or after the due day counts.             *)
Advance(s, d) ==
  CASE s.stage = 0 -> [stage |-> 1, anchor |-> d]
    [] s.stage = 1 /\ d >= s.anchor + First  -> [stage |-> 2, anchor |-> d]
    [] s.stage = 2 /\ d >= s.anchor + Second -> [stage |-> 3, anchor |-> d]
    [] OTHER -> s

(* The passes in the order of their days; a second one on a day is as good  *)
(* as none.                                                                *)
Folded(days) ==
  LET fold[d \in 0 .. MaxDay] ==
        LET before == IF d = 0 THEN [stage |-> 0, anchor |-> 0] ELSE fold[d - 1]
        IN  IF d \in days THEN Advance(before, d) ELSE before
  IN fold[MaxDay]

(* fold_seed_schedule                                                      *)
Schedule(k) ==
  LET s == Folded(PassDays(k))
      due == s.anchor + (IF s.stage = 1 THEN First ELSE Second)
  IN CASE s.stage = 0 -> [stage |-> 0, status |-> "unstarted"]
       [] s.stage = 3 -> [stage |-> 3, status |-> "retired"]
       [] OTHER -> [stage |-> s.stage, status |-> IF today >= due THEN "due" ELSE "upcoming", due |-> due]

(* The seed was due and nobody answered it until it decayed.               *)
Lapsed(k) ==
  LET s == Schedule(k)
  IN "due" \in DOMAIN s /\ today >= s.due + Lapse /\ \A a \in History(k) : a.day < s.due

(* All answers since it fell due failed.                                   *)
FailedRecheck(k) ==
  LET s     == Schedule(k)
      since == {a \in History(k) : a.day >= s.due}
  IN "due" \in DOMAIN s /\ since # {} /\ \A a \in since : ~a.passed

(* derive_seed_mastery: 1 attempted, 2 familiar, 3 proficient, 4 mastered; *)
(* a lapsed seed stays familiar, a failed one may fall to attempted.       *)
Mastery(k) ==
  LET base == Schedule(k).stage + 1
  IN CASE History(k) = {} -> 0
       [] FailedRecheck(k) -> base - 1
       [] OTHER -> IF base = 3 /\ Lapsed(k) THEN 2 ELSE base

-----------------------------------------------------------------------------
(* Faulty variant: a seed that lapsed is taken off the queue.              *)
DueInUnlapsed(u) == {i \in 1 .. Seeds : Schedule(<<u, i>>).status = "due" /\ ~Lapsed(<<u, i>>)}

(* The due seeds of a unit, in the order of their indexes.                 *)
DueIn(u) == {i \in 1 .. Seeds : Schedule(<<u, i>>).status = "due"}
DueSeeds(u) ==
  LET due == DueIn(u)
  IN [n \in 1 .. Cardinality(due) |->
        <<u, CHOOSE i \in due : Cardinality({j \in due : j < i}) = n - 1>>]

(* Faulty variant: the units one after the other.                          *)
TakeTurnSticky(s, u) ==
  IF s.left[u] = <<>> THEN [s EXCEPT !.turn = @ + 1]
  ELSE [turn |-> s.turn, left |-> [s.left EXCEPT ![u] = Tail(@)], out |-> Append(s.out, Head(s.left[u]))]

(* One turn of the round robin: the unit's first seed, if it has one left. *)
TakeTurn(s, u) ==
  IF s.left[u] = <<>> THEN [s EXCEPT !.turn = @ + 1]
  ELSE [turn |-> s.turn + 1,
        left |-> [s.left EXCEPT ![u] = Tail(@)], out |-> Append(s.out, Head(s.left[u]))]

(* GET /review-queue: units in turn until none has a due seed left.        *)
ReviewQueue ==
  LET seeds == [u \in 1 .. Units |-> DueSeeds(u)]
      due == {u \in 1 .. Units : seeds[u] # <<>>}
      after[n \in 0 .. Units * Seeds] ==
        IF n = 0 THEN [turn |-> 0, left |-> seeds, out |-> <<>>]
        ELSE LET s == after[n - 1]
             IN IF \A u \in 1 .. Units : s.left[u] = <<>> THEN s
                ELSE TakeTurn(s, CHOOSE u \in due :
                       Cardinality({v \in due : v < u}) = s.turn % Cardinality(due))
  IN after[Units * Seeds].out

(* GET /recheck-schedule: what it says of the seeds that were passed once. *)
DueCount == Cardinality({k \in Key : Schedule(k).status = "due"})

-----------------------------------------------------------------------------
(* The passes that are far enough apart, at most three of them.            *)
Chain(days, n) ==
  CASE n = 0 -> TRUE
    [] n = 1 -> days # {}
    [] n = 2 -> \E c, d \in days : d >= c + First
    [] n = 3 -> \E c, d, e \in days : d >= c + First /\ e >= d + Second

(* The greedy fold finds the longest chain of spaced passes: anchoring at   *)
(* the earliest pass that counts never costs the student a stage, in       *)
(* whatever order the answers became visible.                              *)
StageIsLongestChain ==
  \A k \in Key : LET stage == Schedule(k).stage
                 IN \A n \in 0 .. 3 : Chain(PassDays(k), n) <=> stage >= n

(* A seed whose mastery fell is in the review queue, where one passed      *)
(* answer restores it: no decay is final.                                  *)
DecayedIsReviewed ==
  \A k \in Key :
    LET mastery == Mastery(k)
    IN mastery # 0 /\ mastery <= Schedule(k).stage =>
         \E i \in DOMAIN ReviewQueue : ReviewQueue[i] = k

(* The queue has every due seed once, and no unit is asked again while     *)
(* another with seeds left was asked less often.                           *)
ReviewInterleaved ==
  LET Q   == ReviewQueue
      due == [u \in 1 .. Units |-> Len(DueSeeds(u))]
      Asked(u, n) == Cardinality({i \in 1 .. n : Q[i][1] = u})
  IN answers # {} =>
     /\ Len(Q) = DueCount /\ Cardinality({Q[i] : i \in DOMAIN Q}) = DueCount
     /\ \A n \in DOMAIN Q : \A u \in 1 .. Units :
          Asked(u, n) < due[u] => Asked(Q[n][1], n) <= Asked(u, n) + 1
=============================================================================

---------------------------- MODULE LessonExcerpt ----------------------------
(***************************************************************************)
(* practice/server.py: the part of a lesson a judge gets to see.  A lesson   *)
(* is a sequence of lines, of which the code tells four kinds apart; the    *)
(* ones that carry the unit's page structure are dropped, the rest is split *)
(* at its headings, and the sections that say most about the question are  *)
(* taken while they fit.  Widths are characters.                           *)
(***************************************************************************)
EXTENDS Integers, Sequences, FiniteSets

CONSTANTS
  MaxLines, Width,   \* lines of a lesson, characters of each
  MaxScore,          \* bounds the scores
  Budgets            \* values of KEEL_RETRIEVAL_EXCERPT_CHARS

ASSUME LessonAssumption ==
  /\ MaxLines \in Nat /\ Width \in Nat \ {0} /\ MaxScore \in Nat
  /\ Budgets \subseteq Nat \ {0} /\ IsFiniteSet(Budgets)

LineKind == {"heading", "text", "fence", "marker"}
Lesson   == UNION {[1 .. n -> LineKind] : n \in 0 .. MaxLines}

VARIABLES
  lesson,    \* the lines of a unit's lesson
  score,     \* of each section: 0 without a keyword of the question
  budget

excerptVars == <<lesson, score, budget>>

ExcerptInit == lesson = <<>> /\ score = <<>> /\ budget = 0

(* Line i is inside a code block: an odd number of fences before it.       *)
InFence(lines, i) == Cardinality({j \in 1 .. i - 1 : lines[j] = "fence"}) % 2 = 1

(* strip_script_markers: a marker quoted in a code block is a line of it.  *)
StripScriptMarkers(lines) ==
  LET keep[i \in 0 .. Len(lines)] ==
        IF i = 0 THEN <<>>
        ELSE IF lines[i] = "marker" /\ ~InFence(lines, i) THEN keep[i - 1]
        ELSE Append(keep[i - 1], lines[i])
  IN keep[Len(lines)]

(* Faulty variant: a comment in a code block is taken for a heading.       *)
OpensSectionAnywhere(lines, i) == lines[i] = "heading"

(* A heading line; a '#' in a code block is a comment.                     *)
OpensSection(lines, i) == lines[i] = "heading" /\ ~InFence(lines, i)

(* split_lesson_sections: first and last line of each section; what comes  *)
(* before the first heading is a section if it has lines.                  *)
SplitLessonSections(lines) ==
  LET starts == {i \in DOMAIN lines : i = 1 \/ OpensSection(lines, i)}
      last(i) == IF \E j \in starts : j > i
                   THEN (CHOOSE j \in starts : j > i /\ \A k \in starts : k > i => j <= k) - 1
                   ELSE Len(lines)
  IN [n \in 1 .. Cardinality(starts) |->
        LET i == CHOOSE i \in starts : Cardinality({j \in starts : j < i}) = n - 1
        IN <<i, last(i)>>]

(* _render_section                                                         *)
Rendered(section) == Width * (section[2] - section[1] + 1)

(* Higher scores come first and equal ones in document order; so does      *)
(* everything if nothing scores.  (A score is the rank of the pair of the   *)
(* keywords a section has and the hits on them.)                           *)
Before(i, j) == score[i] > score[j] \/ (score[i] = score[j] /\ i < j)

Ranked(sections) ==
  [n \in DOMAIN sections |->
     CHOOSE i \in DOMAIN sections :
       Cardinality({j \in DOMAIN sections : Before(j, i) /\ j # i}) = n - 1]

Cut == 6    \* the characters of the mark of a truncated section

(* The best section is taken whatever it costs, cut down to the budget; of  *)
(* the others those that still fit.  (White space before the cut is not    *)
(* dropped here.)                                                          *)
TakeSection(s, i, length) ==
  CASE s.chosen = {} ->
         [chosen |-> {i}, used |-> IF length > budget THEN (IF budget > Cut THEN budget ELSE Cut) ELSE length]
    [] s.chosen # {} /\ s.used + length + 2 <= budget ->
         [chosen |-> s.chosen \cup {i}, used |-> s.used + length + 2]
    [] OTHER -> s

(* select_lesson_excerpt: the chosen sections, and the excerpt's length.   *)
SelectLessonExcerpt(sections) ==
  LET after[n \in 0 .. Len(sections)] ==
        IF n = 0 THEN [chosen |-> {}, used |-> 0]
        ELSE TakeSection(after[n - 1], Ranked(sections)[n], Rendered(sections[Ranked(sections)[n]]))
  IN after[Len(sections)]

(* A question is asked about a lesson: the excerpt is taken if the lesson   *)
(* is longer than the budget.                                              *)
AskAbout(lines, scores, chars) ==
  /\ lesson = <<>> /\ lines # <<>>
  /\ Width * Len(StripScriptMarkers(lines)) > chars
  /\ lesson' = lines /\ score' = scores /\ budget' = chars

ExcerptNext ==
  lesson = <<>> /\ \E lines \in Lesson, chars \in Budgets :
    \E scores \in [DOMAIN SplitLessonSections(StripScriptMarkers(lines)) -> 0 .. MaxScore] :
      AskAbout(lines, scores, chars)

ExcerptSpec == ExcerptInit /\ [][ExcerptNext]_excerptVars

-----------------------------------------------------------------------------
(* No section begins inside a code block, and every line but the page's    *)
(* own markers is in exactly one section, so that only the best section,   *)
(* where it is longer than the budget, can show a part of a block; that    *)
(* section, the first of those with the highest score, is always shown;    *)
(* the excerpt keeps the budget, but for the mark of a cut; and nothing was *)
(* left out that would have fitted beside what was chosen.                 *)
ExcerptFits ==
  LET lines    == StripScriptMarkers(lesson)
      sections == SplitLessonSections(lines)
      excerpt  == SelectLessonExcerpt(sections)
  IN lesson # <<>> =>
     /\ \A n \in DOMAIN sections : ~InFence(lines, sections[n][1])
     /\ \A i \in DOMAIN lines : \E n \in DOMAIN sections :
          /\ sections[n][1] <= i /\ i <= sections[n][2]
          /\ \A m \in DOMAIN sections \ {n} : i < sections[m][1] \/ sections[m][2] < i
     /\ \E n \in excerpt.chosen : \A m \in DOMAIN sections : ~Before(m, n)
     /\ excerpt.used <= budget \/ excerpt.used = Cut
     /\ \A n \in DOMAIN sections \ excerpt.chosen :
          excerpt.used + Rendered(sections[n]) + 2 > budget
=============================================================================

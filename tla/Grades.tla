------------------------------- MODULE Grades -------------------------------
(***************************************************************************)
(* pkg/grade/grade.go: the letters a score out of a hundred is turned      *)
(* into, and which of two letters is the graver.  The integer divisions of *)
(* Go and its rounding are here for the scores that need them, and what    *)
(* all analyses say nil and the kinds of domains with.                     *)
(***************************************************************************)
EXTENDS Integers

CONSTANT None    \* nil, or a field that is not there

\* Domains are told apart by what they are to the domain of From: the same, one
\* of the same organization, or another.
Relation == {"same", "org", "other"}

\* Of values found at some places of a list, the topmost one, or None without any.
Topmost(places) == CHOOSE k \in places : \A j \in places : k <= j
Foremost(found) == IF DOMAIN found = {} THEN None ELSE found[Topmost(DOMAIN found)]

NotRun == ""     \* the grade of a category that did not run

Of(s) ==
  CASE s > 100        -> "A+"
    [] s \in 95..100  -> "A"
    [] s \in 85..94   -> "B"
    [] s \in 75..84   -> "C"
    [] s \in 65..74   -> "D"
    [] s \in 50..64   -> "E"
    [] OTHER          -> "F"

GradeRank(g) ==
  CASE g = "A++" -> 7 [] g = "A+" -> 6 [] g = "A" -> 5 [] g = "B" -> 4
    [] g = "C"   -> 3 [] g = "D"  -> 2 [] g = "E" -> 1 [] OTHER -> 0

MinGrade(g, h) == IF GradeRank(g) <= GradeRank(h) THEN g ELSE h

\* Go divides towards zero, and math.Round rounds halves away from it.
Quo(a, b) == IF a >= 0 THEN a \div b ELSE -((-a) \div b)
Round(a, b) == IF a >= 0 THEN (2 * a + b) \div (2 * b) ELSE -((-2 * a + b) \div (2 * b))

\* The distance of a letter from A, for the letters the report compares by it.
Letters == <<"A", "B", "C", "D", "E", "F", "G", "H", "I">>
LetterOf(distance) == Letters[distance + 1]
Distance(g) ==
  IF g \in {"A+", "A++"} THEN 0
  ELSE CHOOSE d \in 0..8 : LetterOf(d) = g
=============================================================================

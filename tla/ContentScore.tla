---------------------------- MODULE ContentScore ----------------------------
(***************************************************************************)
(* pkg/analyzer/content.go, CalculateContentScore: the points of the text, *)
(* the links and the pictures of a message, of which a body that was cut   *)
(* short leaves some open.                                                 *)
(***************************************************************************)
EXTENDS Grades, Sequences

\* consistent: TextPlainRatio is at least 0.3; ratio: ImageTextRatio.
Content ==
  [htmlValid : BOOLEAN, multipart : BOOLEAN, plaintext : BOOLEAN, truncated : BOOLEAN,
   consistent : BOOLEAN, ratio : {"low", "middle", "high"},
   links : Nat, broken : Nat, suspicious : Nat, harmful : Nat,
   images : Nat, undescribed : Nat]

Smaller(m, n) == IF m < n THEN m ELSE n
Larger(m, n) == IF m > n THEN m ELSE n

\* The criteria that can be judged of any body.
BodyPoints(c) ==
  10
    + (IF c.htmlValid \/ (~c.multipart /\ c.plaintext) THEN 10 ELSE 0)
    + (IF c.plaintext THEN 10 ELSE 0)
    + (IF c.links = 0 THEN 25
       ELSE (20 * (c.links - c.broken)) \div c.links - (IF c.links > 30 THEN 10 ELSE 0))
    + (IF c.images = 0 THEN 15 ELSE 15 - (15 * c.undescribed) \div Larger(c.images, 5))
    + (CASE c.ratio = "low" -> 15 [] c.ratio = "middle" -> 7 [] OTHER -> 0)

\* Without its last part the points of the others stand for the whole.
\* Mutant: the two bases are swapped.
BasesSwapped(c) ==
  IF c.truncated THEN (BodyPoints(c) * 85) \div 100
  ELSE BodyPoints(c) + (IF c.consistent THEN 15 ELSE 0)
Judged(c) ==
  IF c.truncated THEN (BodyPoints(c) * 100) \div 85
  ELSE BodyPoints(c) + (IF c.consistent THEN 15 ELSE 0)

CalculateContentScore(c) ==
  LET s == Judged(c) - Smaller(c.suspicious, 5) - Smaller(20 * c.harmful, 40) IN
    IF s < 0 THEN 0 ELSE IF s > 100 THEN 100 ELSE s
=============================================================================

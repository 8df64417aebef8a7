----------------------------- MODULE SpamFilters -----------------------------
(***************************************************************************)
(* pkg/analyzer/spamheaders.go, spamassassin.go and rspamd.go: which of    *)
(* two spam filters wrote which header, and what each of them says.  Both  *)
(* write X-Spam-Status, X-Spam-Score and X-Spam-Flag; only the value of    *)
(* the first may name its author.  Scores are in tenths of a point.        *)
(***************************************************************************)
EXTENDS Grades, Sequences, SequencesExt

Scanner == {"spamassassin", "rspamd"}
SharedName == {"status", "score", "flag"}
RspamdName == {"x-spam", "spamd-result", "rspamd-score", "rspamd-server"}
VerdictName == {"x-spam", "spamd-result", "rspamd-score"}

\* A header that is not blank.  A status names its author by the field its score
\* is in ("score=" or "rspamdscore="), or by the rules it ran.
SpamHeader ==
  [name     : SharedName \cup RspamdName,
   signer   : Scanner \cup {None},
   score    : Int \cup {None},
   required : Int \cup {None},         \* status, spamd-result: the threshold
   spam     : BOOLEAN \cup {None}]     \* status: Yes or No; flag; spamd-result: True

SpamAssassinResult == [score : Int, required : Int, isSpam : BOOLEAN]
RspamdResult == [score : Int, threshold : Int \cup {None}, isSpam : BOOLEAN]

ASSUME FilterAssumption ==
  None \notin Scanner \cup SpamHeader \cup SpamAssassinResult \cup RspamdResult

Named(hs, name) == {k \in DOMAIN hs : hs[k].name = name}
Signer(h) == IF h.name = "status" THEN h.signer ELSE None

\* Whom the shared headers belong to that name nobody: rspamd once it gave a
\* verdict of its own on the message.
ReportedVerdict(hs) ==
  \/ \E k \in DOMAIN hs : hs[k].name \in VerdictName
  \/ Named(hs, "status") # {} /\ Signer(hs[Topmost(Named(hs, "status"))]) = "rspamd"
Claimant(hs) == IF ReportedVerdict(hs) THEN "rspamd" ELSE "spamassassin"

\* Mutant: the claimant takes the signed ones too.
OwnerByClaim(h, hs) == IF h.name \in RspamdName THEN "rspamd" ELSE Claimant(hs)
Owner(h, hs) ==
  IF h.name \in RspamdName THEN "rspamd"
  ELSE IF Signer(h) # None THEN Signer(h) ELSE Claimant(hs)

\* The topmost header of that name the scanner is credited with.
Credited(hs, scanner, name) ==
  Foremost([k \in {i \in Named(hs, name) : Owner(hs[i], hs) = scanner} |-> hs[k]])

Score(h) == IF h = None THEN None ELSE h.score
Required(h) == IF h = None THEN None ELSE h.required
Spam(h) == IF h = None THEN None ELSE h.spam
OrElse(v, default) == IF v = None THEN default ELSE v

\* AnalyzeSpamAssassin: the status is believed first, the other two for what it
\* does not say.
AnalyzeSpamAssassin(hs) ==
  LET Own(name) == Credited(hs, "spamassassin", name) IN
  IF \A name \in SharedName : Own(name) = None THEN None
  ELSE [score    |-> OrElse(OrElse(Score(Own("status")), Score(Own("score"))), 0),
        required |-> OrElse(Required(Own("status")), 0),
        isSpam   |-> OrElse(OrElse(Spam(Own("status")), Spam(Own("flag"))), FALSE)]

\* A threshold that is not positive says nothing.
Positive(v) == IF v # None /\ v > 0 THEN v ELSE None
AddHeaderThreshold == 60
EffectiveThreshold(r) == OrElse(r.threshold, AddHeaderThreshold)

\* AnalyzeRspamd.  The status is read only for what the result did not say, and
\* what it says then replaces what was there.
OfRspamd(hs, name) == Credited(hs, "rspamd", name)
RspamdScore(hs) ==
  LET result == OfRspamd(hs, "spamd-result")
      status == IF Score(result) = None \/ Positive(Required(result)) = None
                  THEN OfRspamd(hs, "status") ELSE None
      others == OrElse(Score(status), OrElse(Score(result), Score(OfRspamd(hs, "score"))))
  IN  OrElse(Score(OfRspamd(hs, "rspamd-score")), others)
RspamdThreshold(hs) ==
  LET result == OfRspamd(hs, "spamd-result") IN
    IF Score(result) # None /\ Positive(Required(result)) # None
      THEN Positive(Required(result))
      ELSE OrElse(Positive(Required(OfRspamd(hs, "status"))), Positive(Required(result)))

RspamdFlag(hs) ==
  LET flag == OfRspamd(hs, "flag") IN
    OrElse(Spam(IF flag # None THEN flag ELSE OfRspamd(hs, "spamd-result")), FALSE)

AnalyzeRspamd(hs) ==
  LET score     == RspamdScore(hs)
      threshold == RspamdThreshold(hs)
  IN  IF \A name \in SharedName \cup {"spamd-result", "rspamd-score"} : OfRspamd(hs, name) = None
        THEN None
      ELSE [score     |-> OrElse(score, 0),
            threshold |-> threshold,
            isSpam    |-> IF score # None THEN score >= OrElse(threshold, AddHeaderThreshold)
                          ELSE RspamdFlag(hs)]

-----------------------------------------------------------------------------
CalculateSpamAssassinScore(r) ==
  LET left == 100 - Round(r.score * 100, 2 * r.required) IN
  CASE r = None                                   -> [score |-> 100, grade |-> NotRun]
    [] r # None /\ r.score < 0                    -> [score |-> 100, grade |-> "A+"]
    [] r # None /\ r.score = 0                    -> [score |-> 100, grade |-> "A"]
    [] r # None /\ r.score > 0 /\ r.score >= r.required -> [score |-> 0, grade |-> "F"]
    [] OTHER                                       -> [score |-> left, grade |-> Of(left - 5)]

CalculateRspamdScore(r) ==
  IF r = None THEN [score |-> 100, grade |-> NotRun]
  ELSE LET left == 100 - Round(r.score * 100, EffectiveThreshold(r)) IN
    IF left > 100 THEN [score |-> 100, grade |-> "A+"]
    ELSE IF left < 0 THEN [score |-> 0, grade |-> "F"]
    ELSE [score |-> left, grade |-> Of(left)]

\* The two halves of the category, or the one that ran.
SpamCategory(sa, rspamd) ==
  CASE sa.grade = NotRun /\ rspamd.grade = NotRun -> [score |-> 0, grade |-> NotRun]
    [] sa.grade = NotRun /\ rspamd.grade # NotRun -> rspamd
    [] sa.grade # NotRun /\ rspamd.grade = NotRun -> sa
    [] OTHER -> [score |-> (sa.score + rspamd.score) \div 2,
                 grade |-> MinGrade(sa.grade, rspamd.grade)]
=============================================================================

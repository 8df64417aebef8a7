------------------------------ MODULE ReportView ------------------------------
(***************************************************************************)
(* What the page of a report makes of it: the card of the scores, the      *)
(* sentence of the summary, the authentication card, the path and the      *)
(* cards of the spam filters.  Nothing here has a state of its own: these  *)
(* are functions of a report, and the report is the one MessageReport has  *)
(* just finished.                                                          *)
(***************************************************************************)
EXTENDS MessageReport

NA == "N/A"

ASSUME ViewAssumption ==
  /\ None \notin Results
  /\ None \notin [spamassassin : SpamAssassinResult \cup {None}, rspamd : RspamdResult \cup {None}]

-----------------------------------------------------------------------------
(* lib/authentication.ts, spam.ts and blacklist.ts: which data a report    *)
(* lacks.  None stands for a component that was not given any.             *)

ReportedMechanisms(r) ==
  <<r.spf # None \/ r.spfHelo # None, r.dkim # << >>, r.first["dmarc"] # None>>
HasNoAuthenticationResults(r) == r = None \/ TRUE \notin Range(ReportedMechanisms(r))
HasPartialAuthenticationResults(r) == r # None /\ Range(ReportedMechanisms(r)) = BOOLEAN
HasNoSpamResults(filters) == filters = None \/ filters = [spamassassin |-> None, rspamd |-> None]
HasNoBlacklistResults(addresses) == addresses = None \/ addresses = 0

-----------------------------------------------------------------------------
(* ScoreCard and the header of AuthenticationCard.                         *)

Unavailable(props) ==
  {c \in {"authentication", "spam", "blacklist"} :
     CASE c = "authentication" -> HasNoAuthenticationResults(props.authentication)
       [] c = "spam"           -> HasNoSpamResults(props.spamFilters)
       [] c = "blacklist"      -> HasNoBlacklistResults(props.blacklists)}
ScoreLink(c, props) == IF c \in Unavailable(props) THEN NA ELSE categories[c].grade

\* The page hands over grades and scores to both cards, to one the verdicts, too,
\* and none of these to either.
PageProps == [authentication |-> None, spamFilters |-> None, blacklists |-> None,
              source |-> None, authservId |-> None]

Filters == [spamassassin |-> AnalyzeSpamAssassin(message.spam),
            rspamd       |-> AnalyzeRspamd(message.spam)]
ReportProps == [authentication |-> results, spamFilters |-> Filters, blacklists |-> ips,
                source |-> message.source, authservId |-> authority]

AuthenticationGrade(r) == IF HasNoAuthenticationResults(r) THEN NA
                          ELSE categories["authentication"].grade

\* Who is told to be the reason that verdicts are missing.
AuthenticationBanner(r, source, authservId) ==
  LET uploaded == source = "uploaded" IN
  CASE HasNoAuthenticationResults(r) -> IF uploaded THEN "file" ELSE "administrator"
    [] HasPartialAuthenticationResults(r) ->
         CASE uploaded /\ authservId # None -> "named" [] uploaded /\ authservId = None -> "provider"
           [] OTHER -> "instance"
    [] OTHER -> IF uploaded /\ authservId # None THEN "named" ELSE "none"

-----------------------------------------------------------------------------
(* The rows of AuthenticationCard.                                         *)

\* Mutant: a soft failure passes.
AuthResultClassLenient(result, noneIsFail) ==
  CASE result \in {"pass", "softfail"} -> "success"
    [] result \in {"permerror", "error", "fail", "missing"} -> "danger"
    [] result = "none" /\ noneIsFail -> "danger"
    [] OTHER -> "muted"
AuthResultClass(result, noneIsFail) ==
  CASE result \in {"pass", "domain_pass", "orgdomain_pass"}              -> "success"
    [] result \in {"permerror", "error", "fail", "missing", "invalid",
                   "null", "null_smtp", "null_header"}                   -> "danger"
    [] result \in {"softfail", "neutral"}                                -> "warning"
    [] result = "declined"                                               -> "info"
    [] result = "none" /\ noneIsFail                                     -> "danger"
    [] OTHER                                                             -> "muted"

SpfRow(r) ==
  CASE r.spf # None                      -> AuthResultClass(r.spf.result, TRUE)
    [] r.spf = None /\ r.spfHelo # None  -> AuthResultClass("none", FALSE)
    [] OTHER                             -> AuthResultClass("missing", TRUE)
SpfHeloRows(r) == IF r.spfHelo = None THEN {} ELSE {AuthResultClass(r.spfHelo.result, TRUE)}
DkimRows(r) ==
  IF r.dkim = << >> THEN {AuthResultClass("missing", TRUE)}
  ELSE {AuthResultClass(r.dkim[k].result, TRUE) : k \in DOMAIN r.dkim}
DmarcRow(r) ==
  AuthResultClass(IF r.first["dmarc"] = None THEN "missing" ELSE r.first["dmarc"], TRUE)
BimiRow(r) ==
  LET bimi == r.first["bimi"] IN
  CASE bimi = None   -> "muted"
    [] bimi = "none" -> "warning"
    [] OTHER         -> AuthResultClass(bimi, FALSE)
OptionalRows(r) ==
  {AuthResultClass(r.first[m], m \in {"iprev", "x-ptr", "x-tls"}) :
     m \in {o \in {"iprev", "x-ptr", "x-tls", "x-google-dkim", "x-aligned-from", "arc"} :
              r.first[o] # None}}
MainRows(r) == {SpfRow(r), DmarcRow(r), BimiRow(r)} \cup DkimRows(r)

-----------------------------------------------------------------------------
(* HeaderAnalysisCard: one line for the return path and one per signature,   *)
(* compared with From once more, under the verdict of the analyzer.          *)

AlignmentIcon(h, dkim) ==
  CASE Aligned(h, dkim)                             -> "success"
    [] ~Aligned(h, dkim) /\ RelaxedAligned(h, dkim) -> "info"
    [] OTHER                                        -> "danger"
AlignmentLines(h, dkim, accepted) ==
  {h.returnPath \in accepted} \cup {(d \in accepted) : d \in dkim}

-----------------------------------------------------------------------------
(* EmailPathCard, and the hops of the summary.                             *)

Internal(chain, i) == i < inbound
\* Mutant: only what the TLS clause of the field says.
TLSBadgeWithoutKeyword(hop) ==
  CASE hop.tls -> "pass" [] ~hop.tls /\ hop.with # None -> "none" [] OTHER -> None
TLSBadge(hop) ==
  CASE hop.tls \/ hop.with \in {"ESMTPS", "LMTPS"} -> "pass"
    [] ~hop.tls /\ hop.with \in {"ESMTP", "LMTP"}  -> "none"
    [] OTHER                                       -> None

EntryIndex(chain) == IF inbound = 0 THEN 1 ELSE inbound
\* How many hops the sentence says the message went through after the first.
HopCount(chain) == Len(chain) - EntryIndex(chain)

-----------------------------------------------------------------------------
(* RspamdCard.  Scores are in tenths.                                      *)

Reject == 150
\* Mutant: every instance rejects where rspamd does by default.
EffectiveActionOfDefault(r) ==
  CASE r.score >= Reject                  -> "Reject"
    [] r.score < Reject /\ r.score >= 60  -> "Add header"
    [] r.score < 60 /\ r.score >= 40      -> "Greylist"
    [] OTHER                              -> "No action"
EffectiveAction(r) ==
  LET rejects == OrElse(r.threshold, Reject) IN
  CASE r.score >= rejects                                  -> "Reject"
    [] r.score < rejects /\ r.score >= 60                  -> "Add header"
    [] r.score < rejects /\ r.score < 60 /\ r.score >= 40  -> "Greylist"
    [] OTHER                                               -> "No action"

-----------------------------------------------------------------------------
(* Clauses of buildSummary.                                                *)

SignatureClause(r) ==
  CASE r.dkim = << >> -> "unchecked"
    [] \E k \in DOMAIN r.dkim : r.dkim[k].result = "pass" -> "valid"
    [] OTHER -> "invalid"

StatusClause(r) ==
  LET spf == IF r.spf = None THEN None ELSE r.spf.result IN
  CASE HasNoAuthenticationResults(r)                            -> "unknown"
    [] ~HasNoAuthenticationResults(r) /\ "pass" \in {spf, r.first["dmarc"]} -> "authenticated"
    [] OTHER -> IF spf \in {None, "none"} THEN "lacking" ELSE "failed"

\* Mutant: the score of the content comes first.
SpamClauseContentFirst(assassin, contentScore, spamScore, spamUnavailable) ==
  CASE contentScore >= 100 -> "great"
    [] contentScore < 50   -> "improve"
    [] contentScore \in 50..99 /\ assassin -> "spam"
    [] OTHER -> IF contentScore >= 80 THEN "good" ELSE "review"
SpamClause(assassin, contentScore, spamScore, spamUnavailable) ==
  LET great == contentScore >= 100 /\ (spamUnavailable \/ spamScore >= 100)
      Else(low) == IF low THEN "low" ELSE IF ~spamUnavailable /\ spamScore < 90 THEN "attention"
                   ELSE IF contentScore >= 80 THEN "good" ELSE "review"
  IN
  CASE assassin                                          -> "spam"
    [] ~assassin /\ contentScore < 50                    -> "improve"
    [] ~assassin /\ contentScore >= 50 /\ great          -> "great"
    [] OTHER -> Else(~spamUnavailable /\ spamScore < 50)

ReportSpamClause ==
  LET assassin == Filters.spamassassin IN
  SpamClause(assassin # None /\ assassin.isSpam, categories["content"].score,
             categories["spam"].score, HasNoSpamResults(Filters))

ClosingClause(grade) ==
  CASE grade \in {"A", "A+"} -> "well done" [] grade \in {"C", "D"} -> "try to increase"
    [] grade = "E" -> "could have issues"   [] grade = "F" -> "rejected" [] OTHER -> "!"

-----------------------------------------------------------------------------
(* Properties.                                                             *)

\* AuthenticationCard.svelte:33-60 against authentication.go:183-231: a row of one
\* of the four methods is green exactly when the method has all of its points,
\* and when nothing on the card is anything but green, nothing is missing from
\* the score above it.  HeaderAnalysisCard.svelte:66-270 against
\* headers.go:386-530: where there are domains to compare, the sign above the
\* lines is green exactly when a line passes strictly, and red when none passes.
GreenMeansFullPoints ==
  /\ (SpfRow(results) = "success") = (CalculateSPFScore(results) = 100)
  /\ (DkimRows(results) = {"success"}) = (CalculateDKIMScore(results) = 100)
  /\ (DmarcRow(results) = "success") = (CalculateDMARCScore(results) = 100)
  /\ (BimiRow(results) = "success") = (CalculateBIMIScore(results) = 100)
  /\ MainRows(results) \cup OptionalRows(results) \cup SpfHeloRows(results) = {"success"} =>
       CalculateAuthenticationScore(results) = 100
  /\ Reported /\ message.headers.from \in {"plain", "noreply"}
       /\ (message.headers.returnPath # None \/ DkimDomains # {}) =>
       LET Passes(accepted) == TRUE \in AlignmentLines(message.headers, DkimDomains, accepted)
           icon == AlignmentIcon(message.headers, DkimDomains)
       IN  (icon = "success") = Passes({"same"}) /\ (icon # "danger") = Passes({"same", "org"})

\* EmailPathCard.svelte:15-21 mirrors the backend: when no field said how the
\* connection was encrypted, the badge of the hop a received message entered by
\* is the verdict the authentication card shows, and the summary counts the hops
\* the card does not mark as the recipient's own.
PathAgrees ==
  (Reported /\ message.chain # << >>) =>
    LET chain == message.chain
        said == \E k \in DOMAIN fields : Trusted(fields[k]) /\ FirstResult(fields[k], "x-tls") # None
    IN  /\ ~said /\ message.source = "received" =>
             results.first["x-tls"] = TLSBadge(chain[EntryIndex(chain)])
        /\ HopCount(chain) + 1 = Cardinality({i \in DOMAIN chain : ~Internal(chain, i)})

\* RspamdCard.svelte:20-32 next to rspamd.go:120-145: of a score that was
\* reported, the verdict and the action shown beside each other are the same,
\* whatever threshold the instance has.
ActionIsOfTheVerdict ==
  job # None =>
    LET r == AnalyzeRspamd(message.spam) IN
      r # None /\ RspamdScore(message.spam) # None =>
        r.isSpam = (EffectiveAction(r) \in IF r.threshold = None THEN {"Add header", "Reject"}
                                           ELSE {"Reject"})

\* SummaryCard.svelte: the clauses are chosen one by one, the letter at the end is
\* the report's.  "Well done" is never said after a clause that found fault with
\* the verdicts, or with the content by its score (a header may flag a message as
\* spam and give it no score, or one below a hundredth of the threshold), and no
\* content is praised that one of the two filters scored as spam, although the
\* sentence looks at the verdict of one only.
PraiseIsEarned ==
  Reported =>
    LET r == Filters.rspamd IN
    /\ ClosingClause(answer.grade) = "well done" =>
         /\ StatusClause(results) = "authenticated"
         /\ SignatureClause(results) = "valid"
         /\ ReportSpamClause \notin {"low", "improve"}
         /\ ReportSpamClause = "spam" =>
              LET a == Filters.spamassassin IN a.score <= 0 \/ 100 * a.score < a.required
    /\ ReportSpamClause \in {"great", "good"} =>
         /\ Filters.spamassassin # None => ~Filters.spamassassin.isSpam
         /\ r # None => ~(r.isSpam /\ r.score > 0)

\* lib/authentication.ts:43-45: "The backend scores it accordingly, so hiding the
\* grade here would contradict it."  The cards say of a report what it says: a
\* grade is hidden only where the report has nothing to grade, and missing
\* verdicts are put down to whoever should have given them.
CardsKnowTheReport ==
  Reported =>
    /\ \A c \in Category : ScoreLink(c, PageProps) = ScoreLink(c, ReportProps)
    /\ ScoreLink("authentication", PageProps) = AuthenticationGrade(results)
    /\ AuthenticationBanner(results, PageProps.source, PageProps.authservId)
         = AuthenticationBanner(results, message.source, authority)
===============================================================================

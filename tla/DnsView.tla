------------------------------- MODULE DnsView -------------------------------
(***************************************************************************)
(* What the page of a domain makes of its DNS records: the headers, badges *)
(* and advice of the cards for SPF, DMARC and BIMI.  They judge again, in  *)
(* the browser, what the analyzer scored: functions of the records         *)
(* DnsAnalysis has collected.                                              *)
(***************************************************************************)
EXTENDS DnsAnalysis

-----------------------------------------------------------------------------
(* SpfRecordsDisplay.svelte                                                *)

SpfIsValid(rs) == \A k \in DOMAIN rs : Valid(rs[k])

\* A card, or a line of it, that is not drawn.
NotDrawn == "not drawn"

\* The policy of the first record without " redirect=", undefined without one.
\* Mutant: the first record of the list.
FirstPolicy(rs) == IF rs = << >> THEN None ELSE rs[1].all
ShownPolicy(rs) ==
  LET kept == {k \in DOMAIN rs : ~rs[k].redirect} IN
  IF kept = {} THEN None ELSE rs[CHOOSE k \in kept : \A j \in kept : k <= j].all
SpfCanBeImprove(rs, dmarcStrict) == rs # << >> /\ ShownPolicy(rs) # "-" /\ ~dmarcStrict

SpfIcon(rs, dmarcStrict) ==
  CASE rs = << >> -> NotDrawn
    [] rs # << >> /\ ~SpfIsValid(rs) -> "danger"
    [] OTHER -> IF SpfCanBeImprove(rs, dmarcStrict) THEN "improve" ELSE "success"

\* The sentence under "All Mechanism Policy", for the record looked up and for one
\* it redirects to.
Advised(rs, k) == rs[k].all # None /\ (k = 1 \/ (k = 2 /\ rs[1].redirect))
SpfAdvice(rs, k, dmarcStrict) ==
  LET all == rs[k].all IN
  CASE ~Advised(rs, k)                               -> NotDrawn
    [] Advised(rs, k) /\ all = "-"                   -> "recommended"
    [] Advised(rs, k) /\ all # "-" /\ dmarcStrict    -> "consider -all"
    [] OTHER -> CASE all = "~" -> "softfail" [] all = "+" -> "allows all" [] OTHER -> "says nothing"

-----------------------------------------------------------------------------
(* DmarcRecordDisplay.svelte                                               *)

\* Mutant: quarantine counts for nothing.
PolicyStrengthOfReject(policy) == IF policy = "reject" THEN 2 ELSE 0
PolicyStrength(policy) ==
  CASE policy = "reject" -> 2 [] policy = "quarantine" -> 1 [] OTHER -> 0

DmarcIcon(r) ==
  CASE ~r.found -> NotDrawn
    [] r.found /\ ~r.valid -> "danger"
    [] OTHER -> IF r.policy = "none" THEN "improve" ELSE "success"

\* As what the policy is applied while t=y.
AppliedInTest(r) ==
  CASE r.policy = "reject" -> "quarantine" [] r.policy = "quarantine" -> "none" [] OTHER -> "none"

SubdomainAdvice(r) ==
  CASE r.sp = Absent -> "good default"
    [] r.sp # Absent /\ PolicyStrength(r.sp) >= PolicyStrength(r.policy) -> "good configuration"
    [] OTHER -> "weaker"

NonexistentAdvice(r) ==
  LET parent == IF r.sp = Absent THEN r.policy ELSE r.sp IN
  CASE r.np = Absent -> NotDrawn
    [] r.np # Absent /\ PolicyStrength(r.np) >= PolicyStrength(parent) -> "good configuration"
    [] OTHER -> "weaker"

PercentageAdvice(r) ==
  CASE r.pct = Absent \/ r.pct = 100 -> "full"
    [] r.pct \in 50..99              -> "partial"
    [] r.pct \in 1..49               -> "low"
    [] OTHER                         -> "anti-pattern"

\* "No DMARC record exists for ...": the record was found at another name.
IsFallback(k) == k # labels
IsPsdFallback(k) == IsFallback(k) /\ k = 1

-----------------------------------------------------------------------------
(* BimiRecordDisplay.svelte                                                *)

Headline(r) ==
  CASE ~RecordValid(r) \/ ~r.valid -> "fail"
    [] OTHER -> IF \E n \in CheckName : r.checks[n] = "warning" THEN "warning" ELSE "pass"

\* Was there a record to show, whatever its kind?
Shown(r) == r.answer \notin {"none", "failed"}
InheritedFrom(r) == Shown(r) /\ r.place # "domain"
DerivedFromLocalPart(r) == r.selector # "requested"

\* "This logo will not be displayed", whatever the record and the logo are worth.
DmarcBlockers(r) == r.checks["dmarc_enforcement"] = "fail"

\* "Explicitly decline BIMI participation"; policy: p= of the DMARC record.
Declination(r, policy) == ~Shown(r) /\ policy \in {"quarantine", "reject"}

-----------------------------------------------------------------------------
(* Properties.                                                             *)

\* SpfRecordsDisplay.svelte:20-25 looks for the record that decides in its own way
\* and calculateSPFScore (dns_spf.go:441-504) in another, over a list that is in
\* the order of the traversal: the header offers an improvement exactly where a
\* domain whose records are all valid left points, unless DMARC makes up for
\* them (and unless all of them redirect, when the score takes the last one and
\* the header none), never finds fault with a full score, and the sentence that praises a
\* policy is about the record whose policy was scored.
SpfCardAgrees ==
  request = "domain" /\ stage = "done" =>
    LET r      == CheckDMARCRecord
        strict == DmarcStrict(r)
        icon   == SpfIcon(records, strict)
        points == CalculateSPFScore(records, strict)
        kept   == \E k \in DOMAIN records : ~records[k].redirect
    IN  /\ SpfIsValid(records) /\ ~strict /\ kept => ((icon = "improve") = (points < 100))
        /\ SpfIsValid(records) /\ strict => icon = "success" /\ points >= 50
        /\ \A k \in DOMAIN records :
             SpfAdvice(records, k, strict) = "recommended" /\ Valid(records[k]) /\ ~records[k].redirect
               => points = 100

\* DmarcRecordDisplay.svelte:10-20, 170-258 beside dns_dmarc.go:153-315: the card
\* praises the policies for subdomains exactly when the score adds points for
\* them (test mode aside, where the score compares with the policy it lowers to,
\* and the card with the one published), speaks of full enforcement exactly when
\* pct= takes nothing from the score, names the policy that is applied, and
\* what it says of where the record came from is what the tree walk saw: nothing
\* at the domain itself, and a public suffix only where the record declares one.
DmarcCardAgrees ==
  stage = "done" /\ walk = "found" =>
    LET r   == CheckDMARCRecord
        sub == IF r.sp = Absent THEN r.policy ELSE r.sp
    IN  /\ ~r.test =>
             /\ (SubdomainAdvice(r) = "weaker") = (InheritScore(r.sp, r.policy) < 0)
             /\ (NonexistentAdvice(r) = "weaker") = (InheritScore(r.np, sub) < 0)
        /\ r.test /\ r.policy # "unknown" => AppliedInTest(r) = Downgraded(r.policy)
        /\ r.valid =>
             LET points == CalculateDMARCScore(r)
                 whole  == CalculateDMARCScore([r EXCEPT !.pct = Absent])
             IN  whole > 0 => (PercentageAdvice(r) = "full") = (points = whole)
        /\ IsFallback(Current) => published[labels] = Absent
        /\ IsPsdFallback(Current) => published[Current].psd = "y"
        /\ DmarcIcon(r) = "danger" => CalculateDMARCScore(r) = 20

\* BimiRecordDisplay.svelte:38-81, 246-300, 513-530 beside pkg/bimi: the headline, the
\* banners and the advice, each read off another field of the record, tell one
\* story and the right one.  The record is the one that governs the sender
\* (RecordIsGoverning); no headline but a failure where DMARC blocks the logo, and
\* that banner on every usable record it blocks; green only for a logo a
\* certificate vouches for, or for a declination; "inherited" only where the
\* domain was found to publish nothing; "sent on" only by a record that says so;
\* and no advice to decline where something was found to be published.
BimiCardAgrees ==
  stage = "done" /\ lookup = "done" =>
    LET r == CheckDMARCRecord IN
    /\ RecordIsGoverning
    /\ Headline(bimi) # "fail" => Enforced(r) /\ Usable(Governing, "requested")
    /\ DmarcBlockers(bimi) = (RecordValid(bimi) /\ ~Enforced(r))
    /\ Headline(bimi) = "pass" => bimi.tags.a = bimi.tags.l
    /\ InheritedFrom(bimi) => RecordsAt("domain", "requested") = << >>
    /\ DerivedFromLocalPart(bimi) => RecordsAt(Governing, "requested")[1].lps \in {"every", "listed"}
    /\ r.valid /\ Declination(bimi, r.policy) /\ bimi.answer = "none" =>
         Holding({"domain"} \cup IF bimiDNS.org THEN {"organization"} ELSE {}) = {}
=============================================================================

----------------------------- MODULE DnsAnalysis -----------------------------
(***************************************************************************)
(* The DNS checks without a message, pkg/analyzer/dns.go.                  *)
(* AnalyzeDomainOnly looks up MX, SPF, the addresses bounces go to, DMARC  *)
(* and BIMI, one after the other, and CalculateDomainOnlyScore grades what *)
(* was found.  AnalyzeBIMIOnly looks up DMARC and BIMI only, for a sender. *)
(* The BIMI verdict rests on the DMARC record found before it              *)
(* (pkg/bimi/dmarc.go).                                                    *)
(***************************************************************************)
EXTENDS SpfResolver, DmarcDiscovery, BimiDiscovery

CONSTANTS
  Main,       \* the domain in question
  Scenarios   \* requests, and what the DNS holds: [request : Request, spf : a zone,
              \* dmarc : a domain's labels and records, bimi : a publication]

Request == {"domain", "bimi"}

ASSUME ScenarioAssumption ==
  /\ Main \in Domains
  /\ \A s \in Scenarios :
       /\ s.request \in Request
       /\ s.spf \in [Domains -> Answer]
       /\ s.dmarc.labels \in 1..MaxLabels
       /\ s.dmarc.published \in [1..s.dmarc.labels -> Tags \cup {Absent}]
       /\ s.bimi \in Publication
       /\ s.request = "domain" => s.bimi.sender = "none"

VARIABLES
  request,    \* which of the two analyses this is
  stage,      \* the check under way
  mx,         \* did the MX lookup find a record?
  returnOK,   \* ReturnOk.From.Status
  score, grade

own  == <<request, stage, mx, returnOK, score, grade>>
vars == <<spfVars, dmarcVars, bimiVars, own>>

Grade == {"A+", "A", "B", "C", "D", "E", "F"}

TypeOK ==
  /\ SpfTypeOK /\ DmarcTypeOK /\ BimiTypeOK
  /\ request \in Request
  /\ stage \in {"mx", "spf", "returnOK", "dmarc", "bimi", "score", "done"}
  /\ mx \in BOOLEAN
  /\ returnOK \in {None, "pass", "warn", "fail"}
  /\ score \in 0..100
  /\ grade \in Grade \cup {None}

Init ==
  /\ \E s \in Scenarios :
       /\ request = s.request
       /\ SpfInit(Main, {s.spf}) /\ DmarcInit({s.dmarc}) /\ BimiInit({s.bimi})
  /\ stage = IF request = "bimi" THEN "dmarc" ELSE "mx"
  /\ mx = FALSE /\ returnOK = None
  /\ score = 0 /\ grade = None

CheckMXRecords ==
  /\ stage = "mx"
  /\ mx' \in BOOLEAN
  /\ stage' = "spf"
  /\ UNCHANGED <<spfVars, dmarcVars, bimiVars, request, returnOK, score, grade>>

CheckSPFRecords ==
  /\ stage = "spf"
  /\ ResolveSPFRecords
  /\ stage' = IF pending' = << >> THEN "returnOK" ELSE "spf"
  /\ UNCHANGED <<dmarcVars, bimiVars, request, mx, returnOK, score, grade>>

\* It asks for the MX records once more, and for addresses when there are none.
CheckReturnOK ==
  /\ stage = "returnOK"
  /\ returnOK' \in {"pass", "warn", "fail"}
  /\ stage' = "dmarc"
  /\ UNCHANGED <<spfVars, dmarcVars, bimiVars, request, mx, score, grade>>

CheckDMARC ==
  /\ stage = "dmarc"
  /\ WalkDNS
  /\ stage' = IF walk' = "walking" THEN "dmarc" ELSE "bimi"
  /\ UNCHANGED <<spfVars, bimiVars, request, mx, returnOK, score, grade>>

\* CheckDMARCEnforcement: a record found above the domain governs it with sp=.
Applicable(r) == IF Current # labels /\ r.sp # Absent THEN r.sp ELSE r.policy
Enforced(r) ==
  /\ r.valid
  /\ ~r.test
  /\ \/ Applicable(r) = "reject"
     \/ Applicable(r) = "quarantine" /\ r.pct \in {Absent, 100}

CheckDMARCEnforcement(r) ==
  CASE ~Enforced(r) -> "fail"
    [] OTHER -> IF \/ Current = labels /\ r.sp = "none"
                   \/ Applicable(r) = "reject" /\ r.pct \notin {Absent, 100}
                THEN "warning" ELSE "pass"

CheckBIMIRecord ==
  /\ stage = "bimi"
  /\ CheckBIMI(CheckDMARCEnforcement(CheckDMARCRecord))
  /\ stage' = CASE lookup' # "done" -> "bimi"
                [] lookup' = "done" /\ request = "domain" -> "score"
                [] OTHER -> "done"
  /\ UNCHANGED <<spfVars, dmarcVars, request, mx, returnOK, score, grade>>

Kind(s) ==
  CASE s > 100      -> "A+"
    [] s \in 90..100 -> "A"
    [] s \in 80..89  -> "B"
    [] s \in 60..79  -> "C"
    [] s \in 45..59  -> "D"
    [] s \in 30..44  -> "E"
    [] OTHER        -> "F"

DmarcStrict(r) == r.valid /\ r.policy \in {"quarantine", "reject"}

CalculateReturnOKPenalty(status) == IF status = "fail" THEN 0 - 10 ELSE 0

Weighted(m, rs, r, status) ==
  (IF m THEN 30 ELSE 0)
    + (30 * CalculateSPFScore(rs, DmarcStrict(r))) \div 100
    + (40 * CalculateDMARCScore(r)) \div 100
    + CalculateReturnOKPenalty(status)

Clipped(s) == IF s > 100 THEN 100 ELSE IF s < 0 THEN 0 ELSE s

CalculateDomainOnlyScore ==
  /\ stage = "score"
  /\ LET s == Weighted(mx, records, CheckDMARCRecord, returnOK) IN
       /\ score' = Clipped(s)
       /\ grade' = IF bimi.valid /\ s >= 100 THEN "A+" ELSE Kind(Clipped(s))
  /\ stage' = "done"
  /\ UNCHANGED <<spfVars, dmarcVars, bimiVars, request, mx, returnOK>>

Next ==
  \/ CheckMXRecords \/ CheckSPFRecords \/ CheckReturnOK \/ CheckDMARC
  \/ CheckBIMIRecord \/ CalculateDomainOnlyScore

Spec == Init /\ [][Next]_vars

\* Every lookup has a deadline of its own, after which it fails.
FairSpec == Spec /\ WF_vars(Next)

-----------------------------------------------------------------------------
\* analyze.go:65-168 with dmarc.go: a record is valid at the end only where DMARC is
\* enforced for the domain asked about, wherever either record was found, and its
\* files are there.
ValidMeansEnforced ==
  stage \in {"score", "done"} /\ bimi.valid =>
    Enforced(CheckDMARCRecord) /\ RecordValid(bimi) /\ (bimi.tags.l \/ ~bimi.tags.a)

\* The analysis of any zone, circular and too deep ones included, ends.
AnalysisEnds == <>(stage = "done")

\* dns.go:246-286: the full score is out of reach unless every check contributes,
\* although a DMARC record may be worth more than its share: mail can be sent
\* back, the policy that SPF ends in is valid and asks receivers to refuse other
\* senders, and DMARC rejects.
FullScoreNeedsEveryCheck ==
  score = 100 =>
    /\ mx
    /\ Valid(records[MainIndex(records)])
    /\ records[MainIndex(records)].all \in {"-", "~"}
    /\ CheckDMARCRecord.valid
    /\ CheckDMARCRecord.policy = "reject" /\ ~CheckDMARCRecord.test

\* dns_dmarc.go:236-315 with dns_spf.go:466-497: tags may cost points and the
\* strictness of DMARC changes what SPF is worth, but publishing a DMARC record
\* never leaves a domain with a lower score than publishing none.
PublishingDMARCNeverCosts ==
  stage = "done" /\ walk = "found" =>
    Weighted(mx, records, CheckDMARCRecord, returnOK) >= Weighted(mx, records, NoPolicy, returnOK)

=============================================================================
